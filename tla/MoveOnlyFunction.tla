-------------------------- MODULE MoveOnlyFunction --------------------------
(***************************************************************************)
(* MoveOnlyFunction and its SboStorage (common/move_only_function.h): a    *)
(* function object that keeps a small callable in a buffer of its own and  *)
(* a larger one on the heap.  Destroying a callable, and calling it, runs  *)
(* code of the program, which may use other function objects meanwhile:    *)
(* call_stack holds the operations that wait for such code to return.      *)
(***************************************************************************)
EXTENDS Integers, Sequences, FiniteSets

CONSTANTS
    Funcs,          \* function objects
    Callables,
    SmallCallables, \* those that fit into the buffer
    Null,           \* a null pointer, or an empty buffer
    Buf,            \* a pointer into the object's own buffer
    Reentrant,      \* may a callable use the function object that calls or destroys it
    MaxNesting      \* bound on the depth of the stack

ASSUME FunctionAssumption ==
    /\ SmallCallables \subseteq Callables
    /\ {Null, Buf} \cap Callables = {} /\ Null # Buf
    /\ Reentrant \in BOOLEAN /\ MaxNesting \in Nat

VARIABLES
    constructed,    \* function objects that live
    m_ptr,          \* Null, Buf, or a callable on the heap
    m_buf,          \* the callable in each buffer
    heap,           \* callables allocated on the heap
    used,           \* callables that were given to a function object
    destroyed,      \* number of times each callable was destroyed
    call_stack,     \* operations in progress, the innermost one last
    expected        \* ghost: the callable each function object should hold

functionVars == <<constructed, m_ptr, m_buf, heap, used, destroyed, call_stack, expected>>

FunctionInit ==
    /\ constructed = {}
    /\ m_ptr = [f \in Funcs |-> Null]
    /\ m_buf = [f \in Funcs |-> Null]
    /\ heap = {}
    /\ used = {}
    /\ destroyed = [c \in Callables |-> 0]
    /\ call_stack = <<>>
    /\ expected = [f \in Funcs |-> Null]

Held(f) == IF m_ptr[f] = Buf THEN m_buf[f] ELSE m_ptr[f]

\* The code that runs may use the function objects F.
MayUse(F) == Reentrant \/ \A i \in DOMAIN call_stack : {call_stack[i].f, call_stack[i].g} \cap F = {}

MayNest == Len(call_stack) < MaxNesting

Push(op, f, g) == call_stack' = Append(call_stack, [op |-> op, f |-> f, g |-> g, callable |-> Held(f)])

\* The default constructor, and the one that takes a callable: SboStorage::make.
ConstructEmpty(f) ==
    /\ f \notin constructed
    /\ constructed' = constructed \cup {f}
    /\ UNCHANGED <<m_ptr, m_buf, heap, used, destroyed, call_stack, expected>>

make(f, c) ==
    /\ f \notin constructed /\ c \notin used
    /\ constructed' = constructed \cup {f}
    /\ used' = used \cup {c}
    /\ \/ /\ c \in SmallCallables
          /\ m_ptr' = [m_ptr EXCEPT ![f] = Buf]
          /\ m_buf' = [m_buf EXCEPT ![f] = c]
          /\ UNCHANGED heap
       \/ /\ c \notin SmallCallables
          /\ m_ptr' = [m_ptr EXCEPT ![f] = c]
          /\ heap' = heap \cup {c}
          /\ UNCHANGED m_buf
    /\ expected' = [expected EXCEPT ![f] = c]
    /\ UNCHANGED <<destroyed, call_stack>>

\* What both moves do with the pointers ptr, the one of f being null: a callable
\* in the buffer is moved into the other buffer, and what is left is destroyed.
MoveIn(f, g, ptr) ==
    \/ /\ ptr[g] = Buf
       /\ m_ptr' = [ptr EXCEPT ![f] = Buf, ![g] = Null]
       /\ m_buf' = [m_buf EXCEPT ![f] = m_buf[g], ![g] = Null]
    \/ /\ ptr[g] # Buf
       /\ m_ptr' = [ptr EXCEPT ![f] = ptr[g], ![g] = Null]
       /\ UNCHANGED m_buf

\* The first part of reset: the callable's destructor, which m_ptr outlives.
DestroyCallable(f) ==
    /\ destroyed' = [c \in Callables |-> destroyed[c] + (IF c = Held(f) THEN 1 ELSE 0)]
    /\ heap' = heap \ {m_ptr[f]}
    /\ m_buf' = IF m_ptr[f] = Buf THEN [m_buf EXCEPT ![f] = Null] ELSE m_buf
    /\ UNCHANGED m_ptr

MoveConstruct(f, g) ==
    /\ f \notin constructed /\ g \in constructed /\ MayUse({g})
    /\ constructed' = constructed \cup {f}
    /\ MoveIn(f, g, m_ptr)
    /\ expected' = [expected EXCEPT ![f] = expected[g], ![g] = Null]
    /\ UNCHANGED <<heap, used, destroyed, call_stack>>

MoveAssign(f, g) ==
    /\ {f, g} \subseteq constructed /\ MayUse({f, g})
    /\ expected' = [h \in Funcs |-> IF h = f THEN expected[g] ELSE IF h = g THEN Null ELSE expected[h]]
    /\ \/ /\ f = g
          /\ UNCHANGED <<m_ptr, m_buf, heap, destroyed, call_stack>>
       \/ /\ f # g /\ m_ptr[f] = Null
          /\ MoveIn(f, g, m_ptr)
          /\ UNCHANGED <<heap, destroyed, call_stack>>
       \/ /\ f # g /\ m_ptr[f] # Null /\ MayNest
          /\ DestroyCallable(f)
          /\ Push("assign", f, g)
    /\ UNCHANGED <<constructed, used>>

\* The destructor of a function object.
DestroyFunction(f) ==
    /\ f \in constructed /\ MayUse({f})
    /\ expected' = [expected EXCEPT ![f] = Null]
    /\ \/ /\ m_ptr[f] = Null
          /\ constructed' = constructed \ {f}
          /\ UNCHANGED <<m_ptr, m_buf, heap, destroyed, call_stack>>
       \/ /\ m_ptr[f] # Null /\ MayNest
          /\ DestroyCallable(f)
          /\ Push("destroy", f, f)
          /\ UNCHANGED constructed
    /\ UNCHANGED used

\* operator(): an empty function object throws instead.
Invoke(f) ==
    /\ f \in constructed /\ m_ptr[f] # Null /\ MayUse({f}) /\ MayNest
    /\ Push("call", f, f)
    /\ UNCHANGED <<constructed, m_ptr, m_buf, heap, used, destroyed, expected>>

\* The code of the innermost operation returns, and the operation goes on.
Return ==
    /\ call_stack # <<>>
    /\ call_stack' = SubSeq(call_stack, 1, Len(call_stack) - 1)
    /\ LET top == call_stack[Len(call_stack)]
           reset == [m_ptr EXCEPT ![top.f] = Null]
       IN  \/ /\ top.op = "call"
              /\ UNCHANGED <<constructed, m_ptr, m_buf>>
           \/ /\ top.op = "assign"
              /\ MoveIn(top.f, top.g, reset)
              /\ UNCHANGED constructed
           \/ /\ top.op = "destroy"
              /\ m_ptr' = reset
              /\ constructed' = constructed \ {top.f}
              /\ UNCHANGED m_buf
    /\ UNCHANGED <<heap, used, destroyed, expected>>

FunctionNext ==
    \/ \E f \in Funcs : ConstructEmpty(f) \/ DestroyFunction(f) \/ Invoke(f)
    \/ \E f \in Funcs, c \in Callables : make(f, c)
    \/ \E f, g \in Funcs : MoveConstruct(f, g) \/ MoveAssign(f, g)
    \/ Return

FunctionSpec == FunctionInit /\ [][FunctionNext]_functionVars

-----------------------------------------------------------------------------

FunctionTypeOK ==
    /\ constructed \subseteq Funcs
    /\ m_ptr \in [Funcs -> Callables \cup {Null, Buf}]
    /\ m_buf \in [Funcs -> Callables \cup {Null}]
    /\ heap \subseteq used /\ used \subseteq Callables
    /\ destroyed \in [Callables -> Nat]
    /\ Len(call_stack) <= MaxNesting

\* Between operations every function object holds the callable that a value
\* moved from one object to the next would give it, wherever the callables are
\* stored: also after a move of an object to itself.
HoldsExpected == call_stack = <<>> => \A f \in Funcs : Held(f) = expected[f]

\* A callable is destroyed at most once, by whichever of the objects it passed
\* through holds it then.
DestroyedOnce == \A c \in Callables : destroyed[c] <= 1

\* A callable is destroyed when the last function object it could be in is gone
\* or holds another one: the heap holds what some function object points to.
NothingLeaked ==
    call_stack = <<>> => \A c \in used :
        destroyed[c] = 0 => \E f \in constructed : Held(f) = c

\* The callable that is being called is alive and has not been moved.
CallAlive ==
    \A i \in DOMAIN call_stack : call_stack[i].op = "call" =>
        /\ \A c \in Callables : c = call_stack[i].callable => destroyed[c] = 0
        /\ Held(call_stack[i].f) = call_stack[i].callable
=============================================================================
