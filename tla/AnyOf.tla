------------------------------- MODULE AnyOf -------------------------------
(***************************************************************************)
(* ag::parallel::any_of_cond and any_of: the owner adds awaitables to a    *)
(* shared state and co_awaits the first result that satisfies check_cond.  *)
(* The run coroutines of the other awaitables go on; they reach the shared *)
(* state through a weak pointer, because the owner may have destroyed it.  *)
(* As in AllOf, `remaining++' is two unlocked steps.                       *)
(***************************************************************************)
EXTENDS Naturals, FiniteSets, Parallel

VARIABLES
    matching,              \* the awaitables whose result satisfies check_cond
    any_owner,             \* where the owner stands
    any_current,           \* the awaitable of the add() in progress, as a set
    any_ownerReg,          \* `remaining' as loaded by the owner's increment
    awaitable,             \* does the owner still hold the AnyOfCondAwaitable?
    any_task,              \* where the run coroutine of each awaitable stands
    any_taskReg,           \* `remaining' as loaded by the holder of the mutex
    any_mutex,             \* the run coroutine that holds the mutex, as a set
    any_suspended_handle,  \* has the owner's handle been stored?
    any_remaining,         \* as in AllOf
    return_value,          \* std::optional, as a set: the awaitable it came from
    any_result             \* what co_await handed to the owner, as a set

anyVars == <<matching, any_owner, any_current, any_ownerReg, awaitable, any_task, any_taskReg, any_mutex,
          any_suspended_handle, any_remaining, return_value, any_result>>

AnyOwnerStates == {"adding", "increment", "in_add", "await_ready",
                "await_suspend", "suspended", "await_resume", "done"}
AnyTaskStates == {"new", "running", "finished", "self", "locked", "resume", "done"}

AnyTypeOK ==
    /\ matching \in SUBSET Aws
    /\ any_owner \in AnyOwnerStates
    /\ any_current \in SUBSET Aws
    /\ any_ownerReg \in Counter
    /\ awaitable \in BOOLEAN
    /\ any_task \in [Aws -> AnyTaskStates]
    /\ any_taskReg \in Counter
    /\ any_mutex \in SUBSET Aws
    /\ any_suspended_handle \in BOOLEAN
    /\ any_remaining \in Counter
    /\ return_value \in SUBSET Aws
    /\ any_result \in SUBSET Aws

AnyInit ==
    /\ matching \in SUBSET Aws
    /\ any_owner = "adding"
    /\ any_current = {}
    /\ any_ownerReg = 0
    /\ awaitable = TRUE
    /\ any_task = [a \in Aws |-> "new"]
    /\ any_taskReg = 0
    /\ any_mutex = {}
    /\ any_suspended_handle = FALSE
    /\ any_remaining = 0
    /\ return_value = {}
    /\ any_result = {}

\* The shared state exists while the awaitable or a locked weak_self holds it.
AnyAlive == awaitable \/ \E a \in Aws : any_task[a] \in {"self", "locked", "resume"}

\* await_ready and await_suspend: there is a value, or there will be none.
AnyReady == return_value # {} \/ any_remaining = 0

----------------------------------------------------------------------------
(* The owner: AnyOfCondAwaitable::add for every awaitable, then co_await. *)

AnyAddLoad(a) ==
    /\ any_owner = "adding"
    /\ any_task[a] = "new"
    /\ any_owner' = "increment"
    /\ any_current' = {a}
    /\ any_ownerReg' = any_remaining
    /\ UNCHANGED <<matching, awaitable, any_task, any_taskReg, any_mutex, any_suspended_handle,
                   any_remaining, return_value, any_result>>

\* The awaitable suspends, so that add() returns, or completes inside add().
AnyAddStore(a) ==
    /\ any_owner = "increment"
    /\ any_current = {a}
    /\ any_remaining' = Incr(any_ownerReg)
    /\ any_task' = [any_task EXCEPT ![a] = "running"]
    /\ \/ any_owner' = "adding" /\ any_current' = {}
       \/ any_owner' = "in_add" /\ any_current' = {a}
    /\ UNCHANGED <<matching, any_ownerReg, awaitable, any_taskReg, any_mutex, any_suspended_handle,
                   return_value, any_result>>

AnyAddReturn(a) ==
    /\ any_owner = "in_add"
    /\ any_current = {a}
    /\ any_task[a] = "done"
    /\ any_owner' = "adding"
    /\ any_current' = {}
    /\ UNCHANGED <<matching, any_ownerReg, awaitable, any_task, any_taskReg, any_mutex,
                   any_suspended_handle, any_remaining, return_value, any_result>>

AnyCoAwait ==
    /\ any_owner = "adding"
    /\ awaitable
    /\ \A a \in Aws : any_task[a] # "new"
    /\ any_owner' = "await_ready"
    /\ UNCHANGED <<matching, any_current, any_ownerReg, awaitable, any_task, any_taskReg, any_mutex,
                   any_suspended_handle, any_remaining, return_value, any_result>>

any_await_ready ==
    /\ any_owner = "await_ready"
    /\ any_mutex = {}
    /\ any_owner' = IF AnyReady THEN "await_resume" ELSE "await_suspend"
    /\ UNCHANGED <<matching, any_current, any_ownerReg, awaitable, any_task, any_taskReg, any_mutex,
                   any_suspended_handle, any_remaining, return_value, any_result>>

\* Faulty variant: does not look at the state again.
any_await_suspend_unchecked ==
    /\ any_owner = "await_suspend"
    /\ any_mutex = {}
    /\ any_suspended_handle' = TRUE
    /\ any_owner' = "suspended"
    /\ UNCHANGED <<matching, any_current, any_ownerReg, awaitable, any_task, any_taskReg, any_mutex,
                   any_remaining, return_value, any_result>>

any_await_suspend ==
    /\ any_owner = "await_suspend"
    /\ any_mutex = {}
    /\ any_suspended_handle' = TRUE
    /\ any_owner' = IF AnyReady THEN "await_resume" ELSE "suspended"
    /\ UNCHANGED <<matching, any_current, any_ownerReg, awaitable, any_task, any_taskReg, any_mutex,
                   any_remaining, return_value, any_result>>

\* Moving from return_value leaves the optional engaged.
any_await_resume ==
    /\ any_owner = "await_resume"
    /\ any_mutex = {}
    /\ any_result' = return_value
    /\ any_owner' = "done"
    /\ UNCHANGED <<matching, any_current, any_ownerReg, awaitable, any_task, any_taskReg, any_mutex,
                   any_suspended_handle, any_remaining, return_value>>

\* The awaitable goes out of scope: after co_await, or never awaited.
AnyDrop ==
    /\ awaitable
    /\ \/ any_owner = "done"
       \/ any_owner = "adding" /\ \A a \in Aws : any_task[a] # "new"
    /\ awaitable' = FALSE
    /\ UNCHANGED <<matching, any_owner, any_current, any_ownerReg, any_task, any_taskReg, any_mutex,
                   any_suspended_handle, any_remaining, return_value, any_result>>

----------------------------------------------------------------------------
(* The run coroutine of one awaitable. *)

\* `co_await aw' yields: on the owner's thread inside add(), or on whatever
\* thread completes the awaitable.  Once the owner dropped the awaitable its
\* add() calls are over.
AnyFinish(a) ==
    /\ any_task[a] = "running"
    /\ \/ any_owner = "in_add" /\ any_current = {a}
       \/ /\ a \notin any_current
          /\ \/ AsyncDuringAdd
             \/ any_owner \notin {"adding", "increment", "in_add"}
             \/ ~awaitable
    /\ any_task' = [any_task EXCEPT ![a] = "finished"]
    /\ UNCHANGED <<matching, any_owner, any_current, any_ownerReg, awaitable, any_taskReg, any_mutex,
                   any_suspended_handle, any_remaining, return_value, any_result>>

\* weak_self.lock(): the shared state is kept alive, or run() is over.
AnyLockSelf(a) ==
    /\ any_task[a] = "finished"
    /\ any_task' = [any_task EXCEPT ![a] = IF AnyAlive THEN "self" ELSE "done"]
    /\ UNCHANGED <<matching, any_owner, any_current, any_ownerReg, awaitable, any_taskReg, any_mutex,
                   any_suspended_handle, any_remaining, return_value, any_result>>

AnyLock(a) ==
    /\ any_task[a] = "self"
    /\ any_mutex = {}
    /\ any_mutex' = {a}
    /\ any_taskReg' = any_remaining
    /\ any_task' = [any_task EXCEPT ![a] = "locked"]
    /\ UNCHANGED <<matching, any_owner, any_current, any_ownerReg, awaitable, any_suspended_handle,
                   any_remaining, return_value, any_result>>

\* The critical section of run(): stores the decrement and, if has_return_value,
\* this result, and resumes the owner, if its handle is there, after releasing the
\* mutex.
AnyComplete(a, has_return_value) ==
    /\ any_task[a] = "locked"
    /\ any_remaining' = Decr(any_taskReg)
    /\ return_value' = IF has_return_value THEN {a} ELSE return_value
    /\ any_task' = [any_task EXCEPT ![a] =
          IF /\ has_return_value \/ (return_value' = {} /\ any_remaining' = 0)
             /\ any_suspended_handle
          THEN "resume" ELSE "done"]
    /\ any_mutex' = {}
    /\ UNCHANGED <<matching, any_owner, any_current, any_ownerReg, awaitable, any_taskReg,
                   any_suspended_handle, any_result>>

\* Faulty variant: any matching result counts as the first one.
AnyUnlock_any_match(a) == AnyComplete(a, a \in matching)

\* The first result that matches is the one.
AnyUnlock(a) == AnyComplete(a, return_value = {} /\ a \in matching)

\* h.resume()
AnyResume(a) ==
    /\ any_task[a] = "resume"
    /\ any_task' = [any_task EXCEPT ![a] = "done"]
    /\ any_owner' = "await_resume"
    /\ UNCHANGED <<matching, any_current, any_ownerReg, awaitable, any_taskReg, any_mutex,
                   any_suspended_handle, any_remaining, return_value, any_result>>

----------------------------------------------------------------------------
AnyTerminated ==
    /\ ~awaitable
    /\ \A a \in Aws : any_task[a] = "done"

AnyOwner == AnyCoAwait \/ any_await_ready \/ any_await_suspend \/ any_await_resume \/ AnyDrop
AnyAdding(a) == AnyAddLoad(a) \/ AnyAddStore(a) \/ AnyAddReturn(a)
AnyRun(a) == AnyFinish(a) \/ AnyLockSelf(a) \/ AnyLock(a) \/ AnyUnlock(a) \/ AnyResume(a)

AnyNext ==
    \/ AnyOwner
    \/ \E a \in Aws : AnyAdding(a) \/ AnyRun(a)
    \/ AnyTerminated /\ UNCHANGED anyVars

AnySpec == AnyInit /\ [][AnyNext]_anyVars

\* Threads are scheduled, and every awaitable completes some day.
AnyFairness ==
    /\ WF_anyVars(AnyOwner)
    /\ \A a \in Aws : WF_anyVars(AnyAdding(a)) /\ WF_anyVars(AnyRun(a))

AnyFairSpec == AnySpec /\ AnyFairness

----------------------------------------------------------------------------
(* Properties *)

\* co_await yields a result that satisfies the condition, and yields none only
\* if no awaitable's result does ("Optional is set if at least one coroutine was
\* finished and matched condition"): an empty result is not returned while an
\* awaitable that may still match is running.  With no condition every result
\* matches, so that any_of finds the value it takes with .value().
ResultMatches ==
    any_owner = "done" =>
        /\ any_result \subseteq matching
        /\ Cardinality(any_result) <= 1
        /\ any_result = {} => matching = {} /\ \A a \in Aws : any_task[a] = "done"

\* h.resume() is only called on a suspended owner, and by one run coroutine; the
\* others complete "without continuation".
AnyResumedOnce ==
    \A a \in Aws : any_task[a] = "resume" =>
        /\ any_owner = "suspended"
        /\ \A b \in Aws : any_task[b] = "resume" => b = a

\* An owner that awaits is resumed, and "remaining awaitables will be completed
\* anyway", whether the shared state is still there or not.
AnyOwnerResumes == any_owner = "await_ready" ~> any_owner = "done"
AnyAllComplete == <>(\A a \in Aws : any_task[a] = "done")

\* The result matches, and one run coroutine at most resumes the owner for it.
AnyExact == ResultMatches /\ AnyResumedOnce

----------------------------------------------------------------------------
(* The inductive invariant behind AnyExact, for completions that do not race    *)
(* with add().  `remaining' means nothing once the shared state is gone.        *)

AnyPending == {a \in Aws : any_task[a] \in {"running", "finished", "self", "locked"}}

AnyMutexInv ==
    /\ \A a \in Aws : a \in any_mutex <=> any_task[a] = "locked"
    /\ \A a, b \in any_mutex : a = b
    /\ any_mutex # {} => any_taskReg = any_remaining

\* Nothing but the awaitable of the add() in progress moves while add() runs, and
\* there is no add() after the owner dropped its awaitable.
AnyAddInv ==
    /\ any_owner \in {"adding", "increment"} /\ awaitable =>
          \A a \in Aws : any_task[a] \in {"new", "running", "done"}
    /\ any_owner = "increment" =>
          any_ownerReg = any_remaining /\ \E a \in Aws : any_current = {a} /\ any_task[a] = "new"
    /\ any_owner = "in_add" => \E a \in Aws :
          /\ any_current = {a}
          /\ any_task[a] # "new"
          /\ \A b \in Aws \ {a} : any_task[b] \in {"new", "running", "done"}
    /\ any_owner \notin {"adding", "increment", "in_add"} => \A a \in Aws : any_task[a] # "new"
    /\ ~awaitable => any_owner \in {"adding", "done"} /\ \A a \in Aws : any_task[a] # "new"

AnyCountInv == AnyAlive => any_remaining = Cardinality(AnyPending)

\* The value is that of the first awaitable that matched.
AnyValueInv ==
    /\ return_value \subseteq matching
    /\ return_value = {} \/ \E a \in Aws : return_value = {a}
    /\ AnyAlive /\ return_value = {} => \A a \in matching : any_task[a] \notin {"resume", "done"}

\* The handle is there exactly from await_suspend on, the owner is past it only when
\* there is a value or will be none, and then somebody resumes it, if it is suspended.
AnyHandleInv ==
    /\ any_suspended_handle => any_owner \in {"suspended", "await_resume", "done"}
    /\ any_owner = "suspended" => any_suspended_handle
    /\ any_owner \in {"await_resume", "done"} => AnyReady
    /\ any_owner = "suspended" => (AnyReady <=> \E a \in Aws : any_task[a] = "resume")

AnyIInv ==
    /\ AnyTypeOK
    /\ AnyMutexInv
    /\ AnyAddInv
    /\ AnyCountInv
    /\ AnyValueInv
    /\ AnyHandleInv
    /\ ResultMatches
    /\ AnyResumedOnce
=============================================================================
