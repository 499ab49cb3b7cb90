----------------------------- MODULE CoroTask ------------------------------
(***************************************************************************)
(* ag::coro::Task (common/coro.h): lazily started coroutines, the frames   *)
(* of which are freed by the awaiting coroutine, or by themselves when     *)
(* they run detached.  Coroutines suspended on events of their own are     *)
(* resumed from any thread, so the chains of awaiting coroutines advance   *)
(* independently of each other.                                            *)
(***************************************************************************)
EXTENDS Integers, FiniteSets

CONSTANTS
    Tasks,      \* coroutine frames
    NoCaller,   \* a null caller handle
    Careful     \* does every coroutine await the tasks it created

ASSUME TaskAssumption ==
    /\ NoCaller \notin Tasks
    /\ Careful \in BOOLEAN

VARIABLES
    frame,      \* state of each frame
    caller,     \* Promise::caller: a task, NoCaller, or "sync" for to_future
    task_owner, \* the coroutine (or NoCaller for plain code) that holds the Task
    awaits,     \* the task a coroutine is awaiting
    task_result, \* Promise::ret has a value
    got,        \* results the awaiting side received from each task
    future      \* state of the std::future of to_future

taskVars == <<frame, caller, task_owner, awaits, task_result, got, future>>

TaskInit ==
    /\ frame = [t \in Tasks |-> "none"]
    /\ caller = [t \in Tasks |-> NoCaller]
    /\ task_owner = [t \in Tasks |-> NoCaller]
    /\ awaits = [t \in Tasks |-> NoCaller]
    /\ task_result = [t \in Tasks |-> FALSE]
    /\ got = [t \in Tasks |-> 0]
    /\ future = [t \in Tasks |-> "none"]

\* A coroutine function is called by c: the frame is allocated, and
\* initial_suspend suspends it at once.
Call(t, c) ==
    /\ frame[t] = "none"
    /\ c # NoCaller => frame[c] = "running"
    /\ frame' = [frame EXCEPT ![t] = "created"]
    /\ task_owner' = [task_owner EXCEPT ![t] = c]
    /\ UNCHANGED <<caller, awaits, task_result, got, future>>

\* co_await t in coroutine c: the caller is saved, then control is transferred.
task_await_suspend(t, c) ==
    /\ frame[t] = "created" /\ task_owner[t] = c /\ frame[c] = "running"
    /\ caller' = [caller EXCEPT ![t] = c]
    /\ frame' = [frame EXCEPT ![t] = "running", ![c] = "awaiting"]
    /\ awaits' = [awaits EXCEPT ![c] = t]
    /\ UNCHANGED <<task_owner, task_result, got, future>>

\* run_detached resumes the frame without a caller.
run_detached(t) ==
    /\ frame[t] = "created" /\ task_owner[t] = NoCaller
    /\ frame' = [frame EXCEPT ![t] = "running"]
    /\ UNCHANGED <<caller, task_owner, awaits, task_result, got, future>>

\* to_future awaits the task in a coroutine that starts at once and never
\* suspends otherwise, the promise of which is the std::promise.
to_future(t) ==
    /\ frame[t] = "created" /\ task_owner[t] = NoCaller
    /\ caller' = [caller EXCEPT ![t] = "sync"]
    /\ frame' = [frame EXCEPT ![t] = "running"]
    /\ future' = [future EXCEPT ![t] = "waiting"]
    /\ UNCHANGED <<task_owner, awaits, task_result, got>>

\* The coroutine awaits an event of the program, and is resumed by it.
Suspend(t) ==
    /\ frame[t] = "running"
    /\ frame' = [frame EXCEPT ![t] = "suspended"]
    /\ UNCHANGED <<caller, task_owner, awaits, task_result, got, future>>

ResumeTask(t) ==
    /\ frame[t] = "suspended"
    /\ frame' = [frame EXCEPT ![t] = "running"]
    /\ UNCHANGED <<caller, task_owner, awaits, task_result, got, future>>

OwnedUnstarted(c) == {t \in Tasks : task_owner[t] = c /\ frame[t] = "created"}

\* Faulty: final_suspend always suspends.
AfterReturn_suspended(t) == "final"

\* final_suspend with a null caller is ready: the frame runs off its end and
\* frees itself.  With a caller it stays suspended, and control goes there.
AfterReturn(t) == IF caller[t] = NoCaller THEN "freed" ELSE "final"

co_return(t) ==
    /\ frame[t] = "running"
    /\ Careful => OwnedUnstarted(t) = {}
    /\ task_result' = [task_result EXCEPT ![t] = TRUE]
    /\ frame' = [frame EXCEPT ![t] = AfterReturn(t)]
    /\ UNCHANGED <<caller, task_owner, awaits, got, future>>

\* The caller takes the value and destroys the frame.
task_await_resume(t, c) ==
    /\ frame[t] = "final" /\ caller[t] = c /\ c \in Tasks
    /\ task_result[t]
    /\ got' = [got EXCEPT ![t] = @ + 1]
    /\ frame' = [frame EXCEPT ![t] = "freed", ![c] = "running"]
    /\ awaits' = [awaits EXCEPT ![c] = NoCaller]
    /\ UNCHANGED <<caller, task_owner, task_result, future>>

\* The same in the coroutine of to_future, which then sets the promise.
SyncReturn(t) ==
    /\ frame[t] = "final" /\ caller[t] = "sync"
    /\ task_result[t]
    /\ got' = [got EXCEPT ![t] = @ + 1]
    /\ frame' = [frame EXCEPT ![t] = "freed"]
    /\ future' = [future EXCEPT ![t] = "ready"]
    /\ UNCHANGED <<caller, task_owner, awaits, task_result>>

TaskNext ==
    \E t \in Tasks :
        \/ Call(t, NoCaller)
        \/ \E c \in Tasks : Call(t, c) \/ task_await_suspend(t, c) \/ task_await_resume(t, c)
        \/ run_detached(t) \/ to_future(t)
        \/ Suspend(t) \/ ResumeTask(t)
        \/ co_return(t) \/ SyncReturn(t)

TaskSpec == TaskInit /\ [][TaskNext]_taskVars

\* Plain code starts what it creates; events arrive and running coroutines get
\* on (SF, since a coroutine may be suspended again and again before it awaits
\* or returns).
TaskFairness ==
    \A t \in Tasks :
        /\ WF_taskVars(run_detached(t) \/ to_future(t))
        /\ WF_taskVars(ResumeTask(t))
        /\ SF_taskVars(\E u \in Tasks : task_await_suspend(u, t))
        /\ SF_taskVars(co_return(t))
        /\ WF_taskVars(SyncReturn(t) \/ \E c \in Tasks : task_await_resume(t, c))

-----------------------------------------------------------------------------

Callers == Tasks \cup {NoCaller}

TaskTypeOK ==
    /\ frame \in [Tasks -> {"none", "created", "running", "awaiting", "suspended", "final", "freed"}]
    /\ caller \in [Tasks -> Callers \cup {"sync"}]
    /\ task_owner \in [Tasks -> Callers] /\ awaits \in [Tasks -> Callers]
    /\ task_result \in [Tasks -> BOOLEAN] /\ got \in [Tasks -> Nat]
    /\ future \in [Tasks -> {"none", "waiting", "ready"}]

Started(t) == frame[t] \in {"running", "awaiting", "suspended", "final"}

\* A coroutine that awaits another is suspended for as long as the other's frame
\* lives, and each is the other's partner: final_suspend never transfers control
\* to a frame that was freed or that runs already.
CallerWaits ==
    \A t, c \in Tasks :
        Started(t) /\ caller[t] = c <=> frame[c] = "awaiting" /\ awaits[c] = t

\* A frame is freed once its coroutine has returned, and every result that
\* somebody awaits is received exactly once before the frame is gone.
ReceivedOnce ==
    \A t \in Tasks :
        /\ got[t] = (IF frame[t] = "freed" /\ caller[t] # NoCaller THEN 1 ELSE 0)
        /\ frame[t] = "freed" => task_result[t]

\* A future is ready exactly when its coroutine is gone.
FutureReady ==
    \A t \in Tasks : caller[t] = "sync" =>
        (future[t] = "ready" <=> frame[t] = "freed")

\* No frame is leaked: every frame that was allocated is freed in the end,
\* whether it was awaited, detached or turned into a future.
FramesFreed == \A t \in Tasks : frame[t] = "created" ~> frame[t] = "freed"
=============================================================================
