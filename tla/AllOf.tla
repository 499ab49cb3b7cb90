------------------------------- MODULE AllOf -------------------------------
(***************************************************************************)
(* ag::parallel::all_of: a coroutine (the owner) adds awaitables to a      *)
(* shared state and then co_awaits all of them.  Every awaitable is driven *)
(* by a detached AllOfSharedState::run coroutine, which may be completed   *)
(* by another thread than the owner's.                                     *)
(*                                                                         *)
(* `remaining++' of run is executed without the mutex, so it is two steps  *)
(* here, a load and a store; `--remaining' is two steps as well, the mutex *)
(* being held from the one to the other.                                   *)
(***************************************************************************)
EXTENDS Naturals, Sequences, FiniteSets, Parallel

VARIABLES
    owner,            \* where the owner stands
    current,          \* the awaitable of the add() in progress, as a set
    ownerReg,         \* `remaining' as loaded by the owner's increment
    task,             \* where the run coroutine of each awaitable stands
    taskReg,          \* `remaining' as loaded by the holder of the mutex
    mutex,            \* the run coroutine that holds the mutex, as a set
    suspended_handle, \* has the owner's handle been stored?
    remaining,
    return_values,    \* results in completion order, named by their awaitable
    result            \* what co_await handed to the owner

vars == <<owner, current, ownerReg, task, taskReg, mutex, suspended_handle,
          remaining, return_values, result>>

OwnerStates == {"adding", "increment", "in_add", "await_ready",
                "await_suspend", "suspended", "await_resume", "done"}
TaskStates == {"new", "running", "finished", "locked", "resume", "done"}

TypeOK ==
    /\ owner \in OwnerStates
    /\ current \in SUBSET Aws
    /\ ownerReg \in Counter
    /\ task \in [Aws -> TaskStates]
    /\ taskReg \in Counter
    /\ mutex \in SUBSET Aws
    /\ suspended_handle \in BOOLEAN
    /\ remaining \in Counter
    /\ return_values \in Seq(Aws)
    /\ result \in Seq(Aws)

Init ==
    /\ owner = "adding"
    /\ current = {}
    /\ ownerReg = 0
    /\ task = [a \in Aws |-> "new"]
    /\ taskReg = 0
    /\ mutex = {}
    /\ suspended_handle = FALSE
    /\ remaining = 0
    /\ return_values = <<>>
    /\ result = <<>>

----------------------------------------------------------------------------
(* The owner: AllOfAwaitable::add for every awaitable, then co_await. *)

\* add() starts run(), which loads `remaining' for the increment.
AddLoad(a) ==
    /\ owner = "adding"
    /\ task[a] = "new"
    /\ owner' = "increment"
    /\ current' = {a}
    /\ ownerReg' = remaining
    /\ UNCHANGED <<task, taskReg, mutex, suspended_handle, remaining,
                   return_values, result>>

\* run() stores the increment and co_awaits the awaitable, which suspends, so
\* that add() returns, or goes on to complete on this thread, inside add().
AddStore(a) ==
    /\ owner = "increment"
    /\ current = {a}
    /\ remaining' = Incr(ownerReg)
    /\ task' = [task EXCEPT ![a] = "running"]
    /\ \/ owner' = "adding" /\ current' = {}
       \/ owner' = "in_add" /\ current' = {a}
    /\ UNCHANGED <<ownerReg, taskReg, mutex, suspended_handle, return_values, result>>

\* The awaitable completed inside add(), which returns.
AddReturn(a) ==
    /\ owner = "in_add"
    /\ current = {a}
    /\ task[a] = "done"
    /\ owner' = "adding"
    /\ current' = {}
    /\ UNCHANGED <<ownerReg, task, taskReg, mutex, suspended_handle, remaining,
                   return_values, result>>

CoAwait ==
    /\ owner = "adding"
    /\ \A a \in Aws : task[a] # "new"
    /\ owner' = "await_ready"
    /\ UNCHANGED <<current, ownerReg, task, taskReg, mutex, suspended_handle,
                   remaining, return_values, result>>

\* Faulty variant: takes the last pending awaitable for done.
await_ready_early ==
    /\ owner = "await_ready"
    /\ mutex = {}
    /\ owner' = IF remaining <= 1 THEN "await_resume" ELSE "await_suspend"
    /\ UNCHANGED <<current, ownerReg, task, taskReg, mutex, suspended_handle,
                   remaining, return_values, result>>

await_ready ==
    /\ owner = "await_ready"
    /\ mutex = {}
    /\ owner' = IF remaining = 0 THEN "await_resume" ELSE "await_suspend"
    /\ UNCHANGED <<current, ownerReg, task, taskReg, mutex, suspended_handle,
                   remaining, return_values, result>>

\* Stores the handle; resumes at once when the last awaitable completed since
\* await_ready.
await_suspend ==
    /\ owner = "await_suspend"
    /\ mutex = {}
    /\ suspended_handle' = TRUE
    /\ owner' = IF remaining = 0 THEN "await_resume" ELSE "suspended"
    /\ UNCHANGED <<current, ownerReg, task, taskReg, mutex, remaining,
                   return_values, result>>

await_resume ==
    /\ owner = "await_resume"
    /\ mutex = {}
    /\ result' = return_values
    /\ return_values' = <<>>
    /\ owner' = "done"
    /\ UNCHANGED <<current, ownerReg, task, taskReg, mutex, suspended_handle, remaining>>

----------------------------------------------------------------------------
(* The run coroutine of one awaitable. *)

\* `co_await aw' yields: on the owner's thread inside add(), or on whatever
\* thread completes the awaitable.
Finish(a) ==
    /\ task[a] = "running"
    /\ \/ owner = "in_add" /\ current = {a}
       \/ a \notin current /\ (AsyncDuringAdd \/ owner \notin {"adding", "increment", "in_add"})
    /\ task' = [task EXCEPT ![a] = "finished"]
    /\ UNCHANGED <<owner, current, ownerReg, taskReg, mutex, suspended_handle,
                   remaining, return_values, result>>

\* Faulty variant: `--remaining' without the mutex.
Lock_unguarded(a) ==
    /\ task[a] = "finished"
    /\ mutex' = {a}
    /\ return_values' = Append(return_values, a)
    /\ taskReg' = remaining
    /\ task' = [task EXCEPT ![a] = "locked"]
    /\ UNCHANGED <<owner, current, ownerReg, suspended_handle, remaining, result>>

Lock(a) ==
    /\ task[a] = "finished"
    /\ mutex = {}
    /\ mutex' = {a}
    /\ return_values' = Append(return_values, a)
    /\ taskReg' = remaining
    /\ task' = [task EXCEPT ![a] = "locked"]
    /\ UNCHANGED <<owner, current, ownerReg, suspended_handle, remaining, result>>

\* Stores the decrement; the one that reaches zero resumes the owner, if its
\* handle is there, after releasing the mutex.
Unlock(a) ==
    /\ task[a] = "locked"
    /\ remaining' = Decr(taskReg)
    /\ task' = [task EXCEPT ![a] =
                  IF remaining' = 0 /\ suspended_handle THEN "resume" ELSE "done"]
    /\ mutex' = {}
    /\ UNCHANGED <<owner, current, ownerReg, taskReg, suspended_handle,
                   return_values, result>>

\* h.resume()
Resume(a) ==
    /\ task[a] = "resume"
    /\ task' = [task EXCEPT ![a] = "done"]
    /\ owner' = "await_resume"
    /\ UNCHANGED <<current, ownerReg, taskReg, mutex, suspended_handle, remaining,
                   return_values, result>>

----------------------------------------------------------------------------
Terminated ==
    /\ owner = "done"
    /\ \A a \in Aws : task[a] = "done"

Owner == CoAwait \/ await_ready \/ await_suspend \/ await_resume
Adding(a) == AddLoad(a) \/ AddStore(a) \/ AddReturn(a)
Run(a) == Finish(a) \/ Lock(a) \/ Unlock(a) \/ Resume(a)

Next ==
    \/ Owner
    \/ \E a \in Aws : Adding(a) \/ Run(a)
    \/ Terminated /\ UNCHANGED vars

Spec == Init /\ [][Next]_vars

\* Threads are scheduled, and every awaitable completes some day.
Fairness ==
    /\ WF_vars(Owner)
    /\ \A a \in Aws : WF_vars(Adding(a)) /\ WF_vars(Run(a))

FairSpec == Spec /\ Fairness

----------------------------------------------------------------------------
(* Properties *)

Results(s) == {s[i] : i \in DOMAIN s}

\* co_await returns the results of all awaitables, each once, and so never
\* before the last of them is finished ("Returns when all awaitables are
\* finished").
AllResultsOnce ==
    owner = "done" => /\ Results(result) = Aws
                      /\ Len(result) = Cardinality(Aws)

\* h.resume() is only called on a suspended owner, and by one run coroutine:
\* whatever the order in which the last completion and await_suspend meet, one
\* of them resumes the owner and the other does not.
ResumedOnce ==
    \A a \in Aws : task[a] = "resume" =>
        /\ owner = "suspended"
        /\ \A b \in Aws : task[b] = "resume" => b = a

\* A suspended owner whose awaitables are all finished is about to be resumed:
\* the completion that await_ready did not see is seen by await_suspend or finds
\* the handle.
NoLostWakeup ==
    owner = "suspended" /\ (\A a \in Aws : task[a] \in {"resume", "done"})
        => \E a \in Aws : task[a] = "resume"

\* co_await returns: the completion of the last awaitable is never missed.
OwnerResumes == <>(owner = "done")

----------------------------------------------------------------------------
(* The inductive invariant behind AllResultsOnce and ResumedOnce, for          *)
(* completions that do not race with add().                                    *)

Pending == {a \in Aws : task[a] \in {"running", "finished", "locked"}}
Collected == {a \in Aws : task[a] \in {"locked", "resume", "done"}}

\* The mutex is held by the run coroutine between its load and its store.
MutexInv ==
    /\ \A a \in Aws : a \in mutex <=> task[a] = "locked"
    /\ \A a, b \in mutex : a = b
    /\ mutex # {} => taskReg = remaining

\* Nothing but the awaitable of the add() in progress moves while add() runs.
AddInv ==
    /\ owner \in {"adding", "increment"} =>
          \A a \in Aws : task[a] \in {"new", "running", "done"}
    /\ owner = "increment" =>
          ownerReg = remaining /\ \E a \in Aws : current = {a} /\ task[a] = "new"
    /\ owner = "in_add" => \E a \in Aws :
          /\ current = {a}
          /\ task[a] # "new"
          /\ \A b \in Aws \ {a} : task[b] \in {"new", "running", "done"}
    /\ owner \notin {"adding", "increment", "in_add"} => \A a \in Aws : task[a] # "new"

CountInv == remaining = Cardinality(Pending)

ValuesInv ==
    owner # "done" => /\ Results(return_values) = Collected
                      /\ Len(return_values) = Cardinality(Collected)

\* The handle is there exactly from await_suspend on, and the owner is past it
\* only when nothing is pending.
HandleInv ==
    /\ suspended_handle => owner \in {"suspended", "await_resume", "done"}
    /\ owner = "suspended" => suspended_handle
    /\ owner \in {"await_resume", "done"} => \A a \in Aws : task[a] = "done"
    /\ \A a \in Aws : task[a] = "resume" => Pending = {}

IInv ==
    /\ TypeOK
    /\ MutexInv
    /\ AddInv
    /\ CountInv
    /\ ValuesInv
    /\ HandleInv
    /\ ResumedOnce
    /\ NoLostWakeup
    /\ AllResultsOnce
=============================================================================
