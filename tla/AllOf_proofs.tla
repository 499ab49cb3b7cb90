----------------------------- MODULE AllOf_proofs -----------------------------
(***************************************************************************)
(* all_of returns the result of every awaitable exactly once, resumes its  *)
(* owner once and misses no completion, for any finite set of awaitables,  *)
(* provided no other thread completes one while add() is running.          *)
(***************************************************************************)
EXTENDS AllOf, FiniteSetTheorems, SequenceTheorems, TLAPS

\* The counter never wraps: at most all awaitables are pending.
LEMMA PendingBound ==
    /\ IsFiniteSet(Pending) /\ IsFiniteSet(Collected)
    /\ Cardinality(Pending) \in Nat /\ Cardinality(Pending) <= SizeMax
    /\ Cardinality(Collected) \in Nat
<1>1. Pending \in SUBSET Aws /\ Collected \in SUBSET Aws
  BY DEF Pending, Collected
<1>2. /\ IsFiniteSet(Pending) /\ IsFiniteSet(Collected)
      /\ Cardinality(Pending) <= Cardinality(Aws)
  BY <1>1, AwsAssumption, FS_Subset
<1>3. /\ Cardinality(Pending) \in Nat /\ Cardinality(Collected) \in Nat
      /\ Cardinality(Aws) \in Nat
  BY <1>2, AwsAssumption, FS_CardinalityType
<1>. QED
  BY <1>2, <1>3, SizeMaxAssumption

\* Appending a result adds it to the results.
LEMMA ResultsAppend ==
    ASSUME NEW s \in Seq(Aws), NEW a \in Aws
    PROVE  /\ Append(s, a) \in Seq(Aws)
           /\ Results(Append(s, a)) = Results(s) \cup {a}
           /\ Len(Append(s, a)) = Len(s) + 1
<1>1. /\ Append(s, a) \in Seq(Aws)
      /\ Len(Append(s, a)) = Len(s) + 1
      /\ \A i \in 1 .. Len(s) : Append(s, a)[i] = s[i]
      /\ Append(s, a)[Len(s) + 1] = a
  BY AppendProperties
<1>2. /\ Len(s) \in Nat /\ DOMAIN s = 1 .. Len(s)
      /\ DOMAIN Append(s, a) = 1 .. (Len(s) + 1)
  BY <1>1, LenProperties
<1>. QED
  BY <1>1, <1>2 DEF Results

LEMMA InitIInv == Init => IInv
<1>. SUFFICES ASSUME Init PROVE IInv
  OBVIOUS
<1>1. Pending = {} /\ Collected = {}
  BY DEF Init, Pending, Collected
<1>2. Cardinality({}) = 0
  BY FS_EmptySet
<1>3. TypeOK
  <2>1. return_values \in Seq(Aws) /\ result \in Seq(Aws)
    BY EmptySeq DEF Init
  <2>2. suspended_handle \in BOOLEAN
    BY DEF Init
  <2>. QED
    BY <2>1, <2>2, SizeMaxAssumption DEF Init, TypeOK, OwnerStates, TaskStates, Counter
<1>4. Results(<<>>) = {} /\ Len(<<>>) = 0
  BY DEF Results
<1>. QED
  BY <1>1, <1>2, <1>3, <1>4
  DEF Init, IInv, MutexInv, AddInv, CountInv, ValuesInv, HandleInv, ResumedOnce,
      NoLostWakeup, AllResultsOnce

-----------------------------------------------------------------------------
(* One lemma per action. *)

LEMMA AddLoadInv == ASSUME IInv, NEW a \in Aws, AddLoad(a) PROVE IInv'
<1>1. Pending' = Pending /\ Collected' = Collected
  BY DEF AddLoad, Pending, Collected
<1>2. TypeOK'
  BY DEF AddLoad, IInv, TypeOK, OwnerStates
<1>. QED
  BY <1>1, <1>2
  DEF AddLoad, IInv, TypeOK, MutexInv, AddInv, CountInv, ValuesInv, HandleInv,
      ResumedOnce, NoLostWakeup, AllResultsOnce

LEMMA AddStoreInv == ASSUME IInv, NEW a \in Aws, AddStore(a) PROVE IInv'
<1>0. task[a] = "new" /\ task' = [task EXCEPT ![a] = "running"] /\ task \in [Aws -> TaskStates]
      /\ remaining = Cardinality(Pending) /\ ownerReg = remaining
  BY DEF AddStore, IInv, TypeOK, AddInv, CountInv
<1>1. Pending' = Pending \cup {a} /\ a \notin Pending /\ Collected' = Collected
  BY <1>0 DEF Pending, Collected, TaskStates
<1>2. Cardinality(Pending') = Cardinality(Pending) + 1
  BY <1>1, PendingBound, FS_AddElement
<1>3. Pending' \in SUBSET Aws /\ Cardinality(Pending') <= Cardinality(Aws)
      /\ Cardinality(Aws) \in Nat
  <2>1. Pending' \in SUBSET Aws
    BY DEF Pending
  <2>. QED
    BY <2>1, AwsAssumption, FS_Subset, FS_CardinalityType
<1>4. remaining' = Cardinality(Pending') /\ remaining' \in Counter
  BY <1>0, <1>2, <1>3, PendingBound, SizeMaxAssumption DEF AddStore, Incr, Counter
<1>5. TypeOK'
  BY <1>0, <1>4 DEF AddStore, IInv, TypeOK, OwnerStates, TaskStates
<1>6. mutex = {} /\ mutex' = {}
  BY <1>0 DEF AddStore, IInv, TypeOK, MutexInv, AddInv
<1>7. MutexInv' /\ AddInv'
  BY <1>0, <1>6 DEF AddStore, IInv, TypeOK, MutexInv, AddInv
<1>8. CountInv' /\ ValuesInv'
  BY <1>1, <1>4 DEF AddStore, IInv, CountInv, ValuesInv
<1>9. HandleInv' /\ ResumedOnce' /\ NoLostWakeup' /\ AllResultsOnce'
  BY <1>0, <1>1 DEF AddStore, IInv, TypeOK, AddInv, HandleInv, ResumedOnce, NoLostWakeup,
     AllResultsOnce
<1>. QED
  BY <1>5, <1>7, <1>8, <1>9 DEF IInv

LEMMA AddReturnInv == ASSUME IInv, NEW a \in Aws, AddReturn(a) PROVE IInv'
<1>1. Pending' = Pending /\ Collected' = Collected
  BY DEF AddReturn, Pending, Collected
<1>2. TypeOK'
  BY DEF AddReturn, IInv, TypeOK, OwnerStates
<1>. QED
  BY <1>1, <1>2
  DEF AddReturn, IInv, TypeOK, MutexInv, AddInv, CountInv, ValuesInv, HandleInv,
      ResumedOnce, NoLostWakeup, AllResultsOnce

LEMMA CoAwaitInv == ASSUME IInv, CoAwait PROVE IInv'
<1>1. Pending' = Pending /\ Collected' = Collected
  BY DEF CoAwait, Pending, Collected
<1>2. TypeOK'
  BY DEF CoAwait, IInv, TypeOK, OwnerStates
<1>. QED
  BY <1>1, <1>2
  DEF CoAwait, IInv, TypeOK, MutexInv, AddInv, CountInv, ValuesInv, HandleInv,
      ResumedOnce, NoLostWakeup, AllResultsOnce

\* A count of zero means that nothing is pending.
LEMMA NothingPending == ASSUME IInv, remaining = 0 PROVE Pending = {}
  BY PendingBound, FS_EmptySet DEF IInv, CountInv

\* An owner that is neither adding nor suspended, with nothing pending, has all
\* its awaitables done.
LEMMA AllDone ==
    ASSUME IInv, Pending = {}, owner \in {"await_ready", "await_suspend"}
    PROVE  \A a \in Aws : task[a] = "done"
  BY DEF IInv, TypeOK, TaskStates, AddInv, ResumedOnce, Pending

LEMMA AwaitReadyInv == ASSUME IInv, await_ready PROVE IInv'
<1>1. Pending' = Pending /\ Collected' = Collected
  BY DEF await_ready, Pending, Collected
<1>2. TypeOK'
  BY DEF await_ready, IInv, TypeOK, OwnerStates
<1>3. owner' = "await_resume" => \A a \in Aws : task[a] = "done"
  BY NothingPending, AllDone DEF await_ready
<1>. QED
  BY <1>1, <1>2, <1>3
  DEF await_ready, IInv, TypeOK, MutexInv, AddInv, CountInv, ValuesInv, HandleInv,
      ResumedOnce, NoLostWakeup, AllResultsOnce

LEMMA AwaitSuspendInv == ASSUME IInv, await_suspend PROVE IInv'
<1>1. Pending' = Pending /\ Collected' = Collected
  BY DEF await_suspend, Pending, Collected
<1>2. TypeOK'
  BY DEF await_suspend, IInv, TypeOK, OwnerStates
<1>3. owner' = "await_resume" => \A a \in Aws : task[a] = "done"
  BY NothingPending, AllDone DEF await_suspend
<1>4. MutexInv' /\ AddInv' /\ CountInv' /\ ValuesInv' /\ ResumedOnce' /\ AllResultsOnce'
  BY <1>1, <1>3 DEF await_suspend, IInv, TypeOK, MutexInv, AddInv, CountInv, ValuesInv,
     ResumedOnce, AllResultsOnce
<1>5. HandleInv'
  BY <1>1, <1>3 DEF await_suspend, IInv, HandleInv
\* The owner only suspends when something is pending.
<1>6. NoLostWakeup'
  <2>1. remaining # 0 => Pending # {}
    BY FS_EmptySet DEF IInv, CountInv
  <2>. QED
    BY <2>1 DEF await_suspend, NoLostWakeup, Pending
<1>. QED
  BY <1>2, <1>4, <1>5, <1>6 DEF IInv

LEMMA AwaitResumeInv == ASSUME IInv, await_resume PROVE IInv'
<1>1. Pending' = Pending /\ Collected' = Collected
  BY DEF await_resume, Pending, Collected
<1>2. TypeOK'
  <2>1. return_values' \in Seq(Aws)
    BY EmptySeq DEF await_resume
  <2>. QED
    BY <2>1 DEF await_resume, IInv, TypeOK, OwnerStates
<1>3. AllResultsOnce'
  <2>1. Collected = Aws
    BY DEF await_resume, IInv, HandleInv, Collected
  <2>. QED
    BY <2>1 DEF await_resume, IInv, ValuesInv, AllResultsOnce
<1>. QED
  BY <1>1, <1>2, <1>3
  DEF await_resume, IInv, TypeOK, MutexInv, AddInv, CountInv, ValuesInv, HandleInv,
      ResumedOnce, NoLostWakeup

\* Completions that race with add() are excluded: a task that finishes is either
\* the one add() is in, or the owner is past all its add() calls.
LEMMA FinishInv == ASSUME ~AsyncDuringAdd, IInv, NEW a \in Aws, Finish(a) PROVE IInv'
<1>0. /\ task[a] = "running" /\ task' = [task EXCEPT ![a] = "finished"]
      /\ task \in [Aws -> TaskStates] /\ a \in Pending
  BY DEF Finish, IInv, TypeOK, Pending
<1>1. Pending' = Pending /\ Collected' = Collected
  BY <1>0 DEF Pending, Collected
<1>2. TypeOK'
  BY <1>0 DEF Finish, IInv, TypeOK, TaskStates
<1>3. MutexInv' /\ AddInv'
  BY <1>0 DEF Finish, IInv, MutexInv, AddInv
<1>4. CountInv' /\ ValuesInv' /\ AllResultsOnce'
  BY <1>1 DEF Finish, IInv, CountInv, ValuesInv, AllResultsOnce
<1>5. HandleInv' /\ ResumedOnce' /\ NoLostWakeup'
  BY <1>0, <1>1 DEF Finish, IInv, HandleInv, ResumedOnce, NoLostWakeup
<1>. QED
  BY <1>2, <1>3, <1>4, <1>5 DEF IInv

LEMMA LockInv == ASSUME IInv, NEW a \in Aws, Lock(a) PROVE IInv'
<1>0. /\ task[a] = "finished" /\ task' = [task EXCEPT ![a] = "locked"]
      /\ task \in [Aws -> TaskStates] /\ mutex = {} /\ mutex' = {a}
      /\ a \in Pending
  BY DEF Lock, IInv, TypeOK, Pending
<1>1. Pending' = Pending /\ Collected' = Collected \cup {a} /\ a \notin Collected
  BY <1>0 DEF Pending, Collected
<1>2. Cardinality(Collected') = Cardinality(Collected) + 1
  BY <1>1, PendingBound, FS_AddElement
<1>3. return_values \in Seq(Aws) /\ return_values' = Append(return_values, a)
  BY DEF Lock, IInv, TypeOK
<1>4. TypeOK'
  <2>1. return_values' \in Seq(Aws)
    BY <1>3, ResultsAppend
  <2>. QED
    BY <1>0, <2>1 DEF Lock, IInv, TypeOK, TaskStates
<1>5. MutexInv' /\ AddInv'
  BY <1>0 DEF Lock, IInv, MutexInv, AddInv
<1>6. CountInv' /\ ValuesInv'
  <2>1. /\ Results(return_values') = Results(return_values) \cup {a}
        /\ Len(return_values') = Len(return_values) + 1
    BY <1>3, ResultsAppend
  <2>. QED
    BY <1>1, <1>2, <2>1 DEF Lock, IInv, CountInv, ValuesInv
<1>7. HandleInv' /\ ResumedOnce' /\ NoLostWakeup' /\ AllResultsOnce'
  BY <1>0, <1>1 DEF Lock, IInv, HandleInv, ResumedOnce, NoLostWakeup, AllResultsOnce
<1>. QED
  BY <1>4, <1>5, <1>6, <1>7 DEF IInv

\* The decrement is of the current count, the mutex being held since the load.
LEMMA UnlockInv == ASSUME IInv, NEW a \in Aws, Unlock(a) PROVE IInv'
<1>0. /\ task[a] = "locked" /\ task \in [Aws -> TaskStates]
      /\ mutex = {a} /\ mutex' = {} /\ taskReg = remaining /\ a \in Pending
      /\ \A b \in Aws : task[b] = "resume" => FALSE
  BY DEF Unlock, IInv, TypeOK, MutexInv, HandleInv, Pending
<1>1. /\ task' \in [Aws -> TaskStates]
      /\ task'[a] \in {"resume", "done"}
      /\ \A b \in Aws \ {a} : task'[b] = task[b]
  BY <1>0 DEF Unlock, TaskStates
<1>2. Pending' = Pending \ {a} /\ Collected' = Collected
  BY <1>0, <1>1 DEF Pending, Collected
<1>3. Cardinality(Pending') = Cardinality(Pending) - 1 /\ Cardinality(Pending') \in Nat
  <2>1. Cardinality(Pending') = Cardinality(Pending) - 1
    BY <1>0, <1>2, PendingBound, FS_RemoveElement
  <2>2. IsFiniteSet(Pending')
    BY <1>0, <1>2, PendingBound, FS_RemoveElement
  <2>. QED
    BY <2>1, <2>2, FS_CardinalityType
<1>4. remaining' = Cardinality(Pending') /\ remaining' \in Counter
  <2>1. remaining = Cardinality(Pending) /\ remaining' = Decr(remaining)
    BY <1>0 DEF Unlock, IInv, CountInv
  <2>. QED
    BY <2>1, <1>3, PendingBound, SizeMaxAssumption DEF Decr, Counter
<1>5. TypeOK'
  BY <1>0, <1>1, <1>4 DEF Unlock, IInv, TypeOK
<1>6. owner # "adding" /\ owner # "increment" /\ owner \notin {"await_resume", "done"}
  BY <1>0 DEF IInv, AddInv, HandleInv
<1>7. MutexInv' /\ AddInv'
  <2>1. MutexInv'
    BY <1>0, <1>1 DEF IInv, MutexInv
  <2>2. task'[a] = "resume" => owner = "suspended"
    BY <1>0, <1>6 DEF Unlock, IInv, HandleInv
  <2>. QED
    BY <1>0, <1>1, <1>6, <2>1, <2>2 DEF Unlock, IInv, AddInv
<1>8. CountInv' /\ ValuesInv' /\ AllResultsOnce'
  BY <1>2, <1>4, <1>6 DEF Unlock, IInv, CountInv, ValuesInv, AllResultsOnce
<1>9. /\ task'[a] = "resume" <=> remaining' = 0 /\ suspended_handle
      /\ Pending' = {} <=> remaining' = 0
  <2>1. task'[a] = "resume" <=> remaining' = 0 /\ suspended_handle
    BY <1>0 DEF Unlock
  <2>2. IsFiniteSet(Pending')
    BY <1>0, <1>2, PendingBound, FS_RemoveElement
  <2>. QED
    BY <1>4, <2>1, <2>2, FS_EmptySet
<1>10. HandleInv' /\ ResumedOnce'
  BY <1>0, <1>1, <1>6, <1>9 DEF Unlock, IInv, HandleInv, ResumedOnce
<1>11. NoLostWakeup'
  BY <1>0, <1>1, <1>2, <1>9 DEF Unlock, IInv, HandleInv, NoLostWakeup, Pending
<1>. QED
  BY <1>5, <1>7, <1>8, <1>10, <1>11 DEF IInv

LEMMA ResumeInv == ASSUME IInv, NEW a \in Aws, Resume(a) PROVE IInv'
<1>0. /\ task[a] = "resume" /\ task' = [task EXCEPT ![a] = "done"]
      /\ task \in [Aws -> TaskStates] /\ owner = "suspended"
      /\ Pending = {} /\ \A b \in Aws : task[b] = "resume" => b = a
  BY DEF Resume, IInv, TypeOK, HandleInv, ResumedOnce
<1>1. Pending' = Pending /\ Collected' = Collected
  BY <1>0 DEF Pending, Collected
<1>2. \A b \in Aws : task'[b] = "done"
  BY <1>0 DEF IInv, AddInv, TaskStates, Pending
<1>3. TypeOK'
  BY <1>0 DEF Resume, IInv, TypeOK, OwnerStates, TaskStates
<1>4. MutexInv' /\ AddInv'
  BY <1>0, <1>2 DEF Resume, IInv, MutexInv, AddInv
<1>. QED
  BY <1>0, <1>1, <1>2, <1>3, <1>4
  DEF Resume, IInv, CountInv, ValuesInv, HandleInv, ResumedOnce, NoLostWakeup,
      AllResultsOnce

LEMMA NextInv == ASSUME ~AsyncDuringAdd, IInv, [Next]_vars PROVE IInv'
<1>1. CASE Owner
  BY <1>1, CoAwaitInv, AwaitReadyInv, AwaitSuspendInv, AwaitResumeInv DEF Owner
<1>2. ASSUME NEW a \in Aws, Adding(a) PROVE IInv'
  BY <1>2, AddLoadInv, AddStoreInv, AddReturnInv DEF Adding
<1>3. ASSUME NEW a \in Aws, Run(a) PROVE IInv'
  BY <1>3, FinishInv, LockInv, UnlockInv, ResumeInv DEF Run
<1>4. CASE UNCHANGED vars
  <2>1. Pending' = Pending /\ Collected' = Collected
    BY <1>4 DEF vars, Pending, Collected
  <2>. QED
    BY <1>4, <2>1
    DEF vars, IInv, TypeOK, MutexInv, AddInv, CountInv, ValuesInv, HandleInv,
        ResumedOnce, NoLostWakeup, AllResultsOnce
<1>. QED
  BY <1>1, <1>2, <1>3, <1>4 DEF Next

-----------------------------------------------------------------------------
\* The inductive invariant holds for any finite number of awaitables, when no
\* other thread completes an awaitable while the owner is inside add().
THEOREM Invariance == ASSUME ~AsyncDuringAdd PROVE Spec => []IInv
<1>1. Init => IInv
  BY InitIInv
<1>2. IInv /\ [Next]_vars => IInv'
  BY NextInv
<1>. QED
  BY <1>1, <1>2, PTL DEF Spec

\* Every variable keeps its type; in particular the size_t counter does not wrap.
THEOREM TypeCorrect == ASSUME ~AsyncDuringAdd PROVE Spec => []TypeOK
<1>1. IInv => TypeOK
  BY DEF IInv
<1>. QED
  BY <1>1, Invariance, PTL

\* all_of returns the result of each of its awaitables, once.
THEOREM ResultsComplete == ASSUME ~AsyncDuringAdd PROVE Spec => []AllResultsOnce
<1>1. IInv => AllResultsOnce
  BY DEF IInv
<1>. QED
  BY <1>1, Invariance, PTL

\* The owner's handle is resumed by one run coroutine only, while it is suspended.
THEOREM SingleResume == ASSUME ~AsyncDuringAdd PROVE Spec => []ResumedOnce
<1>1. IInv => ResumedOnce
  BY DEF IInv
<1>. QED
  BY <1>1, Invariance, PTL

\* A suspended owner all of whose awaitables are finished is being resumed.
THEOREM WakeupKept == ASSUME ~AsyncDuringAdd PROVE Spec => []NoLostWakeup
<1>1. IInv => NoLostWakeup
  BY DEF IInv
<1>. QED
  BY <1>1, Invariance, PTL
=============================================================================
