----------------------------- MODULE AnyOf_proofs -----------------------------
(***************************************************************************)
(* any_of_cond returns a result that matches, or none if there is none,    *)
(* and resumes its owner at most once, for any finite set of awaitables    *)
(* and any condition, whether the owner keeps the shared state or drops    *)
(* it, provided no other thread completes an awaitable while add() runs.   *)
(***************************************************************************)
EXTENDS AnyOf, FiniteSetTheorems, TLAPS

\* The counter never wraps: at most all awaitables are pending.
LEMMA AnyPendingBound ==
    /\ IsFiniteSet(AnyPending)
    /\ Cardinality(AnyPending) \in Nat /\ Cardinality(AnyPending) <= SizeMax
    /\ Cardinality(AnyPending) = 0 <=> AnyPending = {}
<1>1. AnyPending \in SUBSET Aws
  BY DEF AnyPending
<1>2. IsFiniteSet(AnyPending) /\ Cardinality(AnyPending) <= Cardinality(Aws)
  BY <1>1, AwsAssumption, FS_Subset
<1>3. Cardinality(AnyPending) \in Nat /\ Cardinality(Aws) \in Nat
  BY <1>2, AwsAssumption, FS_CardinalityType
<1>4. Cardinality(AnyPending) = 0 <=> AnyPending = {}
  BY <1>2, FS_EmptySet
<1>. QED
  BY <1>2, <1>3, <1>4, SizeMaxAssumption

LEMMA AnyInitInv == AnyInit => AnyIInv
<1>. SUFFICES ASSUME AnyInit PROVE AnyIInv
  OBVIOUS
<1>1. AnyPending = {} /\ Cardinality({}) = 0
  BY FS_EmptySet DEF AnyInit, AnyPending
<1>2. AnyTypeOK
  <2>1. awaitable \in BOOLEAN /\ any_suspended_handle \in BOOLEAN
    BY DEF AnyInit
  <2>. QED
    BY <2>1, SizeMaxAssumption
    DEF AnyInit, AnyTypeOK, AnyOwnerStates, AnyTaskStates, Counter
<1>. QED
  BY <1>1, <1>2
  DEF AnyInit, AnyIInv, AnyMutexInv, AnyAddInv, AnyCountInv, AnyValueInv, AnyHandleInv,
      ResultMatches, AnyResumedOnce

-----------------------------------------------------------------------------
(* One lemma per action. *)

LEMMA AnyAddLoadInv == ASSUME AnyIInv, NEW a \in Aws, AnyAddLoad(a) PROVE AnyIInv'
<1>1. AnyPending' = AnyPending /\ AnyAlive' = AnyAlive /\ AnyReady' = AnyReady
  BY DEF AnyAddLoad, AnyPending, AnyAlive, AnyReady
<1>2. AnyTypeOK'
  BY DEF AnyAddLoad, AnyIInv, AnyTypeOK, AnyOwnerStates
<1>. QED
  BY <1>1, <1>2
  DEF AnyAddLoad, AnyIInv, AnyTypeOK, AnyMutexInv, AnyAddInv, AnyCountInv, AnyValueInv,
      AnyHandleInv, ResultMatches, AnyResumedOnce

LEMMA AnyAddStoreInv == ASSUME AnyIInv, NEW a \in Aws, AnyAddStore(a) PROVE AnyIInv'
<1>0. /\ any_task[a] = "new" /\ any_task' = [any_task EXCEPT ![a] = "running"]
      /\ any_task \in [Aws -> AnyTaskStates] /\ awaitable /\ awaitable'
      /\ any_remaining = Cardinality(AnyPending) /\ any_ownerReg = any_remaining
  BY DEF AnyAddStore, AnyIInv, AnyTypeOK, AnyAddInv, AnyCountInv, AnyAlive
<1>1. AnyPending' = AnyPending \cup {a} /\ a \notin AnyPending
  BY <1>0 DEF AnyPending, AnyTaskStates
<1>2. Cardinality(AnyPending') = Cardinality(AnyPending) + 1
  BY <1>1, AnyPendingBound, FS_AddElement
<1>3. Cardinality(AnyPending') <= Cardinality(Aws) /\ Cardinality(Aws) \in Nat
  <2>1. AnyPending' \in SUBSET Aws
    BY DEF AnyPending
  <2>. QED
    BY <2>1, AwsAssumption, FS_Subset, FS_CardinalityType
<1>4. any_remaining' = Cardinality(AnyPending') /\ any_remaining' \in Counter
  BY <1>0, <1>2, <1>3, AnyPendingBound, SizeMaxAssumption DEF AnyAddStore, Incr, Counter
<1>5. AnyTypeOK'
  BY <1>0, <1>4 DEF AnyAddStore, AnyIInv, AnyTypeOK, AnyOwnerStates, AnyTaskStates
<1>6. any_mutex = {} /\ any_mutex' = {}
  BY <1>0 DEF AnyAddStore, AnyIInv, AnyTypeOK, AnyMutexInv, AnyAddInv
<1>7. AnyMutexInv' /\ AnyAddInv'
  BY <1>0, <1>6 DEF AnyAddStore, AnyIInv, AnyTypeOK, AnyMutexInv, AnyAddInv
<1>8. AnyCountInv' /\ AnyValueInv'
  BY <1>0, <1>4 DEF AnyAddStore, AnyIInv, AnyTypeOK, AnyCountInv, AnyValueInv, AnyAlive
<1>9. AnyHandleInv' /\ ResultMatches' /\ AnyResumedOnce'
  BY <1>0 DEF AnyAddStore, AnyIInv, AnyTypeOK, AnyAddInv, AnyHandleInv, ResultMatches,
     AnyResumedOnce
<1>. QED
  BY <1>5, <1>7, <1>8, <1>9 DEF AnyIInv

LEMMA AnyAddReturnInv == ASSUME AnyIInv, NEW a \in Aws, AnyAddReturn(a) PROVE AnyIInv'
<1>1. AnyPending' = AnyPending /\ AnyAlive' = AnyAlive /\ AnyReady' = AnyReady
  BY DEF AnyAddReturn, AnyPending, AnyAlive, AnyReady
<1>2. AnyTypeOK'
  BY DEF AnyAddReturn, AnyIInv, AnyTypeOK, AnyOwnerStates
<1>. QED
  BY <1>1, <1>2
  DEF AnyAddReturn, AnyIInv, AnyTypeOK, AnyMutexInv, AnyAddInv, AnyCountInv, AnyValueInv,
      AnyHandleInv, ResultMatches, AnyResumedOnce

LEMMA AnyCoAwaitInv == ASSUME AnyIInv, AnyCoAwait PROVE AnyIInv'
<1>1. AnyPending' = AnyPending /\ AnyAlive' = AnyAlive /\ AnyReady' = AnyReady
  BY DEF AnyCoAwait, AnyPending, AnyAlive, AnyReady
<1>2. AnyTypeOK'
  BY DEF AnyCoAwait, AnyIInv, AnyTypeOK, AnyOwnerStates
<1>. QED
  BY <1>1, <1>2
  DEF AnyCoAwait, AnyIInv, AnyTypeOK, AnyMutexInv, AnyAddInv, AnyCountInv, AnyValueInv,
      AnyHandleInv, ResultMatches, AnyResumedOnce

LEMMA AnyAwaitReadyInv == ASSUME AnyIInv, any_await_ready PROVE AnyIInv'
<1>1. AnyPending' = AnyPending /\ AnyAlive' = AnyAlive /\ AnyReady' = AnyReady
  BY DEF any_await_ready, AnyPending, AnyAlive, AnyReady
<1>2. AnyTypeOK'
  BY DEF any_await_ready, AnyIInv, AnyTypeOK, AnyOwnerStates
<1>. QED
  BY <1>1, <1>2
  DEF any_await_ready, AnyIInv, AnyTypeOK, AnyMutexInv, AnyAddInv, AnyCountInv, AnyValueInv,
      AnyHandleInv, ResultMatches, AnyResumedOnce

\* The owner that suspends finds no value and something pending, and nobody resumes it yet.
LEMMA AnyAwaitSuspendInv == ASSUME AnyIInv, any_await_suspend PROVE AnyIInv'
<1>1. AnyPending' = AnyPending /\ AnyAlive' = AnyAlive /\ AnyReady' = AnyReady
  BY DEF any_await_suspend, AnyPending, AnyAlive, AnyReady
<1>2. AnyTypeOK'
  BY DEF any_await_suspend, AnyIInv, AnyTypeOK, AnyOwnerStates
<1>. QED
  BY <1>1, <1>2
  DEF any_await_suspend, AnyIInv, AnyTypeOK, AnyMutexInv, AnyAddInv, AnyCountInv, AnyValueInv,
      AnyHandleInv, ResultMatches, AnyResumedOnce

\* Without a value nothing is pending, so that nothing can have matched.
LEMMA AnyAwaitResumeInv == ASSUME AnyIInv, any_await_resume PROVE AnyIInv'
<1>1. AnyPending' = AnyPending /\ AnyAlive' = AnyAlive /\ AnyReady' = AnyReady
  BY DEF any_await_resume, AnyPending, AnyAlive, AnyReady
<1>2. AnyTypeOK'
  BY DEF any_await_resume, AnyIInv, AnyTypeOK, AnyOwnerStates
<1>3. awaitable /\ AnyAlive /\ AnyReady
  BY DEF any_await_resume, AnyIInv, AnyAddInv, AnyHandleInv, AnyAlive
<1>4. ASSUME return_value = {} PROVE matching = {} /\ \A a \in Aws : any_task[a] = "done"
  <2>1. AnyPending = {}
    BY <1>3, <1>4, AnyPendingBound DEF AnyReady, AnyIInv, AnyCountInv
  <2>2. \A a \in Aws : any_task[a] = "done"
    BY <2>1 DEF any_await_resume, AnyPending, AnyIInv, AnyTypeOK, AnyTaskStates, AnyAddInv,
       AnyResumedOnce
  <2>. QED
    BY <1>3, <1>4, <2>2 DEF AnyIInv, AnyTypeOK, AnyValueInv
<1>5. Cardinality(return_value) <= 1
  <2>1. CASE return_value = {}
    BY <2>1, FS_EmptySet
  <2>2. CASE \E a \in Aws : return_value = {a}
    BY <2>2, FS_Singleton
  <2>. QED
    BY <2>1, <2>2 DEF AnyIInv, AnyValueInv
<1>6. ResultMatches'
  BY <1>4, <1>5 DEF any_await_resume, AnyIInv, AnyValueInv, ResultMatches
<1>. QED
  BY <1>1, <1>2, <1>6
  DEF any_await_resume, AnyIInv, AnyTypeOK, AnyMutexInv, AnyAddInv, AnyCountInv, AnyValueInv,
      AnyHandleInv, AnyResumedOnce

LEMMA AnyDropInv == ASSUME AnyIInv, AnyDrop PROVE AnyIInv'
<1>1. AnyPending' = AnyPending /\ AnyReady' = AnyReady /\ AnyAlive
  BY DEF AnyDrop, AnyPending, AnyAlive, AnyReady
<1>2. AnyTypeOK'
  BY DEF AnyDrop, AnyIInv, AnyTypeOK
<1>. QED
  BY <1>1, <1>2
  DEF AnyDrop, AnyIInv, AnyTypeOK, AnyMutexInv, AnyAddInv, AnyCountInv, AnyValueInv,
      AnyHandleInv, ResultMatches, AnyResumedOnce

\* Completions that race with add() are excluded.
LEMMA AnyFinishInv == ASSUME ~AsyncDuringAdd, AnyIInv, NEW a \in Aws, AnyFinish(a) PROVE AnyIInv'
<1>0. /\ any_task[a] = "running" /\ any_task' = [any_task EXCEPT ![a] = "finished"]
      /\ any_task \in [Aws -> AnyTaskStates]
  BY DEF AnyFinish, AnyIInv, AnyTypeOK
<1>1. AnyPending' = AnyPending /\ AnyAlive' = AnyAlive /\ AnyReady' = AnyReady
  BY <1>0 DEF AnyFinish, AnyPending, AnyAlive, AnyReady
<1>2. AnyTypeOK'
  BY <1>0 DEF AnyFinish, AnyIInv, AnyTypeOK, AnyTaskStates
<1>3. AnyMutexInv'
  BY <1>0 DEF AnyFinish, AnyIInv, AnyMutexInv
<1>4. AnyAddInv'
  BY <1>0 DEF AnyFinish, AnyIInv, AnyAddInv
<1>5. AnyCountInv' /\ AnyValueInv'
  BY <1>0, <1>1 DEF AnyFinish, AnyIInv, AnyTypeOK, AnyCountInv, AnyValueInv
<1>6. AnyHandleInv' /\ ResultMatches' /\ AnyResumedOnce'
  BY <1>0, <1>1 DEF AnyFinish, AnyIInv, AnyTypeOK, AnyHandleInv, ResultMatches, AnyResumedOnce
<1>. QED
  BY <1>2, <1>3, <1>4, <1>5, <1>6 DEF AnyIInv

\* Once the shared state is gone nobody can bring it back.
LEMMA AnyLockSelfInv == ASSUME AnyIInv, NEW a \in Aws, AnyLockSelf(a) PROVE AnyIInv'
<1>0. /\ any_task[a] = "finished" /\ any_task' = [any_task EXCEPT ![a] = IF AnyAlive THEN "self" ELSE "done"]
      /\ any_task \in [Aws -> AnyTaskStates]
  BY DEF AnyLockSelf, AnyIInv, AnyTypeOK
<1>1. AnyAlive' = AnyAlive /\ AnyReady' = AnyReady
  BY <1>0 DEF AnyLockSelf, AnyAlive, AnyReady
<1>2. AnyTypeOK'
  BY <1>0 DEF AnyLockSelf, AnyIInv, AnyTypeOK, AnyTaskStates
<1>3. AnyMutexInv'
  BY <1>0 DEF AnyLockSelf, AnyIInv, AnyMutexInv
<1>4. AnyAddInv'
  BY <1>0 DEF AnyLockSelf, AnyIInv, AnyTypeOK, AnyAddInv, AnyAlive
<1>5. AnyCountInv' /\ AnyValueInv'
  <2>1. AnyAlive => AnyPending' = AnyPending
    BY <1>0 DEF AnyPending
  <2>. QED
    BY <1>0, <1>1, <2>1 DEF AnyLockSelf, AnyIInv, AnyTypeOK, AnyCountInv, AnyValueInv
<1>6. AnyHandleInv' /\ ResultMatches' /\ AnyResumedOnce'
  BY <1>0, <1>1 DEF AnyLockSelf, AnyIInv, AnyTypeOK, AnyHandleInv, ResultMatches, AnyResumedOnce
<1>. QED
  BY <1>2, <1>3, <1>4, <1>5, <1>6 DEF AnyIInv

LEMMA AnyLockInv == ASSUME AnyIInv, NEW a \in Aws, AnyLock(a) PROVE AnyIInv'
<1>0. /\ any_task[a] = "self" /\ any_task' = [any_task EXCEPT ![a] = "locked"]
      /\ any_task \in [Aws -> AnyTaskStates] /\ any_mutex = {} /\ any_mutex' = {a}
  BY DEF AnyLock, AnyIInv, AnyTypeOK
<1>1. AnyPending' = AnyPending /\ AnyAlive' = AnyAlive /\ AnyReady' = AnyReady
  BY <1>0 DEF AnyLock, AnyPending, AnyAlive, AnyReady
<1>2. AnyTypeOK'
  BY <1>0 DEF AnyLock, AnyIInv, AnyTypeOK, AnyTaskStates
<1>3. AnyMutexInv'
  BY <1>0 DEF AnyLock, AnyIInv, AnyMutexInv
<1>4. AnyAddInv'
  BY <1>0 DEF AnyLock, AnyIInv, AnyTypeOK, AnyAddInv
<1>5. AnyCountInv' /\ AnyValueInv'
  BY <1>0, <1>1 DEF AnyLock, AnyIInv, AnyTypeOK, AnyCountInv, AnyValueInv
<1>6. AnyHandleInv' /\ ResultMatches' /\ AnyResumedOnce'
  BY <1>0, <1>1 DEF AnyLock, AnyIInv, AnyTypeOK, AnyHandleInv, ResultMatches, AnyResumedOnce
<1>. QED
  BY <1>2, <1>3, <1>4, <1>5, <1>6 DEF AnyIInv

\* The holder of the mutex is pending, so that nobody else resumes the owner, and the
\* owner, if its handle is there, is still suspended unless there is a value already.
LEMMA AnyUnlockInv == ASSUME AnyIInv, NEW a \in Aws, AnyUnlock(a) PROVE AnyIInv'
<1>0. /\ any_task[a] = "locked" /\ any_task \in [Aws -> AnyTaskStates]
      /\ a \in AnyPending /\ AnyAlive
      /\ any_mutex = {a} /\ any_mutex' = {} /\ any_taskReg = any_remaining
  BY DEF AnyUnlock, AnyComplete, AnyIInv, AnyTypeOK, AnyPending, AnyAlive, AnyMutexInv
<1>1. any_remaining = Cardinality(AnyPending) /\ any_remaining \in Nat /\ any_remaining > 0
      /\ any_remaining <= SizeMax
  BY <1>0, AnyPendingBound DEF AnyIInv, AnyCountInv
<1>2. any_remaining' = any_remaining - 1 /\ any_remaining' \in Counter
  BY <1>0, <1>1, SizeMaxAssumption DEF AnyUnlock, AnyComplete, Decr, Counter
<1>3. /\ any_task' \in [Aws -> AnyTaskStates]
      /\ any_task'[a] \in {"resume", "done"}
      /\ \A b \in Aws \ {a} : any_task'[b] = any_task[b]
  BY <1>0 DEF AnyUnlock, AnyComplete, AnyTaskStates
<1>4. AnyPending' = AnyPending \ {a}
  BY <1>0, <1>3 DEF AnyPending
<1>5. any_remaining' = Cardinality(AnyPending')
  BY <1>0, <1>1, <1>2, <1>4, AnyPendingBound, FS_RemoveElement
<1>6. /\ return_value # {} => return_value' = return_value
      /\ return_value = {} => return_value' = IF a \in matching THEN {a} ELSE {}
      /\ UNCHANGED <<matching, any_owner, any_current, any_ownerReg, awaitable, any_taskReg,
                     any_suspended_handle, any_result>>
  BY DEF AnyUnlock, AnyComplete
<1>7. AnyTypeOK'
  BY <1>0, <1>2, <1>3, <1>6 DEF AnyIInv, AnyTypeOK
<1>8. AnyMutexInv'
  BY <1>0, <1>3 DEF AnyIInv, AnyMutexInv
<1>9. any_task'[a] = "resume" <=>
        /\ return_value = {}
        /\ return_value' # {} \/ any_remaining' = 0
        /\ any_suspended_handle
  BY <1>0, <1>6 DEF AnyUnlock, AnyComplete
<1>10. AnyAddInv'
  BY <1>0, <1>3, <1>6 DEF AnyIInv, AnyTypeOK, AnyAddInv
<1>11. AnyCountInv' /\ AnyValueInv'
  BY <1>0, <1>3, <1>5, <1>6 DEF AnyIInv, AnyTypeOK, AnyCountInv, AnyValueInv
\* Nobody was about to resume the owner while there was no value.
<1>12. return_value = {} => /\ ~AnyReady
                            /\ any_owner \notin {"await_resume", "done"}
                            /\ \A b \in Aws : any_task[b] # "resume"
  BY <1>1 DEF AnyReady, AnyIInv, AnyHandleInv, AnyResumedOnce
<1>13. AnyResumedOnce'
  BY <1>3, <1>6, <1>9, <1>12 DEF AnyIInv, AnyHandleInv, AnyResumedOnce
<1>14. AnyHandleInv'
  <2>1. AnyReady' <=> (return_value' # {} \/ any_remaining' = 0)
    BY DEF AnyReady
  <2>2. CASE return_value = {}
    BY <1>3, <1>6, <1>9, <1>12, <2>1, <2>2 DEF AnyIInv, AnyHandleInv
  <2>3. CASE return_value # {}
    BY <1>0, <1>3, <1>6, <1>9, <2>1, <2>3 DEF AnyIInv, AnyHandleInv, AnyReady
  <2>. QED
    BY <2>2, <2>3
<1>15. ResultMatches'
  BY <1>0, <1>3, <1>6 DEF AnyIInv, ResultMatches
<1>. QED
  BY <1>7, <1>8, <1>10, <1>11, <1>13, <1>14, <1>15 DEF AnyIInv

LEMMA AnyResumeInv == ASSUME AnyIInv, NEW a \in Aws, AnyResume(a) PROVE AnyIInv'
<1>0. /\ any_task[a] = "resume" /\ any_task' = [any_task EXCEPT ![a] = "done"]
      /\ any_task \in [Aws -> AnyTaskStates]
      /\ any_owner = "suspended" /\ any_owner' = "await_resume" /\ awaitable /\ awaitable'
      /\ \A b \in Aws \ {a} : any_task[b] # "resume"
  BY DEF AnyResume, AnyIInv, AnyTypeOK, AnyAddInv, AnyResumedOnce
<1>1. AnyPending' = AnyPending /\ AnyAlive /\ AnyAlive' /\ AnyReady' = AnyReady
  BY <1>0 DEF AnyResume, AnyPending, AnyAlive, AnyReady
<1>2. AnyTypeOK'
  BY <1>0 DEF AnyResume, AnyIInv, AnyTypeOK, AnyTaskStates, AnyOwnerStates
<1>3. AnyMutexInv' /\ AnyAddInv'
  BY <1>0 DEF AnyResume, AnyIInv, AnyTypeOK, AnyMutexInv, AnyAddInv
<1>4. AnyCountInv' /\ AnyValueInv'
  BY <1>0, <1>1 DEF AnyResume, AnyIInv, AnyTypeOK, AnyCountInv, AnyValueInv
<1>5. AnyHandleInv' /\ ResultMatches' /\ AnyResumedOnce'
  BY <1>0, <1>1 DEF AnyResume, AnyIInv, AnyTypeOK, AnyHandleInv, ResultMatches, AnyResumedOnce
<1>. QED
  BY <1>2, <1>3, <1>4, <1>5 DEF AnyIInv

LEMMA AnyStutterInv == ASSUME AnyIInv, UNCHANGED anyVars PROVE AnyIInv'
<1>1. AnyTypeOK' /\ AnyMutexInv'
  BY DEF anyVars, AnyIInv, AnyTypeOK, AnyMutexInv
<1>2. AnyAddInv'
  BY DEF anyVars, AnyIInv, AnyAddInv
<1>3. AnyCountInv' /\ AnyValueInv'
  BY DEF anyVars, AnyIInv, AnyCountInv, AnyValueInv, AnyPending, AnyAlive
<1>4. AnyHandleInv'
  BY DEF anyVars, AnyIInv, AnyHandleInv, AnyReady
<1>5. ResultMatches' /\ AnyResumedOnce'
  BY DEF anyVars, AnyIInv, ResultMatches, AnyResumedOnce
<1>. QED
  BY <1>1, <1>2, <1>3, <1>4, <1>5 DEF AnyIInv

-----------------------------------------------------------------------------

\* The inductive invariant of any_of_cond holds in every state, when completions do
\* not overlap add().
THEOREM AnyInvariance == ASSUME ~AsyncDuringAdd PROVE AnySpec => []AnyIInv
<1>1. AnyInit => AnyIInv
  BY AnyInitInv
<1>2. ASSUME AnyIInv, [AnyNext]_anyVars PROVE AnyIInv'
  <2>1. CASE AnyOwner
    BY <1>2, <2>1, AnyCoAwaitInv, AnyAwaitReadyInv, AnyAwaitSuspendInv, AnyAwaitResumeInv,
       AnyDropInv DEF AnyOwner
  <2>2. ASSUME NEW a \in Aws, AnyAdding(a) PROVE AnyIInv'
    BY <1>2, <2>2, AnyAddLoadInv, AnyAddStoreInv, AnyAddReturnInv DEF AnyAdding
  <2>3. ASSUME NEW a \in Aws, AnyRun(a) PROVE AnyIInv'
    BY <1>2, <2>3, AnyFinishInv, AnyLockSelfInv, AnyLockInv, AnyUnlockInv, AnyResumeInv DEF AnyRun
  <2>4. CASE UNCHANGED anyVars
    BY <1>2, <2>4, AnyStutterInv
  <2>. QED
    BY <1>2, <2>1, <2>2, <2>3, <2>4 DEF AnyNext
<1>. QED
  BY <1>1, <1>2, PTL DEF AnySpec

\* co_await any_of_cond yields a result that matches, and none only if nothing matches
\* ("Optional is set if at least one coroutine was finished and matched condition"); one
\* run coroutine at most resumes the owner, and only while it is suspended.
THEOREM AnyResultExact == ASSUME ~AsyncDuringAdd PROVE AnySpec => []AnyExact
<1>1. AnyIInv => AnyExact
  BY DEF AnyIInv, AnyExact
<1>. QED
  BY <1>1, AnyInvariance, PTL
=============================================================================
