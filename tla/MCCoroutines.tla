---------------------------- MODULE MCCoroutines ----------------------------
(***************************************************************************)
(* The coroutine tasks, all_of and any_of_cond for TLC.  They share no     *)
(* state: a behaviour is of one of them, the subject.                      *)
(***************************************************************************)
EXTENDS AllOf, AnyOf, CoroTask

CONSTANTS a1, a2, a3, Subjects

VARIABLE subject

MCAws == {a1, a2, a3}

MCInit ==
    /\ subject \in Subjects
    /\ Init /\ AnyInit /\ TaskInit
    /\ subject # "any_of" => matching = {}

\* No task is left to be called, and none to be run.
TasksOver == \A t \in Tasks : frame[t] = "freed"

MCNext ==
    \/ subject = "all_of" /\ Next /\ UNCHANGED <<subject, anyVars, taskVars>>
    \/ subject = "any_of" /\ AnyNext /\ UNCHANGED <<subject, vars, taskVars>>
    \/ subject = "tasks" /\ TaskNext /\ UNCHANGED <<subject, vars, anyVars>>
    \/ subject = "tasks" /\ TasksOver /\ UNCHANGED <<subject, vars, anyVars, taskVars>>

MCSpec == MCInit /\ [][MCNext]_<<subject, vars, anyVars, taskVars>>

\* Fairness, AnyFairness and TaskFairness, each for the behaviours of its subject: no
\* action of TaskFairness is enabled in the others.
MCFairness ==
    /\ WF_vars(subject = "all_of" /\ Owner)
    /\ WF_anyVars(subject = "any_of" /\ AnyOwner)
    /\ \A a \in Aws :
          /\ WF_vars(subject = "all_of" /\ Adding(a))
          /\ WF_vars(subject = "all_of" /\ Run(a))
          /\ WF_anyVars(subject = "any_of" /\ AnyAdding(a))
          /\ WF_anyVars(subject = "any_of" /\ AnyRun(a))
    /\ TaskFairness

MCFairSpec == MCSpec /\ MCFairness

\* all_of: the owner is resumed when all the awaitables are complete.
AllOwnerResumes == subject = "all_of" => OwnerResumes

\* An owner that awaits all_of or any_of_cond is resumed, and the awaitables that
\* any_of_cond no longer needs run to their end.
OwnersResume ==
    /\ AllOwnerResumes
    /\ AnyOwnerResumes
    /\ subject = "any_of" => AnyAllComplete
=============================================================================
