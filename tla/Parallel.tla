------------------------------- MODULE Parallel -------------------------------
(***************************************************************************)
(* What all_of and any_of_cond have in common: the awaitables, and the     *)
(* counter `remaining' of those that are not complete.                     *)
(***************************************************************************)
EXTENDS Naturals, FiniteSets

CONSTANTS
    Aws,             \* the awaitables passed to all_of, or to any_of_cond
    AsyncDuringAdd,  \* may another thread complete an awaitable while add() runs?
    SizeMax          \* SIZE_MAX, the largest value of the size_t `remaining'

ASSUME AwsAssumption == IsFiniteSet(Aws)
ASSUME AsyncAssumption == AsyncDuringAdd \in BOOLEAN
ASSUME SizeMaxAssumption == SizeMax \in Nat /\ Cardinality(Aws) <= SizeMax

Counter == 0 .. SizeMax

\* size_t arithmetic
Incr(n) == IF n = SizeMax THEN 0 ELSE n + 1
Decr(n) == IF n = 0 THEN SizeMax ELSE n - 1
=============================================================================
