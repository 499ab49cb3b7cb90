---------------------------- MODULE CidrExclude ----------------------------
(***************************************************************************)
(* CidrRange::exclude (common/cidr_range.h): the ranges that cover the     *)
(* addresses of the original ranges without those of the excluded ones.    *)
(* One step is one iteration of the loop over the list `stack`.            *)
(***************************************************************************)
EXTENDS CidrRange, TLC

CONSTANTS
    OriginalLists,  \* the lists exclude() is called with
    ExcludedLists

VARIABLES
    original_ranges, excluded_ranges,   \* the arguments
    stack, done                         \* the local variables

excludeVars == <<original_ranges, excluded_ranges, stack, done>>

\* std::list::sort by operator<.
IsSortedList(list) ==
    \A i, j \in DOMAIN list : i < j => ~RangeLess(list[j], list[i])

Sorted(list) ==
    {[i \in DOMAIN list |-> list[p[i]]] : p \in Permutations(DOMAIN list)}

ExcludeInit ==
    /\ original_ranges \in OriginalLists
    /\ excluded_ranges \in ExcludedLists
    /\ stack \in {l \in Sorted(original_ranges) : IsSortedList(l)}
    /\ done = <<>>

\* The position of the first excluded range that decides the fate of a range.
Concerns(x, range) == contains(x, range) \/ contains(range, x)

FirstConcern(range) ==
    {k \in DOMAIN excluded_ranges :
        /\ Concerns(excluded_ranges[k], range)
        /\ \A j \in 1 .. k - 1 : ~Concerns(excluded_ranges[j], range)}

\* The test for an enclosing excluded range comes first.
Skipped(range) ==
    \E k \in FirstConcern(range) : contains(excluded_ranges[k], range)

Splits(range) ==
    \E k \in FirstConcern(range) :
        /\ ~contains(excluded_ranges[k], range)
        /\ contains(range, excluded_ranges[k])

Skip ==
    /\ stack # <<>>
    /\ Skipped(Head(stack))
    /\ stack' = Tail(stack)
    /\ UNCHANGED <<original_ranges, excluded_ranges, done>>

Split ==
    /\ stack # <<>>
    /\ Splits(Head(stack))
    /\ stack' = IF IsSingle(Head(stack))
                THEN Tail(stack)
                ELSE <<LeftHalf(Head(stack)), RightHalf(Head(stack))>> \o Tail(stack)
    /\ UNCHANGED <<original_ranges, excluded_ranges, done>>

Keep ==
    /\ stack # <<>>
    /\ FirstConcern(Head(stack)) = {}
    /\ stack' = Tail(stack)
    /\ done' = Append(done, Head(stack))
    /\ UNCHANGED <<original_ranges, excluded_ranges>>

ExcludeNext == Skip \/ Split \/ Keep

ExcludeSpec == ExcludeInit /\ [][ExcludeNext]_excludeVars

\* The loop is sequential code: while it has work it takes the next step.
ExcludeFairSpec == ExcludeSpec /\ WF_excludeVars(ExcludeNext)

-----------------------------------------------------------------------------

RangeList(l) == \A i \in DOMAIN l : l[i] \in Ranges

ExcludeTypeOK ==
    /\ RangeList(original_ranges) /\ RangeList(excluded_ranges)
    /\ RangeList(stack) /\ RangeList(done)

\* In every iteration the finished ranges and what is left of the stack cover
\* the addresses to be returned, and a finished range covers no excluded
\* address: the promise in exclude()'s documentation, "resulting ranges that
\* cover all IPs from original ranges excluding all IPs from excluded ranges",
\* when the loop ends.
ExcludeExact ==
    Covered(done) \cup (Covered(stack) \ Covered(excluded_ranges))
        = Covered(original_ranges) \ Covered(excluded_ranges)

\* When the original ranges share no address, no address is returned twice:
\* the halves pushed by a split and the ranges below them stay apart.
Disjoint(l) ==
    \A i, j \in DOMAIN l : i # j => Covered(<<l[i]>>) \cap Covered(<<l[j]>>) = {}

ExcludeDisjoint == Disjoint(original_ranges) => Disjoint(done \o stack)

\* The result is as coarse as possible: a finished range that is not one of the
\* original ranges has an excluded range inside the range it was split from.
Parent(r) == init(r.m_address, r.m_prefix_len - 1)

ExcludeCoarse ==
    \A i \in DOMAIN done :
        \/ \E k \in DOMAIN original_ranges : done[i] = original_ranges[k]
        \/ /\ done[i].m_prefix_len > 0
           /\ \E k \in DOMAIN excluded_ranges :
                 contains(Parent(done[i]), excluded_ranges[k])

\* The loop ends: splitting stops at single addresses at the latest.
ExcludeEnds == <>(stack = <<>>)
=============================================================================
