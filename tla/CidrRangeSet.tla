---------------------------- MODULE CidrRangeSet ----------------------------
(***************************************************************************)
(* CidrRangeSet (common/cidr_range.h): ranges kept in a std::multiset      *)
(* whose comparison treats ranges as equivalent when one contains the      *)
(* other.  That equivalence is not transitive, so the comparison is not a  *)
(* strict weak order over all ranges; the set relies on never holding two  *)
(* nested ones.  m_set is the multiset in iteration order.                 *)
(***************************************************************************)
EXTENDS CidrRange

CONSTANT MaxRanges      \* bound on the size of the set

ASSUME RangeSetAssumption == MaxRanges \in Nat

VARIABLES
    m_set,      \* sequence of ranges
    answer,     \* what the last insert returned, and whether the set included
                \* its argument before
    members     \* ghost: the addresses inserted since the last clear

setVars == <<m_set, answer, members>>

\* Faulty: the set is ordered by operator< itself.
Before_plain(r, q) == RangeLess(r, q)

\* ModifiedLess
Before(r, q) == RangeLess(r, q) /\ ~contains(r, q)

\* The multiset's equal_range, from its first element not before the range to
\* its last element the range is not before.
lower_bound(r) ==
    CHOOSE i \in 1 .. Len(m_set) + 1 :
        /\ i <= Len(m_set) => ~Before(m_set[i], r)
        /\ \A j \in 1 .. i - 1 : Before(m_set[j], r)

upper_bound(r) ==
    CHOOSE i \in 1 .. Len(m_set) + 1 :
        /\ i <= Len(m_set) => Before(r, m_set[i])
        /\ \A j \in 1 .. i - 1 : ~Before(r, m_set[j])

equal_range(r) == lower_bound(r) .. upper_bound(r) - 1

includes(r) == \E i \in equal_range(r) : contains(m_set[i], r)

RangeSetInit ==
    /\ m_set = <<>>
    /\ answer = [returned |-> FALSE, included |-> TRUE]
    /\ members = {}

Answer(r, b) ==
    /\ answer' = [returned |-> b, included |-> includes(r)]
    /\ members' = members \cup Covered(<<r>>)

\* The loop over the equal range erases what the range contains and gives up
\* at the first element that contains the range (and is not contained in it).
GivesUp(r) ==
    {i \in equal_range(r) :
        /\ ~contains(r, m_set[i])
        /\ contains(m_set[i], r)}

insert_refused(r) ==
    /\ GivesUp(r) # {}
    /\ LET stop == CHOOSE i \in GivesUp(r) : \A j \in GivesUp(r) : i <= j
       IN  m_set' = SubSeq(m_set, 1, lower_bound(r) - 1) \o SubSeq(m_set, stop, Len(m_set))
    /\ Answer(r, FALSE)

\* Otherwise the whole equal range is erased and the range put before eqr_end.
insert(r) ==
    /\ GivesUp(r) = {}
    /\ m_set' = SubSeq(m_set, 1, lower_bound(r) - 1) \o <<r>>
                    \o SubSeq(m_set, upper_bound(r), Len(m_set))
    /\ Len(m_set') <= MaxRanges
    /\ Answer(r, TRUE)

clear_ranges ==
    /\ m_set' = <<>>
    /\ members' = {}
    /\ UNCHANGED answer

RangeSetNext ==
    \/ \E r \in Ranges : insert(r) \/ insert_refused(r)
    \/ clear_ranges

RangeSetSpec == RangeSetInit /\ [][RangeSetNext]_setVars

-----------------------------------------------------------------------------

RangeSetTypeOK ==
    /\ m_set \in Seq(Ranges) /\ Len(m_set) <= MaxRanges
    /\ answer \in [returned : BOOLEAN, included : BOOLEAN]
    /\ members \subseteq Addresses

\* The set holds no two nested ranges, whatever the order of the insertions:
\* what the comment above ModifiedLess needs to be true of the multiset.
Antichain ==
    \A i, j \in DOMAIN m_set : i # j => ~contains(m_set[i], m_set[j])

\* For every range that can be asked for, the elements before it, equivalent to
\* it and after it follow each other in this order, so that the search of the
\* multiset's tree finds the equal range although the comparison is not a
\* strict weak order.
Partitioned ==
    \A r \in Ranges : \A i, j \in DOMAIN m_set : i < j =>
        /\ Before(m_set[j], r) => Before(m_set[i], r)
        /\ Before(r, m_set[i]) => Before(r, m_set[j])

\* includes() searches the equal range only, and answers as a search of the
\* whole set would ("contains some range n for which n.contains(range) holds").
IncludesExact ==
    \A r \in Ranges : includes(r) <=> \E i \in DOMAIN m_set : contains(m_set[i], r)

\* The set's ranges hold exactly the addresses inserted since the last clear():
\* what the loop of insert() erases was inside the new range, and a refused
\* range was inside an old one.
MembersExact == Covered(m_set) = members

\* insert()'s documentation: "If the set does not include `range`, insert
\* `range` into the set and return `true`. Otherwise, return `false`".
InsertAnswer == answer.returned = ~answer.included
=============================================================================
