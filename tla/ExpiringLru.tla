----------------------------- MODULE ExpiringLru -----------------------------
(***************************************************************************)
(* What LruTimeoutCache promises: one list of entries, the most recently   *)
(* used first, each with its deadline.  Using an entry puts it first and   *)
(* renews its deadline, an expired entry goes, and a full cache drops the  *)
(* last entry for a new one.                                               *)
(***************************************************************************)
EXTENDS Naturals, Sequences

CONSTANTS Keys, Values, Timeouts, Capacities

VARIABLES
    entries,   \* sequence of [k, v, to, at]: key, value, timeout, deadline
    capacity,
    auto,      \* does every access first drop what has expired?
    now

absVars == <<entries, capacity, auto, now>>

Init == entries = <<>> /\ capacity \in Capacities /\ auto \in BOOLEAN /\ now = 0

Without(s, k) == SelectSeq(s, LAMBDA e : e.k # k)
With(s, k) == SelectSeq(s, LAMBDA e : e.k = k)
Live(s) == SelectSeq(s, LAMBDA e : e.at >= now)
Truncate(s, n) == SubSeq(s, 1, IF Len(s) < n THEN Len(s) ELSE n)

Start == IF auto THEN Live(entries) ELSE entries

Put(s, k, v, to) ==
    /\ entries' = Truncate(<<[k |-> k, v |-> v, to |-> to, at |-> now + to]>> \o Without(s, k), capacity)
    /\ UNCHANGED <<capacity, auto, now>>

Insert(k, v, to, preserve) ==
    LET s == Start
        old == With(s, k)
    IN  Put(s, k, v, IF preserve /\ old # <<>> /\ old[1].to > to THEN old[1].to ELSE to)

Use(k) ==
    LET s == Start
        old == With(s, k)
    IN  IF old = <<>> THEN entries' = s /\ UNCHANGED <<capacity, auto, now>>
        ELSE Put(s, k, old[1].v, old[1].to)

MakeLast(k) ==
    /\ With(entries, k) # <<>>
    /\ entries' = Without(entries, k) \o With(entries, k)
    /\ UNCHANGED <<capacity, auto, now>>

Remove(k) == entries' = Without(Start, k) /\ UNCHANGED <<capacity, auto, now>>
Expire == entries' = Live(entries) /\ UNCHANGED <<capacity, auto, now>>
Clear == entries' = <<>> /\ UNCHANGED <<capacity, auto, now>>
Resize(n) == capacity' = n /\ entries' = Truncate(entries, n) /\ UNCHANGED <<auto, now>>
Tick == now' = now + 1 /\ UNCHANGED <<entries, capacity, auto>>

Next ==
    \/ \E k \in Keys :
          \/ \E v \in Values, to \in Timeouts, preserve \in BOOLEAN : Insert(k, v, to, preserve)
          \/ Use(k) \/ MakeLast(k) \/ Remove(k)
    \/ Expire \/ Clear \/ Tick
    \/ \E n \in Capacities : Resize(n)

Spec == Init /\ [][Next]_absVars
=============================================================================
