--------------------------- MODULE LruTimeoutCache ---------------------------
(***************************************************************************)
(* ag::LruCache and its subclass ag::LruTimeoutCache: a list in order of   *)
(* use with a map over it, and a multimap of deadlines with a second map   *)
(* over that.  The four have to agree after every operation, inherited     *)
(* ones included.                                                          *)
(*                                                                         *)
(* The base class is a record of its members; an iterator is the element   *)
(* it points at.                                                           *)
(***************************************************************************)
EXTENDS Naturals, Sequences, FiniteSets, SequencesExt

CONSTANTS
    Keys, Values,
    Timeouts,    \* timeouts passed to insert()
    Capacities,  \* capacities passed to the constructor and to set_capacity()
    MaxTime      \* bound: the clock

ASSUME CacheAssumption ==
    /\ Timeouts \subseteq Nat /\ Capacities \subseteq Nat
    /\ MaxTime \in Nat

VARIABLES
    lru,                  \* the base class: m_key_values, m_mapped_values, m_capacity
    m_timeout_keys,       \* std::multimap<TimePoint, TimeoutKey>: a set of [at, to, k]
    m_keys_timeout_iters, \* Key -> element of m_timeout_keys
    AUTO_UPDATE,
    shrinks,              \* may set_capacity() find more entries than the new capacity?
    now                   \* the steady clock

vars == <<lru, m_timeout_keys, m_keys_timeout_iters, AUTO_UPDATE, shrinks, now>>

Init ==
    /\ \E n \in Capacities :
          lru = [m_key_values |-> <<>>, m_mapped_values |-> {}, m_capacity |-> n]
    /\ m_timeout_keys = {}
    /\ m_keys_timeout_iters = <<>>
    /\ AUTO_UPDATE \in BOOLEAN
    /\ shrinks \in BOOLEAN
    /\ now = 0

----------------------------------------------------------------------------
(* LruCache: each operation as a function of the object *)

Drop(list, k) == SelectSeq(list, LAMBDA e : e.k # k)
Find(list, k) == SelectSeq(list, LAMBDA e : e.k = k)

\* Splices the element of key k to the front.
Touch(c, k) == [c EXCEPT !.m_key_values = Find(@, k) \o Drop(@, k)]

PopBack(c) ==
    [c EXCEPT !.m_mapped_values = @ \ {Last(c.m_key_values).k},
              !.m_key_values = Front(@)]

Full(c, k) == k \notin c.m_mapped_values /\ Len(c.m_key_values) = c.m_capacity

\* The caller hears of the evicted key through on_key_evicted.
LruInsert(c, k, v) ==
    IF k \in c.m_mapped_values
    THEN [c EXCEPT !.m_key_values = <<[k |-> k, v |-> v]>> \o Drop(@, k)]
    ELSE LET d == IF Full(c, k) THEN PopBack(c) ELSE c
         IN  [d EXCEPT !.m_key_values = <<[k |-> k, v |-> v]>> \o @,
                       !.m_mapped_values = @ \cup {k}]

LruGet(c, k) == IF k \in c.m_mapped_values THEN Touch(c, k) ELSE c

LruErase(c, k) ==
    IF k \in c.m_mapped_values
    THEN [c EXCEPT !.m_key_values = Drop(@, k), !.m_mapped_values = @ \ {k}]
    ELSE c

LruEraseAll(c, ks) ==
    [c EXCEPT !.m_key_values = SelectSeq(@, LAMBDA e : e.k \notin ks \cap c.m_mapped_values),
              !.m_mapped_values = @ \ ks]

----------------------------------------------------------------------------
(* LruTimeoutCache: the two indices of deadlines, as a pair *)

Deadlines == [tk |-> m_timeout_keys, it |-> m_keys_timeout_iters]

\* Faulty variant: the multimap keeps the deadline.
Forget_iterator_only(d, k) ==
    [d EXCEPT !.it = [x \in DOMAIN d.it \ {k} |-> d.it[x]]]

\* Erases the entry of key k from both indices.
Forget(d, k) ==
    IF k \in DOMAIN d.it
    THEN [tk |-> d.tk \ {d.it[k]}, it |-> [x \in DOMAIN d.it \ {k} |-> d.it[x]]]
    ELSE d

Arm(d, k, to) ==
    LET e == [at |-> now + to, to |-> to, k |-> k]
    IN  [tk |-> d.tk \cup {e}, it |-> [x \in DOMAIN d.it \cup {k} |-> IF x = k THEN e ELSE d.it[x]]]

\* Faulty variant: upper_bound(now).
Expired_upper_bound(d) == {e \in d.tk : e.at <= now}

\* update(): lower_bound(now) is the first deadline that has not passed.
Expired(d) == {e \in d.tk : e.at < now}
Swept(d) ==
    LET ks == {e.k : e \in Expired(d)}
    IN  [tk |-> d.tk \ Expired(d), it |-> [x \in DOMAIN d.it \ ks |-> d.it[x]]]
SweptLru(c, d) == LruEraseAll(c, {e.k : e \in Expired(d)})

\* The state the operation starts from: update() comes first if AUTO_UPDATE.
StartLru == IF AUTO_UPDATE THEN SweptLru(lru, Deadlines) ELSE lru
StartDeadlines == IF AUTO_UPDATE THEN Swept(Deadlines) ELSE Deadlines

Become(c, d) ==
    /\ lru' = c
    /\ m_timeout_keys' = d.tk
    /\ m_keys_timeout_iters' = d.it
    /\ UNCHANGED <<AUTO_UPDATE, shrinks, now>>

\* on_key_evicted(): the deadline of the key that made room for k goes.
Evict(c, k, d) == IF Full(c, k) THEN Forget(d, Last(c.m_key_values).k) ELSE d

insert(k, v, to, preserve_longer_timeout) ==
    LET c == StartLru
        d == StartDeadlines
        t == IF /\ preserve_longer_timeout /\ k \in DOMAIN d.it /\ d.it[k].to > to
             THEN d.it[k].to ELSE to
    IN  /\ c.m_capacity > 0      \* assert(m_capacity > 0)
        /\ Become(LruInsert(c, k, v), Evict(c, k, Arm(Forget(d, k), k, t)))

get(k) ==
    LET c == StartLru
        d == StartDeadlines
    IN  Become(LruGet(c, k),
               IF k \in c.m_mapped_values THEN Arm(Forget(d, k), k, d.it[k].to) ELSE d)

erase(k) == Become(LruErase(StartLru, k), Forget(StartDeadlines, k))

update == Become(SweptLru(lru, Deadlines), Swept(Deadlines))

clear ==
    Become([lru EXCEPT !.m_key_values = <<>>, !.m_mapped_values = {}], [tk |-> {}, it |-> <<>>])

\* Inherited: the accessor is one that get() has just returned.
make_lru(k) ==
    /\ k \in lru.m_mapped_values
    /\ lru' = [lru EXCEPT !.m_key_values = Drop(@, k) \o Find(@, k)]
    /\ UNCHANGED <<m_timeout_keys, m_keys_timeout_iters, AUTO_UPDATE, shrinks, now>>

\* Inherited: it drops entries without telling on_key_evicted.
set_capacity(max_size) ==
    LET kept == SubSeq(lru.m_key_values, 1,
                       IF max_size < Cardinality(lru.m_mapped_values) THEN max_size
                       ELSE Len(lru.m_key_values))
    IN  /\ max_size < Cardinality(lru.m_mapped_values) => shrinks
        /\ lru' = [m_key_values |-> kept,
                   m_mapped_values |-> lru.m_mapped_values \cap {kept[i].k : i \in DOMAIN kept},
                   m_capacity |-> max_size]
        /\ UNCHANGED <<m_timeout_keys, m_keys_timeout_iters, AUTO_UPDATE, shrinks, now>>

Tick ==
    /\ now < MaxTime
    /\ now' = now + 1
    /\ UNCHANGED <<lru, m_timeout_keys, m_keys_timeout_iters, AUTO_UPDATE, shrinks>>

Next ==
    \/ \E k \in Keys :
          \/ \E v \in Values, to \in Timeouts, longer \in BOOLEAN : insert(k, v, to, longer)
          \/ get(k)
          \/ erase(k)
          \/ make_lru(k)
    \/ update
    \/ clear
    \/ \E n \in Capacities : set_capacity(n)
    \/ Tick

Spec == Init /\ [][Next]_vars

----------------------------------------------------------------------------
(* Properties *)

KeysOf(list) == {list[i].k : i \in DOMAIN list}

TypeOK ==
    /\ lru.m_key_values \in Seq([k : Keys, v : Values])
    /\ lru.m_mapped_values \subseteq Keys
    /\ lru.m_capacity \in Capacities
    /\ m_timeout_keys \subseteq [at : 0 .. MaxTime + 10, to : Timeouts, k : Keys]
    /\ DOMAIN m_keys_timeout_iters \subseteq Keys

\* The map and the list of LruCache hold the same keys, each once, and no more than
\* the capacity: an eviction that forgot one of them would leave a dangling iterator.
MapMatchesList ==
    /\ lru.m_mapped_values = KeysOf(lru.m_key_values)
    /\ Cardinality(lru.m_mapped_values) = Len(lru.m_key_values)
    /\ Len(lru.m_key_values) <= lru.m_capacity

\* Every iterator kept for a key points at that key's only deadline, and every
\* cached key has one (the assert in get()): no operation leaves an iterator to an
\* erased deadline, or a deadline that would later erase a fresh entry.
DeadlinesMatchKeys ==
    /\ lru.m_mapped_values \subseteq DOMAIN m_keys_timeout_iters
    /\ {m_keys_timeout_iters[k] : k \in DOMAIN m_keys_timeout_iters} = m_timeout_keys
    /\ \A k \in DOMAIN m_keys_timeout_iters : m_keys_timeout_iters[k].k = k

\* The bookkeeping does not outgrow the cache ("DoesNotLeak": size() equals the size
\* of m_timeout_keys and of m_keys_timeout_iters).
LeaksNothing ==
    /\ Cardinality(m_timeout_keys) = Cardinality(lru.m_mapped_values)
    /\ Cardinality(DOMAIN m_keys_timeout_iters) = Cardinality(lru.m_mapped_values)

\* ... as long as set_capacity() did not have to drop entries.
NoLeak == ~shrinks => LeaksNothing

\* "0 means default capacity" (128 entries): the capacity is never zero.
ZeroIsDefault == lru.m_capacity > 0

\* The four containers together behave as one list of entries with deadlines.
Abstract == INSTANCE ExpiringLru WITH
    entries <- [i \in DOMAIN lru.m_key_values |->
                  [k  |-> lru.m_key_values[i].k,
                   v  |-> lru.m_key_values[i].v,
                   to |-> m_keys_timeout_iters[lru.m_key_values[i].k].to,
                   at |-> m_keys_timeout_iters[lru.m_key_values[i].k].at]],
    capacity <- lru.m_capacity,
    auto <- AUTO_UPDATE
ImplementsExpiringLru == Abstract!Spec
=============================================================================
