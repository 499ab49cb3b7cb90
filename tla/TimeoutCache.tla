----------------------------- MODULE TimeoutCache -----------------------------
(***************************************************************************)
(* ag::TimeoutCache: entries with a constant time to live, newest first,   *)
(* with a map over the list.  Nothing sweeps it: an entry goes when it is  *)
(* asked for too late, or when a full cache makes room.                    *)
(***************************************************************************)
EXTENDS Naturals, Sequences, FiniteSets, SequencesExt

CONSTANTS
    TtlKeys, TtlValues,
    TIMEOUT,
    CAPACITY,   \* 0 means unlimited
    MaxTtlTime     \* bound: the clock

ASSUME TimeoutCacheAssumption == TIMEOUT \in Nat /\ CAPACITY \in Nat /\ MaxTtlTime \in Nat

VARIABLES
    m_entries,           \* std::list<Entry>, newest first
    m_entry_iter_by_key, \* the keys that have an iterator into m_entries
    returned,            \* what the last get() returned: {} for nullptr
    called,              \* the operation called last
    ttl_now

ttlVars == <<m_entries, m_entry_iter_by_key, returned, called, ttl_now>>

TtlInit ==
    /\ m_entries = <<>>
    /\ m_entry_iter_by_key = {}
    /\ returned = {}
    /\ called = "none"
    /\ ttl_now = 0

DropEntry(k) == SelectSeq(m_entries, LAMBDA e : e.key # k)
EntryOf(k) == SelectSeq(m_entries, LAMBDA e : e.key = k)[1]

IsFull == CAPACITY # 0 /\ Cardinality(m_entry_iter_by_key) = CAPACITY

KeysLeft == IF IsFull THEN m_entry_iter_by_key \ {Last(m_entries).key} ELSE m_entry_iter_by_key

NewEntry(k, v) == [key |-> k, value |-> v, expires |-> ttl_now + TIMEOUT]
Placed(e, rest) == <<e>> \o rest

\* A full cache drops its oldest entry first, even if the key is already in it.
ttl_insert(k, v) ==
    LET list == IF IsFull THEN Front(m_entries) ELSE m_entries
        keys == KeysLeft
        rest == IF k \in keys THEN SelectSeq(list, LAMBDA e : e.key # k) ELSE list
    IN  /\ m_entries' = Placed(NewEntry(k, v), rest)
        /\ m_entry_iter_by_key' = keys \cup {k}
        /\ returned' = {}
        /\ called' = "insert"
        /\ UNCHANGED ttl_now

\* Faulty variant: one tick early.
TimedOut_early(e) == ttl_now + 1 >= e.expires

TimedOut(e) == ttl_now >= e.expires

ttl_get(k) ==
    /\ IF k \notin m_entry_iter_by_key
         THEN returned' = {} /\ UNCHANGED <<m_entries, m_entry_iter_by_key>>
         ELSE IF TimedOut(EntryOf(k))
         THEN /\ m_entries' = DropEntry(k)
              /\ m_entry_iter_by_key' = m_entry_iter_by_key \ {k}
              /\ returned' = {}
         ELSE returned' = {EntryOf(k)} /\ UNCHANGED <<m_entries, m_entry_iter_by_key>>
    /\ called' = "get"
    /\ UNCHANGED ttl_now

ttl_erase(k) ==
    /\ k \in m_entry_iter_by_key
    /\ m_entries' = DropEntry(k)
    /\ m_entry_iter_by_key' = m_entry_iter_by_key \ {k}
    /\ returned' = {}
    /\ called' = "erase"
    /\ UNCHANGED ttl_now

ttl_clear ==
    /\ m_entries' = <<>>
    /\ m_entry_iter_by_key' = {}
    /\ returned' = {}
    /\ called' = "clear"
    /\ UNCHANGED ttl_now

\* The pointer get() returned is not used across calls.
TtlTick ==
    /\ ttl_now < MaxTtlTime
    /\ ttl_now' = ttl_now + 1
    /\ called' = "none"
    /\ returned' = {}
    /\ UNCHANGED <<m_entries, m_entry_iter_by_key>>

TtlNext ==
    \/ \E k \in TtlKeys : (\E v \in TtlValues : ttl_insert(k, v)) \/ ttl_get(k) \/ ttl_erase(k)
    \/ ttl_clear
    \/ TtlTick

TtlSpec == TtlInit /\ [][TtlNext]_ttlVars

----------------------------------------------------------------------------
(* Properties *)

TtlTypeOK ==
    /\ m_entries \in Seq([key : TtlKeys, value : TtlValues, expires : 0 .. MaxTtlTime + TIMEOUT])
    /\ m_entry_iter_by_key \subseteq TtlKeys
    /\ ttl_now \in 0 .. MaxTtlTime

\* The list and the map agree, key by key, and hold at most CAPACITY entries.
TtlMapMatchesList ==
    /\ {m_entries[i].key : i \in DOMAIN m_entries} = m_entry_iter_by_key
    /\ Len(m_entries) = Cardinality(m_entry_iter_by_key)
    /\ CAPACITY # 0 => Len(m_entries) <= CAPACITY

\* "Newer entries go to the front": the list stays sorted by expiry even when an
\* entry is refreshed, so the entry a full cache gives up is the next to expire.
NewestFirst ==
    \A i, j \in DOMAIN m_entries : i < j => m_entries[i].expires >= m_entries[j].expires

\* get() never returns an entry whose time is over, and leaves none behind.
NoExpiredResult ==
    /\ \A e \in returned : ttl_now < e.expires
    /\ \A e \in returned : \E i \in DOMAIN m_entries : m_entries[i] = e

\* An entry goes before its time only by erase(), clear(), a new value for its key,
\* or because the cache was full and it was the oldest.
KeptUntilExpiry ==
    [][\A i \in DOMAIN m_entries :
         LET e == m_entries[i]
             gone == \A j \in DOMAIN m_entries' : m_entries'[j].key # e.key
         IN  gone /\ ttl_now < e.expires
               => \/ called' \in {"erase", "clear"}
                  \/ i = Len(m_entries) /\ Len(m_entries) = CAPACITY]_ttlVars
=============================================================================
