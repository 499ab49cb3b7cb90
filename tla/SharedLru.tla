------------------------------ MODULE SharedLru ------------------------------
(***************************************************************************)
(* ag::LruCache and ag::LruTimeoutCache used by several threads.  The      *)
(* clients guard the cache with a lock of their own, which the callers of  *)
(* the const get() share; m_guard is there for the list, which get()       *)
(* reorders.  One call of get() is the lookup in the map, the splice under *)
(* m_guard, and the use of the accessor; in an LruTimeoutCache a sweep of  *)
(* the expired entries comes first, entry by entry.                        *)
(***************************************************************************)
EXTENDS Naturals, Sequences, FiniteSets, SequencesExt

CONSTANTS
    Threads,
    SharedKeys,
    ShareExpiring, \* do clients share get() of an LruTimeoutCache too?
    NoThread,
    NoKey,
    SharedCapacity

ASSUME SharedAssumption ==
    /\ NoThread \notin Threads /\ NoKey \notin SharedKeys
    /\ ShareExpiring \in BOOLEAN /\ SharedCapacity \in Nat \ {0}

VARIABLES
    expiring, \* is it an LruTimeoutCache with AUTO_UPDATE?
    list,     \* m_key_values, by key
    mapped,   \* the keys of m_mapped_values
    overdue,  \* the keys whose deadline has passed
    m_guard,  \* the thread that holds the mutex
    call      \* for each thread, where its call stands and the key it is for

sharedVars == <<expiring, list, mapped, overdue, m_guard, call>>

\* due: the entries that update() found to be overdue and has not erased yet.
Idle == [at |-> "idle", op |-> "get", key |-> NoKey, due |-> {}]

\* A cache as insert() leaves it.
SharedInit ==
    /\ expiring \in BOOLEAN
    /\ \E s \in UNION {[1 .. n -> SharedKeys] : n \in 0 .. SharedCapacity} :
          IsInjective(s) /\ list = s /\ mapped = Range(s)
    /\ overdue = {}
    /\ m_guard = NoThread
    /\ call = [t \in Threads |-> Idle]

\* The list without the element that the map has for the key.
Without(s, k) == IF \E i \in DOMAIN s : s[i] = k
                 THEN RemoveAt(s, CHOOSE i \in DOMAIN s : s[i] = k) ELSE s

Goto(t, at) == call' = [call EXCEPT ![t].at = at]

Return(t) == call' = [call EXCEPT ![t] = Idle]

-----------------------------------------------------------------------------
(* The clients' lock *)

Ops == {"get", "insert", "erase", "clear"}

\* The callers of the const get() may share it.
Shares(op) == op = "get" /\ (expiring => ShareExpiring)

MayEnter(op) == \A t \in Threads : call[t] = Idle \/ (Shares(op) /\ Shares(call[t].op))

\* Where the operation goes on when the expired entries are gone.
Body(op) == IF op = "get" THEN "find" ELSE op

\* All but clear() begin with update() in an LruTimeoutCache, which reads the clock once.
BeginCall(t, op, k) ==
    /\ call[t] = Idle
    /\ MayEnter(op)
    /\ call' = [call EXCEPT ![t] =
                  [at |-> IF expiring /\ op # "clear" THEN "sweep" ELSE Body(op),
                   op |-> op, key |-> k, due |-> IF op = "clear" THEN {} ELSE overdue]]
    /\ UNCHANGED <<expiring, list, mapped, overdue, m_guard>>

-----------------------------------------------------------------------------
(* update() *)

\* LruCache::erase of one entry that is overdue, and its deadline.
SweepOne(t, k) ==
    /\ call[t].at = "sweep"
    /\ k \in call[t].due
    /\ m_guard = NoThread
    /\ list' = Without(list, k)
    /\ mapped' = mapped \ {k}
    /\ overdue' = overdue \ {k}
    /\ call' = [call EXCEPT ![t].due = @ \ {k}]
    /\ UNCHANGED <<expiring, m_guard>>

SweepEnd(t) ==
    /\ call[t].at = "sweep"
    /\ call[t].due = {}
    /\ Goto(t, Body(call[t].op))
    /\ UNCHANGED <<expiring, list, mapped, overdue, m_guard>>

-----------------------------------------------------------------------------
(* get() *)

\* The iterator found is used after m_guard has been taken.
FindKey(t) ==
    /\ call[t].at = "find"
    /\ IF call[t].key \in mapped THEN Goto(t, "lock") ELSE Return(t)
    /\ UNCHANGED <<expiring, list, mapped, overdue, m_guard>>

\* Faulty variant: the list is reordered without the mutex.
MayLock_always(t) == TRUE

MayLock(t) == m_guard = NoThread

LockGuard(t) ==
    /\ call[t].at = "lock"
    /\ MayLock(t)
    /\ m_guard' = t
    /\ Goto(t, "splice")
    /\ UNCHANGED <<expiring, list, mapped, overdue>>

\* Splices to the front, and lets the mutex go.
Splice(t) ==
    /\ call[t].at = "splice"
    /\ list' = <<call[t].key>> \o Without(list, call[t].key)
    /\ m_guard' = NoThread
    /\ Goto(t, IF expiring THEN "renew" ELSE "use")
    /\ UNCHANGED <<expiring, mapped, overdue>>

\* The deadline of the entry is set anew.
Renew(t) ==
    /\ call[t].at = "renew"
    /\ overdue' = overdue \ {call[t].key}
    /\ Goto(t, "use")
    /\ UNCHANGED <<expiring, list, mapped, m_guard>>

\* The client is done with the accessor, and releases its lock.
UseAccessor(t) ==
    /\ call[t].at = "use"
    /\ Return(t)
    /\ UNCHANGED <<expiring, list, mapped, overdue, m_guard>>

-----------------------------------------------------------------------------
(* The rest *)

\* insert() of a key: to the front, and the last one goes when there is no room.
SharedInsert(t) ==
    /\ call[t].at = "insert"
    /\ m_guard = NoThread
    /\ LET k == call[t].key
           rest == Without(list, k)
           kept == IF Len(rest) = SharedCapacity THEN Front(rest) ELSE rest
       IN  /\ list' = <<k>> \o kept
           /\ mapped' = {k} \cup Range(kept)
           /\ overdue' = (overdue \cap mapped') \ {k}
    /\ Return(t)
    /\ UNCHANGED <<expiring, m_guard>>

SharedErase(t) ==
    /\ call[t].at = "erase"
    /\ m_guard = NoThread
    /\ list' = Without(list, call[t].key)
    /\ mapped' = mapped \ {call[t].key}
    /\ overdue' = overdue \ {call[t].key}
    /\ Return(t)
    /\ UNCHANGED <<expiring, m_guard>>

SharedClear(t) ==
    /\ call[t].at = "clear"
    /\ m_guard = NoThread
    /\ list' = <<>>
    /\ mapped' = {}
    /\ overdue' = {}
    /\ Return(t)
    /\ UNCHANGED <<expiring, m_guard>>

\* Time passes.
DeadlinePasses(k) ==
    /\ expiring
    /\ k \in mapped \ overdue
    /\ overdue' = overdue \cup {k}
    /\ UNCHANGED <<expiring, list, mapped, m_guard, call>>

SharedStep(t) ==
    \/ \E op \in Ops, k \in SharedKeys : BeginCall(t, op, k)
    \/ \E k \in SharedKeys : SweepOne(t, k)
    \/ SweepEnd(t)
    \/ FindKey(t) \/ LockGuard(t) \/ Splice(t) \/ Renew(t) \/ UseAccessor(t)
    \/ SharedInsert(t) \/ SharedErase(t) \/ SharedClear(t)

SharedNext ==
    \/ \E t \in Threads : SharedStep(t)
    \/ \E k \in SharedKeys : DeadlinePasses(k)

SharedSpec == SharedInit /\ [][SharedNext]_sharedVars

-----------------------------------------------------------------------------

\* "This is guarded with its own mutex to allow clients to share access to the 'const'
\* functions": however the calls of get() interleave, no thread splices or uses an
\* element that is gone, no two of them reorder the list at a time, and map and list
\* agree.
SharedGetSafe ==
    /\ \A t \in Threads : call[t].at \in {"lock", "splice", "renew", "use"} => call[t].key \in mapped
    /\ Cardinality({t \in Threads : call[t].at = "splice"}) <= 1
    /\ mapped = Range(list) /\ IsInjective(list)

-----------------------------------------------------------------------------
(* The inductive invariant *)

GetStages == {"find", "lock", "splice", "renew", "use"}

Calls == [at : GetStages \cup Ops \cup {"idle", "sweep"}, op : Ops,
          key : SharedKeys \cup {NoKey}, due : SUBSET SharedKeys]

SharedTypeOK ==
    /\ expiring \in BOOLEAN
    /\ list \in Seq(SharedKeys) /\ mapped \subseteq SharedKeys /\ overdue \subseteq SharedKeys
    /\ m_guard \in Threads \cup {NoThread}
    /\ call \in [Threads -> Calls]

\* A thread is where its operation can be, and m_guard is held for the splice only.
SharedStages ==
    \A t \in Threads :
        /\ call[t].at = "idle" => call[t] = Idle
        /\ call[t].at # "idle" => call[t].key \in SharedKeys
        /\ call[t].at \in GetStages => call[t].op = "get"
        /\ call[t].at \in Ops => call[t].at = call[t].op /\ call[t].op # "get"
        /\ call[t].at = "sweep" => expiring
        /\ call[t].at = "splice" <=> m_guard = t

\* Two threads are inside only if both share the clients' lock.
SharedLock ==
    \A t, u \in Threads :
        t # u /\ call[t] # Idle /\ call[u] # Idle => Shares(call[t].op) /\ Shares(call[u].op)

\* SharedGetSafe, without what follows from SharedStages.
SharedKept ==
    /\ \A t \in Threads : call[t].at \in {"lock", "splice", "renew", "use"} => call[t].key \in mapped
    /\ mapped = Range(list)
    /\ IsInjective(list)

SharedIInv == SharedTypeOK /\ SharedStages /\ SharedLock /\ SharedKept
=============================================================================
