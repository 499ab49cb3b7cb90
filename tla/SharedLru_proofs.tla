-------------------------- MODULE SharedLru_proofs --------------------------
(***************************************************************************)
(* Any number of threads may share an LruCache of any capacity for         *)
(* reading: the proof that get() is safe, as long as the clients do not    *)
(* share an LruTimeoutCache.                                               *)
(***************************************************************************)
EXTENDS SharedLru, FiniteSetTheorems, SequenceTheorems, TLAPS

-----------------------------------------------------------------------------
(* The list *)

\* Removing an element of a list leaves the others, each of them once.
LEMMA WithoutProperties ==
    ASSUME NEW S, NEW s \in Seq(S), NEW k, IsInjective(s)
    PROVE  /\ Without(s, k) \in Seq(S)
           /\ IsInjective(Without(s, k))
           /\ Range(Without(s, k)) = Range(s) \ {k}
<1>1. CASE \E i \in DOMAIN s : s[i] = k
  <2>. DEFINE j == CHOOSE i \in DOMAIN s : s[i] = k
              w == SubSeq(s, 1, j - 1) \o SubSeq(s, j + 1, Len(s))
  <2>1. j \in 1 .. Len(s) /\ s[j] = k
    BY <1>1
  <2>2. Without(s, k) = w
    BY <1>1 DEF Without, RemoveAt
  <2>. HIDE DEF j
  <2>3. /\ w \in Seq(S) /\ Len(w) = Len(s) - 1 /\ DOMAIN w = 1 .. Len(s) - 1
        /\ \A i \in 1 .. Len(s) - 1 : w[i] = IF i < j THEN s[i] ELSE s[i + 1]
    <3>. DEFINE u == SubSeq(s, 1, j - 1)
                v == SubSeq(s, j + 1, Len(s))
    <3>1. /\ u \in Seq(S) /\ Len(u) = j - 1
          /\ \A i \in 1 .. j - 1 : u[i] = s[i]
      BY <2>1, SubSeqProperties
    <3>2. /\ v \in Seq(S) /\ Len(v) = Len(s) - j
          /\ \A i \in 1 .. Len(s) - j : v[i] = s[j + i]
      BY <2>1, SubSeqProperties
    <3>. HIDE DEF u, v
    <3>3. Len(u) + Len(v) = Len(s) - 1
      BY <2>1, <3>1, <3>2
    <3>4. /\ u \o v \in Seq(S)
          /\ Len(u \o v) = Len(u) + Len(v)
          /\ \A i \in 1 .. Len(u) + Len(v) :
                (u \o v)[i] = IF i <= Len(u) THEN u[i] ELSE v[i - Len(u)]
      BY <3>1, <3>2, ConcatProperties
    <3>5. ASSUME NEW i \in 1 .. Len(s) - 1
          PROVE  (u \o v)[i] = IF i < j THEN s[i] ELSE s[i + 1]
      <4>1. (u \o v)[i] = IF i <= Len(u) THEN u[i] ELSE v[i - Len(u)]
        BY <3>3, <3>4
      <4>2. CASE i < j
        BY <2>1, <3>1, <4>1, <4>2
      <4>3. CASE i >= j
        <5>1. i - Len(u) \in 1 .. Len(s) - j /\ j + (i - Len(u)) = i + 1 /\ ~(i <= Len(u))
          BY <2>1, <3>1, <4>3
        <5>2. (u \o v)[i] = v[i - Len(u)]
          BY <4>1, <5>1
        <5>3. v[i - Len(u)] = s[j + (i - Len(u))]
          BY <3>2, <5>1
        <5>4. ~(i < j)
          BY <2>1, <4>3
        <5>. QED
          BY <5>1, <5>2, <5>3, <5>4
      <4>4. i < j \/ i >= j
        BY <2>1
      <4>. QED
        BY <4>2, <4>3, <4>4
    <3>6. w = u \o v
      BY DEF u, v
    <3>. HIDE DEF w
    <3>. QED
      BY <3>3, <3>4, <3>5, <3>6
  <2>. HIDE DEF w
  <2>4. IsInjective(w)
    <3>1. SUFFICES ASSUME NEW x \in 1 .. Len(s) - 1, NEW y \in 1 .. Len(s) - 1, w[x] = w[y]
                   PROVE  x = y
      BY <2>3 DEF IsInjective
    <3>. DEFINE at(i) == IF i < j THEN i ELSE i + 1
    <3>2. \A i \in 1 .. Len(s) - 1 : at(i) \in 1 .. Len(s) /\ w[i] = s[at(i)]
      BY <2>1, <2>3
    <3>. HIDE DEF at
    <3>3. at(x) \in DOMAIN s /\ at(y) \in DOMAIN s /\ s[at(x)] = s[at(y)]
      BY <3>1, <3>2
    <3>4. at(x) = at(y)
      BY <3>3 DEF IsInjective
    <3>. QED
      BY <2>1, <3>4 DEF at
  <2>5. \A i \in DOMAIN w : w[i] \in Range(s) \ {k}
    BY <2>1, <2>3 DEF IsInjective, Range
  <2>6. \A x \in DOMAIN s : s[x] # k => \E i \in DOMAIN w : w[i] = s[x]
    <3>1. SUFFICES ASSUME NEW x \in 1 .. Len(s), x # j PROVE \E i \in DOMAIN w : w[i] = s[x]
      BY <2>1
    <3>2. CASE x < j
      BY <2>1, <2>3, <3>1, <3>2
    <3>3. CASE x > j
      <4>1. x - 1 \in DOMAIN w /\ w[x - 1] = s[x]
        BY <2>1, <2>3, <3>1, <3>3
      <4>. QED
        BY <4>1
    <3>. QED
      BY <2>1, <3>1, <3>2, <3>3
  <2>. QED
    BY <2>2, <2>3, <2>4, <2>5, <2>6 DEF Range
<1>2. CASE ~ \E i \in DOMAIN s : s[i] = k
  BY <1>2 DEF Without, Range
<1>. QED
  BY <1>1, <1>2

\* So does removing the last one.
LEMMA FrontInjective ==
    ASSUME NEW S, NEW s \in Seq(S), s # <<>>, IsInjective(s)
    PROVE  /\ Front(s) \in Seq(S) /\ IsInjective(Front(s))
           /\ Range(Front(s)) \subseteq Range(s)
<1>0. Len(s) \in Nat /\ Len(s) > 0 /\ \A i \in 1 .. Len(s) - 1 : s[i] \in S
  OBVIOUS
<1>1. /\ Front(s) \in Seq(S) /\ Len(Front(s)) = Len(s) - 1
      /\ \A i \in 1 .. Len(s) - 1 : Front(s)[i] = s[i]
  <2>. DEFINE n == Len(s) - 1
  <2>1. n \in Nat /\ \A i \in 1 .. n : s[i] \in S
    BY <1>0
  <2>. HIDE DEF n
  <2>2. /\ SubSeq(s, 1, n) \in Seq(S) /\ Len(SubSeq(s, 1, n)) = n
        /\ \A i \in 1 .. n : SubSeq(s, 1, n)[i] = s[i]
    BY <2>1, SubSeqProperties
  <2>. QED
    BY <2>2 DEF Front, n
<1>2. DOMAIN Front(s) = 1 .. Len(s) - 1 /\ DOMAIN s = 1 .. Len(s)
  BY <1>0, <1>1
<1>3. \A i \in DOMAIN Front(s) : i \in DOMAIN s /\ Front(s)[i] = s[i]
  BY <1>0, <1>1, <1>2
<1>4. IsInjective(Front(s))
  BY <1>3 DEF IsInjective
<1>5. Range(Front(s)) \subseteq Range(s)
  BY <1>3 DEF Range
<1>. QED
  BY <1>1, <1>4, <1>5

\* An element that is not in the list may be put in front of it.
LEMMA PushFront ==
    ASSUME NEW S, NEW s \in Seq(S), IsInjective(s), NEW k \in S,
           k \notin Range(s)
    PROVE  /\ <<k>> \o s \in Seq(S) /\ IsInjective(<<k>> \o s)
           /\ Range(<<k>> \o s) = {k} \cup Range(s)
<1>. DEFINE w == <<k>> \o s
<1>1. /\ w \in Seq(S) /\ DOMAIN w = 1 .. Len(s) + 1 /\ w[1] = k
      /\ \A i \in 1 .. Len(s) : w[i + 1] = s[i]
  OBVIOUS
<1>2. \A i \in DOMAIN w : i = 1 \/ (i - 1 \in DOMAIN s /\ w[i] = s[i - 1])
  BY <1>1
<1>. HIDE DEF w
<1>3. IsInjective(w)
  BY <1>1, <1>2 DEF IsInjective, Range
<1>4. Range(w) = {k} \cup Range(s)
  <2>1. \A i \in DOMAIN s : i + 1 \in DOMAIN w /\ w[i + 1] = s[i]
    BY <1>1
  <2>4. \A i \in DOMAIN s : \E x \in DOMAIN w : w[x] = s[i]
    BY <2>1
  <2>2. \A i \in DOMAIN w : w[i] \in {k} \cup Range(s)
    BY <1>1, <1>2 DEF Range
  <2>3. 1 \in DOMAIN w
    BY <1>1
  <2>5. Range(w) \subseteq {k} \cup Range(s)
    BY <2>2 DEF Range
  <2>6. {k} \cup Range(s) \subseteq Range(w)
    BY <1>1, <2>3, <2>4 DEF Range
  <2>. QED
    BY <2>5, <2>6
<1>. QED
  BY <1>1, <1>3, <1>4 DEF w

-----------------------------------------------------------------------------
(* The actions *)

LEMMA SharedInitInv == SharedInit => SharedIInv
<1>1. SUFFICES ASSUME SharedInit PROVE SharedIInv
  OBVIOUS
<1>2. call = [t \in Threads |-> Idle] /\ m_guard = NoThread /\ overdue = {} /\ expiring \in BOOLEAN
  BY <1>1 DEF SharedInit
<1>3. PICK n \in 0 .. SharedCapacity :
         /\ list \in [1 .. n -> SharedKeys]
         /\ IsInjective(list) /\ mapped = Range(list)
  BY <1>1 DEF SharedInit
<1>4. list \in Seq(SharedKeys)
  BY <1>3, SharedAssumption, SeqDef
<1>5. SharedTypeOK
  BY <1>2, <1>3, <1>4 DEF Range, SharedTypeOK, Calls, GetStages, Ops, Idle
<1>6. SharedStages /\ SharedLock
  BY <1>2, SharedAssumption DEF SharedStages, SharedLock, Idle, GetStages, Ops
<1>7. SharedKept
  BY <1>2, <1>3 DEF SharedKept, Idle
<1>. QED
  BY <1>5, <1>6, <1>7 DEF SharedIInv

LEMMA BeginCallInv ==
    ASSUME SharedIInv, NEW t \in Threads, NEW op \in Ops, NEW k \in SharedKeys, BeginCall(t, op, k)
    PROVE  SharedIInv'
<1>. DEFINE c == [at |-> IF expiring /\ op # "clear" THEN "sweep" ELSE Body(op),
                  op |-> op, key |-> k, due |-> IF op = "clear" THEN {} ELSE overdue]
<1>1. /\ call[t] = Idle /\ MayEnter(op) /\ call' = [call EXCEPT ![t] = c]
      /\ UNCHANGED <<expiring, list, mapped, overdue, m_guard>>
      /\ call \in [Threads -> Calls]
  BY DEF BeginCall, SharedIInv, SharedTypeOK
<1>2. /\ c \in Calls /\ c # Idle /\ c.key = k /\ c.op = op /\ c.at # "idle" /\ c.at # "splice"
      /\ c.at \notin {"lock", "renew", "use"}
      /\ c.at = "sweep" => expiring
      /\ c.at \in GetStages => op = "get"
      /\ c.at \in Ops => c.at = op /\ op # "get"
  BY DEF SharedIInv, SharedTypeOK, Calls, Body, Ops, GetStages, Idle
<1>. HIDE DEF c
<1>3. call'[t] = c /\ \A u \in Threads \ {t} : call'[u] = call[u]
  BY <1>1
<1>4. SharedTypeOK'
  BY <1>1, <1>2 DEF SharedIInv, SharedTypeOK
<1>5. SharedStages'
  <2>1. m_guard # t
    BY <1>1 DEF SharedIInv, SharedStages, Idle
  <2>. QED
    BY <1>1, <1>2, <1>3, <2>1 DEF SharedIInv, SharedStages
<1>6. SharedLock'
  BY <1>1, <1>2, <1>3 DEF SharedIInv, SharedLock, MayEnter, Shares
<1>7. SharedKept'
  BY <1>1, <1>2, <1>3 DEF SharedIInv, SharedKept
<1>. QED
  BY <1>4, <1>5, <1>6, <1>7 DEF SharedIInv

\* Whoever is in an operation that does not share the clients' lock is alone.
LEMMA Alone ==
    ASSUME SharedIInv, NEW t \in Threads, call[t].at # "idle", ~Shares(call[t].op)
    PROVE  \A u \in Threads \ {t} : call[u] = Idle
  BY DEF SharedIInv, SharedLock, Idle

\* WithoutProperties for the list of the cache.
LEMMA WithoutKept ==
    ASSUME SharedIInv, NEW k
    PROVE  /\ Without(list, k) \in Seq(SharedKeys) /\ IsInjective(Without(list, k))
           /\ Range(Without(list, k)) = mapped \ {k}
<1>1. list \in Seq(SharedKeys) /\ IsInjective(list) /\ mapped = Range(list)
  BY DEF SharedIInv, SharedTypeOK, SharedKept
<1>2. \A s \in Seq(SharedKeys) : IsInjective(s) =>
         /\ Without(s, k) \in Seq(SharedKeys) /\ IsInjective(Without(s, k))
         /\ Range(Without(s, k)) = Range(s) \ {k}
  BY WithoutProperties
<1>. QED
  BY <1>1, <1>2

\* Only a thread that is alone sweeps, as long as an LruTimeoutCache is not shared.
LEMMA SweepOneInv ==
    ASSUME ~ShareExpiring, SharedIInv, NEW t \in Threads, NEW k \in SharedKeys, SweepOne(t, k)
    PROVE  SharedIInv'
<1>1. /\ call[t].at = "sweep" /\ call' = [call EXCEPT ![t].due = @ \ {k}]
      /\ list' = Without(list, k) /\ mapped' = mapped \ {k} /\ overdue' = overdue \ {k}
      /\ UNCHANGED <<expiring, m_guard>> /\ call \in [Threads -> Calls] /\ expiring
  BY DEF SweepOne, SharedIInv, SharedTypeOK, SharedStages
<1>2. \A u \in Threads \ {t} : call[u] = Idle
  BY <1>1, Alone DEF Shares
<1>3. /\ list' \in Seq(SharedKeys) /\ IsInjective(list')
      /\ Range(list') = mapped'
  BY <1>1, WithoutKept DEF IsInjective, Range
<1>4. /\ \A u \in Threads \ {t} : call'[u] = call[u]
      /\ call'[t].at = "sweep" /\ call'[t].op = call[t].op /\ call'[t].key = call[t].key
  BY <1>1 DEF Calls
<1>5. SharedTypeOK'
  <2>1. call[t] \in Calls
    BY <1>1
  <2>2. [call[t] EXCEPT !.due = @ \ {k}] \in Calls
    BY <2>1 DEF Calls
  <2>3. call' \in [Threads -> Calls]
    BY <1>1, <2>2
  <2>. QED
    BY <1>1, <1>3, <2>3 DEF SharedIInv, SharedTypeOK
<1>6. SharedStages'
  BY <1>1, <1>4 DEF SharedIInv, SharedStages, GetStages, Ops
<1>7. SharedLock'
  BY <1>2, <1>4 DEF SharedLock
<1>8. SharedKept'
  BY <1>2, <1>3, <1>4 DEF SharedKept, Idle
<1>. QED
  BY <1>5, <1>6, <1>7, <1>8 DEF SharedIInv

\* A step that leaves the cache alone and takes a thread on in its operation.
LEMMA GotoInv ==
    ASSUME SharedIInv, NEW t \in Threads, NEW at,
           call[t].at # "idle", call[t].at # "splice", at # "splice",
           at \in GetStages => call[t].op = "get",
           at \notin GetStages => at \in Ops \ {"get"} /\ at = call[t].op,
           at \in {"lock", "renew", "use"} => call[t].key \in mapped,
           Goto(t, at), UNCHANGED <<expiring, list, mapped, m_guard>>,
           overdue' \subseteq overdue
    PROVE  SharedIInv'
<1>1. call \in [Threads -> Calls] /\ call[t] \in Calls
  BY DEF SharedIInv, SharedTypeOK
<1>2. [call[t] EXCEPT !.at = at] \in Calls
  BY <1>1 DEF Calls
<1>3. call' \in [Threads -> Calls]
  BY <1>1, <1>2 DEF Goto
<1>4. /\ \A u \in Threads \ {t} : call'[u] = call[u]
      /\ call'[t].at = at /\ call'[t].op = call[t].op /\ call'[t].key = call[t].key
  BY <1>1 DEF Goto, Calls
<1>5. SharedTypeOK'
  BY <1>3 DEF SharedIInv, SharedTypeOK
<1>6. SharedStages'
  BY <1>4 DEF SharedIInv, SharedStages, GetStages, Ops
<1>7. SharedLock'
  <2>1. call[t] # Idle
    BY DEF Idle
  <2>. QED
    BY <1>4, <2>1 DEF SharedIInv, SharedLock, Shares
<1>8. SharedKept'
  BY <1>4 DEF SharedIInv, SharedKept, IsInjective, Range
<1>. QED
  BY <1>5, <1>6, <1>7, <1>8 DEF SharedIInv

\* A thread leaves, and the cache it leaves behind agrees with itself and holds what
\* the others are about to use.
LEMMA ReturnInv ==
    ASSUME SharedIInv, NEW t \in Threads, call[t].at # "splice", Return(t),
           UNCHANGED <<expiring, m_guard>>,
           list' \in Seq(SharedKeys), IsInjective(list'), mapped' = Range(list'),
           overdue' \subseteq SharedKeys,
           mapped' = mapped \/ \A u \in Threads \ {t} : call[u] = Idle
    PROVE  SharedIInv'
<1>1. call \in [Threads -> Calls] /\ Idle \in Calls /\ Idle.at = "idle"
  BY DEF SharedIInv, SharedTypeOK, Calls, Idle, GetStages, Ops
<1>2. call' \in [Threads -> Calls] /\ call'[t] = Idle /\ \A u \in Threads \ {t} : call'[u] = call[u]
  BY <1>1 DEF Return
<1>3. SharedTypeOK'
  BY <1>2 DEF SharedIInv, SharedTypeOK, Range
<1>4. SharedStages'
  BY <1>1, <1>2 DEF SharedIInv, SharedStages, GetStages, Ops
<1>5. SharedLock'
  BY <1>2 DEF SharedIInv, SharedLock, Shares
<1>6. SharedKept'
  BY <1>1, <1>2 DEF SharedIInv, SharedKept, IsInjective, Range
<1>. QED
  BY <1>3, <1>4, <1>5, <1>6 DEF SharedIInv

LEMMA SweepEndInv == ASSUME SharedIInv, NEW t \in Threads, SweepEnd(t) PROVE SharedIInv'
<1>1. call[t].op \in Ops
  BY DEF SharedIInv, SharedTypeOK, Calls
<1>. QED
  BY <1>1, GotoInv DEF SweepEnd, Body, GetStages, Ops

\* Nothing is erased between the lookup and the use of what it found.
LEMMA FindKeyInv == ASSUME SharedIInv, NEW t \in Threads, FindKey(t) PROVE SharedIInv'
<1>1. call[t].op = "get"
  BY DEF FindKey, SharedIInv, SharedStages, GetStages
<1>2. CASE call[t].key \in mapped
  BY <1>1, <1>2, GotoInv DEF FindKey, GetStages
<1>3. CASE call[t].key \notin mapped
  <2>1. /\ list' \in Seq(SharedKeys) /\ IsInjective(list') /\ mapped' = Range(list')
        /\ overdue' \subseteq SharedKeys
    BY DEF FindKey, SharedIInv, SharedTypeOK, SharedKept, IsInjective, Range
  <2>. QED
    BY <1>3, <2>1, ReturnInv DEF FindKey
<1>. QED
  BY <1>2, <1>3

LEMMA UseAccessorInv == ASSUME SharedIInv, NEW t \in Threads, UseAccessor(t) PROVE SharedIInv'
<1>1. /\ list' \in Seq(SharedKeys) /\ IsInjective(list') /\ mapped' = Range(list')
      /\ overdue' \subseteq SharedKeys
  BY DEF UseAccessor, SharedIInv, SharedTypeOK, SharedKept, IsInjective, Range
<1>. QED
  BY <1>1, ReturnInv DEF UseAccessor

LEMMA RenewInv == ASSUME SharedIInv, NEW t \in Threads, Renew(t) PROVE SharedIInv'
<1>1. call[t].op = "get" /\ call[t].key \in mapped
  BY DEF Renew, SharedIInv, SharedStages, SharedKept, GetStages
<1>. QED
  BY <1>1, GotoInv DEF Renew, GetStages

LEMMA LockGuardInv == ASSUME SharedIInv, NEW t \in Threads, LockGuard(t) PROVE SharedIInv'
<1>1. /\ call[t].at = "lock" /\ call[t].op = "get" /\ call[t].key \in mapped
      /\ call \in [Threads -> Calls] /\ call[t] \in Calls
  BY DEF LockGuard, SharedIInv, SharedTypeOK, SharedStages, SharedKept, GetStages
<1>2. [call[t] EXCEPT !.at = "splice"] \in Calls
  BY <1>1 DEF Calls, GetStages
<1>3. call' \in [Threads -> Calls]
  BY <1>1, <1>2 DEF LockGuard, Goto
<1>4. /\ \A u \in Threads \ {t} : call'[u] = call[u]
      /\ call'[t].at = "splice" /\ call'[t].op = "get" /\ call'[t].key = call[t].key
  BY <1>1 DEF LockGuard, Goto, Calls
<1>5. SharedTypeOK'
  BY <1>3 DEF LockGuard, SharedIInv, SharedTypeOK
<1>6. SharedStages'
  <2>1. m_guard' = t /\ expiring' = expiring /\ \A u \in Threads : call[u].at # "splice"
    BY SharedAssumption DEF LockGuard, MayLock, SharedIInv, SharedStages
  <2>2. \A u \in Threads \ {t} : call'[u].at # "splice" /\ m_guard' # u
    BY <1>4, <2>1
  <2>3. call[t].key \in SharedKeys
    BY <1>1 DEF SharedIInv, SharedStages
  <2>. QED
    BY <1>4, <2>1, <2>2, <2>3 DEF SharedIInv, SharedStages, GetStages, Ops
<1>7. SharedLock'
  <2>1. call[t] # Idle /\ expiring' = expiring
    BY <1>1 DEF LockGuard, Idle
  <2>. QED
    BY <1>1, <1>4, <2>1 DEF SharedIInv, SharedLock, Shares
<1>8. SharedKept'
  BY <1>1, <1>4 DEF LockGuard, SharedIInv, SharedKept, IsInjective, Range
<1>. QED
  BY <1>5, <1>6, <1>7, <1>8 DEF SharedIInv

\* The element that is spliced is still there, and nobody else is at the list.
LEMMA SpliceInv == ASSUME SharedIInv, NEW t \in Threads, Splice(t) PROVE SharedIInv'
<1>. DEFINE k == call[t].key
            at == IF expiring THEN "renew" ELSE "use"
<1>1. /\ call[t].at = "splice" /\ call[t].op = "get" /\ k \in mapped /\ k \in SharedKeys
      /\ m_guard = t /\ call \in [Threads -> Calls] /\ call[t] \in Calls
  BY DEF Splice, SharedIInv, SharedTypeOK, SharedStages, SharedKept, GetStages
<1>2. [call[t] EXCEPT !.at = at] \in Calls /\ call' = [call EXCEPT ![t].at = at]
  BY <1>1 DEF Splice, Goto, Calls, GetStages
<1>3. call' \in [Threads -> Calls]
  BY <1>1, <1>2
<1>4. /\ \A u \in Threads \ {t} : call'[u] = call[u]
      /\ call'[t].at = at /\ call'[t].op = "get" /\ call'[t].key = k
  BY <1>1, <1>2 DEF Calls
<1>5. /\ list' \in Seq(SharedKeys) /\ IsInjective(list') /\ Range(list') = mapped
  <2>. DEFINE w == Without(list, k)
  <2>1. w \in Seq(SharedKeys) /\ IsInjective(w) /\ Range(w) = mapped \ {k}
    BY WithoutKept
  <2>. HIDE DEF w
  <2>2. /\ <<k>> \o w \in Seq(SharedKeys) /\ IsInjective(<<k>> \o w)
        /\ Range(<<k>> \o w) = {k} \cup Range(w)
    BY <1>1, <2>1, PushFront
  <2>3. list' = <<k>> \o w
    BY DEF Splice, w
  <2>4. {k} \cup Range(w) = mapped
    BY <1>1, <2>1
  <2>5. Range(<<k>> \o w) = mapped
    BY <2>2, <2>4
  <2>. QED
    BY <2>2, <2>3, <2>5 DEF IsInjective, Range
<1>6. SharedTypeOK'
  BY <1>3, <1>5 DEF Splice, SharedIInv, SharedTypeOK
<1>7. SharedStages'
  <2>1. m_guard = t /\ m_guard' = NoThread /\ expiring' = expiring /\ call[t].key \in SharedKeys
    BY <1>1 DEF Splice, SharedIInv, SharedStages
  <2>2. \A u \in Threads \ {t} : call'[u].at # "splice"
    BY <1>4, <2>1 DEF SharedIInv, SharedStages
  <2>. QED
    BY <1>4, <2>1, <2>2, SharedAssumption DEF SharedIInv, SharedStages, GetStages, Ops
<1>8. SharedLock'
  <2>1. call[t] # Idle /\ expiring' = expiring
    BY <1>1 DEF Splice, Idle
  <2>. QED
    BY <1>1, <1>4, <2>1 DEF SharedIInv, SharedLock, Shares
<1>9. SharedKept'
  BY <1>1, <1>4, <1>5 DEF Splice, SharedIInv, SharedKept
<1>. QED
  BY <1>6, <1>7, <1>8, <1>9 DEF SharedIInv

LEMMA SharedInsertInv == ASSUME SharedIInv, NEW t \in Threads, SharedInsert(t) PROVE SharedIInv'
<1>. DEFINE k == call[t].key
            rest == Without(list, k)
            kept == IF Len(rest) = SharedCapacity THEN Front(rest) ELSE rest
<1>1. /\ call[t].at = "insert" /\ call[t].op = "insert" /\ k \in SharedKeys
      /\ list' = <<k>> \o kept /\ mapped' = {k} \cup Range(kept)
      /\ overdue' = (overdue \cap mapped') \ {k}
      /\ Return(t) /\ UNCHANGED <<expiring, m_guard>>
  BY DEF SharedInsert, SharedIInv, SharedStages, Ops
<1>2. rest \in Seq(SharedKeys) /\ IsInjective(rest) /\ Range(rest) = mapped \ {k}
  BY WithoutKept
<1>. HIDE DEF rest
<1>3. /\ kept \in Seq(SharedKeys) /\ IsInjective(kept) /\ Range(kept) \subseteq Range(rest)
  <2>1. CASE Len(rest) = SharedCapacity
    <3>1. rest # <<>>
      BY <1>2, <2>1, SharedAssumption
    <3>. QED
      BY <1>2, <2>1, <3>1, FrontInjective
  <2>2. CASE Len(rest) # SharedCapacity
    BY <1>2, <2>2
  <2>. QED
    BY <2>1, <2>2
<1>. HIDE DEF kept
<1>4. /\ <<k>> \o kept \in Seq(SharedKeys) /\ IsInjective(<<k>> \o kept)
      /\ Range(<<k>> \o kept) = {k} \cup Range(kept)
  BY <1>1, <1>2, <1>3, PushFront
<1>5. /\ list' \in Seq(SharedKeys) /\ IsInjective(list') /\ mapped' = Range(list')
  BY <1>1, <1>4 DEF IsInjective, Range
<1>6. \A u \in Threads \ {t} : call[u] = Idle
  BY <1>1, Alone DEF Shares
<1>7. overdue' \subseteq SharedKeys
  BY <1>1 DEF SharedIInv, SharedTypeOK
<1>. QED
  BY <1>1, <1>5, <1>6, <1>7, ReturnInv

LEMMA SharedEraseInv == ASSUME SharedIInv, NEW t \in Threads, SharedErase(t) PROVE SharedIInv'
<1>. DEFINE k == call[t].key
<1>1. call[t].at = "erase" /\ call[t].op = "erase"
  BY DEF SharedErase, SharedIInv, SharedStages, Ops
<1>2. /\ Without(list, k) \in Seq(SharedKeys) /\ IsInjective(Without(list, k))
      /\ Range(Without(list, k)) = mapped \ {k}
  BY WithoutKept
<1>3. /\ list' \in Seq(SharedKeys) /\ IsInjective(list') /\ mapped' = Range(list')
  BY <1>2 DEF SharedErase, IsInjective, Range
<1>4. \A u \in Threads \ {t} : call[u] = Idle
  BY <1>1, Alone DEF Shares
<1>5. overdue' \subseteq SharedKeys
  BY DEF SharedErase, SharedIInv, SharedTypeOK
<1>. QED
  BY <1>1, <1>3, <1>4, <1>5, ReturnInv DEF SharedErase

LEMMA SharedClearInv == ASSUME SharedIInv, NEW t \in Threads, SharedClear(t) PROVE SharedIInv'
<1>1. call[t].at = "clear" /\ call[t].op = "clear"
  BY DEF SharedClear, SharedIInv, SharedStages, Ops
<1>2. /\ list' \in Seq(SharedKeys) /\ IsInjective(list') /\ mapped' = Range(list')
      /\ overdue' \subseteq SharedKeys
  BY DEF SharedClear, IsInjective, Range
<1>3. \A u \in Threads \ {t} : call[u] = Idle
  BY <1>1, Alone DEF Shares
<1>. QED
  BY <1>1, <1>2, <1>3, ReturnInv DEF SharedClear

LEMMA DeadlinePassesInv == ASSUME SharedIInv, NEW k \in SharedKeys, DeadlinePasses(k) PROVE SharedIInv'
<1>1. SharedTypeOK' /\ SharedStages'
  BY DEF DeadlinePasses, SharedIInv, SharedTypeOK, SharedStages
<1>2. SharedLock'
  BY DEF DeadlinePasses, SharedIInv, SharedLock, Shares
<1>3. SharedKept'
  BY DEF DeadlinePasses, SharedIInv, SharedKept, IsInjective, Range
<1>. QED
  BY <1>1, <1>2, <1>3 DEF SharedIInv

LEMMA SharedStutterInv == ASSUME SharedIInv, UNCHANGED sharedVars PROVE SharedIInv'
<1>1. SharedTypeOK' /\ SharedStages'
  BY DEF sharedVars, SharedIInv, SharedTypeOK, SharedStages
<1>2. SharedLock'
  BY DEF sharedVars, SharedIInv, SharedLock, Shares
<1>3. SharedKept'
  BY DEF sharedVars, SharedIInv, SharedKept, IsInjective, Range
<1>. QED
  BY <1>1, <1>2, <1>3 DEF SharedIInv

-----------------------------------------------------------------------------

\* The inductive invariant holds in every state, when the clients do not share get() of
\* an LruTimeoutCache.
THEOREM SharedInvariance == ASSUME ~ShareExpiring PROVE SharedSpec => []SharedIInv
<1>1. SharedInit => SharedIInv
  BY SharedInitInv
<1>2. ASSUME SharedIInv, [SharedNext]_sharedVars PROVE SharedIInv'
  <2>1. ASSUME NEW t \in Threads, SharedStep(t) PROVE SharedIInv'
    BY <1>2, <2>1, BeginCallInv, SweepOneInv, SweepEndInv, FindKeyInv, LockGuardInv, SpliceInv,
       RenewInv, UseAccessorInv, SharedInsertInv, SharedEraseInv, SharedClearInv DEF SharedStep
  <2>2. ASSUME NEW k \in SharedKeys, DeadlinePasses(k) PROVE SharedIInv'
    BY <1>2, <2>2, DeadlinePassesInv
  <2>3. CASE UNCHANGED sharedVars
    BY <1>2, <2>3, SharedStutterInv
  <2>. QED
    BY <1>2, <2>1, <2>2, <2>3 DEF SharedNext
<1>. QED
  BY <1>1, <1>2, PTL DEF SharedSpec

\* "This is guarded with its own mutex to allow clients to share access to the 'const'
\* functions": any number of threads may share get() of an LruCache.  What a thread
\* found stays until it is done with it, one thread at a time reorders the list, and map
\* and list agree.
THEOREM SharedSafe == ASSUME ~ShareExpiring PROVE SharedSpec => []SharedGetSafe
<1>1. SharedIInv => SharedGetSafe
  <2>1. SUFFICES ASSUME SharedIInv PROVE SharedGetSafe
    OBVIOUS
  <2>. DEFINE splicing == {t \in Threads : call[t].at = "splice"}
  <2>2. splicing \subseteq {m_guard}
    BY <2>1 DEF SharedIInv, SharedStages
  <2>3. IsFiniteSet({m_guard}) /\ Cardinality({m_guard}) = 1
    BY FS_Singleton
  <2>. HIDE DEF splicing
  <2>4. Cardinality(splicing) <= 1
    BY <2>2, <2>3, FS_Subset
  <2>. QED
    BY <2>1, <2>4 DEF SharedIInv, SharedKept, SharedGetSafe, splicing
<1>. QED
  BY <1>1, SharedInvariance, PTL
=============================================================================
