------------------------------- MODULE MCCaches -------------------------------
(***************************************************************************)
(* The caches of cache.h.  A behaviour is of one of them: an               *)
(* LruTimeoutCache of one thread, a TimeoutCache, or an LruCache that      *)
(* threads share.                                                          *)
(***************************************************************************)
EXTENDS LruTimeoutCache, TimeoutCache, SharedLru, TLC
CONSTANTS k1, k2, k3, v1, v2, Caches
VARIABLE cache

MCKeys == {k1, k2, k3}
MCValues == {v1, v2}

\* No operation tells one key, value or thread from another, and no liveness is checked.
MCSymmetry == Permutations(MCKeys) \cup Permutations(MCValues) \cup Permutations(Threads)

\* The caches that the behaviour is not about stay as they are.
MCInit ==
    /\ cache \in Caches
    /\ Init /\ TtlInit /\ SharedInit
    /\ cache # "lru timeout" => lru.m_capacity = 1 /\ ~AUTO_UPDATE /\ ~shrinks
    /\ cache # "shared" => list = <<>> /\ ~expiring

MCNext ==
    \/ cache = "lru timeout" /\ Next /\ UNCHANGED <<cache, ttlVars, sharedVars>>
    \/ cache = "timeout" /\ TtlNext /\ UNCHANGED <<cache, vars, sharedVars>>
    \/ cache = "shared" /\ SharedNext /\ UNCHANGED <<cache, vars, ttlVars>>

MCSpec == MCInit /\ [][MCNext]_<<cache, vars, ttlVars, sharedVars>>

\* The containers of each cache describe the same entries after every operation: map
\* and list, deadlines and the iterators kept to them; and no cache returns an entry
\* whose time is over.
ContainersAgree ==
    /\ MapMatchesList /\ DeadlinesMatchKeys /\ NoLeak
    /\ TtlMapMatchesList /\ NewestFirst /\ NoExpiredResult
=============================================================================
