--------------------------- MODULE RouteResolver ---------------------------
(***************************************************************************)
(* AppleRouteResolver (common/route_resolver.cpp): the interface through   *)
(* which an address is reached, by the routing table as sysctl dumps it.   *)
(* One table per family is cached until flush_cache; for some seconds      *)
(* after its creation the resolver uses no cache.                          *)
(*                                                                         *)
(* The addresses are those of CidrRange; an IPv4-mapped IPv6 address is    *)
(* unmapped before it is looked up, so it is an IPv4 address here.  Both   *)
(* operations hold cache_mutex from end to end, and are single steps.      *)
(***************************************************************************)
EXTENDS CidrRange, FiniteSets, TLC

CONSTANTS
    KernelRoutes,   \* the routes the kernel may have: [range, if_index, listed]
    MaxChanges      \* bound on the changes of the kernel's table

ASSUME RouteAssumption == MaxChanges \in Nat

VARIABLES
    kernel,     \* the routes of the kernel
    changes,    \* how often the kernel's table changed
    cache,      \* ipv4_cache and ipv6_cache, by the length of their addresses
    read,       \* ghost: the change each cache was read after
    flushed,    \* ghost: the change the last flush_cache came after
    no_cache    \* the "no cache" period is not over

routeVars == <<kernel, changes, cache, read, flushed, no_cache>>

RouteInit ==
    /\ kernel = {}
    /\ changes = 0
    /\ cache = [n \in AddressSizes |-> <<>>]
    /\ read = [n \in AddressSizes |-> 0]
    /\ flushed = 0
    /\ no_cache = TRUE

\* Only usable static routes of the family that were not cloned and are not
\* bound to an interface's scope are taken from the dump.
IsListed(k, n) == k.listed /\ Len(k.range.m_address) = n

\* The route in the resolver: a missing netmask (host route) is all ones, an
\* empty one (default route) all zeros.
IpRoute(k) ==
    [address |-> k.range.m_address, netmask |-> k.range.m_mask, if_index |-> k.if_index]

\* operator<: the lexicographically larger netmask comes first.
MaskLess(x, y) ==
    \E i \in DOMAIN x :
        /\ ByteLess(x[i], y[i])
        /\ \A j \in 1 .. i - 1 : x[j] = y[j]

\* Faulty: the shorter netmask comes first.
MoreSpecific_reversed(a, b) == MaskLess(a.netmask, b.netmask)

MoreSpecific(a, b) == MaskLess(b.netmask, a.netmask)

\* The comparison of the addresses stops at the first empty byte of the mask.
matches(route, dest) ==
    \A i \in DOMAIN dest :
        (\A j \in 1 .. i : route.netmask[j] # {})
            => dest[i] \cap route.netmask[i] = route.address[i]

\* The tables read_routing_table may return: the listed routes in an order
\* std::sort may leave them in (it is not stable).
Orders(S) ==
    {f \in [1 .. Cardinality(S) -> S] :
        /\ \A i, j \in DOMAIN f : i # j => f[i] # f[j]
        /\ \A i, j \in DOMAIN f : i < j => ~MoreSpecific(f[j], f[i])}

read_routing_table(n) == Orders({IpRoute(k) : k \in {r \in kernel : IsListed(r, n)}})

\* The interfaces resolve answers with: the first match's, or none.
FirstMatch(table, dest) ==
    {table[i].if_index : i \in {k \in DOMAIN table :
        /\ matches(table[k], dest)
        /\ \A j \in 1 .. k - 1 : ~matches(table[j], dest)}}

\* What the kernel itself would answer: the interfaces of the routes with the
\* longest prefix among those that hold the address.
BestRoutes(routes, dest) ==
    LET fits == {k \in routes : IsListed(k, Len(dest)) /\ contains_address(k.range, dest)}
    IN  {k.if_index : k \in {r \in fits :
            \A q \in fits : q.range.m_prefix_len <= r.range.m_prefix_len}}

\* dump_routing_table fails when sysctl does, or when the table outgrew twice its
\* estimated size MAX_TRIES times; the table is empty then.
dump_routing_table(n) == read_routing_table(n) \cup {<<>>}

\* An empty cache is filled from the kernel.  In the "no cache" period the table is a local variable.
ReadsKernel(n) == no_cache \/ cache[n] = <<>>

resolve(dest) ==
    /\ LET n == Len(dest)
       IN  \/ /\ ReadsKernel(n)
              /\ \E table \in dump_routing_table(n) :
                    /\ cache' = IF no_cache THEN cache ELSE [cache EXCEPT ![n] = table]
                    /\ read' = IF no_cache THEN read ELSE [read EXCEPT ![n] = changes]
           \/ /\ ~ReadsKernel(n)
              /\ UNCHANGED <<cache, read>>
    /\ UNCHANGED <<kernel, changes, flushed, no_cache>>

flush_cache ==
    /\ cache' = [n \in AddressSizes |-> <<>>]
    /\ flushed' = changes
    /\ UNCHANGED <<kernel, changes, read, no_cache>>

\* NO_CACHE_SECONDS after the creation.
CachePeriod ==
    /\ no_cache
    /\ no_cache' = FALSE
    /\ UNCHANGED <<kernel, changes, cache, read, flushed>>

\* The kernel adds or removes a route.
ChangeRoute(k) ==
    /\ changes < MaxChanges
    /\ kernel' = IF k \in kernel THEN kernel \ {k} ELSE kernel \cup {k}
    /\ changes' = changes + 1
    /\ UNCHANGED <<cache, read, flushed, no_cache>>

RouteNext ==
    \/ \E dest \in Addresses : resolve(dest)
    \/ flush_cache
    \/ CachePeriod
    \/ \E k \in KernelRoutes : ChangeRoute(k)

RouteSpec == RouteInit /\ [][RouteNext]_routeVars

-----------------------------------------------------------------------------

RouteTypeOK ==
    /\ kernel \subseteq KernelRoutes
    /\ changes \in 0 .. MaxChanges /\ flushed \in 0 .. changes
    /\ \A n \in AddressSizes : \A i \in DOMAIN cache[n] :
          cache[n][i] \in {IpRoute(k) : k \in KernelRoutes}

\* In any order std::sort may leave the table in, the first match is a route
\* with the longest prefix: what the kernel would choose from the same table.
LongestPrefix ==
    \A n \in AddressSizes : \A dest \in {a \in Addresses : Len(a) = n} :
        \A table \in read_routing_table(n) :
            LET best == BestRoutes(kernel, dest)
            IN  FirstMatch(table, dest) \subseteq best
                    /\ (best # {} => FirstMatch(table, dest) # {})

\* A cached table was read after the last flush_cache, and never in the period
\* in which the resolver must not cache: after flush_cache returns, no route of
\* an earlier table is used.
CacheFresh ==
    \A n \in AddressSizes :
        cache[n] # <<>> => ~no_cache /\ read[n] >= flushed

\* As long as the kernel's table does not change, a cached table is one that
\* could have been read just now: no route is missing from it or out of place.
CachedCurrent ==
    \A n \in AddressSizes :
        cache[n] # <<>> /\ read[n] = changes => cache[n] \in read_routing_table(n)
=============================================================================
