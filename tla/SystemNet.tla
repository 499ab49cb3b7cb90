------------------------------ MODULE SystemNet ------------------------------
(***************************************************************************)
(* What net_utils.cpp asks the system for: the active interface and the    *)
(* preferred adapter of Windows, the name server of an interface in the    *)
(* registry, and the DNS servers of the resolver.  A call asks several     *)
(* questions, and the system (external) may change between two of them.    *)
(* A behaviour is about one of the parts.                                  *)
(***************************************************************************)
EXTENDS SocketAddress

CONSTANTS
    NetIfs,            \* interface indexes, positive
    Metrics,           \* Metrics[family][i], the metric of i
    MaxMetric,         \* NL_MAX_METRIC_COMPONENT
    AdaptersAppear,    \* may an adapter appear between the size probe and the reading?
    NameServerTexts,   \* values of "NameServer", as their lengths
    MaxNetChanges,     \* bound: changes of the system
    Unfiltered,        \* UNFILTERED_IPS
    DnsPort,           \* PLAIN_DNS_PORT_NUMBER
    MaxResolvers       \* bound: name servers of the resolver

Families == {"AF_INET", "AF_INET6"}

ASSUME SystemNetAssumption ==
    /\ NetIfs \subseteq Nat \ {0} /\ AdaptersAppear \in BOOLEAN
    /\ \A f \in Families, i \in NetIfs : Metrics[f][i] \in 0 .. MaxMetric
    /\ NameServerTexts \subseteq Nat \ {0} /\ {MaxNetChanges, MaxResolvers, MaxMetric} \subseteq Nat
    /\ DnsPort \in Ports /\ Unfiltered \subseteq {a \in SocketAddresses : a.port = DnsPort}

VARIABLES
    part,          \* "active", "adapters", "registry" or "dns"
    net_ifs,       \* the interfaces
    detect,        \* where win_detect_active_if() stands, and its locals
    adapters,      \* the list of GetAdaptersAddresses()
    registry,      \* the length of the value
    reading,       \* where win_get_if_nameserver() stands, and its locals
    nameservers,   \* the resolver's list
    net_changes

netVars == <<part, net_ifs, detect, adapters, registry, reading, nameservers, net_changes>>

\* An interface: is it a physical adapter, in which families does it have a default
\* route, in which is it connected?
NetInterfaces == [physical : BOOLEAN, routes : SUBSET Families, connected : SUBSET Families]

Adapters == [index : NetIfs, up : BOOLEAN, families : SUBSET Families]

Usable(i, f) ==
    /\ net_ifs[i].physical /\ f \in net_ifs[i].routes \cap net_ifs[i].connected
    /\ Metrics[f][i] < MaxMetric

\* stable: the interfaces that were usable, and whose entry could be read, since the call began.
NotDetecting ==
    [at |-> "idle", overflow |-> FALSE, failed |-> FALSE, physical |-> {},
     routes |-> [f \in Families |-> {}], best |-> [f \in Families |-> 0], result |-> 0,
     stable |-> {}]

NotReading == [at |-> "idle", size |-> 0, result |-> 0, seen |-> {}]

NetInit ==
    /\ part \in {"active", "adapters", "registry", "dns"}
    /\ net_ifs \in [NetIfs -> IF part = "active" THEN NetInterfaces
                              ELSE {[physical |-> FALSE, routes |-> {}, connected |-> {}]}]
    /\ registry \in IF part = "registry" THEN NameServerTexts ELSE {0}
    /\ adapters = <<>> /\ nameservers = <<>>
    /\ detect = NotDetecting /\ reading = NotReading /\ net_changes = 0

-----------------------------------------------------------------------------
(* win_detect_active_if() *)

DetectStep == UNCHANGED <<part, net_ifs, adapters, registry, reading, nameservers, net_changes>>

\* An error of the system ends the call: no interface.
DetectFails == detect' = [detect EXCEPT !.at = "done", !.failed = TRUE]

\* GetAdaptersAddresses() without a buffer.
SizeProbe ==
    /\ part = "active" /\ detect.at = "idle"
    /\ \/ DetectFails
       \/ detect' = [detect EXCEPT !.at = "sized",
                       !.stable = {p \in NetIfs \X Families : Usable(p[1], p[2])}]
    /\ DetectStep

\* GetAdaptersAddresses() with a buffer of that size: a list that has grown is an error,
\* and the call ends as it does without any physical adapter.
win_get_physical_interfaces ==
    /\ detect.at = "sized"
    /\ LET found == IF detect.overflow THEN {} ELSE {i \in NetIfs : net_ifs[i].physical}
       IN  \/ DetectFails
           \/ detect' = [detect EXCEPT !.at = IF found = {} THEN "done" ELSE "AF_INET table",
                                       !.physical = found]
    /\ DetectStep

\* One of the two tables, GetIpForwardTable2(); an error ends the call.
get_default_route_ifs(f) ==
    /\ detect.at = IF f = "AF_INET" THEN "AF_INET table" ELSE "AF_INET6 table"
    /\ \/ DetectFails
       \/ detect' = [detect EXCEPT !.at = IF f = "AF_INET" THEN "AF_INET6 table" ELSE "AF_INET",
                       !.routes[f] = {i \in detect.physical : f \in net_ifs[i].routes}]
    /\ DetectStep

\* row.Metric < min_metric
Lower(f, i, best) == Metrics[f][i] < (IF best = 0 THEN MaxMetric ELSE Metrics[f][best])

\* The loop of get_min_metric_if() reads the entry of one interface, in any order; one
\* whose entry cannot be read is passed over.
get_min_metric_if(f, i) ==
    /\ detect.at = f /\ i \in detect.routes[f]
    /\ \/ detect' = [detect EXCEPT
              !.routes[f] = @ \ {i},
              !.best[f] = IF f \in net_ifs[i].connected /\ Lower(f, i, @) THEN i ELSE @]
       \/ detect' = [detect EXCEPT !.routes[f] = @ \ {i}, !.stable = @ \ {<<i, f>>}]
    /\ DetectStep

\* Faulty variant: the metrics of the two families are compared.
PreferredIf_metric(v4, v6) ==
    IF v4 # 0 /\ v6 # 0 /\ Metrics["AF_INET6"][v6] < Metrics["AF_INET"][v4] THEN v6
    ELSE IF v4 # 0 THEN v4 ELSE v6

\* IPv6 only if there is no usable IPv4 default route.
PreferredIf(v4, v6) == IF v4 # 0 THEN v4 ELSE v6

win_detect_active_if ==
    /\ \E f \in Families : detect.at = f /\ detect.routes[f] = {}
    /\ detect' = IF detect.at = "AF_INET" THEN [detect EXCEPT !.at = "AF_INET6"]
                 ELSE [detect EXCEPT !.at = "done",
                         !.result = PreferredIf(detect.best["AF_INET"], detect.best["AF_INET6"])]
    /\ DetectStep

\* The system: an interface is connected or disconnected, an adapter appears.
InterfaceChanges(i) ==
    /\ part = "active" /\ net_changes < MaxNetChanges
    /\ \/ \E f \in Families :
             net_ifs' = [net_ifs EXCEPT ![i].connected = (@ \cup {f}) \ (@ \cap {f})]
       \/ /\ ~net_ifs[i].physical /\ (AdaptersAppear \/ detect.at # "sized")
          /\ net_ifs' = [net_ifs EXCEPT ![i].physical = TRUE]
    /\ detect' = [detect EXCEPT
           !.overflow = @ \/ (detect.at = "sized" /\ net_ifs'[i].physical # net_ifs[i].physical),
           !.stable = {p \in @ : p[1] = i => p[2] \in net_ifs'[i].connected}]
    /\ net_changes' = net_changes + 1
    /\ UNCHANGED <<part, adapters, registry, reading, nameservers>>

-----------------------------------------------------------------------------
(* win_get_preferred_adapter_guid() *)

Considered(a, f) == a.up /\ f \in a.families

\* The last adapter of the list with the lowest metric of either family, <<>> if there is none.
win_get_preferred_adapter_guid(list) ==
    LET lower(best, a, f) ==
            IF Considered(a, f)
               /\ (best = <<>> \/ Metrics[f][a.index] <= Metrics[best[2]][best[1]])
            THEN <<a.index, f>> ELSE best
    IN  FoldLeft(LAMBDA best, a : lower(lower(best, a, "AF_INET"), a, "AF_INET6"), <<>>, list)

AddAdapter(a) ==
    /\ part = "adapters" /\ Len(adapters) < Cardinality(NetIfs)
    /\ \A k \in DOMAIN adapters : adapters[k].index # a.index
    /\ adapters' = Append(adapters, a)
    /\ UNCHANGED <<part, net_ifs, detect, registry, reading, nameservers, net_changes>>

-----------------------------------------------------------------------------
(* The registry *)

\* Called by anybody, also while the value is read.
win_set_if_nameserver(length) ==
    /\ part = "registry" /\ net_changes < MaxNetChanges /\ registry # length
    /\ registry' = length
    /\ reading' = [reading EXCEPT !.seen = IF reading.at = "sized" THEN @ \cup {length} ELSE @]
    /\ net_changes' = net_changes + 1
    /\ UNCHANGED <<part, net_ifs, detect, adapters, nameservers>>

\* RegOpenKeyExA(), and RegGetValueA() without a buffer; an error gives no value, 0.
ReadSize ==
    /\ part = "registry" /\ reading.at = "idle"
    /\ \/ reading' = [reading EXCEPT !.at = "sized", !.size = registry, !.seen = {registry}]
       \/ reading' = [reading EXCEPT !.at = "done"]
    /\ UNCHANGED <<part, net_ifs, detect, adapters, registry, nameservers, net_changes>>

\* A value that became longer is an error and gives none, 0; one that became shorter is
\* cut at its end by strlen().
ReadValue(size, length) == IF length <= size THEN length ELSE 0

win_get_if_nameserver ==
    /\ reading.at = "sized"
    /\ reading' = [reading EXCEPT !.at = "done", !.result = ReadValue(reading.size, registry)]
    /\ UNCHANGED <<part, net_ifs, detect, adapters, registry, nameservers, net_changes>>

-----------------------------------------------------------------------------
(* retrieve_system_dns_servers(), on Linux *)

\* std::ranges::find compares an element of UNFILTERED_IPS with the address.
RouteLoop(a) == is_loopback(a) \/ \E u \in Unfiltered : EqualTo(u, a)

\* An entry of another family leaves the address invalid.
retrieve_system_dns_servers(list) == SelectSeq(list, LAMBDA a : valid(a) /\ ~RouteLoop(a))

AddNameserver(a) ==
    /\ part = "dns" /\ Len(nameservers) < MaxResolvers
    /\ nameservers' = Append(nameservers, a)
    /\ UNCHANGED <<part, net_ifs, detect, adapters, registry, reading, net_changes>>

\* The port of the resolver's entries is that of DNS; NoAddress is an entry of another family.
Nameservers == {a \in SocketAddresses : a.port = DnsPort} \cup {NoAddress}

NetNext ==
    \/ SizeProbe
    \/ win_get_physical_interfaces
    \/ \E f \in Families : get_default_route_ifs(f) \/ \E i \in NetIfs : get_min_metric_if(f, i)
    \/ win_detect_active_if
    \/ \E i \in NetIfs : InterfaceChanges(i)
    \/ \E a \in Adapters : AddAdapter(a)
    \/ \E length \in NameServerTexts : win_set_if_nameserver(length)
    \/ ReadSize
    \/ win_get_if_nameserver
    \/ \E a \in Nameservers : AddNameserver(a)

NetTypeOK ==
    /\ net_ifs \in [NetIfs -> NetInterfaces] /\ adapters \in Seq(Adapters)
    /\ detect.result \in NetIfs \cup {0} /\ registry \in NameServerTexts \cup {0}

-----------------------------------------------------------------------------

\* The detection may not miss an interface that was usable all through the call, whatever
\* the others did meanwhile: the result is usable for IPv4 with no higher metric if there
\* is such an interface for IPv4, and for IPv6 if there is only one for that.  What it
\* returns is always a physical adapter with a default route.
ActiveExact ==
    detect.at = "done" /\ ~detect.failed =>
        /\ \A p \in detect.stable :
              /\ detect.result # 0
              /\ p[2] = "AF_INET" => /\ "AF_INET" \in net_ifs[detect.result].routes
                                     /\ Metrics["AF_INET"][detect.result] <= Metrics["AF_INET"][p[1]]
        /\ detect.result # 0 => /\ net_ifs[detect.result].physical
                                /\ net_ifs[detect.result].routes # {}

\* The preferred adapter is up, and no adapter that is up has a lower metric in any family.
PreferredExact ==
    LET best == win_get_preferred_adapter_guid(adapters)
        up == {k \in DOMAIN adapters : adapters[k].up /\ adapters[k].families # {}}
    IN  /\ best = <<>> <=> up = {}
        /\ up # {} => /\ \E k \in up : adapters[k].index = best[1] /\ best[2] \in adapters[k].families
                      /\ \A k \in up : \A f \in adapters[k].families :
                             Metrics[best[2]][best[1]] <= Metrics[f][adapters[k].index]

\* The name server that was read is one that stood in the registry during the call, never
\* a part of one, however the value changes between asking for its size and reading it.
NameserverWhole == reading.at = "done" => reading.result \in reading.seen \cup {0}

\* No DNS server is a loopback address, mapped ones included, or an unfiltered server of
\* AdGuard in its own family; every other server is kept, in the order of the resolver.
NoRouteLoop ==
    LET kept == retrieve_system_dns_servers(nameservers)
    IN  \A n \in DOMAIN nameservers :
            LET a == nameservers[n]
                own == \/ a = NoAddress
                       \/ a \in Unfiltered
                       \/ Len(addr_unmapped(a)) = 2 /\ Head(addr_unmapped(a)) = LoopbackNet
                       \/ a.addr = <<0, 0, 1>>
            IN  IF own THEN a \notin Range(kept)
                ELSE \E k \in DOMAIN kept : kept[k] = a /\ n >= k

\* What is asked of the system in several questions is answered as if it had been one.
SystemNetExact == ActiveExact /\ PreferredExact /\ NameserverWhole /\ NoRouteLoop
=============================================================================
