---------------------------- MODULE NetworkMonitor ----------------------------
(***************************************************************************)
(* ag::utils::NetworkMonitorImpl on Linux.  The kernel (external) changes  *)
(* its routes and addresses at any time and queues a notification for the  *)
(* monitor's netlink socket; when the queue is full the notification is    *)
(* lost and the next recvmsg fails.  The monitor binds the socket, dumps   *)
(* the routing table, and then follows the notifications from the event    *)
(* loop.  The application remembers what it was last told.                 *)
(***************************************************************************)
EXTENDS LinuxRoutingTable

CONSTANTS
    Routes,         \* the unicast routes the kernel may have; length 0 is a default route
    ForeignRoutes,  \* what the kernel may say of routes of other tables or types
    OneRouteEach,   \* has the kernel at most one route per prefix and interface?
    ReloadMayFail,  \* may the dump of the routing table fail?
    SetWhileRunning,\* are the ignored interfaces set while the monitor runs?
    MaxChanges,     \* bound: changes the kernel makes
    MaxAddr,        \* bound: address changes
    QueueMax,       \* the socket's receive buffer, in notifications
    MaxBatch,       \* bound: messages in one datagram
    MaxStarts,      \* bound: calls of start()
    Listed          \* the interfaces that an application may list as ignored

ASSUME MonitorAssumption ==
    /\ Routes \subseteq [family : Families, len : Nat, if : Interfaces, metric : Nat]
    /\ {OneRouteEach, ReloadMayFail, SetWhileRunning} \subseteq BOOLEAN
    /\ MaxChanges \in Nat /\ MaxAddr \in Nat /\ QueueMax \in Nat
    /\ MaxBatch \in Nat \ {0} /\ MaxStarts \in Nat /\ Listed \subseteq Interfaces

VARIABLES
    kernel,     \* the kernel's unicast routes
    changes, addrs, starts,
    queue,      \* notifications in the socket
    overrun,    \* the next recvmsg reports lost notifications
    missed,     \* has the table missed a change since start()?
    monitor,    \* where the monitor stands
    dump,       \* what reload() has read so far
    table,      \* m_routing_table
    m_netlink_available,
    inbuf,      \* what is left of the datagram changed_handler is in
    addr_changed,
    m_if_name,
    told        \* the interface the application believes to be the default one

vars == <<kernel, changes, addrs, starts, queue, overrun, missed, monitor, dump, table,
          m_netlink_available, inbuf, addr_changed, m_if_name, told>>
kernelVars == <<kernel, changes, addrs, queue, overrun, missed>>
handlerVars == <<inbuf, addr_changed>>

MonitorStates == {"stopped", "bound", "dumping", "running", "handling"}
NoDump == [f \in Families |-> <<>>]

\* What the kernel may have at the start: at most one route.
Init ==
    /\ kernel \in {{}} \cup {{r} : r \in Routes}
    /\ changes = 0 /\ addrs = 0 /\ starts = 0
    /\ queue = <<>>
    /\ overrun = FALSE
    /\ missed = FALSE
    /\ monitor = "stopped"
    /\ dump = NoDump
    /\ table = NewTable
    /\ m_netlink_available = FALSE
    /\ inbuf = <<>>
    /\ addr_changed = FALSE
    /\ m_if_name = NoInterface
    /\ told = NoInterface

----------------------------------------------------------------------------
(* The kernel *)

HasRoom == Len(queue) < QueueMax

\* A notification reaches the socket if there is one and it has room.
Send(msg) ==
    IF monitor = "stopped" THEN UNCHANGED <<queue, overrun, missed>>
    ELSE IF HasRoom
    THEN queue' = Append(queue, msg) /\ UNCHANGED <<overrun, missed>>
    ELSE overrun' = TRUE /\ missed' = TRUE /\ UNCHANGED queue

KernelOnly == UNCHANGED <<starts, monitor, dump, table, m_netlink_available, inbuf,
                          addr_changed, m_if_name, told>>

RouteMessage(type, r) ==
    [type |-> type, route |-> r, rtm_type |-> "RTN_UNICAST", rtm_table |-> "RT_TABLE_MAIN"]

AddRoute(r) ==
    /\ changes < MaxChanges
    /\ r \notin kernel
    /\ OneRouteEach => \A s \in kernel : ~(s.family = r.family /\ SameRoute(s, r))
    /\ kernel' = kernel \cup {r}
    /\ changes' = changes + 1
    /\ Send(RouteMessage("RTM_NEWROUTE", r))
    /\ KernelOnly /\ UNCHANGED addrs

DelRoute(r) ==
    /\ changes < MaxChanges
    /\ r \in kernel
    /\ kernel' = kernel \ {r}
    /\ changes' = changes + 1
    /\ Send(RouteMessage("RTM_DELROUTE", r))
    /\ KernelOnly /\ UNCHANGED addrs

\* A route of another table or type comes or goes.
ForeignRoute(msg) ==
    /\ changes < MaxChanges
    /\ changes' = changes + 1
    /\ Send(msg)
    /\ KernelOnly /\ UNCHANGED <<kernel, addrs>>

\* RTM_NEWADDR or RTM_DELADDR.
ChangeAddr ==
    /\ addrs < MaxAddr
    /\ addrs' = addrs + 1
    /\ Send([type |-> "ADDR"])
    /\ KernelOnly /\ UNCHANGED <<kernel, changes>>

----------------------------------------------------------------------------
(* start() and stop(), called by the application *)

\* create_socket(): from the bind on, notifications are queued.
create_socket ==
    /\ monitor = "stopped"
    /\ starts < MaxStarts
    /\ starts' = starts + 1
    /\ monitor' = "bound"
    /\ queue' = <<>>
    /\ overrun' = FALSE
    /\ missed' = FALSE
    /\ UNCHANGED <<kernel, changes, addrs, dump, table, m_netlink_available, handlerVars,
                   m_if_name, told>>

KernelRoutes(f) == {r \in kernel : r.family = f}

\* reload() reads the dump in several recv calls: here the IPv4 routes come first.
ReloadFirstPart ==
    /\ monitor = "bound"
    /\ \E list \in [1 .. Cardinality(KernelRoutes("v4")) -> KernelRoutes("v4")] :
          /\ {list[i] : i \in DOMAIN list} = KernelRoutes("v4")
          /\ dump' = [dump EXCEPT !["v4"] = list]
    /\ monitor' = "dumping"
    /\ UNCHANGED <<kernelVars, starts, table, m_netlink_available, handlerVars, m_if_name, told>>

\* The interface get_default_interface() names: of the table, or of the first line of
\* `ip route show to default'.
IpRouteDefaults ==
    LET defs == {r \in kernel : r.family = "v4" /\ r.len = 0}
    IN  IF defs = {} THEN {NoInterface}
        ELSE {r.if : r \in {r \in defs : \A s \in defs : r.metric <= s.metric}}
DefaultInterfaces(t, available) ==
    IF available THEN {get_default_if_index(t)} ELSE IpRouteDefaults

\* The end of init_routing_table() and of start(); the application then asks for the
\* default interface.
StartRunning(t, available) ==
    /\ monitor' = "running"
    /\ table' = t
    /\ m_netlink_available' = available
    /\ dump' = NoDump
    /\ told' \in DefaultInterfaces(t, available)
    /\ UNCHANGED <<kernel, changes, addrs, queue, overrun, starts, handlerVars, m_if_name>>

ReloadSecondPart ==
    /\ monitor = "dumping"
    /\ \E list \in [1 .. Cardinality(KernelRoutes("v6")) -> KernelRoutes("v6")] :
          /\ {list[i] : i \in DOMAIN list} = KernelRoutes("v6")
          /\ \E t \in reload(table, [dump EXCEPT !["v6"] = list]) :
                StartRunning([t EXCEPT !.default_changed = FALSE], TRUE)
    /\ UNCHANGED missed

\* A failed dump leaves the table, and m_netlink_available, as they were.
ReloadFails ==
    /\ ReloadMayFail
    /\ monitor \in {"bound", "dumping"}
    /\ StartRunning(table, m_netlink_available)
    /\ missed' = TRUE

NameAfterStop == NoInterface

stop ==
    /\ monitor = "running"
    /\ monitor' = "stopped"
    /\ queue' = <<>>
    /\ table' = close_query_socket(table)
    /\ m_if_name' = NameAfterStop
    /\ UNCHANGED <<kernel, changes, addrs, overrun, missed, starts, dump,
                   m_netlink_available, handlerVars, told>>

\* A class derived from the monitor chooses what its table ignores.
SetIgnored(t) ==
    /\ monitor = "stopped" \/ (SetWhileRunning /\ monitor = "running")
    /\ table # t
    /\ table' = t
    /\ UNCHANGED <<kernelVars, starts, monitor, dump, m_netlink_available, handlerVars,
                   m_if_name, told>>

----------------------------------------------------------------------------
(* changed_handler(), called from the event loop *)

\* recvmsg fails: the handler returns.
recvmsg_error ==
    /\ monitor = "running"
    /\ overrun
    /\ overrun' = FALSE
    /\ UNCHANGED <<kernel, changes, addrs, queue, missed, starts, monitor, dump, table,
                   m_netlink_available, handlerVars, m_if_name, told>>

\* Faulty variant: waits for a second notification.
Readable_second == Len(queue) > 1

Readable == Len(queue) > 0

recvmsg(n) ==
    /\ monitor = "running"
    /\ ~overrun
    /\ Readable
    /\ n \in 1 .. Len(queue)
    /\ inbuf' = SubSeq(queue, 1, n)
    /\ queue' = SubSeq(queue, n + 1, Len(queue))
    /\ monitor' = "handling"
    /\ UNCHANGED <<kernel, changes, addrs, overrun, missed, starts, dump, table,
                   m_netlink_available, addr_changed, m_if_name, told>>

\* One turn of the loop over the datagram.
HandleMessage ==
    /\ monitor = "handling"
    /\ inbuf # <<>>
    /\ inbuf' = Tail(inbuf)
    /\ LET msg == Head(inbuf)
       IN  CASE msg.type = "ADDR" -> addr_changed' = TRUE /\ UNCHANGED table
             [] msg.type = "RTM_NEWROUTE" ->
                   /\ IF m_netlink_available THEN table' \in handle_new_route(table, msg)
                                             ELSE UNCHANGED table
                   /\ UNCHANGED addr_changed
             [] msg.type = "RTM_DELROUTE" ->
                   /\ IF m_netlink_available THEN table' \in handle_del_route(table, msg)
                                             ELSE UNCHANGED table
                   /\ UNCHANGED addr_changed
    /\ UNCHANGED <<kernelVars, starts, monitor, dump, m_netlink_available, m_if_name, told>>

\* The application is told of a lost network every time, of a connected one when the
\* interface is not the one it was told of before.
handle_network_change(name) ==
    /\ m_if_name' = name
    /\ told' = IF name = NoInterface \/ m_if_name # name THEN name ELSE told

\* After the loop, with its local addr_changed gone.  With addr_changed, default_changed is not looked at and stays set.
HandlerEnd ==
    /\ monitor = "handling"
    /\ inbuf = <<>>
    /\ monitor' = "running"
    /\ table' = IF m_netlink_available /\ ~addr_changed
                THEN [table EXCEPT !.default_changed = FALSE] ELSE table
    /\ IF addr_changed \/ (m_netlink_available /\ table.default_changed)
         THEN \E name \in DefaultInterfaces(table, m_netlink_available) :
                 handle_network_change(name)
         ELSE UNCHANGED <<m_if_name, told>>
    /\ addr_changed' = FALSE
    /\ UNCHANGED <<kernelVars, starts, dump, m_netlink_available, inbuf>>

----------------------------------------------------------------------------
Kernel ==
    \/ \E r \in Routes : AddRoute(r) \/ DelRoute(r)
    \/ \E msg \in ForeignRoutes : ForeignRoute(msg)
    \/ ChangeAddr

Configure ==
    \/ \E ignore \in BOOLEAN : SetIgnored(set_ignore_tun_interfaces(table, ignore))
    \/ \E i \in Listed : SetIgnored(add_ignored_interface(table, i))
    \/ SetIgnored(clear_ignored_interfaces(table))

Application == create_socket \/ stop \/ Configure
Starting == ReloadFirstPart \/ ReloadSecondPart \/ ReloadFails
Handler == recvmsg_error \/ (\E n \in 1 .. MaxBatch : recvmsg(n)) \/ HandleMessage \/ HandlerEnd

Next == Kernel \/ Application \/ Starting \/ Handler

Spec == Init /\ [][Next]_vars

\* start() returns, and the event loop runs the handler while there is something to read.
MonitorFairness == WF_vars(Starting) /\ WF_vars(Handler)

FairSpec == Spec /\ MonitorFairness

----------------------------------------------------------------------------
(* Properties *)

TypeOK ==
    /\ kernel \subseteq Routes
    /\ monitor \in MonitorStates
    /\ Len(queue) <= QueueMax
    /\ \A f \in Families : \A i \in DOMAIN table.routes[f] : table.routes[f][i] \in Routes
    /\ m_if_name \in Interfaces \cup {NoInterface}
    /\ told \in Interfaces \cup {NoInterface}

\* The interfaces the kernel's routing table makes the default: lowest metric, IPv4
\* before IPv6, ignored interfaces left out.
IgnoredNow == table.ignored_interfaces \cup (IF table.ignore_tun THEN Tuns ELSE {})
BestOf(f) ==
    LET defs == {r \in KernelRoutes(f) : r.len = 0 /\ r.if \notin IgnoredNow}
    IN  {r.if : r \in {r \in defs : \A s \in defs : r.metric <= s.metric}}
KernelDefaults ==
    IF BestOf("v4") # {} THEN BestOf("v4")
    ELSE IF BestOf("v6") # {} THEN BestOf("v6") ELSE {NoInterface}

Quiet == monitor = "running" /\ queue = <<>> /\ ~overrun

\* Once the notifications have been handled, the interface selected is the kernel's:
\* the changes that happened between the bind and the dump, which are in the dump and
\* notified as well, do no harm.
DefaultIsKernels ==
    Quiet /\ m_netlink_available /\ ~missed => get_default_if_index(table) \in KernelDefaults

\* ... and it is what the application was told last, or read at the start.
ToldIsDefault ==
    Quiet /\ m_netlink_available => told = get_default_if_index(table)

\* When the kernel has stopped changing, the application ends up with its default.
Converges ==
    <>[](monitor = "running" /\ m_netlink_available /\ ~missed => told \in KernelDefaults)

\* As DefaultIsKernels, whether or not a notification was lost: "handle incremental
\* updates, and detect default route changes".
DefaultIsKernelsAfterLoss ==
    Quiet /\ m_netlink_available => get_default_if_index(table) \in KernelDefaults

\* "Routes through this interface will not be selected as default."
IgnoredNotSelected == get_default_if_index(table) \notin table.ignored_interfaces

\* get_default_interface() names the default interface when the monitor is stopped
\* too ("Gets the default network interface name").
DefaultWhenStopped ==
    monitor = "stopped" /\ starts > 0 =>
        DefaultInterfaces(table, m_netlink_available) \subseteq KernelDefaults

\* Before start(), or when the dump failed, `ip route' names the interface that the
\* netlink table would ("Fallback result should match Netlink result").
FallbackMatchesNetlink ==
    ~m_netlink_available => DefaultInterfaces(table, FALSE) \subseteq KernelDefaults
=============================================================================
