--------------------------- MODULE MCNetworkMonitor ---------------------------
(***************************************************************************)
(* The network monitor of Linux and that of Apple systems.  A behaviour    *)
(* is of one of them: they are two builds of the same class.               *)
(***************************************************************************)
EXTENDS NetworkMonitor, PathMonitor
CONSTANTS eth0, wlan0, tun0, none, Builds
VARIABLE build

MCInterfaces == {eth0, wlan0, tun0}
MCTuns == {tun0}

Default(f, i, m) == [family |-> f, len |-> 0, if |-> i, metric |-> m]
\* The v4 defaults of metric 1 are ties: which one comes first is up to std::sort.
MCRoutes == {Default("v4", eth0, 1), Default("v4", wlan0, 1), Default("v4", tun0, 0),
             Default("v6", wlan0, 1),
             [family |-> "v4", len |-> 8, if |-> tun0, metric |-> 1]}

\* Two default routes through the same interface.
MCRoutesMetrics == {Default("v4", eth0, 1), Default("v4", eth0, 2)}

\* A default route of another table comes, and a local route goes.
MCForeignRoutes ==
    {[type |-> "RTM_NEWROUTE", route |-> Default("v4", wlan0, 0),
      rtm_type |-> "RTN_UNICAST", rtm_table |-> "other"],
     [type |-> "RTM_DELROUTE", route |-> Default("v6", wlan0, 0),
      rtm_type |-> "RTN_LOCAL", rtm_table |-> "RT_TABLE_MAIN"]}

MCPathInterfaces == {<<>>, <<eth0>>, <<tun0, wlan0>>, <<tun0>>}

\* Bound: the kernel starts with one of these routes, or with none.
MCFirstRoutes == {Default("v4", eth0, 1)}

\* The monitor that is not in the build is left alone.
MCInit ==
    /\ build \in Builds /\ Init /\ PathInit
    /\ kernel \subseteq MCFirstRoutes
    /\ build = "linux" => path_now = [interfaces |-> <<>>, satisfied |-> FALSE]
    /\ build = "apple" => kernel = {}

MCNext ==
    \/ build = "linux" /\ Next /\ UNCHANGED <<build, pathVars>>
    \/ build = "apple" /\ PathNext /\ UNCHANGED <<build, vars>>

MCFairSpec == MCInit /\ [][MCNext]_<<build, vars, pathVars>> /\ MonitorFairness /\ PathFairness
=============================================================================
