-------------------------- MODULE LinuxRoutingTable --------------------------
(***************************************************************************)
(* ag::utils::LinuxRoutingTable: the default routes as netlink tells them, *)
(* and the default interface selected from them, per address family.       *)
(* Each method is an operator from a table to the tables it may leave:     *)
(* std::sort leaves routes of equal rank in any order, and an answer to a  *)
(* query may come after the time-out, when it is left in the socket.       *)
(***************************************************************************)
EXTENDS Naturals, Sequences, FiniteSets, SequencesExt

CONSTANTS
    Interfaces,  \* interfaces, by index
    Tuns,        \* those of the kind tun
    SlowAnswers, \* may the answer to a query come after the time-out?
    NoInterface  \* std::nullopt, and the empty name

ASSUME InterfacesAssumption ==
    Tuns \subseteq Interfaces /\ NoInterface \notin Interfaces /\ SlowAnswers \in BOOLEAN

Families == {"v4", "v6"}

NewTable == [routes |-> [f \in Families |-> <<>>],
             prev_default |-> [f \in Families |-> NoInterface],
             default_changed |-> FALSE,
             ignore_tun |-> FALSE,
             ignored_interfaces |-> {},
             answers |-> <<>>]  \* what nobody has read from m_query_fd yet

\* RouteEntry::operator<
Before(r, s) == IF r.len # s.len THEN r.len > s.len ELSE r.metric < s.metric

SortedOrders(list) ==
    {t \in {[i \in DOMAIN list |-> list[p[i]]] : p \in Permutations(DOMAIN list)} :
        \A i, j \in DOMAIN t : i < j => ~Before(t[j], t[i])}

\* The kind of an interface, as the kernel (external) tells it.
KindOf(i) == IF i \in Tuns THEN "tun" ELSE "other"

\* Asks for the kind, and takes the next answer in the socket for the one to the
\* question: an answer that came too late is read by the query after.
get_interface_kind(t, i) ==
    LET answers == Append(t.answers, KindOf(i))
    IN  {[kind |-> Head(answers), t |-> [t EXCEPT !.answers = Tail(answers)]]}
        \cup (IF SlowAnswers /\ t.answers = <<>>
              THEN {[kind |-> "", t |-> [t EXCEPT !.answers = answers]]} ELSE {})

is_interface_ignored(t, i) ==
    IF i \in t.ignored_interfaces THEN {[ignored |-> TRUE, t |-> t]}
    ELSE IF t.ignore_tun
    THEN {[ignored |-> a.kind = "tun", t |-> a.t] : a \in get_interface_kind(t, i)}
    ELSE {[ignored |-> FALSE, t |-> t]}

\* The first default route of the list whose interface is not ignored.
find_default_route(t, list) ==
    LET Look(found, r) ==
            UNION {IF f.def # NoInterface \/ r.len # 0 THEN {f}
                   ELSE {[def |-> IF a.ignored THEN NoInterface ELSE r.if, t |-> a.t]
                         : a \in is_interface_ignored(f.t, r.if)}
                   : f \in found}
    IN  FoldLeft(Look, {[def |-> NoInterface, t |-> t]}, list)

\* Faulty variant: looks at IPv4 only.
DefaultChanged_v4_only(t, def) == t.default_changed \/ def["v4"] # t.prev_default["v4"]

DefaultChanged(t, def) == t.default_changed \/ def # t.prev_default

\* Sorts, selects the default interfaces, and notes whether they changed.
sort_and_update_cache(routes, t) ==
    LET Select(v4, v6) == UNION {{[a |-> a, b |-> b] : b \in find_default_route(a.t, v6)}
                                 : a \in find_default_route(t, v4)}
        Updated(v4, v6, s) ==
            LET def == [f \in Families |-> IF f = "v4" THEN s.a.def ELSE s.b.def]
            IN  [s.b.t EXCEPT !.routes = [f \in Families |-> IF f = "v4" THEN v4 ELSE v6],
                              !.prev_default = def,
                              !.default_changed = DefaultChanged(t, def)]
    IN  UNION {{Updated(v4, v6, s) : s \in Select(v4, v6)}
               : v4 \in SortedOrders(routes["v4"]), v6 \in SortedOrders(routes["v6"])}

SameRoute(r, s) == r.len = s.len /\ r.if = s.if

\* Faulty variant: the routes of all tables are taken.
parse_route_msg_all_tables(msg) == msg.rtm_type = "RTN_UNICAST"

\* Only unicast routes of the main and the default table are looked at.
parse_route_msg(msg) ==
    msg.rtm_type = "RTN_UNICAST" /\ msg.rtm_table \in {"RT_TABLE_MAIN", "RT_TABLE_DEFAULT"}

\* The route of that prefix and interface is overwritten, the first one if there are
\* several, whatever its metric.
AddOrReplace(t, r) ==
    LET list == t.routes[r.family]
        same == {i \in DOMAIN list : SameRoute(list[i], r)}
        new == IF same = {} THEN Append(list, r)
               ELSE [list EXCEPT ![CHOOSE i \in same : \A j \in same : i <= j] = r]
    IN  sort_and_update_cache([t.routes EXCEPT ![r.family] = new], t)

handle_new_route(t, msg) == IF parse_route_msg(msg) THEN AddOrReplace(t, msg.route) ELSE {t}

\* All routes of that prefix and interface go, whatever their metric.
EraseRoute(t, r) ==
    LET kept == SelectSeq(t.routes[r.family], LAMBDA s : ~SameRoute(s, r))
    IN  sort_and_update_cache([t.routes EXCEPT ![r.family] = kept], t)

handle_del_route(t, msg) == IF parse_route_msg(msg) THEN EraseRoute(t, msg.route) ELSE {t}

reload(t, routes) == sort_and_update_cache(routes, t)

\* The setters leave the selection as it is.
set_ignore_tun_interfaces(t, ignore) == [t EXCEPT !.ignore_tun = ignore]
add_ignored_interface(t, i) == [t EXCEPT !.ignored_interfaces = @ \cup {i}]
clear_ignored_interfaces(t) == [t EXCEPT !.ignored_interfaces = {}]

\* With the socket go the answers left in it.
close_query_socket(t) == [t EXCEPT !.answers = <<>>]

get_default_if_index(t) ==
    IF t.prev_default["v4"] # NoInterface THEN t.prev_default["v4"] ELSE t.prev_default["v6"]
=============================================================================
