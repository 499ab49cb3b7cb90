---------------------------- MODULE WfpFirewall ----------------------------
(***************************************************************************)
(* WfpFirewall (common/wfp_firewall.cpp): restrictions of the traffic by   *)
(* filters in the Windows Filtering Platform.  Every operation adds its    *)
(* filters in one transaction of the engine, and every call of the engine  *)
(* may fail.  The session is dynamic: closing it removes all it added.     *)
(*                                                                         *)
(* A filter is [layer, weight, action, conditions].  It matches a packet   *)
(* when for every field its conditions name one of them holds; of the      *)
(* filters that match, the ones with the highest weight decide.            *)
(***************************************************************************)
EXTENDS CidrRange

CONSTANTS
    V4Size, V6Size,     \* IPV4_ADDRESS_SIZE and IPV6_ADDRESS_SIZE
    LoopbackAddress,    \* 127.0.0.1/32 and ::1/128, by size
    WfpCalls,           \* the calls of the operations, with their arguments
    Packets,            \* the traffic: [app, direction, local, remote, ...]
    MaxCalls            \* bound on the number of calls

ASSUME WfpAssumption ==
    /\ AddressSizes = {V4Size, V6Size} /\ V4Size # V6Size
    /\ MaxCalls \in Nat

VARIABLES
    engine,     \* the stage of the session: "new", "register", "allow_self",
                \* "open", "invalid" (engine_handle) or "destroyed"
    txn,        \* the transaction: [call, todo, added], or NoTransaction
    stale,      \* a transaction whose commit failed is still in progress
    installed,  \* filters in force
    granted,    \* ghost: the calls that returned no error
    calls       \* number of calls

wfpVars == <<engine, txn, stale, installed, granted, calls>>

NoTransaction == [call |-> "none"]

\* Faulty: what allows the tunnel weighs less than what denies the rest.
Weight_low ==
    [dns_deny |-> 1, dns_allow |-> 2, ipv6_deny |-> 3,
     untunneled_deny |-> 3, untunneled_allow |-> 2, self_allow |-> 15]

Weight ==
    [dns_deny |-> 1, dns_allow |-> 2, ipv6_deny |-> 3,
     untunneled_deny |-> 3, untunneled_allow |-> 4, self_allow |-> 15]

-----------------------------------------------------------------------------
(* The filters of the operations.                                          *)

Directions == <<"connect", "accept">>

\* The same filter in the layers of one address size.
Filters(n, weight, action, conditions) ==
    [i \in 1 .. 2 |->
        [layer |-> <<Directions[i], n>>, weight |-> weight,
         action |-> action, conditions |-> conditions]]

Is(field, values) == {[field |-> field, value |-> v] : v \in values}

\* Ranges of the other family are left out.
OfSize(ranges, n) == {r \in ranges : Len(r.m_address) = n}

AllowSelf ==
    Filters(V4Size, Weight.self_allow, "permit", Is("app", {"self"}))
        \o Filters(V6Size, Weight.self_allow, "permit", Is("app", {"self"}))

DnsConditions == Is("remote_port", {"dns"}) \cup Is("protocol", {"tcp", "udp"})

DnsAllow(n, allowed) ==
    IF OfSize(allowed, n) = {}
    THEN <<>>
    ELSE Filters(n, Weight.dns_allow, "permit",
                 DnsConditions \cup Is("remote", OfSize(allowed, n)))

restrict_dns_to(allowed_v4, allowed_v6) ==
    Filters(V4Size, Weight.dns_deny, "block", DnsConditions)
        \o Filters(V6Size, Weight.dns_deny, "block", DnsConditions)
        \o DnsAllow(V4Size, allowed_v4)
        \o DnsAllow(V6Size, allowed_v6)

block_ipv6 == Filters(V6Size, Weight.ipv6_deny, "block", {})

\* One family of block_untunneled.
BlockUntunneled(n, tunaddr, incl, excl_ports) ==
    LET remote == Is("remote", OfSize(incl, n))
        excluded ==
            IF excl_ports = {}
            THEN <<>>
            ELSE Filters(n, Weight.untunneled_allow, "permit",
                         remote \cup Is("local_port", excl_ports))
    IN  IF Len(tunaddr.m_address) = n /\ incl # {}
        THEN Filters(n, Weight.untunneled_deny, "block", remote)
                \o Filters(n, Weight.untunneled_allow, "permit",
                           remote \cup Is("local", {tunaddr, LoopbackAddress[n]}))
                \o excluded
        ELSE <<>>

BlockUntunneledV4(c) == BlockUntunneled(V4Size, c.tunaddr4, c.incl4, c.excl_ports)

BlockUntunneledV6(c) == BlockUntunneled(V6Size, c.tunaddr6, c.incl6, c.excl_ports)

\* What a call adds to the engine; the provider and the sublayer are no filters.
Objects(c) ==
    CASE c.op = "register" -> <<[action |-> "provider"], [action |-> "sublayer"]>>
      [] c.op = "allow_self" -> AllowSelf
      [] c.op = "restrict_dns_to" -> restrict_dns_to(c.allowed_v4, c.allowed_v6)
      [] c.op = "block_ipv6" -> block_ipv6
      [] c.op = "block_untunneled" -> BlockUntunneledV4(c) \o BlockUntunneledV6(c)

-----------------------------------------------------------------------------
(* The session and its transactions.                                       *)

WfpInit ==
    /\ engine = "new"
    /\ txn = NoTransaction
    /\ stale = FALSE
    /\ installed = {} /\ granted = {}
    /\ calls = 0

EngineOpen ==
    /\ engine = "new"
    /\ engine' \in {"register", "invalid"}
    /\ UNCHANGED <<txn, stale, installed, granted, calls>>

\* The operation returns an error, which ends the constructor and its session.
Fail ==
    /\ txn' = NoTransaction
    /\ engine' = IF engine = "open" THEN engine ELSE "invalid"
    /\ installed' = IF engine = "open" THEN installed ELSE {}
    /\ granted' = IF engine = "open" THEN granted ELSE {}

\* The calls that may come next: the constructor's own, then the user's.
NextCalls ==
    CASE engine = "register" -> {[op |-> "register"]}
      [] engine = "allow_self" -> {[op |-> "allow_self"]}
      [] engine = "open" /\ calls < MaxCalls -> WfpCalls
      [] OTHER -> {}

TransactionBegin(c) ==
    /\ txn = NoTransaction
    /\ \/ /\ ~stale
          /\ txn' = [call |-> c, todo |-> Objects(c), added |-> {}]
          /\ UNCHANGED <<engine, installed, granted>>
       \/ Fail
    /\ calls' = IF engine = "open" THEN calls + 1 ELSE calls
    /\ UNCHANGED stale

InTransaction == txn # NoTransaction

AddObject ==
    /\ InTransaction /\ txn.todo # <<>>
    /\ txn' = [txn EXCEPT !.todo = Tail(@), !.added = @ \cup {Head(txn.todo)}]
    /\ UNCHANGED <<engine, stale, installed, granted, calls>>

\* One of the engine's calls, or of the calls that find the own process, fails:
\* the transaction is aborted.
AddFails ==
    /\ InTransaction /\ txn.todo # <<>>
    /\ Fail
    /\ UNCHANGED <<stale, calls>>

NextStage ==
    CASE engine = "register" -> "allow_self"
      [] engine = "allow_self" -> "open"
      [] OTHER -> engine

TransactionCommit ==
    /\ InTransaction /\ txn.todo = <<>>
    /\ installed' = installed \cup {o \in txn.added : o.action \in {"permit", "block"}}
    /\ granted' = granted \cup {txn.call}
    /\ txn' = NoTransaction
    /\ engine' = NextStage
    /\ UNCHANGED <<stale, calls>>

\* A commit that fails is not followed by an abort.
CommitFails ==
    /\ InTransaction /\ txn.todo = <<>>
    /\ Fail
    /\ stale' \in BOOLEAN
    /\ UNCHANGED calls

\* The destructor closes the session.
Destroy ==
    /\ engine \in {"open", "invalid"} /\ ~InTransaction
    /\ engine' = "destroyed"
    /\ installed' = {} /\ granted' = {}
    /\ UNCHANGED <<txn, stale, calls>>

WfpNext ==
    \/ EngineOpen
    \/ \E c \in NextCalls : TransactionBegin(c)
    \/ AddObject \/ AddFails
    \/ TransactionCommit \/ CommitFails
    \/ Destroy

WfpSpec == WfpInit /\ [][WfpNext]_wfpVars

-----------------------------------------------------------------------------

\* A condition holds of a packet, and a filter matches it.
Holds(c, p) ==
    CASE c.field = "remote" -> contains_address(c.value, p.remote)
      [] c.field = "local" -> contains_address(c.value, p.local)
      [] OTHER -> p[c.field] = c.value

Matches(f, p) ==
    /\ f.layer = <<p.direction, Len(p.remote)>>
    /\ \A c \in f.conditions :
          \E d \in f.conditions : d.field = c.field /\ Holds(d, p)

\* What the platform decides in the sublayer of this firewall.
Blocked(p) ==
    LET matching == {f \in installed : Matches(f, p)}
    IN  \E f \in matching :
            f.action = "block" /\ \A g \in matching : g.weight <= f.weight

WfpTypeOK ==
    /\ engine \in {"new", "register", "allow_self", "open", "invalid", "destroyed"}
    /\ stale \in BOOLEAN
    /\ calls \in 0 .. MaxCalls
    /\ granted \subseteq WfpCalls \cup {[op |-> "register"], [op |-> "allow_self"]}
    /\ \A f \in installed : f.action \in {"permit", "block"}

Granted(op) == {c \in granted : c.op = op}

Within(ranges, a) == \E r \in ranges : contains_address(r, a)

IsDns(p) == p.remote_port = "dns" /\ p.protocol \in {"tcp", "udp"}

Included(c, p) == IF Len(p.remote) = V4Size THEN c.incl4 ELSE c.incl6

TunAddress(c, p) == IF Len(p.remote) = V4Size THEN c.tunaddr4 ELSE c.tunaddr6

HasTunAddress(c, p) == Len(TunAddress(c, p).m_address) = Len(p.remote)

\* The block_untunneled calls that are about a packet: to an included prefix of a
\* family the tunnel has an address of.
About(p) ==
    {c \in Granted("block_untunneled") : HasTunAddress(c, p) /\ Within(Included(c, p), p.remote)}

\* Calls with prefixes for the packet's family none of which is of that family.
NoPrefixLeft(p) ==
    {c \in Granted("block_untunneled") :
        HasTunAddress(c, p) /\ Included(c, p) # {} /\ OfSize(Included(c, p), Len(p.remote)) = {}}

Tunneled(c, p) ==
    \/ Within({TunAddress(c, p), LoopbackAddress[Len(p.remote)]}, p.local)
    \/ p.local_port \in c.excl_ports

AllowsDns(c, p) == c.op = "restrict_dns_to" /\ Within(c.allowed_v4 \cup c.allowed_v6, p.remote)

\* "Block all inbound/outbound IPv6 traffic" and "Block DNS traffic to/from all
\* addresses except" the allowed ones.
Restricts(c, p) ==
    \/ c.op = "block_ipv6" /\ Len(p.remote) = V6Size
    \/ c.op = "restrict_dns_to" /\ IsDns(p) /\ ~AllowsDns(c, p)

Restricted(p) == \E c \in granted : Restricts(c, p)

\* What must be blocked, and what must pass.  The header's sentences leave nothing
\* open, but the filters let what one call allows through against other calls: the
\* DNS servers of one list, and tunneled traffic.  They also block loopback traffic from
\* other addresses than 127.0.0.1 and ::1, and everything for prefixes of the wrong
\* family.  For these packets neither is asked for; RestrictionsHold, LoopbackOpen and
\* BlockedForReason say what the header says of them.
MustBlock(p) ==
    /\ p.app # "self" /\ NoPrefixLeft(p) = {}
    /\ \/ About(p) # {} /\ ~p.loopback
       \/ \E c \in granted :
             /\ Restricts(c, p)
             /\ c.op = "restrict_dns_to" => ~\E d \in granted : AllowsDns(d, p)
    /\ \A c \in About(p) : ~Tunneled(c, p)

MustPass(p) ==
    \/ p.app = "self"
    \/ ~Restricted(p) /\ NoPrefixLeft(p) = {} /\ \A c \in About(p) : Tunneled(c, p)

\* The operations that returned no error are in force, in any order and after any
\* failures between them, and nothing else is: traffic to the included prefixes is
\* blocked unless it is tunneled; what no call is about, what is tunneled and not
\* restricted otherwise, and all of the excluded process passes; the rest is subject to
\* block_ipv6 and restrict_dns_to.
PolicyEnforced ==
    \A p \in Packets : (MustBlock(p) => Blocked(p)) /\ (MustPass(p) => ~Blocked(p))

\* block_ipv6 and restrict_dns_to hold whatever else was called: "All restrictions
\* added through this instance are active until this instance is destroyed."
RestrictionsHold == \A p \in Packets : p.app # "self" /\ Restricted(p) => Blocked(p)

\* Only what some call is about is blocked.
BlockedForReason == \A p \in Packets : Blocked(p) => Restricted(p) \/ About(p) # {}

\* The excluded process is never restricted ("ID of the process to exclude from
\* all restrictions"), not even between the transactions of the constructor.
SelfOpen == \A p \in Packets : p.app = "self" => ~Blocked(p)

\* "All restrictions added through this instance are active until this instance
\* is destroyed."
RestrictionsLast ==
    [][engine' # "destroyed" => \A p \in Packets : Blocked(p) => Blocked(p)']_wfpVars

\* block_untunneled: "Traffic to/from loopback is never blocked."
LoopbackOpen ==
    {c.op : c \in granted} \subseteq {"register", "allow_self", "block_untunneled"} =>
        \A p \in Packets : p.loopback /\ NoPrefixLeft(p) = {} => ~Blocked(p)
=============================================================================
