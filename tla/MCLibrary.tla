----------------------------- MODULE MCLibrary ------------------------------
(***************************************************************************)
(* The components of the library that share no state with each other: the  *)
(* address ranges and what is built on them, function objects, the         *)
(* rotating log, the line readers, the HTTP header container, the byte     *)
(* converters, the logger, the owning handles, the expiring values, the    *)
(* string and format functions, socket addresses and what is asked of the  *)
(* system.  A behaviour exercises one of them, the subject, and leaves the *)
(* others idle.                                                            *)
(***************************************************************************)
EXTENDS CidrExclude, CidrRangeSet, RouteResolver, WfpFirewall, MoveOnlyFunction,
        RotatingLog, FileLines, Headers, Codecs, Logger, Owners, ExpiringValue,
        Formats, SystemNet

CONSTANTS
    Subjects,                      \* the components exercised
    Small, Capital, Other          \* characters

VARIABLE subject

Net(addr, p) == init(addr, p)

V4 == <<{}>>
V6 == <<{}, {}>>

\* Originals: a family, a part of it, a single address, an invalid range, both
\* families, two neighbours in the wrong order, and two nested ranges.
MCOriginalLists ==
    {<<Net(V6, 0)>>, <<Net(V6, 1)>>, <<Net(V4, 2)>>, <<InvalidRange>>,
     <<Net(V6, 0), Net(V4, 0)>>, <<Net(<<{1}, {}>>, 2), Net(V6, 1)>>,
     <<Net(V6, 3), Net(V6, 1)>>}

\* Excluded: any range, and a second one inside, around or apart from it.
MCExcludedLists ==
    {<<>>, <<InvalidRange>>} \cup
    {<<r, q>> : r \in Ranges,
                q \in {Net(V6, p) : p \in 0 .. 4} \cup {Net(<<{0, 1}, {1}>>, 3), Net(V4, 1)}}

\* Routes of both families: nested ones, and one that is not listed.
Route(addr, p, i, l) == [range |-> init(addr, p), if_index |-> i, listed |-> l]

MCKernelRoutes ==
    {Route(V4, 0, 1, TRUE), Route(V4, 1, 2, TRUE),
     Route(V4, 2, 3, TRUE), Route(V4, 2, 1, FALSE),
     Route(<<{1}, {}>>, 1, 2, TRUE), Route(<<{1}, {1}>>, 3, 3, TRUE)}

\* The firewall's calls: 0 is the address of the tunnel and 2 that of the
\* loopback interface; everything, one address or no valid prefix is included.
MCLoopbackAddress == [n \in {1, 2} |-> IF n = 1 THEN Net(<<{1}>>, 2) ELSE Net(<<{1}, {}>>, 4)]

Untunneled(t4, t6, i4, i6, ports) ==
    [op |-> "block_untunneled", tunaddr4 |-> t4, tunaddr6 |-> t6,
     incl4 |-> i4, incl6 |-> i6, excl_ports |-> ports]

RestrictDns(a4, a6) == [op |-> "restrict_dns_to", allowed_v4 |-> a4, allowed_v6 |-> a6]

MCWfpCalls ==
    {RestrictDns({Net(<<{0}>>, 2), InvalidRange}, {}),
     RestrictDns({}, {Net(<<{0}, {}>>, 2)}),
     [op |-> "block_ipv6"],
     Untunneled(Net(V4, 2), Net(V6, 4), {Net(V4, 0)}, {Net(V6, 1)}, {}),
     Untunneled(Net(V4, 2), InvalidRange, {Net(<<{0}>>, 2), Net(V6, 1)}, {Net(V6, 0)}, {"excluded"}),
     Untunneled(Net(V4, 2), Net(V6, 4), {InvalidRange}, {}, {})}

MCPackets ==
    {[app |-> a, direction |-> "connect", local |-> l, remote |-> r,
      local_port |-> lp, remote_port |-> rp, protocol |-> "udp",
      loopback |-> {1} \subseteq l[1] /\ {1} \subseteq r[1]] :
        a \in {"self", "other"}, l \in {<<{}>>, <<{1}>>, <<{0, 1}>>},
        r \in {<<{0}>>, <<{1}>>, <<{0, 1}>>},
        lp \in {"excluded", "any"}, rp \in {"dns", "any"}}
    \cup
    {[app |-> a, direction |-> "accept", local |-> l, remote |-> r,
      local_port |-> "any", remote_port |-> "dns", protocol |-> pr,
      loopback |-> FALSE] :
        a \in {"self", "other"}, l \in {<<{}, {}>>, <<{0}, {}>>},
        r \in {<<{}, {0}>>, <<{0}, {0}>>, <<{1}, {0}>>}, pr \in {"tcp", "other"}}

NoExclude == original_ranges = <<>> /\ excluded_ranges = <<>> /\ stack = <<>> /\ done = <<>>

\* A byte of no character, characters cut after one and after two bytes, forms longer
\* than their characters need, and a number that is no character.
MCBroken ==
    {<<255>>, <<195>>, <<240, 144>>,
     <<192, 128>>, <<224, 128, 128>>, <<240, 143, 191, 191>>, <<247, 191, 191, 191>>}

MCLowerCase == [c \in StringChars |-> IF c = Capital THEN Small ELSE c]
MCDelimString == <<Backslash, Backslash>>
MCNeedle == <<Small, Capital>>

\* Times before and after the epoch, on whole seconds and between them.
MCTimes == -25 .. 25

\* One interface has the better metric for IPv4, the other for IPv6.
MCMetrics == [f \in Families |-> IF f = "AF_INET" THEN <<2, 1>> ELSE <<0, 3>>]
MCUnfiltered == {make_sockaddr_storage(<<0, 1>>, 53), make_sockaddr_storage(<<0, 0, 0>>, 53)}

Init ==
    /\ subject \in Subjects
    /\ IF subject = "exclude" THEN ExcludeInit ELSE NoExclude
    /\ RangeSetInit
    /\ RouteInit
    /\ WfpInit
    /\ FunctionInit
    /\ LogInit /\ (subject # "log" => m_files_count = 0)
    /\ FileInit /\ (subject # "lines" => content = <<>> /\ stop_after = 0)
    /\ HeadersInit /\ (subject # "headers" => message.kind = "response")
    /\ CodecInit
    /\ LoggerInit /\ (subject # "logger" => g_log_level = 0)
    /\ OwnersInit
    /\ ExpiringInit /\ (subject # "expiring" => \A h \in Expirings : expiring[h].m_duration = 0)
    /\ StringInit
    /\ FormatInit
    /\ AddressInit
    /\ NetInit /\ (subject # "system net" => part = "dns")

Next ==
    \/ /\ subject = "exclude" /\ ExcludeNext
       /\ UNCHANGED <<subject, setVars, routeVars, wfpVars, functionVars, logVars, fileVars, headerVars, codecVars,
                      loggerVars, ownerVars, expiringVars, stringVars, formatVars, addressVars, netVars>>
    \/ /\ subject = "range set" /\ RangeSetNext
       /\ UNCHANGED <<subject, excludeVars, routeVars, wfpVars, functionVars, logVars, fileVars, headerVars, codecVars,
                      loggerVars, ownerVars, expiringVars, stringVars, formatVars, addressVars, netVars>>
    \/ /\ subject = "routes" /\ RouteNext
       /\ UNCHANGED <<subject, excludeVars, setVars, wfpVars, functionVars, logVars, fileVars, headerVars, codecVars,
                      loggerVars, ownerVars, expiringVars, stringVars, formatVars, addressVars, netVars>>
    \/ /\ subject = "firewall" /\ WfpNext
       /\ UNCHANGED <<subject, excludeVars, setVars, routeVars, functionVars, logVars, fileVars, headerVars, codecVars,
                      loggerVars, ownerVars, expiringVars, stringVars, formatVars, addressVars, netVars>>
    \/ /\ subject = "functions" /\ FunctionNext
       /\ UNCHANGED <<subject, excludeVars, setVars, routeVars, wfpVars, logVars, fileVars, headerVars, codecVars,
                      loggerVars, ownerVars, expiringVars, stringVars, formatVars, addressVars, netVars>>
    \/ /\ subject = "log" /\ LogNext
       /\ UNCHANGED <<subject, excludeVars, setVars, routeVars, wfpVars, functionVars, fileVars, headerVars, codecVars,
                      loggerVars, ownerVars, expiringVars, stringVars, formatVars, addressVars, netVars>>
    \/ /\ subject = "lines" /\ FileNext
       /\ UNCHANGED <<subject, excludeVars, setVars, routeVars, wfpVars, functionVars, logVars, headerVars, codecVars,
                      loggerVars, ownerVars, expiringVars, stringVars, formatVars, addressVars, netVars>>
    \/ /\ subject = "headers" /\ HeadersNext
       /\ UNCHANGED <<subject, excludeVars, setVars, routeVars, wfpVars, functionVars, logVars, fileVars, codecVars,
                      loggerVars, ownerVars, expiringVars, stringVars, formatVars, addressVars, netVars>>
    \/ /\ subject = "codecs" /\ CodecNext
       /\ UNCHANGED <<subject, excludeVars, setVars, routeVars, wfpVars, functionVars, logVars, fileVars, headerVars,
                      loggerVars, ownerVars, expiringVars, stringVars, formatVars, addressVars, netVars>>
    \/ /\ subject = "logger" /\ LoggerNext
       /\ UNCHANGED <<subject, excludeVars, setVars, routeVars, wfpVars, functionVars, logVars, fileVars, headerVars,
                      codecVars, ownerVars, expiringVars, stringVars, formatVars, addressVars, netVars>>
    \/ /\ subject = "owners" /\ OwnersNext
       /\ UNCHANGED <<subject, excludeVars, setVars, routeVars, wfpVars, functionVars, logVars, fileVars, headerVars,
                      codecVars, loggerVars, expiringVars, stringVars, formatVars, addressVars, netVars>>
    \/ /\ subject = "expiring" /\ ExpiringNext
       /\ UNCHANGED <<subject, excludeVars, setVars, routeVars, wfpVars, functionVars, logVars, fileVars, headerVars,
                      codecVars, loggerVars, ownerVars, stringVars, formatVars, addressVars, netVars>>
    \/ /\ subject = "strings" /\ StringNext
       /\ UNCHANGED <<subject, excludeVars, setVars, routeVars, wfpVars, functionVars, logVars, fileVars, headerVars,
                      codecVars, loggerVars, ownerVars, expiringVars, formatVars, addressVars, netVars>>
    \/ /\ subject = "formats" /\ FormatNext
       /\ UNCHANGED <<subject, excludeVars, setVars, routeVars, wfpVars, functionVars, logVars, fileVars, headerVars,
                      codecVars, loggerVars, ownerVars, expiringVars, stringVars, addressVars, netVars>>
    \/ /\ subject = "addresses" /\ AddressNext
       /\ UNCHANGED <<subject, excludeVars, setVars, routeVars, wfpVars, functionVars, logVars, fileVars, headerVars,
                      codecVars, loggerVars, ownerVars, expiringVars, stringVars, formatVars, netVars>>
    \/ /\ subject = "system net" /\ NetNext
       /\ UNCHANGED <<subject, excludeVars, setVars, routeVars, wfpVars, functionVars, logVars, fileVars, headerVars,
                      codecVars, loggerVars, ownerVars, expiringVars, stringVars, formatVars, addressVars>>

vars ==
    <<subject, excludeVars, setVars, routeVars, wfpVars, functionVars, logVars, fileVars, headerVars,
      codecVars, loggerVars, ownerVars, expiringVars, stringVars, formatVars, addressVars, netVars>>

Spec == Init /\ [][Next]_vars

\* exclude() and the range set keep exactly the addresses they should: each is covered
\* once, by ranges as coarse as possible, and found again by includes().
RangesExact ==
    subject \in {"exclude", "range set"} =>
        /\ ExcludeExact /\ ExcludeDisjoint /\ ExcludeCoarse
        /\ Antichain /\ Partitioned /\ IncludesExact /\ MembersExact

\* The first match is the kernel's choice, in a table that is no older than the last
\* flush_cache() and not kept when it must not be.
RoutesExact == subject = "routes" => LongestPrefix /\ CacheFresh /\ CachedCurrent

\* Whatever is refused and whenever the process dies, the files hold the messages in
\* order and give up the oldest ones only.  What a fault costs is bounded: a free
\* number while messages are lost for each crash and each refusal, and two lines
\* beyond a limit for each refusal.
LogExact ==
    subject = "log" => OrderKept /\ LostAreOldest /\ LostOnlyWhenFull /\ SizeBound

\* The string helpers do what their names and comments say.
StringsExact ==
    subject = "strings" => SplitsExact /\ WrapKeepsWords /\ ShellArgument /\ FindsFirst /\ RemovesBySwap

\* What the firewall was told without an error is in force, and nothing else is, as far
\* as MustBlock and MustPass go.
PolicyExact == subject = "firewall" => PolicyEnforced

\* What is owned has one owner that is alive: callables, log callbacks, descriptors and
\* allocated data are used while they live, and destroyed once.
Ownership ==
    /\ HoldsExpected /\ DestroyedOnce /\ NothingLeaked /\ CallAlive
    /\ CallbackAlive
    /\ OwnedOnce
=============================================================================
