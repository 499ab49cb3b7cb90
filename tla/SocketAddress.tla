---------------------------- MODULE SocketAddress ----------------------------
(***************************************************************************)
(* ag::SocketAddress (socket_address.cpp) and the splitting and joining of *)
(* host and port (net_utils.cpp).  An IPv4 address is two numbers, its     *)
(* network and the host in it; an IPv6 one has a third number in front,    *)
(* which is that of the mapped addresses or not.  The variables hold the   *)
(* arguments of the functions: addresses, and a text that grows.           *)
(***************************************************************************)
EXTENDS Integers, Sequences, SequencesExt, FiniteSets, FiniteSetsExt

CONSTANTS
    Networks,       \* first numbers of IPv4 addresses; 0 and LoopbackNet among them
    LoopbackNet,    \* 127
    Hosts,          \* second numbers; 0 and 1 among them
    FrontNumbers,   \* front numbers of IPv6 addresses; 0 and MappedPrefix among them
    MappedPrefix,
    Ports,
    Scopes,         \* scope ids of IPv6 addresses, 0 for none
    MaxAddresses,   \* bound: addresses compared with each other
    AddressChars,   \* "[", "]", ":" and others
    MaxText         \* bound: the length of an address text

ASSUME SocketAddressAssumption ==
    /\ {0, LoopbackNet} \subseteq Networks /\ {0, 1} \subseteq Hosts
    /\ {0, MappedPrefix} \subseteq FrontNumbers /\ MappedPrefix # 0 /\ LoopbackNet # 0
    /\ {MaxAddresses, MaxText} \subseteq Nat /\ 0 \in Scopes /\ {":", "[", "]"} \subseteq AddressChars

VARIABLES
    compared,        \* the addresses
    address_string

addressVars == <<compared, address_string>>

V4Addresses == Networks \X Hosts
V6Addresses == FrontNumbers \X Networks \X Hosts

\* SocketAddressStorage
NoAddress == [sa_family |-> "AF_UNSPEC", addr |-> <<>>, port |-> 0, scope |-> 0]

\* make_sockaddr_storage(Uint8View, uint16_t)
make_sockaddr_storage(addr, port) ==
    CASE Len(addr) = 3 -> [sa_family |-> "AF_INET6", addr |-> addr, port |-> port, scope |-> 0]
      [] Len(addr) = 2 -> [sa_family |-> "AF_INET", addr |-> addr, port |-> port, scope |-> 0]
      [] OTHER -> NoAddress

\* What the constructors make; a scope comes with the numeric host or the sockaddr.
SocketAddresses ==
    {NoAddress}
    \cup {make_sockaddr_storage(a, p) : a \in V4Addresses \cup V6Addresses, p \in Ports}
    \cup {[make_sockaddr_storage(a, p) EXCEPT !.scope = s] :
             a \in V6Addresses, p \in Ports, s \in Scopes}

AddressInit == compared = <<>> /\ address_string = <<>>

AddressNext ==
    \/ /\ Len(compared) < MaxAddresses /\ address_string = <<>>
       /\ \E a \in SocketAddresses : compared' = Append(compared, a)
       /\ UNCHANGED address_string
    \/ /\ Len(address_string) < MaxText /\ compared = <<>>
       /\ \E c \in AddressChars : address_string' = Append(address_string, c)
       /\ UNCHANGED compared

-----------------------------------------------------------------------------
(* Comparing.  The bytes of the left address decide how many are compared. *)

FamilyNumber(a) ==
    CASE a.sa_family = "AF_UNSPEC" -> 0 [] a.sa_family = "AF_INET" -> 2
      [] a.sa_family = "AF_INET6" -> 10

\* The order of the fields in memory.
StorageBytes(a) == <<FamilyNumber(a), a.port>> \o a.addr \o <<a.scope>>

c_socklen(a) == IF a.sa_family = "AF_UNSPEC" THEN 0 ELSE Len(StorageBytes(a))

\* std::memcmp of n bytes; the storage is zero behind the address.
memcmp(a, b, n) ==
    LET at(s, i) == IF i <= Len(StorageBytes(s)) THEN StorageBytes(s)[i] ELSE 0
        differ == {i \in 1 .. n : at(a, i) # at(b, i)}
    IN  IF differ = {} THEN 0
        ELSE IF at(a, Min(differ)) < at(b, Min(differ)) THEN -1 ELSE 1

Compared(a) == c_socklen(a)

LessThan(a, b) == memcmp(a, b, Compared(a)) < 0

EqualTo(a, b) == memcmp(a, b, Compared(a)) = 0

\* std::hash takes as many bytes.
HashOf(a) == SubSeq(StorageBytes(a), 1, c_socklen(a))

-----------------------------------------------------------------------------
(* Kinds of addresses, and casts *)

valid(a) == a.sa_family # "AF_UNSPEC"

is_ipv4_mapped(a) == a.sa_family = "AF_INET6" /\ a.addr[1] = MappedPrefix

is_ipv4(a) == a.sa_family = "AF_INET" \/ is_ipv4_mapped(a)

addr_unmapped(a) == IF is_ipv4_mapped(a) THEN Tail(a.addr) ELSE a.addr

to_ipv4_unmapped(a) ==
    CASE a.sa_family = "AF_INET" -> a
      [] is_ipv4_mapped(a) -> make_sockaddr_storage(Tail(a.addr), a.port)
      [] OTHER -> NoAddress

\* Faulty variant: the port is not carried over.
to_ipv4_mapped_portless(a) ==
    CASE a.sa_family = "AF_INET6" -> a
      [] a.sa_family = "AF_INET" -> make_sockaddr_storage(<<MappedPrefix>> \o a.addr, 0)
      [] OTHER -> NoAddress

to_ipv4_mapped(a) ==
    CASE a.sa_family = "AF_INET6" -> a
      [] a.sa_family = "AF_INET" -> make_sockaddr_storage(<<MappedPrefix>> \o a.addr, a.port)
      [] OTHER -> NoAddress

socket_family_cast(a, family) ==
    CASE family = "AF_INET" -> to_ipv4_unmapped(a)
      [] family = "AF_INET6" -> to_ipv4_mapped(a)
      [] OTHER -> NoAddress

is_loopback(a) ==
    CASE is_ipv4(a) -> to_ipv4_unmapped(a).addr[1] = LoopbackNet
      [] a.sa_family = "AF_INET6" /\ ~is_ipv4_mapped(a) -> a.addr = <<0, 0, 1>>
      [] OTHER -> FALSE

is_any(a) ==
    CASE is_ipv4(a) -> to_ipv4_unmapped(a).addr = <<0, 0>>
      [] a.sa_family = "AF_INET6" /\ ~is_ipv4_mapped(a) -> a.addr = <<0, 0, 0>>
      [] OTHER -> FALSE

set_port(a, port) == IF valid(a) THEN [a EXCEPT !.port = port] ELSE a

-----------------------------------------------------------------------------
(* Host and port *)

TextError == "error"

\* Where the text t stands in s, counted from 1.
PlacesIn(s, t) == {i \in 1 .. Len(s) - Len(t) + 1 : SubSeq(s, i, i + Len(t) - 1) = t}

\* A text in front of which no bracket stands.
split_plain(s, in_brackets, non_empty_port) ==
    LET colons == PlacesIn(s, <<":">>)
    IN  CASE colons = {} -> <<s, <<>>>>
          [] Cardinality(colons) > 1 -> IF in_brackets THEN TextError ELSE <<s, <<>>>>
          [] OTHER -> IF non_empty_port /\ Last(s) = ":" THEN TextError
                      ELSE <<SubSeq(s, 1, Min(colons) - 1), SubSeq(s, Min(colons) + 1, Len(s))>>

\* A text that starts with a bracket.
split_bracketed(s, non_empty_port) ==
    LET ends == PlacesIn(s, <<"]", ":">>)
        port == SubSeq(s, Min(ends) + 2, Len(s))
    IN  IF ends # {}
        THEN IF non_empty_port /\ port = <<>> THEN TextError
             ELSE <<SubSeq(s, 2, Min(ends) - 1), port>>
        ELSE IF Last(s) = "]" THEN <<SubSeq(s, 2, Len(s) - 1), <<>>>> ELSE TextError

split_host_port(s, in_brackets, non_empty_port) ==
    IF s # <<>> /\ Head(s) = "[" THEN split_bracketed(s, non_empty_port)
    ELSE split_plain(s, in_brackets, non_empty_port)

join_host_port(host, port) ==
    IF PlacesIn(host, <<":">>) # {} THEN <<"[">> \o host \o <<"]", ":">> \o port
    ELSE host \o <<":">> \o port

-----------------------------------------------------------------------------

AddressTypeOK ==
    /\ \A i \in DOMAIN compared : compared[i].sa_family \in {"AF_UNSPEC", "AF_INET", "AF_INET6"}
    /\ Len(address_string) <= MaxText

\* A cast changes nothing but the family, and can be taken back; an address that cannot
\* be cast gives an invalid one.
CastExact ==
    Len(compared) = 1 => \A family \in {"AF_INET", "AF_INET6"} :
        LET a == compared[1]
            b == socket_family_cast(a, family)
        IN  /\ valid(b) <=> (IF family = "AF_INET" THEN is_ipv4(a) ELSE valid(a))
            /\ valid(b) => /\ b.sa_family = family /\ b.port = a.port
                           /\ addr_unmapped(b) = addr_unmapped(a)
                           /\ is_loopback(b) = is_loopback(a) /\ is_any(b) = is_any(a)
                           /\ a.scope = 0 => socket_family_cast(b, a.sa_family) = a

\* Valid addresses are totally ordered, in agreement with their equality and hash: they
\* may be the keys of ordered and of hashed containers.
OrderTotal ==
    (Len(compared) = 2 /\ \A i \in DOMAIN compared : valid(compared[i])) =>
        LET a == compared[1]
            b == compared[2]
        IN  /\ EqualTo(a, b) <=> a = b
            /\ EqualTo(a, b) <=> HashOf(a) = HashOf(b)
            /\ ~(LessThan(a, b) /\ LessThan(b, a))
            /\ LessThan(a, b) \/ LessThan(b, a) <=> ~EqualTo(a, b)
            /\ LessThan(a, b) =>
                  \A c \in SocketAddresses : valid(c) /\ LessThan(b, c) => LessThan(a, c)

\* What is joined from a host and a port is split into them again, also when the host
\* has colons, and what was split from a text with a port is that text's host and port.
HostPortRoundTrip ==
    /\ \A n \in 0 .. Len(address_string) :
          LET host == SubSeq(address_string, 1, n)
              port == SubSeq(address_string, n + 1, Len(address_string))
          IN  /\ PlacesIn(host, <<"[">>) = {} /\ PlacesIn(host, <<"]">>) = {}
              /\ PlacesIn(port, <<":">>) = {}
              => split_host_port(join_host_port(host, port), FALSE, FALSE) = <<host, port>>
    /\ LET split == split_host_port(address_string, TRUE, TRUE)
       IN  split # TextError /\ PlacesIn(address_string, <<"[">>) = {}
           => split[2] # <<>> \/ PlacesIn(address_string, <<":">>) = {}

\* Socket addresses are cast, compared, split and joined without losing anything.
AddressesExact == CastExact /\ OrderTotal /\ HostPortRoundTrip
=============================================================================
