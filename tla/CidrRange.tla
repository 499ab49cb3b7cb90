----------------------------- MODULE CidrRange -----------------------------
(***************************************************************************)
(* The CIDR ranges of common/cidr_range.h: construction from address bytes *)
(* and a prefix length, containment, splitting and the order of ranges.    *)
(*                                                                         *)
(* A byte is the set of the positions of its one bits, so the code's & and *)
(* | are intersection and union.  ByteBits is 8 in the code, and           *)
(* AddressSizes is {4, 16}; the code handles every byte by the same rule,  *)
(* so smaller values meet every case of it.                                *)
(***************************************************************************)
EXTENDS Integers, Sequences

CONSTANTS
    ByteBits,       \* bits of a byte
    AddressSizes    \* lengths of an address in bytes, one per family

ASSUME CidrAssumption ==
    /\ ByteBits \in Nat \ {0}
    /\ AddressSizes \subseteq Nat \ {0}

Bits == 0 .. ByteBits - 1

Byte == SUBSET Bits

Addresses == UNION {[1 .. n -> Byte] : n \in AddressSizes}

\* (uint8_t) (0xff << shift)
HighBits(shift) == {b \in Bits : b >= shift}

\* The byte that holds the last bit of a prefix of p > 0 bits (counted from 1),
\* and the number of bits below the prefix in that byte.
SignificantByte(p) == (p - 1) \div ByteBits + 1

Shift(p) == ByteBits - (p - (SignificantByte(p) - 1) * ByteBits)

\* m_mask of a range of n bytes and p prefix bits.
MaskByte(p, i) ==
    CASE p = 0 \/ i > SignificantByte(p) -> {}
      [] p # 0 /\ i < SignificantByte(p) -> Bits
      [] p # 0 /\ i = SignificantByte(p) -> HighBits(Shift(p))

\* A range whose construction failed keeps its empty members (and an m_error).
InvalidRange == [m_address |-> <<>>, m_mask |-> <<>>, m_prefix_len |-> 0]

\* The range of the first p bits of addr.
init(addr, p) ==
    IF p > Len(addr) * ByteBits
    THEN InvalidRange
    ELSE [m_address |-> [i \in 1 .. Len(addr) |-> addr[i] \cap MaskByte(p, i)],
          m_mask |-> [i \in 1 .. Len(addr) |-> MaskByte(p, i)],
          m_prefix_len |-> p]

Ranges ==
    {InvalidRange} \cup
    UNION {{init(a, p) : p \in 0 .. Len(a) * ByteBits} : a \in Addresses}

contains(r, q) ==
    /\ Len(q.m_address) = Len(r.m_address)
    /\ \A i \in 1 .. Len(r.m_address) :
          /\ r.m_mask[i] = q.m_mask[i] \cap r.m_mask[i]
          /\ r.m_address[i] \cap r.m_mask[i] = q.m_address[i] \cap r.m_mask[i]

contains_address(r, a) ==
    /\ Len(a) = Len(r.m_address)
    /\ \A i \in 1 .. Len(r.m_address) :
          r.m_address[i] \cap r.m_mask[i] = a[i] \cap r.m_mask[i]

\* The addresses some range of a list holds.
Covered(ranges) ==
    {a \in Addresses : \E i \in DOMAIN ranges : contains_address(ranges[i], a)}

IsSingle(r) == r.m_prefix_len = Len(r.m_address) * ByteBits

\* The halves of a range that is not a single address; the right one has the
\* bit after the prefix set.
LeftHalf(r) == init(r.m_address, r.m_prefix_len + 1)

RightHalf(r) ==
    LET p == r.m_prefix_len + 1
    IN  init([i \in 1 .. Len(r.m_address) |->
                 IF i = SignificantByte(p)
                 THEN r.m_address[i] \cup {Shift(p)}
                 ELSE r.m_address[i]], p)

\* The numeric order of bytes: the highest bit that differs decides.
ByteLess(x, y) == \E b \in y \ x : \A c \in x \ y : c < b

\* operator<
RangeLess(r, q) ==
    IF Len(r.m_address) # Len(q.m_address)
    THEN Len(r.m_address) < Len(q.m_address)
    ELSE \/ \E i \in 1 .. Len(r.m_address) :
               /\ ByteLess(r.m_address[i], q.m_address[i])
               /\ \A j \in 1 .. i - 1 : r.m_address[j] = q.m_address[j]
         \/ /\ r.m_address = q.m_address
            /\ r.m_prefix_len < q.m_prefix_len
=============================================================================
