------------------------------- MODULE Codecs -------------------------------
(***************************************************************************)
(* The byte converters of the common library: Base64 (base64.h and .cpp),  *)
(* hexadecimal digits (utils.cpp) and UTF-8 to CESU-8 (cesu8.cpp).  The    *)
(* converters are functions of their input; the variables hold the input   *)
(* of one of them, which grows by one unit per step.                       *)
(***************************************************************************)
EXTENDS Integers, Sequences, SequencesExt

CONSTANTS
    DataBytes,      \* bytes to encode
    MaxData,        \* bound on their number
    CodePoints,     \* characters of the UTF-8 text
    Broken,         \* byte sequences that are no UTF-8, as the text may hold them
    MaxUnits        \* bound on the characters and broken sequences of a text

ASSUME CodecsAssumption ==
    /\ DataBytes \subseteq 0 .. 255
    /\ CodePoints \subseteq 0 .. 1114111
    /\ {MaxData, MaxUnits} \subseteq Nat

VARIABLES
    data,   \* bytes for encode_to_base64
    text    \* units of UTF-8 text: code points and broken sequences, as bytes

codecVars == <<data, text>>

-----------------------------------------------------------------------------
(* Base64.  A character is its index in the default alphabet; the URL-safe *)
(* replacements of 62 and 63 are 64 and 65.                                *)

PADDING == 66

Invalid == 77

\* BASE64_TABLE_DEFAULT and BASE64_TABLE_URL_SAFE
Base64Table(url_safe, v) == IF url_safe /\ v >= 62 THEN v + 2 ELSE v

\* BASIS_DEFAULT and BASIS_URL_SAFE
Basis(url_safe, c) ==
    CASE c <= 61 -> c
      [] c \in {62, 63} -> IF url_safe THEN Invalid ELSE c
      [] c \in {64, 65} -> IF url_safe THEN c - 2 ELSE Invalid
      [] OTHER -> Invalid

encode_base64_size(n, url_safe) ==
    IF url_safe THEN (n * 4 + 2) \div 3 ELSE ((n + 2) \div 3) * 4

\* The values of the characters for bytes a, b, c.
Sextets(a, b, c) ==
    <<a \div 4, (a % 4) * 16 + b \div 16, (b % 16) * 4 + c \div 64, c % 64>>

Encoded(url_safe, values) == [i \in DOMAIN values |-> Base64Table(url_safe, values[i])]

Padded(url_safe, n) == IF url_safe THEN <<>> ELSE [i \in 1 .. n |-> PADDING]

\* The one or two bytes after the last whole group.
LastGroup(d, url_safe) ==
    LET k == Len(d) - (Len(d) % 3)
    IN  CASE Len(d) % 3 = 0 -> <<>>
          [] Len(d) % 3 = 1 ->
                Encoded(url_safe, SubSeq(Sextets(d[k + 1], 0, 0), 1, 2)) \o Padded(url_safe, 2)
          [] Len(d) % 3 = 2 ->
                Encoded(url_safe, SubSeq(Sextets(d[k + 1], d[k + 2], 0), 1, 3)) \o Padded(url_safe, 1)

encode_to_base64(d, url_safe) ==
    FlattenSeq([g \in 1 .. Len(d) \div 3 |->
        Encoded(url_safe, Sextets(d[3 * g - 2], d[3 * g - 1], d[3 * g]))])
    \o LastGroup(d, url_safe)

\* The bytes of four characters.
Octets(w, x, y, z) == <<(w * 4 + x \div 16) % 256, (x * 16 + y \div 4) % 256, (y * 64 + z) % 256>>

\* The characters before the first padding character; an empty set is nullopt.
decode_base64(s, url_safe) ==
    LET len == CHOOSE n \in 0 .. Len(s) :
                   /\ n < Len(s) => s[n + 1] = PADDING
                   /\ \A i \in 1 .. n : s[i] # PADDING
        b(i) == Basis(url_safe, s[i])
        k == len - (len % 4)
    IN  IF (\E i \in 1 .. len : b(i) = Invalid) \/ len % 4 = 1
        THEN {}
        ELSE {FlattenSeq([g \in 1 .. len \div 4 |->
                  Octets(b(4 * g - 3), b(4 * g - 2), b(4 * g - 1), b(4 * g))])
              \o (CASE len % 4 = 0 -> <<>>
                    [] len % 4 = 2 -> SubSeq(Octets(b(k + 1), b(k + 2), 0, 0), 1, 1)
                    [] len % 4 = 3 -> SubSeq(Octets(b(k + 1), b(k + 2), b(k + 3), 0), 1, 2))}

-----------------------------------------------------------------------------
(* Hexadecimal digits, as ASCII codes.                                     *)

\* TABLE
HexDigit(v) == IF v < 10 THEN 48 + v ELSE 87 + v

encode_to_hex(d) ==
    [i \in 1 .. 2 * Len(d) |->
        HexDigit(IF i % 2 = 1 THEN d[(i + 1) \div 2] \div 16 ELSE d[i \div 2] % 16)]

\* Faulty: the capital letters are taken for small ones.
parse_hex_char_capital(c) ==
    CASE c \in 48 .. 57 -> c - 48
      [] c \in 97 .. 102 -> c - 87
      [] c \in 65 .. 70 -> c - 87
      [] OTHER -> -1

parse_hex_char(c) ==
    CASE c \in 48 .. 57 -> c - 48
      [] c \in 97 .. 102 -> c - 87
      [] c \in 65 .. 70 -> c - 55
      [] OTHER -> -1

\* Nothing for an odd number of characters, or one that is no digit.
decode_hex(hex) ==
    IF Len(hex) % 2 = 1 \/ \E i \in DOMAIN hex : parse_hex_char(hex[i]) < 0
    THEN <<>>
    ELSE [i \in 1 .. Len(hex) \div 2 |->
             parse_hex_char(hex[2 * i - 1]) * 16 + parse_hex_char(hex[2 * i])]

-----------------------------------------------------------------------------
(* CESU-8: the loop of utf8_to_cesu8, and that of cesu8_len beside it.     *)

Replacement == <<239, 191, 189>>

IsContinuation(c) == c \div 64 = 2

\* Two and three byte forms.
TwoBytes(u) == <<192 + ((u \div 64) % 32), 128 + (u % 64)>>

ThreeBytes(u) == <<224 + ((u \div 4096) % 16), 128 + ((u \div 64) % 64), 128 + (u % 64)>>

SurrogatePair(u) ==
    <<237, 160 + ((u \div 65536 - 1) % 16), 128 + ((u \div 1024) % 64),
      237, 176 + ((u \div 64) % 16), 128 + (u % 64)>>

CharOf(u) ==
    CASE u <= 2047 -> TwoBytes(u)
      [] u > 2047 /\ u <= 65535 -> ThreeBytes(u)
      [] u > 65535 -> SurrogatePair(u)

\* The state of the loops.
Start == [remaining |-> 0, uchar |-> 0, out |-> <<>>, char_len |-> 0, len |-> 0]

\* A byte that continues a character.
Continue(st, c) ==
    LET u == st.uchar * 64 + (c % 64)
        n == st.char_len + 1
        last == st.remaining = 1
    IN  [remaining |-> st.remaining - 1, uchar |-> u, char_len |-> n,
         out |-> IF last THEN st.out \o CharOf(u) ELSE st.out,
         len |-> IF last THEN st.len + (IF n = 4 THEN 6 ELSE n) ELSE st.len]

\* The character that was being read is broken.
Abandon(st) ==
    IF st.remaining > 0
    THEN [st EXCEPT !.remaining = 0, !.out = @ \o Replacement, !.len = @ + 3]
    ELSE st

\* A byte that starts a character of n more bytes.
Lead(st, n, bits) == [st EXCEPT !.remaining = n, !.uchar = bits, !.char_len = 1]

\* A byte that starts a character, or is a character, or is no UTF-8.
Begin(st, c) ==
    CASE c < 128 -> [st EXCEPT !.out = Append(@, c), !.len = @ + 1]
      [] c >= 192 /\ c < 224 -> Lead(st, 1, c % 32)
      [] c >= 224 /\ c < 240 -> Lead(st, 2, c % 16)
      [] c >= 240 /\ c < 248 -> Lead(st, 3, c % 8)
      [] OTHER -> [st EXCEPT !.out = @ \o Replacement, !.len = @ + 3, !.remaining = 0]

ConvertByte(st, c) ==
    IF st.remaining > 0 /\ IsContinuation(c)
    THEN Continue(st, c)
    ELSE Begin(Abandon(st), c)

Converted(bytes) == FoldLeft(ConvertByte, Start, bytes)

utf8_to_cesu8(bytes) == Converted(bytes).out

cesu8_len(bytes) == Converted(bytes).len

-----------------------------------------------------------------------------
(* The inputs.                                                             *)

\* UTF-8, by its definition.
Utf8(u) ==
    CASE u < 128 -> <<u>>
      [] u >= 128 /\ u < 2048 -> TwoBytes(u)
      [] u >= 2048 /\ u < 65536 -> ThreeBytes(u)
      [] u >= 65536 ->
            <<240 + u \div 262144, 128 + ((u \div 4096) % 64),
              128 + ((u \div 64) % 64), 128 + (u % 64)>>

CodecInit ==
    /\ data = <<>>
    /\ text = <<>>

MoreData ==
    /\ Len(data) < MaxData /\ text = <<>>
    /\ \E b \in DataBytes : data' = Append(data, b)
    /\ UNCHANGED text

MoreText ==
    /\ Len(text) < MaxUnits /\ data = <<>>
    /\ \E unit \in {Utf8(u) : u \in CodePoints} \cup Broken : text' = Append(text, unit)
    /\ UNCHANGED data

CodecNext == MoreData \/ MoreText

CodecSpec == CodecInit /\ [][CodecNext]_codecVars

-----------------------------------------------------------------------------

CodecTypeOK ==
    /\ data \in Seq(DataBytes) /\ Len(data) <= MaxData
    /\ Len(text) <= MaxUnits

\* What was encoded is decoded again, in both alphabets and with every number of
\* bytes in the last group.
Base64RoundTrip ==
    \A url_safe \in BOOLEAN :
        decode_base64(encode_to_base64(data, url_safe), url_safe) = {data}

\* encode_to_base64 writes through an iterator into a string that was sized
\* beforehand: it writes as many characters as encode_base64_size says.
Base64Fits ==
    \A url_safe \in BOOLEAN :
        Len(encode_to_base64(data, url_safe)) = encode_base64_size(Len(data), url_safe)

\* The characters above 65535 as the UTF-8 forms of their UTF-16 surrogates, by
\* the definition of CESU-8.
Cesu8(u) ==
    IF u < 65536
    THEN Utf8(u)
    ELSE ThreeBytes(55296 + (u - 65536) \div 1024) \o ThreeBytes(56320 + ((u - 65536) % 1024))

\* How many bytes the first byte of a broken sequence announces, and the sequences
\* that have them all: a longer form than the character needs, or a number that is
\* no character.
Announced(unit) ==
    CASE unit[1] >= 192 /\ unit[1] < 224 -> 2
      [] unit[1] >= 224 /\ unit[1] < 240 -> 3
      [] unit[1] >= 240 /\ unit[1] < 248 -> 4
      [] OTHER -> 0

Complete(unit) == unit \in Broken /\ Len(unit) = Announced(unit)

\* A broken sequence gives one replacement character, or nothing when the text ends
\* in the middle of a character.  A complete one gives what it gives alone.
Unit(i) ==
    IF text[i] \notin Broken
    THEN Cesu8(CHOOSE u \in CodePoints : Utf8(u) = text[i])
    ELSE IF Complete(text[i]) THEN utf8_to_cesu8(text[i])
    ELSE IF i = Len(text) /\ Announced(text[i]) > 0 THEN <<>>
    ELSE Replacement

\* Every character is converted by the definition of CESU-8, wherever it stands:
\* the loop finds the start of the next character after a broken one.  Of what a
\* complete sequence that is no UTF-8 becomes, only that its neighbours do not matter.
Cesu8Exact == utf8_to_cesu8(FlattenSeq(text)) = FlattenSeq([i \in DOMAIN text |-> Unit(i)])

\* "Calculate length on UTF-8 string coverted to CESU-8", for any text.
Cesu8LenAgrees == cesu8_len(FlattenSeq(text)) = Len(utf8_to_cesu8(FlattenSeq(text)))

\* cesu8_len, a loop of its own, makes room for all that utf8_to_cesu8 writes, and no
\* more unless the text holds a form longer than its character needs: that is counted
\* as it came in and written in the short form.
Cesu8LenExact ==
    /\ cesu8_len(FlattenSeq(text)) >= Len(utf8_to_cesu8(FlattenSeq(text)))
    /\ (\A i \in DOMAIN text : ~Complete(text[i])) => Cesu8LenAgrees

\* What was written in hexadecimal digits is read again, in small and in capital
\* letters; a digit less, or another character in place of any digit, gives nothing.
HexRoundTrip ==
    LET hex == encode_to_hex(data)
        capital == [i \in DOMAIN hex |-> IF hex[i] >= 97 THEN hex[i] - 32 ELSE hex[i]]
    IN  /\ decode_hex(hex) = data /\ decode_hex(capital) = data
        /\ data # <<>> => decode_hex(Front(hex)) = <<>>
        /\ \A i \in DOMAIN hex : \A c \in {47, 58, 64, 71, 96, 103} :
              decode_hex([hex EXCEPT ![i] = c]) = <<>>

\* The converters lose nothing and write no more than was made room for: base64 and
\* hexadecimal digits for all bytes; CESU-8 for texts of characters, of ones cut by
\* another or by the end, and of complete forms that are no UTF-8.
ConvertersExact ==
    Base64RoundTrip /\ Base64Fits /\ HexRoundTrip /\ Cesu8Exact /\ Cesu8LenExact
=============================================================================
