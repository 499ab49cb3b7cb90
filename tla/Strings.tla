------------------------------- MODULE Strings -------------------------------
(***************************************************************************)
(* The string helpers of ag::utils and ag::word_wrap: loops over views,    *)
(* where the hazards are the ends of the string and empty pieces.  The     *)
(* helpers are functions; the variable holds their argument, which grows   *)
(* by one character per step.                                              *)
(***************************************************************************)
EXTENDS Integers, Sequences, SequencesExt, FiniteSetsExt

CONSTANTS
    StringChars,   \* the characters of the argument
    Space,         \* a blank
    Blanks,        \* the characters of isspace()
    LowerCase,     \* tolower(), a function on StringChars
    Delimiters,    \* the delim of split_by_any_of and split2
    DelimString,   \* the delim of split_by
    Needle,        \* what ifind looks for
    Quote, Backslash,
    MaxString      \* bound on the length of the argument

ASSUME StringsAssumption ==
    /\ Space \in Blanks
    /\ LowerCase \in [StringChars -> StringChars]
    /\ DelimString # <<>> /\ Quote # Backslash /\ MaxString \in Nat

VARIABLE str

stringVars == <<str>>

StringInit == str = <<>>

StringNext == Len(str) < MaxString /\ \E c \in StringChars : str' = Append(str, c)

-----------------------------------------------------------------------------
(* Trimming and comparing *)

isspace(c) == c \in Blanks

\* The positions that are not blank.
Inked(s) == {i \in DOMAIN s : ~isspace(s[i])}

ltrim(s) == IF Inked(s) = {} THEN <<>> ELSE SubSeq(s, Min(Inked(s)), Len(s))

rtrim(s) == IF Inked(s) = {} THEN <<>> ELSE SubSeq(s, 1, Max(Inked(s)))

trim(s) == rtrim(ltrim(s))

tolower(s) == [i \in DOMAIN s |-> LowerCase[s[i]]]

iequals(lhs, rhs) == Len(lhs) = Len(rhs) /\ tolower(lhs) = tolower(rhs)

\* std::string_view::substr, which stops at the end of the string.
substr(s, pos, n) == SubSeq(s, pos + 1, Min({pos + n, Len(s)}))

starts_with(s, prefix) == Len(s) >= Len(prefix) /\ substr(s, 0, Len(prefix)) = prefix

ends_with(s, suffix) ==
    Len(s) >= Len(suffix) /\ substr(s, Len(s) - Len(suffix), Len(suffix)) = suffix

istarts_with(s, prefix) == Len(s) >= Len(prefix) /\ iequals(substr(s, 0, Len(prefix)), prefix)

iends_with(s, suffix) ==
    Len(s) >= Len(suffix) /\ iequals(substr(s, Len(s) - Len(suffix), Len(suffix)), suffix)

npos == -1

\* Faulty variant: gives up one character too early.
NeedleFits_strict(haystack, needle, pos) == Len(haystack) - pos > Len(needle)

\* Does the needle still fit behind pos?
NeedleFits(haystack, needle, pos) ==
    ~(Len(haystack) <= pos \/ Len(haystack) - pos < Len(needle))

\* The loops: from each position, the first character and then the others.
ifind(haystack, needle) ==
    LET from[pos \in Nat] ==
            IF ~NeedleFits(haystack, needle, pos) THEN npos
            ELSE IF /\ LowerCase[haystack[pos + 1]] = LowerCase[Head(needle)]
                    /\ iequals(substr(haystack, pos + 1, Len(needle) - 1), Tail(needle))
                 THEN pos ELSE from[pos + 1]
    IN  CASE needle = <<>> -> 0
          [] needle # <<>> /\ haystack = <<>> -> npos
          [] OTHER -> from[0]

-----------------------------------------------------------------------------
(* Splitting and joining *)

\* The pieces of s around delimiters of n characters that start at the cuts.
PiecesAt(s, cuts, n) ==
    LET begin(k) == IF k = 1 THEN 1 ELSE cuts[k - 1] + n
        last(k) == IF k > Len(cuts) THEN Len(s) ELSE cuts[k] - 1
    IN  [k \in 1 .. Len(cuts) + 1 |-> SubSeq(s, begin(k), last(k))]

\* The bodies of the loops: a piece between two delimiters that follow each other is
\* never kept, one that was only blanks is if include_empty.
KeptPieces(pieces, include_empty, need_trim) ==
    LET found == SelectSeq(pieces, LAMBDA p : p # <<>>)
        trimmed == [k \in DOMAIN found |-> IF need_trim THEN trim(found[k]) ELSE found[k]]
    IN  SelectSeq(trimmed, LAMBDA p : include_empty \/ p # <<>>)

Cuts(s, delim) == SetToSortSeq({i \in DOMAIN s : s[i] \in delim}, <)

split_by_any_of(s, delim, include_empty, need_trim) ==
    IF s = <<>> THEN (IF include_empty THEN <<s>> ELSE <<>>)
    ELSE KeptPieces(PiecesAt(s, Cuts(s, delim), 1), include_empty, need_trim)

\* Where find(delim, seek) finds the delimiter.
Occurrences(s, delim, seek) ==
    {i \in seek .. Len(s) - Len(delim) + 1 : SubSeq(s, i, i + Len(delim) - 1) = delim}

\* Each search starts behind the delimiter found last.
StringCuts(s, delim) ==
    LET from[seek \in Nat] ==
            IF Occurrences(s, delim, seek) = {} THEN <<>>
            ELSE LET pos == Min(Occurrences(s, delim, seek))
                 IN  <<pos>> \o from[pos + Len(delim)]
    IN  from[1]

split_by(s, delim, include_empty, need_trim) ==
    IF s = <<>> THEN (IF include_empty THEN <<s>> ELSE <<>>)
    ELSE KeptPieces(PiecesAt(s, StringCuts(s, delim), Len(delim)), include_empty, need_trim)

\* Both parts, the second one empty when there is no delimiter.
split2(s, delim, reverse, need_trim) ==
    LET cuts == {i \in DOMAIN s : s[i] \in delim}
        seek == IF reverse THEN Max(cuts) ELSE Min(cuts)
        parts == IF cuts = {} THEN <<s, <<>>>>
                 ELSE <<SubSeq(s, 1, seek - 1), SubSeq(s, seek + 1, Len(s))>>
    IN  IF need_trim THEN <<trim(parts[1]), trim(parts[2])>> ELSE parts

\* The loop of split_if, which shortens the string piece by piece.
split_if(s, delim, need_trim) ==
    LET rest[i \in Nat] ==
            LET tail == SubSeq(s, i, Len(s))
                cuts == {k \in DOMAIN tail : tail[k] \in delim}
                pos == IF cuts = {} THEN Len(tail) ELSE Min(cuts) - 1
                part == IF need_trim THEN trim(SubSeq(tail, 1, pos)) ELSE SubSeq(tail, 1, pos)
            IN  IF tail = <<>> THEN <<>>
                ELSE (IF part = <<>> THEN <<>> ELSE <<part>>) \o rest[i + Min({pos + 1, Len(tail)})]
    IN  rest[1]

join(pieces, delimiter) ==
    FlattenSeq([k \in DOMAIN pieces |-> IF k = 1 THEN pieces[k] ELSE delimiter \o pieces[k]])
-----------------------------------------------------------------------------
(* Other helpers *)

\* std::swap(*i, *j)
Exchange(s, i, j) == [s EXCEPT ![i] = s[j], ![j] = s[i]]

\* The elements afterwards, and how many of them are kept: `begin' is the first one to
\* be removed, i walks behind it.
swap_remove_if(s, p(_)) ==
    LET removed == {i \in DOMAIN s : p(s[i])}
        first == IF removed = {} THEN Len(s) + 1 ELSE Min(removed)
        step(st, i) == IF p(st.s[i]) THEN st
                       ELSE [s |-> Exchange(st.s, st.begin, i), begin |-> st.begin + 1]
    IN  FoldLeft(step, [s |-> s, begin |-> first],
                 [k \in 1 .. Max({0, Len(s) - first}) |-> first + k])

escape_argument_for_shell(arg) ==
    <<Quote>>
    \o FlattenSeq([i \in DOMAIN arg |->
           IF arg[i] # Quote THEN <<arg[i]>> ELSE <<Quote, Backslash, Quote, Quote>>])
    \o <<Quote>>

\* Is the character at pos the middle of a word?
MustBreak(text, pos) == pos < Len(text) /\ text[pos + 1] # Space

\* The length of the line that starts at cur_pos.
LineWidth(text, cur_pos, width) ==
    LET cur_width == Min({Len(text) - cur_pos, width})
        spaces == {i \in 1 .. cur_width - 1 : text[cur_pos + i + 1] = Space}
    IN  IF MustBreak(text, cur_pos + cur_width) /\ spaces # {} THEN Max(spaces) ELSE cur_width

\* Where the next line starts: behind the spaces.
SkipSpaces(text, pos) ==
    LET words == {i \in pos .. Len(text) - 1 : text[i + 1] # Space}
    IN  IF words = {} THEN Len(text) ELSE Min(words)

word_wrap(text, width) ==
    LET lines[cur_pos \in Nat] ==
            LET w == LineWidth(text, cur_pos, width)
            IN  IF cur_pos >= Len(text) THEN <<>>
                ELSE <<substr(text, cur_pos, w)>> \o lines[SkipSpaces(text, cur_pos + w)]
    IN  IF width = 0 \/ Len(text) <= width THEN <<text>> ELSE lines[0]

-----------------------------------------------------------------------------

StringTypeOK == str \in Seq(StringChars) /\ Len(str) <= MaxString

\* The pieces of the string hold all its characters but the delimiters, in their order,
\* and no delimiter; the loops of split_by_any_of, split_if and split_by of one
\* character agree, and split2 cuts at the first or at the last delimiter.
SplitsExact ==
    LET d == Delimiters
        pieces == split_by_any_of(str, d, FALSE, FALSE)
        around == PiecesAt(str, StringCuts(str, DelimString), Len(DelimString))
    IN  /\ FlattenSeq(pieces) = SelectSeq(str, LAMBDA c : c \notin d)
        /\ \A k \in DOMAIN pieces : pieces[k] # <<>>
        /\ \A need_trim \in BOOLEAN :
              split_if(str, d, need_trim) = split_by_any_of(str, d, FALSE, need_trim)
        /\ \A c \in d, include_empty, need_trim \in BOOLEAN :
              split_by(str, <<c>>, include_empty, need_trim)
                  = split_by_any_of(str, {c}, include_empty, need_trim)
        /\ join(around, DelimString) = str
        /\ \A k \in DOMAIN around : Occurrences(around[k], DelimString, 1) = {}
        /\ \A reverse \in BOOLEAN :
              LET parts == split2(str, d, reverse, FALSE)
                  whole == IF reverse THEN parts[2] ELSE parts[1]
              IN  /\ \A i \in DOMAIN whole : whole[i] \notin d
                  /\ \/ parts = <<str, <<>>>> /\ pieces = KeptPieces(<<str>>, FALSE, FALSE)
                     \/ \E c \in d : parts[1] \o <<c>> \o parts[2] = str

\* The words of a text, by its definition: the longest runs without a space.
Words(text) == split_by(text, <<Space>>, FALSE, FALSE)

\* No line is longer than the width, nothing but spaces is lost, and only a word that
\* does not fit into a line is broken, unless the text begins with a space (WordsWhole).
WrapKeepsWords ==
    \A width \in 1 .. MaxString :
        LET lines == word_wrap(str, width)
            words == Words(str)
        IN  /\ \A k \in DOMAIN lines : Len(lines[k]) <= width
            /\ FlattenSeq([k \in DOMAIN lines |-> FlattenSeq(Words(lines[k]))]) = FlattenSeq(words)
            /\ (str # <<>> /\ Head(str) # Space /\ \A k \in DOMAIN words : Len(words[k]) <= width)
               => FlattenSeq([k \in DOMAIN lines |-> Words(lines[k])]) = words

\* "breaking at word boundaries when possible": words that fit into a line stay whole,
\* behind a space at the beginning too.
WordsWhole ==
    \A width \in 1 .. MaxString :
        LET lines == word_wrap(str, width)
            words == Words(str)
        IN  (\A k \in DOMAIN words : Len(words[k]) <= width)
            => FlattenSeq([k \in DOMAIN lines |-> Words(lines[k])]) = words

\* A POSIX shell's reading of a word, in one pass: what stands between single quotes is
\* literal, and a backslash outside of them makes the next character literal.
ShellStep(st, c) ==
    CASE st.mode = "quoted" -> IF c = Quote THEN [st EXCEPT !.mode = "plain"]
                               ELSE [st EXCEPT !.word = Append(@, c)]
      [] st.mode = "escaped" -> [mode |-> "plain", word |-> Append(st.word, c)]
      [] st.mode = "plain" -> CASE c = Quote -> [st EXCEPT !.mode = "quoted"]
                                [] c = Backslash -> [st EXCEPT !.mode = "escaped"]
                                [] OTHER -> [st EXCEPT !.mode = "split"]
      [] OTHER -> st

\* The shell reads an escaped argument as one word, the argument.
ShellArgument ==
    FoldLeft(ShellStep, [mode |-> "plain", word |-> <<>>], escape_argument_for_shell(str))
        = [mode |-> "plain", word |-> str]

\* ifind finds the first place where the needle stands in any case, and npos if there is
\* none; it agrees with istarts_with.
FindsFirst ==
    LET places == {i \in 0 .. Len(str) - Len(Needle) :
                      tolower(SubSeq(str, i + 1, i + Len(Needle))) = tolower(Needle)}
    IN  /\ ifind(str, Needle) = (IF places = {} THEN npos ELSE Min(places))
        /\ istarts_with(str, Needle) <=> ifind(str, Needle) = 0
        /\ iends_with(str, Needle) <=> Len(str) - Len(Needle) \in places

\* swap_remove_if keeps the elements in their order, and loses none of the others.
RemovesBySwap ==
    LET r == swap_remove_if(str, isspace)
    IN  /\ SubSeq(r.s, 1, r.begin - 1) = SelectSeq(str, LAMBDA c : ~isspace(c))
        /\ \A c \in StringChars :
              Cardinality({i \in DOMAIN r.s : r.s[i] = c}) = Cardinality({i \in DOMAIN str : str[i] = c})
=============================================================================
