------------------------------- MODULE Formats -------------------------------
(***************************************************************************)
(* Texts with a syntax: the dots of a URL path (url.cpp), and the formats  *)
(* of the time functions (time_utils.cpp).  One of the variables holds the *)
(* input of a function and grows by one character per step.                *)
(***************************************************************************)
EXTENDS Integers, Sequences, SequencesExt, FiniteSetsExt

CONSTANTS
    UrlChars,       \* the characters of a URL: "/", ".", "?" and others
    MaxUrl,
    FormatChars,    \* the characters of a format: "%", "f", "z", "Z" and others
    MaxFormat,
    SecondUnits,    \* the microseconds of a second
    Times           \* times since the epoch, in microseconds

ASSUME FormatsAssumption ==
    /\ {MaxUrl, MaxFormat} \subseteq Nat /\ SecondUnits \in Nat \ {0} /\ Times \subseteq Int

VARIABLES url, time_format

formatVars == <<url, time_format>>

FormatInit == url = <<>> /\ time_format = <<>>

FormatNext ==
    \/ /\ Len(url) < MaxUrl /\ time_format = <<>>
       /\ \E c \in UrlChars : url' = Append(url, c)
       /\ UNCHANGED time_format
    \/ /\ Len(time_format) < MaxFormat /\ url = <<>>
       /\ \E c \in FormatChars : time_format' = Append(time_format, c)
       /\ UNCHANGED url

-----------------------------------------------------------------------------
(* ag::url::normalize_path *)

\* The positions, counted from 0, at which the text s stands in the path.
Places(path, s, from) ==
    {i \in from .. Len(path) - Len(s) : SubSeq(path, i + 1, i + Len(s)) = s}

\* Where the segments start: behind the first "/" after a "//".
start_index(path) ==
    LET protocol == Places(path, <<"/", "/">>, 0)
        segments == Places(path, <<"/">>, Min(protocol) + 2)
    IN  IF protocol = {} THEN 0
        ELSE IF segments = {} THEN 0 ELSE Min(segments) + 1

\* A segment has ended before the "/" at which it is looked at.
EndSegment(output, segment) ==
    CASE segment \in {<<".", ".">>, <<".">>, <<"/", ".">>} -> output
      [] IsPrefix(<<"/", ".", ".">>, segment) -> IF output = <<>> THEN output ELSE Front(output)
      [] OTHER -> Append(output, segment)

\* One turn of the loop for the character at index.
UrlChar(path, st, index) ==
    LET c == path[index + 1] IN
    CASE st.over -> st
      [] ~st.over /\ c \in {"?", "#"} ->
            [over |-> TRUE, segment |-> <<>>,
             output |-> Append(st.output, st.segment \o SubSeq(path, index + 1, Len(path)))]
      [] ~st.over /\ c \notin {"?", "#"} /\ (c # "/" \/ index = 0) ->
            [st EXCEPT !.segment = Append(@, c)]
      [] OTHER -> [st EXCEPT !.segment = <<c>>, !.output = EndSegment(@, st.segment)]

\* What the left part of the URL becomes when it ends with "/".
LeftPart(l) == IF l # <<>> /\ Last(l) = "/" THEN Tail(l) ELSE l

combine_path(l, r) ==
    LeftPart(l) \o <<"/">> \o (IF r # <<>> /\ Head(r) = "/" THEN Tail(r) ELSE r)

normalize_path(path) ==
    LET start == start_index(path)
        step(st, k) == UrlChar(path, st, start + k - 1)
        end == FoldLeft(step, [over |-> FALSE, segment |-> <<>>, output |-> <<>>],
                        [k \in 1 .. Len(path) - start |-> k])
        output == IF end.segment = <<>> THEN end.output ELSE Append(end.output, end.segment)
    IN  IF path = <<>> \/ Places(path, <<".", "/">>, 0) = {} THEN path
        ELSE combine_path(SubSeq(path, 1, start), FlattenSeq(output))

-----------------------------------------------------------------------------
(* Formats of times *)

\* Faulty variant: does not see that the percent sign is a literal one.
AfterPercent_literal(us, gmt, ch) ==
    CASE ch = "f" -> <<us>>
      [] ch = "z" /\ gmt -> <<"+0000">>
      [] ch = "Z" /\ gmt -> <<"GMT">>
      [] OTHER -> <<"%">>

\* What the character after "%" adds to the format of put_time.
AfterPercent(us, gmt, ch) ==
    CASE ch = "f" -> <<us>>
      [] ch = "%" -> <<"%", "%">>
      [] ch = "z" /\ gmt -> <<"+0000">>
      [] ch = "Z" /\ gmt -> <<"GMT">>
      [] OTHER -> <<"%", ch>>

InjectChar(us, gmt, st, ch) ==
    IF st.state = "AFTER_PERCENT"
    THEN [state |-> "DEFAULT", out |-> st.out \o AfterPercent(us, gmt, ch)]
    ELSE IF ch = "%" THEN [st EXCEPT !.state = "AFTER_PERCENT"]
         ELSE [st EXCEPT !.out = Append(@, ch)]

\* The microseconds and the zone are put into the format; a last "%" stays.
inject_microseconds_and_gmt(us, gmt, format) ==
    LET step(st, ch) == InjectChar(us, gmt, st, ch)
        end == FoldLeft(step, [state |-> "DEFAULT", out |-> <<>>], format)
    IN  IF end.state = "AFTER_PERCENT" THEN Append(end.out, "%") ELSE end.out

\* The division and the remainder of C++, which round to zero.
Quotient(a, b) == IF a >= 0 THEN a \div b ELSE -((-a) \div b)

Remainder(a, b) == a - b * Quotient(a, b)

\* Also duration_to_timeval.
timeval_from_timepoint(micros) ==
    [tv_sec |-> Quotient(micros, SecondUnits), tv_usec |-> Remainder(micros, SecondUnits)]

\* The seconds and microseconds that format_gmtime and format_localtime print.
PrintedTime(micros) ==
    [secs |-> Quotient(micros, SecondUnits),
     us |-> micros - SecondUnits * Quotient(micros, SecondUnits)]
-----------------------------------------------------------------------------

FormatTypeOK ==
    /\ url \in Seq(UrlChars) /\ Len(url) <= MaxUrl
    /\ time_format \in Seq(FormatChars) /\ Len(time_format) <= MaxFormat

\* The path of a URL without "//", and the query behind it.
PathEnd(u) == Min({Len(u)} \cup {i - 1 : i \in {i \in DOMAIN u : u[i] \in {"?", "#"}}})

PathOf(u) == SubSeq(u, 1, PathEnd(u))

QueryOf(u) == SubSeq(u, PathEnd(u) + 1, Len(u))

IsAbsolute(path) == path # <<>> /\ Head(path) = "/"

\* A relative path is one of the root: "../a/b/../c/./d.html -> /a/c/d.html".
Absolute(path) == IF IsAbsolute(path) THEN path ELSE <<"/">> \o path

\* The segments of a path that starts with "/", without their slashes.
Segments(path) ==
    LET slashes == SetToSortSeq({i \in DOMAIN path : path[i] = "/"}, <)
    IN  [k \in DOMAIN slashes |->
            SubSeq(path, slashes[k] + 1, IF k = Len(slashes) THEN Len(path) ELSE slashes[k + 1] - 1)]

EndsWithDots(path) == Last(Segments(path)) \in {<<".">>, <<".", ".">>}

\* remove_dot_segments of RFC 3986, 5.2.4, on the segments of a path.
RfcStep(out, segment) ==
    CASE segment = <<".">> -> out
      [] segment = <<".", ".">> -> IF out = <<>> THEN out ELSE Front(out)
      [] OTHER -> Append(out, segment)

Rfc(path) ==
    LET names == FoldLeft(RfcStep, <<>>, Segments(path))
        kept == IF EndsWithDots(path) THEN Append(names, <<>>) ELSE names
    IN  FlattenSeq([k \in DOMAIN kept |-> <<"/">> \o kept[k]])

\* A "//" is taken for the end of a scheme, wherever it stands.
NoScheme == Places(url, <<"/", "/">>, 0) = {}

\* Names other than ".." that the code takes for it: they begin with two dots and
\* stand between two slashes.
HasDottedName ==
    LET segments == Segments(Absolute(PathOf(url)))
    IN  \E k \in 1 .. Len(segments) - 1 :
           /\ IsPrefix(<<".", ".">>, segments[k]) /\ Len(segments[k]) > 2
           /\ k > 1 \/ IsAbsolute(PathOf(url))

\* normalize_path leaves the query alone, and what a path stands for by RFC 3986 stays
\* the same.  The dots are removed as the RFC says, but for dots at the end, which the
\* code keeps; a relative path without dots before a "/" stays relative.  No claim is
\* made for paths with a name that begins with two dots before a "/" (NamesKept), and
\* none for a text with "//" (OriginKept).
DotsAsRfc ==
    NoScheme =>
        LET result == normalize_path(url)
            path == Absolute(PathOf(url))
        IN  /\ QueryOf(result) = QueryOf(url)
            /\ ~HasDottedName => Rfc(Absolute(PathOf(result))) = Rfc(path)
            /\ ~HasDottedName /\ ~EndsWithDots(path) =>
                  PathOf(result) = Rfc(path) \/ (result = url /\ ~IsAbsolute(PathOf(url)))

\* "Normalize dots according to RFC 3986", for absolute paths: dots at the end too.
FinalDotsRemoved ==
    NoScheme /\ IsAbsolute(PathOf(url)) /\ ~HasDottedName =>
        PathOf(normalize_path(url)) = Rfc(PathOf(url))

\* The same for absolute paths that do not end with dots: a name that begins with two
\* dots is none of the RFC's dot segments.
NamesKept ==
    NoScheme /\ IsAbsolute(PathOf(url)) /\ ~EndsWithDots(PathOf(url)) =>
        PathOf(normalize_path(url)) = Rfc(PathOf(url))

\* The scheme and the host of a URL, a name without dots, up to the "/" of its path.
Origin == SubSeq(url, 1, start_index(url) - 1)

HasOrigin ==
    /\ start_index(url) > 0
    /\ Places(Origin, <<":", "/", "/">>, 0) # {} /\ Head(Origin) # ":"
    /\ Last(Origin) # "/" /\ \A i \in DOMAIN Origin : Origin[i] # "."

\* "Normalize dots according to RFC 3986": the part of a URL before its path has no dot
\* segments and stays what it is.
OriginKept == HasOrigin => IsPrefix(Origin \o <<"/">>, normalize_path(url))

\* Does a directive start here?  The percent signs before it go in pairs.
Directive(format, i) ==
    /\ format[i] = "%"
    /\ LET run == {k \in 1 .. i : \A j \in k .. i : format[j] = "%"}
       IN  Cardinality(run) % 2 = 1

\* The format that put_time gets has the microseconds and the zone for the directives
\* %f, %z and %Z, all other directives and characters, and "%%" is none of them.
InjectedOnce ==
    \A gmt \in BOOLEAN :
        LET value == [f |-> <<"000001">>, z |-> IF gmt THEN <<"+0000">> ELSE <<"%", "z">>,
                      Z |-> IF gmt THEN <<"GMT">> ELSE <<"%", "Z">>]
            at(i) == IF i > 1 /\ Directive(time_format, i - 1)
                     THEN IF time_format[i] \in DOMAIN value THEN value[time_format[i]]
                          ELSE <<"%", time_format[i]>>
                     ELSE IF Directive(time_format, i) /\ i < Len(time_format) THEN <<>>
                          ELSE <<time_format[i]>>
        IN  inject_microseconds_and_gmt("000001", gmt, time_format)
                = FlattenSeq([i \in DOMAIN time_format |-> at(i)])

\* From the epoch on the microseconds are those of one second, and a later time has
\* later seconds, or the same ones and later microseconds: in what is printed too.
TimesExact ==
    \A t \in Times : t >= 0 =>
        LET v == timeval_from_timepoint(t)
            p == PrintedTime(t)
        IN  /\ {v.tv_usec, p.us} \subseteq 0 .. SecondUnits - 1
            /\ \A u \in Times : u > t =>
                  LET w == timeval_from_timepoint(u)
                      q == PrintedTime(u)
                  IN  /\ v.tv_sec < w.tv_sec \/ (v.tv_sec = w.tv_sec /\ v.tv_usec < w.tv_usec)
                      /\ p.secs < q.secs \/ (p.secs = q.secs /\ p.us < q.us)

\* Paths keep their meaning and lose their dots as far as DotsAsRfc says; formats and
\* times from the epoch on are converted as the comments say.
FormatsExact == DotsAsRfc /\ InjectedOnce /\ TimesExact
=============================================================================
