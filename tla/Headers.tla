------------------------------ MODULE Headers ------------------------------
(***************************************************************************)
(* The header container and the message iterators of http/headers.h and    *)
(* headers.cpp: the fields of a message, the walk over the values of one   *)
(* name (ValueIterator), which may erase what it stands on, and the walk   *)
(* over a Request or a Response, which yields the pseudo-headers first.    *)
(* The HTTP/2 and HTTP/3 sessions encode a message by that walk.           *)
(***************************************************************************)
EXTENDS Integers, Sequences, SequencesExt

CONSTANTS
    Letters,        \* what is left of a field name when its case is ignored
    HeaderValues,
    MaxHeaders      \* bound on the number of fields

ASSUME HeadersAssumption == MaxHeaders \in Nat

VARIABLES
    m_headers,  \* the fields: [name, value], a name being [letter, upper]
    message,    \* the message they belong to: [kind, present], the pseudo-headers
                \* that are not empty
    iter,       \* the iterator in use
    seen,       \* what it has yielded
    start       \* ghost: the fields when it was created

headerVars == <<m_headers, message, iter, seen, start>>

Names == [letter : Letters, upper : BOOLEAN]

SameName(n, m) == n.letter = m.letter

\* The pseudo-headers in the order of the iterators' states, which HEADERS and
\* DONE follow.
PseudoHeaders ==
    [request |-> <<":method", ":scheme", ":path", ":authority">>,
     response |-> <<":status">>]

Pseudo == PseudoHeaders[message.kind]

HEADERS == Len(Pseudo) + 1

DONE == Len(Pseudo) + 2

NoIterator == [type |-> "none"]

\* A Response yields its :status even when that is empty.
HeadersInit ==
    /\ m_headers = <<>>
    /\ message \in [kind : {"request"}, present : SUBSET {1, 2, 3, 4}]
                       \cup [kind : {"response"}, present : {{1}}]
    /\ iter = NoIterator
    /\ seen = <<>>
    /\ start = <<>>

put(n, v) ==
    /\ iter = NoIterator
    /\ Len(m_headers) < MaxHeaders
    /\ m_headers' = Append(m_headers, [name |-> n, value |-> v])
    /\ UNCHANGED <<message, iter, seen, start>>

\* remove() compares the names as they are written.
remove(n) ==
    /\ iter = NoIterator
    /\ m_headers' = SelectSeq(m_headers, LAMBDA h : h.name # n)
    /\ UNCHANGED <<message, iter, seen, start>>

\* get() finds the first field, ignoring case.
get(n) ==
    {m_headers[i].value : i \in {k \in DOMAIN m_headers :
        /\ SameName(m_headers[k].name, n)
        /\ \A j \in 1 .. k - 1 : ~SameName(m_headers[j].name, n)}}

contains_name(n) == get(n) # {}

\* Faulty: the names are compared as they are written.
NextMatch_exact(hs, k, n) ==
    CHOOSE i \in k .. Len(hs) + 1 :
        /\ i <= Len(hs) => hs[i].name = n
        /\ \A j \in k .. i - 1 : hs[j].name # n

\* A ValueIterator on the fields hs, at the first match from position k on.
NextMatch(hs, k, n) ==
    CHOOSE i \in k .. Len(hs) + 1 :
        /\ i <= Len(hs) => SameName(hs[i].name, n)
        /\ \A j \in k .. i - 1 : ~SameName(hs[j].name, n)

ValueIterator(hs, k, n) == [type |-> "value", m_name |-> n, m_current |-> NextMatch(hs, k, n)]

value_range(n) ==
    /\ iter = NoIterator
    /\ iter' = ValueIterator(m_headers, 1, n)
    /\ seen' = <<>> /\ start' = m_headers
    /\ UNCHANGED <<m_headers, message>>

AtValue == iter.type = "value" /\ iter.m_current <= Len(m_headers)

\* Take the value and go on, keeping the field or erasing it.
ValueNext ==
    /\ AtValue
    /\ seen' = Append(seen, m_headers[iter.m_current])
    /\ iter' = ValueIterator(m_headers, iter.m_current + 1, iter.m_name)
    /\ UNCHANGED <<m_headers, message, start>>

erase ==
    /\ AtValue
    /\ seen' = Append(seen, m_headers[iter.m_current])
    /\ m_headers' = RemoveAt(m_headers, iter.m_current)
    /\ iter' = ValueIterator(m_headers', iter.m_current, iter.m_name)
    /\ UNCHANGED <<message, start>>

\* Request::Iterator and Response::Iterator: update_current from the state s,
\* with the inner iterator h (0 when it has no value yet).
MessageIterator(s, h, current) ==
    [type |-> "message", m_state |-> s, m_headers_iter |-> h, m_current |-> current]

PresentFrom(s) == {p \in message.present : p >= s}

update_current(s, h) ==
    IF PresentFrom(s) # {}
    THEN LET p == CHOOSE q \in PresentFrom(s) : \A r \in PresentFrom(s) : q <= r
         IN  MessageIterator(p, h, <<Pseudo[p]>>)
    ELSE IF s <= HEADERS /\ h + 1 <= Len(m_headers)
         THEN MessageIterator(HEADERS, h + 1, <<m_headers[h + 1]>>)
         ELSE MessageIterator(DONE, h, <<>>)

begin ==
    /\ iter = NoIterator
    /\ iter' = update_current(1, 0)
    /\ seen' = iter'.m_current /\ start' = m_headers
    /\ UNCHANGED <<m_headers, message>>

\* operator++: within the fields the state stays HEADERS.
NextState(s) == IF s = HEADERS THEN HEADERS ELSE s + 1

MessageNext ==
    /\ iter.type = "message" /\ iter.m_state < DONE
    /\ iter' = update_current(NextState(iter.m_state), iter.m_headers_iter)
    /\ seen' = seen \o iter'.m_current
    /\ UNCHANGED <<m_headers, message, start>>

IsAtEnd ==
    \/ iter.type = "value" /\ iter.m_current > Len(m_headers)
    \/ iter.type = "message" /\ iter.m_state = DONE

\* The walk is over.
Finish ==
    /\ IsAtEnd
    /\ iter' = NoIterator
    /\ seen' = <<>> /\ start' = <<>>
    /\ UNCHANGED <<m_headers, message>>

HeadersNext ==
    \/ \E n \in Names : remove(n) \/ value_range(n) \/ \E v \in HeaderValues : put(n, v)
    \/ ValueNext \/ erase
    \/ begin \/ MessageNext
    \/ Finish

HeadersSpec == HeadersInit /\ [][HeadersNext]_headerVars

-----------------------------------------------------------------------------

Fields == [name : Names, value : HeaderValues]

HeadersTypeOK ==
    /\ m_headers \in Seq(Fields) /\ Len(m_headers) <= MaxHeaders
    /\ iter.type = "message" => iter.m_state \in 1 .. DONE
    /\ iter.type = "value" => iter.m_current \in 1 .. Len(m_headers) + 1

\* The walk over a message yields its non-empty pseudo-headers in the order of
\* the states and then every field in the order of the container, each once and
\* nothing else ("At first, the iterator yields the pseudo-headers. After that,
\* the classic headers."): what the sessions send is the message.
Expected ==
    SelectSeq(Pseudo, LAMBDA p : \E i \in message.present : Pseudo[i] = p) \o start

MessageYieldsAll ==
    iter.type = "message" =>
        /\ IsPrefix(seen, Expected)
        /\ IsAtEnd => seen = Expected

\* The walk over the values of a name yields each of the fields that have that
\* name when it starts, ignoring case, once and in their order, however many of
\* them it erases on the way.
ValuesYieldAll ==
    iter.type = "value" =>
        LET all == SelectSeq(start, LAMBDA h : SameName(h.name, iter.m_name))
        IN  /\ IsPrefix(seen, all)
            /\ IsAtEnd => seen = all

\* Erasing while walking removes fields of that name only.
EraseKeepsOthers ==
    iter.type = "value" =>
        LET Others(hs) == SelectSeq(hs, LAMBDA h : ~SameName(h.name, iter.m_name))
        IN  Others(m_headers) = Others(start)

\* "Remove field with specified name from HTTP headers": afterwards contains()
\* of the same name is false.
RemoveRemoves == [][\A n \in Names : remove(n) => ~contains_name(n)']_headerVars

\* Both walks yield what they should, and erasing on the way spoils neither.
HeadersExact == MessageYieldsAll /\ ValuesYieldAll /\ EraseKeepsOthers
=============================================================================
