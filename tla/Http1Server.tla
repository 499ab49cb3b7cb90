----------------------------- MODULE Http1Server -----------------------------
(***************************************************************************)
(* ag::http::Http1Server: pipelined requests come in through llhttp's      *)
(* callbacks, the application answers them with send_response, send_body   *)
(* and send_trailer.  input() may end after any byte, so the application's *)
(* calls interleave with the callbacks of one message; all its callbacks   *)
(* are set.                                                                *)
(*                                                                         *)
(* llhttp is external: `parser' says which callback comes next.            *)
(***************************************************************************)
EXTENDS Http1Session, FiniteSets

CONSTANTS
    Requests,       \* what the peer may send: records of [upgrade, head, body]
    Lengths,        \* values of Content-Length the application answers with
    MaxStreams,     \* bound: requests on the connection
    MaxBody,        \* bound: on_body callbacks of one request, chunks of one response
    ZeroChunkFirst  \* does the application end a chunked body before its trailers?

ASSUME RequestsAssumption ==
    Requests \subseteq [upgrade : BOOLEAN, head : BOOLEAN, body : {"none", "length", "chunked"}]
ASSUME BoundsAssumption ==
    /\ Lengths \subseteq Nat /\ MaxStreams \in Nat \ {0} /\ MaxBody \in Nat
    /\ ZeroChunkFirst \in BOOLEAN

VARIABLES
    m_streams,        \* std::list<Stream>, oldest first
    m_next_stream_id,
    m_parser_context, \* "none", or the state of its header list: "empty", "headers"
    parser,           \* llhttp: next callback, the request being read, its stream
    events,           \* callbacks raised to the application, per stream
    app,              \* what the application has sent, per stream
    peer,             \* what the peer made of our output
    refused           \* streams on which a legal send was refused

vars == <<m_streams, m_next_stream_id, m_parser_context, parser, events, app, peer, refused>>

StreamIds == 1 .. MaxStreams

\* "idle": between messages; "begun" and "url": in the head; "body": in the body;
\* "complete" and "upgrade": on_message_complete comes before input() returns;
\* "error" and "paused": llhttp_get_errno() # HPE_OK.
ParserStates == {"idle", "begun", "url", "body", "complete", "upgrade", "error", "paused"}

NoRequest == [upgrade |-> FALSE, head |-> FALSE, body |-> "none"]

\* Final head sent ("none" before it), its Content-Length, bytes left to send, zero chunk
\* and end sent, and whether the connection is upgraded.
NotAnswered == [head |-> "none", length |-> 0, left |-> 0, chunks |-> 0, zero |-> FALSE,
                eof |-> FALSE, upgraded |-> FALSE]

Init ==
    /\ m_streams = <<>>
    /\ m_next_stream_id = 1
    /\ m_parser_context = "none"
    /\ parser = [at |-> "idle", req |-> NoRequest, id |-> 0, bodies |-> 0]
    /\ events = [id \in StreamIds |-> <<>>]
    /\ app = [id \in StreamIds |-> NotAnswered]
    /\ peer = NewPeer
    /\ refused = {}

----------------------------------------------------------------------------
(* Input: llhttp's callbacks *)

\* Faulty variant: the client's choice.
active_stream_front == m_streams[1]

active_stream == m_streams[Len(m_streams)]

Fail ==
    /\ parser' = [parser EXCEPT !.at = "error"]
    /\ UNCHANGED <<m_streams, m_next_stream_id, m_parser_context, events>>

\* A callback that finds no stream, or no context, makes llhttp_execute fail.
Handled(needsContext) == m_streams # <<>> /\ (needsContext => m_parser_context # "none")

Notify(id, evs) == events' = [events EXCEPT ![id] = @ \o evs]

\* input() resets a parser that failed or was paused before it goes on.
on_message_begin(r) ==
    /\ parser.at \in {"idle", "error", "paused"}
    /\ m_next_stream_id <= MaxStreams
    /\ m_streams' = Append(m_streams, NewStream(m_next_stream_id))
    /\ m_next_stream_id' = m_next_stream_id + 1
    /\ m_parser_context' = "empty"
    /\ parser' = [at |-> "begun", req |-> r, id |-> m_next_stream_id, bodies |-> 0]
    /\ UNCHANGED <<events, app, peer, refused>>

on_url ==
    /\ parser.at = "begun"
    /\ IF ~Handled(TRUE)
         THEN Fail
         ELSE /\ parser' = [parser EXCEPT !.at = "url"]
              /\ UNCHANGED <<m_streams, m_next_stream_id, m_parser_context, events>>
    /\ UNCHANGED <<app, peer, refused>>

\* on_header_field and on_header_value of a header, or of a trailer of a chunked body.
on_header ==
    /\ parser.at = "url" \/ (parser.at = "body" /\ parser.req.body = "chunked")
    /\ IF ~Handled(TRUE)
         THEN Fail
         ELSE /\ m_parser_context' = "headers"
              /\ UNCHANGED <<m_streams, m_next_stream_id, parser, events>>
    /\ UNCHANGED <<app, peer, refused>>

on_headers_complete(versionKnown) ==
    /\ parser.at = "url"
    /\ parser.req # NoRequest => m_parser_context = "headers"
    /\ IF ~Handled(TRUE) \/ ~versionKnown
         THEN Fail
         ELSE LET r == parser.req
                  s == SetFlag(SetFlag(SetFlag(active_stream,
                          "UPGRADE_REQUEST", r.upgrade),
                          "HEAD_REQUEST", r.head),
                          "HAS_BODY", r.body # "none")
              IN  /\ m_streams' = [m_streams EXCEPT ![Len(m_streams)] = s]
                  /\ Notify(s.id, <<"message">>)
                  /\ m_parser_context' = "empty"
                  /\ parser' = [parser EXCEPT !.at = IF r.upgrade THEN "upgrade"
                                                     ELSE IF r.body = "none" THEN "complete"
                                                     ELSE "body"]
                  /\ UNCHANGED m_next_stream_id
    /\ UNCHANGED <<app, peer, refused>>

on_body ==
    /\ parser.at = "body"
    /\ m_parser_context # "headers"     \* not after the first trailer
    /\ parser.bodies < MaxBody
    /\ IF ~Handled(FALSE)
         THEN Fail
         ELSE /\ m_streams' = [m_streams EXCEPT ![Len(m_streams)] =
                                  SetFlag(@, "BODY_DATA_STARTED", TRUE)]
              /\ Notify(active_stream.id, <<"body">>)
              /\ parser' = [parser EXCEPT !.bodies = @ + 1]
              /\ UNCHANGED <<m_next_stream_id, m_parser_context>>
    /\ UNCHANGED <<app, peer, refused>>

on_message_complete ==
    /\ parser.at \in {"body", "complete", "upgrade"}
    /\ IF ~Handled(FALSE)
         THEN Fail
         ELSE LET hasBody == "HAS_BODY" \in active_stream.flags
                  trailer == hasBody /\ m_parser_context = "headers"
              IN  /\ Notify(active_stream.id, EndOfBody(trailer, hasBody))
                  /\ m_parser_context' = IF trailer THEN "empty" ELSE m_parser_context
                  /\ parser' = [parser EXCEPT !.at = IF @ = "upgrade" THEN "paused" ELSE "idle"]
                  /\ UNCHANGED <<m_streams, m_next_stream_id>>
    /\ UNCHANGED <<app, peer, refused>>

\* The peer's bytes are not HTTP.
ParseError ==
    /\ parser.at \in {"begun", "url", "body"}
    /\ Fail
    /\ UNCHANGED <<app, peer, refused>>

\* input() with errno set resets the parser and its context before it reads on.
reset_parser ==
    /\ parser.at \in {"error", "paused"}
    /\ parser' = [parser EXCEPT !.at = "idle"]
    /\ m_parser_context' = "none"
    /\ UNCHANGED <<m_streams, m_next_stream_id, events, app, peer, refused>>

----------------------------------------------------------------------------
(* Output: the application's calls *)

\* Between two calls of input(), about a request the application knows of.
MayCall(id) == parser.at \notin {"complete", "upgrade"} /\ Has(events[id], "message")

Refuse(id) ==
    /\ refused' = IF Finished(events[id]) THEN refused ELSE refused \cup {id}
    /\ UNCHANGED <<m_streams, events, app, peer>>

\* pop_front and on_stream_finished.
Finish(id) ==
    /\ m_streams' = pop_front(m_streams)
    /\ Notify(id, <<"finished">>)

\* status: interim (100, 103), switching (101), no_body (204, 205, 304), other;
\* framing: absent, chunked, length.
Responses == [status : {"interim", "switching", "no_body", "other"},
              framing : {"absent", "chunked", "length"},
              upgrade : BOOLEAN]

\* Responses an application has reason to send: framing and upgrade headers where
\* they belong.
Sensible(r) ==
    /\ r.status \in {"interim", "switching", "no_body"} => r.framing = "absent"
    /\ r.upgrade => r.status \in {"switching", "other"} /\ r.framing = "absent"

CannotHaveBody(s, r) == r.status # "other" \/ "HEAD_REQUEST" \in s.flags

\* How the peer delimits the message: see Read.
HeadToken(s, r, n) ==
    Token("head", s.id, CASE r.status = "interim" -> -2
                          [] r.status # "interim" /\ (CannotHaveBody(s, r) \/ r.framing = "absent") -> 0
                          [] r.status = "other" /\ ~CannotHaveBody(s, r) /\ r.framing = "chunked" -> -1
                          [] r.status = "other" /\ ~CannotHaveBody(s, r) /\ r.framing = "length" -> n)

\* What the application makes of a response it has sent.
Answered(a, framing, n, upgraded) ==
    LET length == IF framing = "length" THEN n ELSE 0
    IN  [a EXCEPT !.head = framing, !.length = length, !.left = length, !.upgraded = upgraded]

\* n is the value of the Content-Length header, if there is one.
send_response(id, r, n) ==
    /\ MayCall(id)
    /\ Sensible(r)
    /\ app[id].head = "none" \/ Finished(events[id])
    /\ IF m_streams = <<>> \/ m_streams[1].id # id
         THEN Refuse(id)
         ELSE LET s == [m_streams[1] EXCEPT !.content_length =
                          IF r.framing = "chunked" THEN Chunked ELSE ParsedLength(r.framing)]
                  empty_msg == CannotHaveBody(s, r) \/ s.content_length = Size(0)
                  is_upgrade == "UPGRADE_REQUEST" \in s.flags /\ r.upgrade
              IN  /\ peer' = ReadAll(peer, <<HeadToken(s, r, n)>>)
                  /\ app' = IF r.status = "interim" THEN app
                            ELSE [app EXCEPT ![id] = Answered(@, IF CannotHaveBody(s, r) THEN "absent"
                                                                 ELSE r.framing, n, is_upgrade)]
                  /\ IF empty_msg /\ ~is_upgrade /\ r.status # "interim"
                       THEN Finish(id)
                       ELSE m_streams' = [m_streams EXCEPT ![1] = s] /\ UNCHANGED events
                  /\ UNCHANGED refused
    /\ UNCHANGED <<m_next_stream_id, m_parser_context, parser>>

\* The application sends the chunks of a body it announced, up to its end, which may
\* be all of an empty one.
send_body(id, n, eof) ==
    /\ MayCall(id)
    /\ app[id].head \in {"chunked", "length"}
    /\ app[id].chunks < MaxBody
    /\ ~app[id].zero /\ ~app[id].eof
    /\ app[id].head = "length" => n <= app[id].left /\ (eof <=> n = app[id].left) /\ (n = 0 => eof)
    /\ app[id].head = "chunked" => n <= 1
    /\ IF m_streams = <<>> \/ active_stream.id # id
         THEN Refuse(id)
         ELSE LET b == SendBody(active_stream, n, eof)
              IN  /\ peer' = ReadAll(peer, b.out)
                  /\ app' = [app EXCEPT ![id].left = @ - n, ![id].chunks = @ + 1,
                                        ![id].zero = n = 0, ![id].eof = eof]
                  /\ IF b.eof
                       THEN Finish(id)
                       ELSE /\ m_streams' = [m_streams EXCEPT ![Len(m_streams)] = b.stream]
                            /\ UNCHANGED events
                  /\ UNCHANGED refused
    /\ UNCHANGED <<m_next_stream_id, m_parser_context, parser>>

\* The nested send_body_impl of a first trailer looks for the stream at the back of
\* the list; when it fails, ZERO_CHUNK_SENT stays set.
send_trailer(id, eof) ==
    /\ MayCall(id)
    /\ app[id].head = "chunked"
    /\ ~app[id].eof
    /\ ZeroChunkFirst => app[id].zero
    /\ IF m_streams = <<>> \/ m_streams[1].id # id
         THEN Refuse(id)
         ELSE LET s == m_streams[1]
                  marked == [m_streams EXCEPT ![1] = SetFlag(s, "ZERO_CHUNK_SENT", TRUE)]
              IN  IF "ZERO_CHUNK_SENT" \notin s.flags /\ active_stream.id # id
                  THEN /\ m_streams' = marked
                       /\ refused' = refused \cup {id}
                       /\ UNCHANGED <<events, app, peer>>
                  ELSE /\ peer' = ReadAll(peer, TrailerOut(s, eof))
                       /\ app' = [app EXCEPT ![id].zero = TRUE, ![id].eof = eof]
                       /\ IF eof THEN Finish(id) ELSE m_streams' = marked /\ UNCHANGED events
                       /\ UNCHANGED refused
    /\ UNCHANGED <<m_next_stream_id, m_parser_context, parser>>

----------------------------------------------------------------------------
Input ==
    \/ \E r \in Requests : on_message_begin(r)
    \/ on_url
    \/ on_header
    \/ \E versionKnown \in BOOLEAN : on_headers_complete(versionKnown)
    \/ on_body
    \/ on_message_complete
    \/ ParseError
    \/ reset_parser

Send ==
    \E id \in StreamIds :
        \/ \E r \in Responses :
              \E n \in IF r.framing = "length" THEN Lengths ELSE {0} : send_response(id, r, n)
        \/ \E n \in Lengths \cup {0}, eof \in BOOLEAN : send_body(id, n, eof)
        \/ \E eof \in BOOLEAN : send_trailer(id, eof)

Next == Input \/ Send

Spec == Init /\ [][Next]_vars

----------------------------------------------------------------------------
(* Properties *)

TypeOK ==
    /\ \A i \in DOMAIN m_streams : /\ m_streams[i].id \in StreamIds
                                   /\ m_streams[i].flags \subseteq Flags
    /\ m_next_stream_id \in 1 .. MaxStreams + 1
    /\ m_parser_context \in {"none", "empty", "headers"}
    /\ parser.at \in ParserStates
    /\ peer.at \in PeerStates
    /\ refused \subseteq StreamIds

\* m_streams holds exactly the streams begun and not finished, in the order of
\* their requests: none is lost, kept after on_stream_finished, or reordered,
\* although requests are pushed at one end and answered at the other.
StreamsAreUnfinished ==
    /\ {m_streams[i].id : i \in DOMAIN m_streams}
         = {id \in StreamIds : id < m_next_stream_id /\ ~Finished(events[id])}
    /\ \A i, j \in DOMAIN m_streams : i < j => m_streams[i].id < m_streams[j].id

\* "The stream is finished, do not expect further events": the callbacks of a stream
\* come in order and stop with on_stream_finished, even when the application answers
\* before the request's body has arrived.
EventsInOrder == \A id \in StreamIds : Ordered(events[id])

\* A step that reports something, other than the end of the stream, does so on the
\* stream of the request that llhttp reads: taking the back of the list as the active
\* stream never hits another one.
ReportsOnOwnStream ==
    \A id \in StreamIds :
        events'[id] # events[id] /\ ~(Finished(events'[id]) /\ ~Finished(events[id]))
            => id = parser.id

\* Streams whose response was taken for sent before the application had sent all of it:
\* every Content-Length is stored as 1.
CutShort == {id \in StreamIds : Finished(events[id]) /\ app[id].left > 0}

\* What the session puts out is a sequence of responses in the order of the
\* requests, each properly framed, up to a response that was cut short.
OutputWellFormed == peer.at = "bad" => CutShort # {}

\* on_stream_finished is raised when the whole response is out, not earlier and not
\* later: the next response may go out then, and no other way.  An upgraded stream is
\* not finished.  Left out are the lengths for which the code does otherwise: of a
\* Content-Length above 1 the first byte finishes the stream, and one of 0 never does.
FinishedWhenSent ==
    peer.at # "bad" =>
        \A id \in StreamIds :
            /\ Finished(events[id]) /\ app[id].length <= 1 => Received(peer, id)
            /\ Received(peer, id) /\ ~app[id].upgraded
                  => Finished(events[id]) \/ (app[id].head = "length" /\ app[id].length = 0)

\* A response that was begun can be continued: send_body and send_trailer on it are
\* not refused.
BegunCanContinue == \A id \in refused : app[id].head = "none"

\* The streams in the list are those not finished, and their callbacks are in order.
StreamsExact == StreamsAreUnfinished /\ EventsInOrder
=============================================================================
