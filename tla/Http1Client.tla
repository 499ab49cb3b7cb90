----------------------------- MODULE Http1Client -----------------------------
(***************************************************************************)
(* ag::http::Http1Client: requests are pipelined with send_request,        *)
(* send_body and send_trailer; the responses, interim ones included, come  *)
(* in through llhttp's callbacks and belong to the oldest stream.          *)
(*                                                                         *)
(* llhttp and the server at the other end are external.  The server        *)
(* answers requests in order, perhaps before it has all of a request.      *)
(***************************************************************************)
EXTENDS Http1Session, FiniteSets

CONSTANTS
    Requests,    \* records of [head, framing, length]: what the application asks
    Responses,   \* records of [status, framing]: what the server answers
    MaxStreams,  \* bound: requests on the connection
    MaxBody,     \* bound: on_body callbacks of one response, chunks of one request
    MaxInterim,  \* bound: interim responses on the connection
    Trailers     \* does the application send trailers?

\* status: interim (100, 103), switching (101), no_body (204, 304), other;
\* framing: empty (Content-Length: 0), length, chunked, close (none of these)
ConstantsOK ==
    /\ Requests \subseteq [head : BOOLEAN, framing : {"absent", "chunked", "length"}, length : Nat]
    /\ Responses \subseteq [status : {"interim", "switching", "no_body", "other"},
                            framing : {"empty", "length", "chunked", "close"}]
    /\ MaxStreams \in Nat \ {0} /\ MaxBody \in Nat /\ MaxInterim \in Nat /\ Trailers \in BOOLEAN

VARIABLES
    m_streams, m_next_stream_id, m_parser_context,
    parser,   \* llhttp: next callback, the response being read, whose it is
    answered, \* final responses the server has begun
    interims,
    failed,   \* has input() reported an error?
    events,   \* callbacks raised to the application, per stream
    app,      \* what the application has sent, per stream
    peer      \* what the server made of our output

vars == <<m_streams, m_next_stream_id, m_parser_context, parser, answered, interims,
          failed, events, app, peer>>

StreamIds == 1 .. MaxStreams

\* As for the server; "upgrade" comes before on_message_complete and "paused".
ParserStates == {"idle", "begun", "status", "body", "complete", "upgrade", "error", "paused"}

NoResponse == [status |-> "other", framing |-> "empty"]
NotAsked == [framing |-> "none", head |-> FALSE, length |-> 0, left |-> 0, chunks |-> 0,
             zero |-> FALSE, done |-> FALSE]

Init ==
    /\ m_streams = <<>>
    /\ m_next_stream_id = 1
    /\ m_parser_context = "none"
    /\ parser = [at |-> "idle", resp |-> NoResponse, id |-> 0, bodies |-> 0]
    /\ answered = 0
    /\ interims = 0
    /\ failed = FALSE
    /\ events = [id \in StreamIds |-> <<>>]
    /\ app = [id \in StreamIds |-> NotAsked]
    /\ peer = NewPeer

----------------------------------------------------------------------------
(* Output: the application's calls *)

\* Faulty variant: the server's choice.
active_stream_back == m_streams[Len(m_streams)]

active_stream == m_streams[1]

\* Between two calls of input().
MayCall == parser.at \notin {"complete", "upgrade"}

Notify(id, evs) == events' = [events EXCEPT ![id] = @ \o evs]

\* The application begins a request once it has sent all of those before.
send_request(q) ==
    LET id == m_next_stream_id
        cl == CASE q.framing = "chunked" -> Chunked
                [] q.framing = "length"  -> ParsedLength(q.framing)
                [] q.framing = "absent"  -> Unset
        empty_msg == q.head \/ cl = Unset \/ cl = Size(0)
        bodyless == q.head \/ q.framing = "absent" \/ (q.framing = "length" /\ q.length = 0)
        s == [NewStream(id) EXCEPT !.content_length = cl]
    IN  /\ MayCall
        /\ id <= MaxStreams
        /\ \A i \in 1 .. id - 1 : app[i].done
        /\ m_next_stream_id' = id + 1
        /\ m_streams' = Append(m_streams, SetFlag(s, "REQ_SENT", empty_msg))
        /\ peer' = ReadAll(peer, <<Token("head", id, IF bodyless THEN 0
                                                     ELSE IF q.framing = "chunked" THEN -1
                                                     ELSE q.length)>>)
        /\ app' = [app EXCEPT ![id].framing = q.framing, ![id].length = q.length,
                              ![id].left = q.length, ![id].head = q.head, ![id].done = bodyless]
        /\ UNCHANGED <<m_parser_context, parser, answered, interims, failed, events>>

\* Faulty variant: REQ_SENT is left alone.
BodySent_unmarked(b) == b.stream

\* The end of the message sets REQ_SENT.
BodySent(b) == IF b.eof THEN SetFlag(b.stream, "REQ_SENT", TRUE) ELSE b.stream

\* A refused call, while an earlier request awaits its answer, changes nothing.
send_body(id, n, eof) ==
    /\ MayCall
    /\ app[id].framing \in {"chunked", "length"}
    /\ ~app[id].done /\ ~app[id].zero
    /\ app[id].chunks < MaxBody
    /\ app[id].framing = "length" => n \in 1 .. app[id].left /\ (eof <=> n = app[id].left)
    /\ app[id].framing = "chunked" => n <= 1
    /\ m_streams # <<>> /\ active_stream.id = id
    /\ LET b == SendBody(active_stream, n, eof)
       IN  /\ peer' = ReadAll(peer, b.out)
           /\ m_streams' = [m_streams EXCEPT ![1] = BodySent(b)]
    /\ app' = [app EXCEPT ![id].left = @ - n, ![id].chunks = @ + 1,
                          ![id].zero = n = 0 /\ ~eof, ![id].done = eof]
    /\ UNCHANGED <<m_next_stream_id, m_parser_context, parser, answered, interims, failed, events>>

\* The application ends the body with a zero chunk before its trailers.
send_trailer(id, eof) ==
    /\ Trailers
    /\ MayCall
    /\ app[id].framing = "chunked" /\ app[id].zero /\ ~app[id].done
    /\ m_streams # <<>> /\ active_stream.id = id
    /\ peer' = ReadAll(peer, TrailerOut(active_stream, eof))
    /\ app' = [app EXCEPT ![id].done = eof]
    /\ IF eof
         THEN m_streams' = pop_front(m_streams) /\ Notify(id, <<"finished">>)
         ELSE /\ m_streams' = [m_streams EXCEPT ![1] = SetFlag(@, "ZERO_CHUNK_SENT", TRUE)]
              /\ UNCHANGED events
    /\ UNCHANGED <<m_next_stream_id, m_parser_context, parser, answered, interims, failed>>

----------------------------------------------------------------------------
(* Input: llhttp's callbacks *)

Fail ==
    /\ parser' = [parser EXCEPT !.at = "error"]
    /\ failed' = TRUE
    /\ UNCHANGED <<m_streams, m_parser_context, events>>

Handled(needsContext) == m_streams # <<>> /\ (needsContext => m_parser_context # "none")

\* The server begins a response: an interim or the final one to the first request
\* it has not answered.  input() resets a parser that failed or was paused.
on_message_begin(r) ==
    /\ parser.at \in {"idle", "error", "paused"}
    /\ answered + 1 < m_next_stream_id
    /\ r.status \in {"interim", "switching"} => interims < MaxInterim
    /\ IF r.status \in {"interim", "switching"}
         THEN interims' = interims + 1 /\ UNCHANGED answered
         ELSE answered' = answered + 1 /\ UNCHANGED interims
    /\ parser' = [at |-> IF m_streams = <<>> THEN "error" ELSE "begun",
                  resp |-> r, id |-> answered + 1, bodies |-> 0]
    /\ IF m_streams = <<>>
         THEN m_parser_context' = "none" /\ failed' = TRUE /\ UNCHANGED m_streams
         ELSE /\ UNCHANGED failed
              /\ m_streams' = [m_streams EXCEPT ![1] =
                                 SetFlag(SetFlag(@, "HAS_BODY", FALSE), "INTERMEDIATE_RESPONSE", FALSE)]
              /\ m_parser_context' = "empty"
    /\ UNCHANGED <<m_next_stream_id, events, app, peer>>

on_status ==
    /\ parser.at = "begun"
    /\ IF ~Handled(TRUE)
         THEN Fail
         ELSE /\ parser' = [parser EXCEPT !.at = "status"]
              /\ UNCHANGED <<m_streams, m_parser_context, failed, events>>
    /\ UNCHANGED <<m_next_stream_id, answered, interims, app, peer>>

\* on_header_field and on_header_value of a header, or of a trailer of a chunked body.
on_header ==
    /\ parser.at = "status" \/ (parser.at = "body" /\ parser.resp.framing = "chunked")
    /\ IF ~Handled(TRUE)
         THEN Fail
         ELSE /\ m_parser_context' = "headers"
              /\ UNCHANGED <<m_streams, parser, failed, events>>
    /\ UNCHANGED <<m_next_stream_id, answered, interims, app, peer>>

\* llhttp's own verdict, when on_headers_complete lets it proceed: no body follows
\* a 204 or a 304.
ParserSeesBody(r) == r.status # "no_body" /\ r.framing # "empty"

on_headers_complete(versionKnown) ==
    /\ parser.at = "status"
    /\ parser.resp.framing # "close" => m_parser_context = "headers"
    /\ IF ~Handled(TRUE) \/ ~versionKnown
         THEN Fail
         ELSE LET r == parser.resp
                  hasBody == r.status # "interim" /\ r.framing # "empty"
                  s == SetFlag(SetFlag(active_stream, "HAS_BODY", hasBody),
                               "INTERMEDIATE_RESPONSE", r.status \in {"interim", "switching"})
                  pseudo_http == "REQ_SENT" \notin s.flags /\ r.status # "interim"
              IN  /\ m_streams' = [m_streams EXCEPT ![1] = s]
                  /\ Notify(s.id, <<"message">>)
                  /\ m_parser_context' = "empty"
                  /\ parser' = [parser EXCEPT
                        !.at = IF r.status = "switching" \/ pseudo_http THEN "upgrade"
                               ELSE IF hasBody /\ ParserSeesBody(r) THEN "body"
                               ELSE "complete"]
                  /\ UNCHANGED failed
    /\ UNCHANGED <<m_next_stream_id, answered, interims, app, peer>>

\* The server sends no body in answer to HEAD, whatever the headers say: what llhttp
\* takes for the body is the next response, a "foreign" body.
BodyIsForeign == app[parser.id].head

on_body ==
    /\ parser.at = "body"
    /\ m_parser_context # "headers"     \* not after the first trailer
    /\ parser.bodies < MaxBody
    /\ BodyIsForeign => answered + 1 < m_next_stream_id
    /\ answered' = IF BodyIsForeign THEN answered + 1 ELSE answered
    /\ IF ~Handled(FALSE)
         THEN Fail
         ELSE /\ m_streams' = [m_streams EXCEPT ![1] = SetFlag(@, "BODY_DATA_STARTED", TRUE)]
              /\ Notify(active_stream.id, <<IF BodyIsForeign THEN "foreign" ELSE "body">>)
              /\ parser' = [parser EXCEPT !.bodies = @ + 1]
              /\ UNCHANGED <<m_parser_context, failed>>
    /\ UNCHANGED <<m_next_stream_id, interims, app, peer>>

IsFinal(s) == "INTERMEDIATE_RESPONSE" \notin s.flags

\* A body that lasts until the connection is closed has no end here: the session
\* is not told of the close.
on_message_complete ==
    /\ \/ parser.at \in {"complete", "upgrade"}
       \/ parser.at = "body" /\ parser.resp.framing # "close" /\ (BodyIsForeign => parser.bodies > 0)
    /\ IF ~Handled(FALSE)
         THEN Fail
         ELSE LET s == active_stream
                  hasBody == "HAS_BODY" \in s.flags
                  trailer == hasBody /\ m_parser_context = "headers"
                  final == IsFinal(s)
              IN  /\ Notify(s.id, EndOfBody(trailer, hasBody) \o (IF final THEN <<"finished">> ELSE <<>>))
                  /\ m_streams' = IF final THEN pop_front(m_streams) ELSE m_streams
                  /\ m_parser_context' = IF final THEN "none"
                                         ELSE IF trailer THEN "empty" ELSE m_parser_context
                  /\ parser' = [parser EXCEPT !.at = IF @ = "upgrade" THEN "paused" ELSE "idle"]
                  /\ UNCHANGED failed
    /\ UNCHANGED <<m_next_stream_id, answered, interims, app, peer>>

\* The server's bytes are not HTTP.
ParseError ==
    /\ parser.at \in {"begun", "status", "body"}
    /\ Fail
    /\ UNCHANGED <<m_next_stream_id, answered, interims, app, peer>>

\* input() with errno set resets the parser and its context before it reads on.
reset_parser ==
    /\ parser.at \in {"error", "paused"}
    /\ parser' = [parser EXCEPT !.at = "idle"]
    /\ m_parser_context' = "none"
    /\ UNCHANGED <<m_streams, m_next_stream_id, answered, interims, failed, events, app, peer>>

----------------------------------------------------------------------------
Send ==
    \/ \E q \in Requests : send_request(q)
    \/ \E id \in StreamIds, eof \in BOOLEAN :
          \/ \E n \in 0 .. MaxBody : send_body(id, n, eof)
          \/ send_trailer(id, eof)

Input ==
    \/ \E r \in Responses : on_message_begin(r)
    \/ on_status
    \/ on_header
    \/ \E versionKnown \in BOOLEAN : on_headers_complete(versionKnown)
    \/ on_body
    \/ on_message_complete
    \/ ParseError
    \/ reset_parser

Next == Send \/ Input

Spec == Init /\ [][Next]_vars

----------------------------------------------------------------------------
(* Properties *)

TypeOK ==
    /\ \A i \in DOMAIN m_streams : /\ m_streams[i].id \in StreamIds
                                   /\ m_streams[i].flags \subseteq Flags
    /\ m_next_stream_id \in 1 .. MaxStreams + 1
    /\ m_parser_context \in {"none", "empty", "headers"}
    /\ parser.at \in ParserStates
    /\ answered \in 0 .. MaxStreams
    /\ peer.at \in PeerStates

\* m_streams holds exactly the streams opened by send_request and not finished, in
\* the order of the requests.
StreamsAreUnfinished ==
    /\ {m_streams[i].id : i \in DOMAIN m_streams}
         = {id \in StreamIds : id < m_next_stream_id /\ ~Finished(events[id])}
    /\ \A i, j \in DOMAIN m_streams : i < j => m_streams[i].id < m_streams[j].id

\* Has a request that ended with trailers been sent?  send_trailer finishes its stream
\* at once, and the responses that follow meet the wrong stream.
TrailersEnded == \E id \in StreamIds : app[id].zero /\ app[id].done

\* "The stream is finished, do not expect further events": the callbacks of a stream
\* come in order and stop with on_stream_finished, whatever interim responses there
\* are, and whether or not input() is called again after an error.
EventsInOrder ==
    \A id \in StreamIds :
        /\ \A i, j \in DOMAIN events[id] : events[id][i] = "finished" => j <= i
        /\ \A i \in DOMAIN events[id] : events[id][i] \in {"body", "body_finished"} =>
              \E j \in 1 .. i - 1 : events[id][j] = "message"
        /\ \A i \in DOMAIN events[id] : events[id][i] = "trailer" =>
              i < Len(events[id]) /\ events[id][i + 1] = "body_finished"

\* The requests go out in order, each properly framed.
OutputWellFormed == peer.at # "bad"

\* "Client stream must not finish after sending request body": a stream is only
\* finished once the server has begun its final response.
AnsweredBeforeFinished == \A id \in StreamIds : Finished(events[id]) => id <= answered

\* ... as long as no request ended with trailers.
FinishedIsAnswered == TrailersEnded \/ AnsweredBeforeFinished

\* A step that reads the head of a final response, of an interim one or of a 101, and
\* one after which what follows is taken for another protocol.
ReadsHead == parser.at = "status" /\ parser'.at \in {"upgrade", "body", "complete"}

ReadsFinalHead == ReadsHead /\ parser.resp.status \in {"no_body", "other"}

TakenForUpgrade == parser'.at = "upgrade"

\* "If server responds before request is sent, it is not HTTP/1.1", and only then: when
\* the head of a final response is read, what follows is taken for another protocol if,
\* and only if, the application has not sent all of its request.  Every Content-Length
\* is stored as 1, so that each direction has an exception: a request with a length of
\* 0 is never taken for sent, and one with a length above 1 is after its first byte.
UpgradesExactly ==
    LET request == app[active_stream.id]
    IN  /\ ReadsFinalHead /\ TakenForUpgrade =>
              ~request.done \/ (request.framing = "length" /\ request.length = 0)
        /\ ReadsFinalHead /\ ~request.done => TakenForUpgrade \/ request.length > 1
        /\ ReadsHead /\ ~ReadsFinalHead =>
              (TakenForUpgrade <=> parser.resp.status = "switching")

\* The k-th final response, and the interim ones before it, are reported on the
\* stream of the k-th request, as long as every input() succeeded and no request
\* ended with trailers.
OwnResponse ==
    parser.at \in {"begun", "status", "body", "complete", "upgrade"} /\ ~failed /\ ~TrailersEnded
        => m_streams # <<>> /\ active_stream.id = parser.id

\* on_body reports the body of the stream's own response.
BodyIsOwn == \A id \in StreamIds : ~Has(events[id], "foreign")

\* The streams in the list are those not finished, and a response is reported on the
\* stream of its request.
ResponsesExact == StreamsAreUnfinished /\ EventsInOrder /\ FinishedIsAnswered /\ OwnResponse
=============================================================================
