---------------------------- MODULE Http2Session ----------------------------
(***************************************************************************)
(* An HTTP/2 session (http2.cpp): Http2Session<T> with Http2Server or      *)
(* Http2Client on top of it, the nghttp2 session that calls it back, the   *)
(* application that calls it and the peer that sends it frames.            *)
(*                                                                         *)
(* nghttp2 is outside of the repository and modelled from the way the      *)
(* session uses it: which frames it passes on, when it asks for data, when *)
(* it closes a stream, and which of its calls fail.  The session is used   *)
(* by one thread.  The application may call it from its callbacks, that is *)
(* between the frames of one input() and of one flush(), but starts        *)
(* neither of the two from there.  A body is the number of its bytes.      *)
(***************************************************************************)
EXTENDS Integers, Sequences, FiniteSets

CONSTANTS
    NStreams,   \* streams of a session; stream k has the wire id 2k - 1
    MaxBuffer,  \* bytes that wait in a data source at most
    Window,     \* flow control window of a stream, each way
    ConnWindow, \* receive window of the connection
    MaxQueue,   \* frames that wait to be sent at most
    AutoFlow,   \* the values of auto_flow_control considered
    Careful     \* the application flushes a request before it submits its
                \* body, has its data sent before it submits trailers, and
                \* flushes before it destroys the session

ASSUME BoundsAssumption ==
    /\ {NStreams, MaxBuffer, Window, ConnWindow, MaxQueue} \subseteq Nat \ {0}
    /\ AutoFlow \subseteq BOOLEAN /\ Careful \in BOOLEAN

Ids == 1..NStreams
Flags == {"MESSAGE_ALREADY_RECEIVED", "HAS_EOF", "SCHEDULED", "HEAD_REQUEST"}

VARIABLES
    server,               \* T is Http2Server
    auto_flow_control,    \* of m_settings
    m_streams,            \* the stream table, a function on the known ids
    m_received_handshake, \* of Http2Server
    settings,             \* how often submit_settings_impl() was called
    h2,                   \* what nghttp2 knows of each stream
    outq,                 \* frames other than DATA that nghttp2 will send
    goaway,               \* a server's GOAWAY has come: no new requests
    rcvConn,              \* received bytes the connection window misses
    phase,                \* "idle", in a "flush" or the "destructor"; then "gone",
                          \* or "failed" when the destructor's flush fails
    last,                 \* the last callback raised for each stream, and whether
                          \* all of them came in order
    unread,               \* bytes given to the application, not consumed yet
    lost                  \* streams that ended with data in their buffer

vars == <<server, auto_flow_control, m_streams, m_received_handshake, settings,
          h2, outq, goaway, rcvConn, phase, last, unread, lost>>

Stream == [message: BOOLEAN, flags: SUBSET Flags, buffer: 0..MaxBuffer]
NewStream == [message |-> FALSE, flags |-> {}, buffer |-> 0]

\* A stream in nghttp2.  "own" is what the application submitted of its headers
\* ("ended": with the promise that nothing follows), "sendable" that they are
\* sent, "got" that the peer's have come, "item" the DATA item.
NgStream == [state: {"idle", "queued", "open", "closing", "closed"},
             own: {"none", "interim", "final", "ended"},
             sendable: BOOLEAN, local: BOOLEAN, got: BOOLEAN, remote: BOOLEAN,
             item: {"none", "ready", "deferred", "blocked"},
             window: 0..Window, rcv: 0..Window]
NewNgStream == [state |-> "idle", own |-> "none", sendable |-> FALSE,
                local |-> FALSE, got |-> FALSE, remote |-> FALSE, item |-> "none",
                window |-> Window, rcv |-> 0]

Frame == [type: {"HEADERS", "RST_STREAM", "SETTINGS_ACK", "GOAWAY"},
          id: 0..NStreams, end: BOOLEAN, interim: BOOLEAN]
Headers(s, end, interim) ==
    [type |-> "HEADERS", id |-> s, end |-> end, interim |-> interim]
Other(t, s) == [type |-> t, id |-> s, end |-> FALSE, interim |-> FALSE]

Event == {"none", "interim", "message", "body", "trailer", "finished", "closed"}

Rank == [none |-> 0, interim |-> 1, message |-> 2, body |-> 3, trailer |-> 4,
         finished |-> 5, closed |-> 6]
Follows(d, e) == Rank[d] < Rank[e] \/ (d = e /\ e \in {"interim", "body"})

\* The callbacks es are raised on top of l.
Raise(l, es) ==
    LET all == <<l.event>> \o es IN
    [event |-> all[Len(all)],
     ordered |-> l.ordered /\ \A i \in 1..Len(es) : Follows(all[i], all[i + 1])]

Known == DOMAIN m_streams
With(s, stream) == [t \in Known \cup {s} |-> IF t = s THEN stream ELSE m_streams[t]]
Without(S) == [t \in Known \ S |-> m_streams[t]]

Init ==
    /\ server \in BOOLEAN
    /\ auto_flow_control \in AutoFlow
    /\ m_streams = <<>>
    /\ m_received_handshake = FALSE
    /\ settings = IF server THEN 0 ELSE 1
    /\ h2 = [s \in Ids |-> NewNgStream]
    /\ outq = <<>>
    /\ goaway = FALSE
    /\ rcvConn = 0
    /\ phase = "idle"
    /\ last = [s \in Ids |-> [event |-> "none", ordered |-> TRUE]]
    /\ unread = [s \in Ids |-> 0]
    /\ lost = {}

-----------------------------------------------------------------------------
(***************************************************************************)
(* Streams that close                                                      *)
(***************************************************************************)
Closed == [NewNgStream EXCEPT !.state = "closed"]

\* A faulty on_stream_close() that looks the stream up and leaves it in the table.
on_stream_close_kept(s, es) ==
    /\ m_streams' = m_streams
    /\ last' = [last EXCEPT ![s] = Raise(@, es \o <<"closed">>)]

\* on_stream_close() and close_stream(): the stream leaves the table and
\* on_stream_closed is raised after the callbacks es of the same frame.
on_stream_close(s, es) ==
    /\ m_streams' = Without({s})
    /\ last' = [last EXCEPT ![s] = Raise(@, es \o <<"closed">>)]

\* nghttp2 takes stream s to ns, the session takes it to st and raises es,
\* and the stream is closed when both sides have ended it.
Settle(s, ns, st, es) ==
    IF ns.local /\ ns.remote
    THEN h2' = [h2 EXCEPT ![s] = Closed] /\ on_stream_close(s, es)
    ELSE /\ h2' = [h2 EXCEPT ![s] = ns]
         /\ m_streams' = With(s, st)
         /\ last' = [last EXCEPT ![s] = Raise(@, es)]

-----------------------------------------------------------------------------
(***************************************************************************)
(* The application's calls, also from its callbacks                        *)
(***************************************************************************)
MayCall == phase \in {"idle", "flush"}
Queue(f) == Len(outq) < MaxQueue /\ outq' = Append(outq, f)

\* The next stream id is given by nghttp2 and counts up on both sides.
IsNext(s) == s = 1 + Cardinality({t \in Ids : h2[t].state # "idle"})

submit_request(s, end, head) ==
    LET eof == end \/ head IN
    /\ MayCall /\ ~server /\ IsNext(s)
    /\ Queue(Headers(s, eof, FALSE))
    /\ h2' = [h2 EXCEPT ![s].state = "queued", ![s].own = IF end THEN "ended" ELSE "final"]
    /\ m_streams' = With(s, [NewStream EXCEPT !.flags =
           {f \in {"HEAD_REQUEST"} : head} \cup {f \in {"HAS_EOF"} : eof}])
    /\ UNCHANGED <<server, auto_flow_control, m_received_handshake, settings, goaway,
                   rcvConn, phase, last, unread, lost>>

\* A response to HEAD is ended with its headers whatever the caller says.
submit_response(s, kind, end) ==
    LET eof == end \/ "HEAD_REQUEST" \in m_streams[s].flags IN
    /\ MayCall /\ server /\ s \in Known
    /\ h2[s].own = "none" \/ (h2[s].own = "interim" /\ kind = "final")
    /\ kind = "interim" => ~end
    /\ Queue(Headers(s, eof, kind = "interim"))
    /\ h2' = [h2 EXCEPT ![s].own = IF end THEN "ended" ELSE kind]
    /\ UNCHANGED <<server, auto_flow_control, m_streams, m_received_handshake, settings,
                   goaway, rcvConn, phase, last, unread, lost>>

\* The flags and the buffer after push_data() and the first use of schedule_send().
push_data(stream, n, eof) ==
    [stream EXCEPT !.buffer = @ + n,
                   !.flags = (@ \ {"HAS_EOF"}) \cup {"SCHEDULED"}
                             \cup {f \in {"HAS_EOF"} : eof}]

\* schedule_send(): the outcome for the DATA item, "error" when nghttp2 refuses.
\* It resumes only an item that waits, and attaches one only to an open stream.
schedule_send(stream, ng) ==
    CASE "SCHEDULED" \in stream.flags /\ ng.item = "blocked" -> "blocked"
      [] "SCHEDULED" \in stream.flags /\ ng.item = "deferred" -> "ready"
      [] "SCHEDULED" \notin stream.flags /\ ng.state # "queued" -> "ready"
      [] OTHER -> "error"

submit_body(s, n, eof) ==
    LET stream == m_streams[s]
        item == schedule_send(stream, h2[s])
    IN
    /\ MayCall /\ s \in Known /\ h2[s].own = "final"
    /\ Careful => h2[s].state # "queued" /\ "HAS_EOF" \notin stream.flags
    /\ stream.buffer + n <= MaxBuffer
    /\ m_streams' = With(s, push_data(stream, n, eof))
    /\ h2' = [h2 EXCEPT ![s].item = IF item = "error" THEN @ ELSE item]
    /\ UNCHANGED <<server, auto_flow_control, m_received_handshake, settings, outq,
                   goaway, rcvConn, phase, last, unread, lost>>

submit_trailer(s) ==
    /\ MayCall /\ s \in Known /\ h2[s].own = "final" /\ h2[s].state # "queued"
    /\ Careful => m_streams[s].buffer = 0 /\ "HAS_EOF" \notin m_streams[s].flags
    /\ Queue(Headers(s, TRUE, FALSE))
    /\ h2' = [h2 EXCEPT ![s].own = "ended"]
    /\ UNCHANGED <<server, auto_flow_control, m_streams, m_received_handshake, settings,
                   goaway, rcvConn, phase, last, unread, lost>>

reset_stream(s) ==
    /\ MayCall /\ h2[s].state \in {"queued", "open"}
    /\ Queue(Other("RST_STREAM", s))
    /\ h2' = [h2 EXCEPT ![s].state = "closing"]
    /\ UNCHANGED <<server, auto_flow_control, m_streams, m_received_handshake, settings,
                   goaway, rcvConn, phase, last, unread, lost>>

\* A faulty consume_stream() that leaves the connection's window alone.
ConsumedWithStream_forgotten(n) == rcvConn

\* With auto_flow_control nghttp2 opens the windows by itself.
ConsumedWithStream(n) == IF auto_flow_control THEN rcvConn ELSE rcvConn - n

\* The connection's and the stream's windows get back what the application read.
\* The stream may be closed by now.
consume_stream(s) ==
    /\ MayCall /\ unread[s] > 0
    /\ rcvConn' = ConsumedWithStream(unread[s])
    /\ h2' = [h2 EXCEPT ![s].rcv = IF h2[s].state = "closed" THEN @ ELSE @ - unread[s]]
    /\ unread' = [unread EXCEPT ![s] = 0]
    /\ UNCHANGED <<server, auto_flow_control, m_streams, m_received_handshake, settings,
                   outq, goaway, phase, last, lost>>

\* Enough for a stream that is closed.
consume_connection(s) ==
    /\ MayCall /\ unread[s] > 0 /\ h2[s].state = "closed"
    /\ rcvConn' = rcvConn - unread[s]
    /\ unread' = [unread EXCEPT ![s] = 0]
    /\ UNCHANGED <<server, auto_flow_control, m_streams, m_received_handshake, settings,
                   h2, outq, goaway, phase, last, lost>>

-----------------------------------------------------------------------------
(***************************************************************************)
(* flush() and the destructor: nghttp2 sends what it has, DATA last        *)
(***************************************************************************)
flush ==
    /\ phase = "idle"
    /\ phase' = "flush"
    /\ UNCHANGED <<server, auto_flow_control, m_streams, m_received_handshake, settings, h2,
                   outq, goaway, rcvConn, last, unread, lost>>

FlushEnd ==
    /\ phase = "flush"
    /\ outq = <<>> /\ \A s \in Ids : h2[s].item # "ready"
    /\ phase' = "idle"
    /\ UNCHANGED <<server, auto_flow_control, m_streams, m_received_handshake, settings, h2,
                   outq, goaway, rcvConn, last, unread, lost>>

CloseAll == [s \in Ids |-> IF s \in Known THEN Raise(last[s], <<"closed">>) ELSE last[s]]

\* All streams are closed to the application before the GOAWAY is sent.
destroy ==
    /\ phase = "idle"
    /\ Careful => outq = <<>>
    /\ m_streams' = <<>>
    /\ last' = CloseAll
    /\ outq' = Append(outq, Other("GOAWAY", 0))
    /\ phase' = "destructor"
    /\ UNCHANGED <<server, auto_flow_control, m_received_handshake, settings, h2, goaway,
                   rcvConn, unread, lost>>

\* nghttp2 closes stream s while it sends.  on_stream_close() fails for a stream
\* that is not in the table, and that ends the sending.
CloseSending(s) ==
    /\ h2' = [h2 EXCEPT ![s] = Closed]
    /\ IF s \in Known
       THEN on_stream_close(s, <<>>) /\ UNCHANGED phase
       ELSE phase' = "failed" /\ UNCHANGED <<m_streams, last>>

\* Stream s ends although its buffer holds data that should be sent.
EndsEarly(s) ==
    /\ s \in Known
    /\ m_streams[s].buffer > 0 /\ "HEAD_REQUEST" \notin m_streams[s].flags

SendHeaders(f) ==
    LET s == f.id IN
    /\ f.type = "HEADERS"
    /\ CASE h2[s].state = "queued" /\ goaway ->   \* new requests are not allowed
              CloseSending(s) /\ UNCHANGED lost
         [] h2[s].state \in {"queued", "open"} /\ ~h2[s].local ->
              /\ lost' = IF f.end /\ EndsEarly(s) THEN lost \cup {s} ELSE lost
              /\ IF f.end /\ h2[s].remote
                 THEN CloseSending(s)
                 ELSE /\ h2' = [h2 EXCEPT ![s].state = "open", ![s].local = f.end,
                                          ![s].sendable = ~f.interim]
                      /\ UNCHANGED <<m_streams, last, phase>>
         [] OTHER -> UNCHANGED <<h2, m_streams, last, phase, lost>>
    /\ UNCHANGED <<m_received_handshake, settings>>

SendRstStream(f) ==
    /\ f.type = "RST_STREAM"
    /\ IF h2[f.id].state = "closing"
       THEN CloseSending(f.id)
       ELSE UNCHANGED <<h2, m_streams, last, phase>>
    /\ UNCHANGED <<m_received_handshake, settings, lost>>

\* on_frame_send(): a server sends its own SETTINGS after the first ACK.
IsHandshake == server /\ ~m_received_handshake

SendSettingsAck(f) ==
    /\ f.type = "SETTINGS_ACK"
    /\ m_received_handshake' = (m_received_handshake \/ IsHandshake)
    /\ settings' = IF IsHandshake THEN settings + 1 ELSE settings
    /\ UNCHANGED <<h2, m_streams, last, phase, lost>>

SendGoaway(f) ==
    /\ f.type = "GOAWAY"
    /\ phase' = "gone"
    /\ UNCHANGED <<h2, m_streams, last, m_received_handshake, settings, lost>>

SendFrame ==
    /\ phase \in {"flush", "destructor"} /\ outq # <<>>
    /\ outq' = Tail(outq)
    /\ \/ SendHeaders(Head(outq))
       \/ SendRstStream(Head(outq))
       \/ SendSettingsAck(Head(outq))
       \/ SendGoaway(Head(outq))
    /\ UNCHANGED <<server, auto_flow_control, goaway, rcvConn, unread>>

\* Faulty ones: the end alone is no work; the end goes out with the first bytes.
HasWork_bytes(stream) == stream.buffer > 0
ReadEof_early(stream, n) == "HAS_EOF" \in stream.flags

\* on_data_source_read(): bytes taken from the buffer, and the EOF flag.
HasWork(stream) == "HAS_EOF" \in stream.flags \/ stream.buffer > 0
ReadBytes(stream, ng) == IF stream.buffer < ng.window THEN stream.buffer ELSE ng.window
ReadEof(stream, n) == "HAS_EOF" \in stream.flags /\ stream.buffer = n

Sends(s) == h2[s].state = "open" /\ ~h2[s].local /\ h2[s].sendable

SendData(s) ==
    LET stream == m_streams[s]
        n == ReadBytes(stream, h2[s])
        eof == ReadEof(stream, n)
        ns == [h2[s] EXCEPT !.window = @ - n, !.local = eof,
                            !.item = IF eof THEN "none" ELSE "ready"]
    IN
    /\ phase = "flush" /\ outq = <<>> /\ h2[s].item = "ready"
    /\ CASE ~Sends(s) ->   \* nghttp2 drops the item
              /\ h2' = [h2 EXCEPT ![s].item = "none"]
              /\ UNCHANGED <<m_streams, last>>
         [] h2[s].window = 0 ->
              /\ h2' = [h2 EXCEPT ![s].item = "blocked"]
              /\ UNCHANGED <<m_streams, last>>
         [] ~HasWork(stream) ->
              /\ h2' = [h2 EXCEPT ![s].item = "deferred"]
              /\ UNCHANGED <<m_streams, last>>
         [] OTHER ->
              Settle(s, ns, [stream EXCEPT !.buffer = @ - n], <<>>)
    /\ lost' = IF Sends(s) /\ eof /\ stream.buffer > n THEN lost \cup {s} ELSE lost
    /\ UNCHANGED <<server, auto_flow_control, m_received_handshake, settings, outq, goaway,
                   rcvConn, phase, unread>>

-----------------------------------------------------------------------------
(***************************************************************************)
(* input(): frames that nghttp2 accepts and passes on                      *)
(***************************************************************************)
\* The callbacks of a frame that raises es: on_end_stream() follows them when the
\* frame has END_STREAM.
Finish(es, end) == IF end THEN es \o <<"finished">> ELSE es

CanRecv(s) == h2[s].state = "open" /\ ~h2[s].remote

\* on_end_headers(): interim responses do not count as the message.
IsMessage(kind) == kind # "interim"
Received(stream, kind) ==
    [stream EXCEPT !.flags = @ \cup {f \in {"MESSAGE_ALREADY_RECEIVED"} : IsMessage(kind)}]
HeadersEvent(stream, kind) ==
    CASE "MESSAGE_ALREADY_RECEIVED" \in stream.flags -> "trailer"
      [] kind = "interim" -> "interim"
      [] OTHER -> "message"

\* on_begin_headers(), on_header() and on_end_headers() of a request.
RecvRequest(s, end, head) ==
    LET stream == [NewStream EXCEPT !.flags = {f \in {"HEAD_REQUEST"} : head}] IN
    /\ phase = "idle" /\ server /\ IsNext(s)
    /\ h2' = [h2 EXCEPT ![s].state = "open", ![s].got = TRUE, ![s].remote = end]
    /\ m_streams' = With(s, Received(stream, "final"))
    /\ last' = [last EXCEPT ![s] = Raise(@, Finish(<<HeadersEvent(stream, "final")>>, end))]
    /\ UNCHANGED <<server, auto_flow_control, m_received_handshake, settings, outq, goaway,
                   rcvConn, phase, unread, lost>>

\* The same for a response, final or not, and for trailers, which end the stream.
RecvHeaders(s, kind, end) ==
    LET stream == m_streams[s] IN
    /\ phase = "idle" /\ CanRecv(s)
    /\ kind = "trailer" <=> h2[s].got
    /\ kind = "interim" => ~end
    /\ kind = "trailer" => end
    /\ Settle(s, [h2[s] EXCEPT !.got = @ \/ kind = "final", !.remote = end],
              IF "MESSAGE_ALREADY_RECEIVED" \in stream.flags THEN stream
              ELSE Received(stream, kind),
              Finish(<<HeadersEvent(stream, kind)>>, end))
    /\ UNCHANGED <<server, auto_flow_control, m_received_handshake, settings, outq, goaway,
                   rcvConn, phase, unread, lost>>

\* A header block that nghttp2 finds to be malformed after on_begin_headers():
\* the message stays begun and the stream is reset.
RecvInvalidHeaders(s) ==
    LET stream == IF s \in Known THEN m_streams[s] ELSE NewStream IN
    /\ phase = "idle"
    /\ CanRecv(s) \/ (server /\ IsNext(s))
    /\ Queue(Other("RST_STREAM", s))
    /\ h2' = [h2 EXCEPT ![s].state = "closing"]
    /\ m_streams' = With(s, [stream EXCEPT !.message = TRUE])
    /\ UNCHANGED <<server, auto_flow_control, m_received_handshake, settings, goaway, rcvConn,
                   phase, last, unread, lost>>

\* on_data_chunk_recv() and on_frame_recv() of DATA.  nghttp2 counts the bytes
\* against the windows unless it consumes them itself.
RecvData(s, n, end) ==
    LET counted == IF auto_flow_control THEN 0 ELSE n IN
    /\ phase = "idle" /\ CanRecv(s) /\ h2[s].got
    /\ rcvConn + n <= ConnWindow /\ h2[s].rcv + n <= Window
    /\ rcvConn' = rcvConn + counted
    /\ unread' = [unread EXCEPT ![s] = @ + counted]
    /\ Settle(s, [h2[s] EXCEPT !.remote = end, !.rcv = @ + counted], m_streams[s],
              Finish(IF n > 0 THEN <<"body">> ELSE <<>>, end))
    /\ UNCHANGED <<server, auto_flow_control, m_received_handshake, settings, outq, goaway,
                   phase, lost>>

RecvRstStream(s) ==
    /\ phase = "idle" /\ h2[s].state \in {"open", "closing"} /\ s \in Known
    /\ h2' = [h2 EXCEPT ![s] = Closed]
    /\ on_stream_close(s, <<>>)
    /\ UNCHANGED <<server, auto_flow_control, m_received_handshake, settings, outq, goaway,
                   rcvConn, phase, unread, lost>>

RecvWindowUpdate(s) ==
    /\ phase = "idle" /\ h2[s].state = "open" /\ h2[s].window < Window
    /\ h2' = [h2 EXCEPT ![s].window = @ + 1,
                        ![s].item = IF @ = "blocked" THEN "ready" ELSE @]
    /\ UNCHANGED <<server, auto_flow_control, m_streams, m_received_handshake, settings, outq,
                   goaway, rcvConn, phase, last, unread, lost>>

RecvSettings ==
    /\ phase = "idle" /\ \A i \in 1..Len(outq) : outq[i].type # "SETTINGS_ACK"
    /\ Queue(Other("SETTINGS_ACK", 0))
    /\ UNCHANGED <<server, auto_flow_control, m_streams, m_received_handshake, settings, h2,
                   goaway, rcvConn, phase, last, unread, lost>>

\* on_close is raised, and nghttp2 closes the requests above the last id that
\* the peer will process.
RecvGoaway(last_id) ==
    LET dropped == {s \in Ids : ~server /\ s > last_id /\ h2[s].state \in {"open", "closing"}} IN
    /\ phase = "idle" /\ ~goaway
    /\ goaway' = ~server
    /\ h2' = [s \in Ids |-> IF s \in dropped THEN Closed ELSE h2[s]]
    /\ m_streams' = Without(dropped)
    /\ last' = [s \in Ids |-> IF s \in dropped THEN Raise(last[s], <<"closed">>) ELSE last[s]]
    /\ UNCHANGED <<server, auto_flow_control, m_received_handshake, settings, outq, rcvConn,
                   phase, unread, lost>>

-----------------------------------------------------------------------------
Application ==
    \E s \in Ids :
        \/ \E end, head \in BOOLEAN : submit_request(s, end, head)
        \/ \E kind \in {"interim", "final"}, end \in BOOLEAN : submit_response(s, kind, end)
        \/ \E n \in 0..MaxBuffer, eof \in BOOLEAN : submit_body(s, n, eof)
        \/ submit_trailer(s)
        \/ reset_stream(s)
        \/ consume_stream(s)
        \/ consume_connection(s)

Peer ==
    \/ \E s \in Ids :
        \/ \E end, head \in BOOLEAN : RecvRequest(s, end, head)
        \/ \E kind \in {"interim", "final", "trailer"}, end \in BOOLEAN : RecvHeaders(s, kind, end)
        \/ RecvInvalidHeaders(s)
        \/ \E n \in 0..1, end \in BOOLEAN : RecvData(s, n, end)
        \/ RecvRstStream(s)
        \/ RecvWindowUpdate(s)
    \/ RecvSettings
    \/ \E last_id \in 0..NStreams : RecvGoaway(last_id)

Sending == SendFrame \/ (\E s \in Ids : SendData(s)) \/ FlushEnd

Next == Application \/ Peer \/ flush \/ Sending \/ destroy

Spec == Init /\ [][Next]_vars

\* The application flushes after its calls, as the documentation of flush() asks
\* it to, what was started is sent, nghttp2 takes the streams in turn, a flush ends
\* (callbacks do not feed it for ever), and the peer opens the windows again.
Fairness ==
    /\ WF_vars(flush)
    /\ WF_vars(Sending)
    /\ SF_vars(FlushEnd)
    /\ \A s \in Ids : SF_vars(SendData(s)) /\ SF_vars(RecvWindowUpdate(s))

FairSpec == Spec /\ Fairness

-----------------------------------------------------------------------------
TypeOK ==
    /\ server \in BOOLEAN /\ auto_flow_control \in BOOLEAN
    /\ Known \subseteq Ids /\ \A s \in Known : m_streams[s] \in Stream
    /\ m_received_handshake \in BOOLEAN
    /\ settings \in 0..1
    /\ h2 \in [Ids -> NgStream]
    /\ Len(outq) <= MaxQueue + 1 /\ \A i \in 1..Len(outq) : outq[i] \in Frame
    /\ goaway \in BOOLEAN
    /\ rcvConn \in 0..ConnWindow
    /\ phase \in {"idle", "flush", "destructor", "gone", "failed"}
    /\ last \in [Ids -> [event: Event, ordered: BOOLEAN]]
    /\ unread \in [Ids -> 0..ConnWindow]
    /\ lost \subseteq Ids

\* The session's table holds exactly the streams that nghttp2 can call it back
\* for, and none that may still get headers has a message begun: the branches
\* that report an unknown stream or a message in progress are never taken.
StreamsMatch ==
    phase \in {"idle", "flush"} =>
        /\ Known = {s \in Ids : h2[s].state \in {"queued", "open", "closing"}}
        /\ \A s \in Known : h2[s].state = "open" => ~m_streams[s].message

\* The callbacks of a stream come in the order interim responses, message, body,
\* trailers, read finished, closed; nothing is raised twice or after the close.
EventsInOrder == \A s \in Ids : last[s].ordered

\* Every stream the application has heard of is closed to it when the session
\* is gone.
AllClosed ==
    phase \in {"destructor", "gone", "failed"} =>
        \A s \in Ids : last[s].event \in {"none", "closed"}

\* Without auto_flow_control the windows miss exactly the bytes that were given to
\* the application and not consumed, whatever became of their streams.
Sum(f) == LET sum[k \in 0..NStreams] == IF k = 0 THEN 0 ELSE sum[k - 1] + f[k] IN sum[NStreams]
WindowsExact ==
    /\ rcvConn = Sum(unread)
    /\ \A s \in Ids : h2[s].state = "open" => h2[s].rcv = unread[s]

\* A data source that waits for the next submit_body() has nothing to send: no
\* wakeup is lost between on_data_source_read() and schedule_send().
DeferredIsIdle ==
    \A s \in Known : h2[s].item = "deferred" => ~HasWork(m_streams[s])

\* A stream that the session ends has sent all of the body it took, unless the
\* body belongs to the answer to a HEAD request.
EndMeansAll == lost = {}

\* A stream that counts as scheduled has a data item in nghttp2 to resume, as long
\* as it may send.
ScheduledIsAttached ==
    \A s \in Known : (Sends(s) /\ "SCHEDULED" \in m_streams[s].flags) => h2[s].item # "none"

\* A body that was submitted to its end is sent to its end, if the stream is not
\* closed before.
EofIsSent ==
    \A s \in Ids :
        (s \in Known /\ {"HAS_EOF", "SCHEDULED"} \subseteq m_streams[s].flags)
            ~> (s \notin Known \/ h2[s].local)

\* The stream of a request is not ended by an interim response.
FinalIsSent == \A s \in Ids : h2[s].local => h2[s].own # "interim"

\* The destructor sends the GOAWAY.
GoawaySent == phase # "failed"

\* The session and nghttp2 know the same streams, and the application hears of each of
\* them in order, up to its end.
StreamsExact == StreamsMatch /\ EventsInOrder /\ AllClosed

\* No byte that was submitted is left behind: not at the end of its stream, and not in
\* a data source that nobody will resume.
BodiesExact == EndMeansAll /\ DeferredIsIdle /\ ScheduledIsAttached
=============================================================================
