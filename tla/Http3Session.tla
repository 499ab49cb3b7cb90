---------------------------- MODULE Http3Session ----------------------------
(***************************************************************************)
(* An HTTP/3 session (http3.cpp): Http3Session<T> with Http3Server or      *)
(* Http3Client on top of it, between an nghttp3 connection (streams and    *)
(* messages) and an ngtcp2 connection (packets, acknowledgements, the end  *)
(* of the connection), the application that calls it, and the peer.        *)
(*                                                                         *)
(* nghttp3 and ngtcp2 are outside of the repository and modelled from the  *)
(* way the session uses them.  nghttp3 does not copy a body: it reads the  *)
(* session's buffer through pointers that stay in use until the bytes are  *)
(* acknowledged, because ngtcp2 may have to send them again.  A body is    *)
(* the number of its bytes.  The session is used by one thread; its        *)
(* callbacks may call it, but flush() is not called from them.             *)
(***************************************************************************)
EXTENDS Integers, Sequences, FiniteSets

CONSTANTS
    NStreams,   \* request streams of a session
    MaxBuffer,  \* bytes that the buffer of a stream holds at most
    Window,     \* flow control window of a stream, each way
    Careful     \* the application answers before it sends a body, sends no
                \* interim responses, and sets the error to close the session
                \* with only right before it destroys the session

ASSUME BoundsAssumption ==
    /\ {NStreams, MaxBuffer, Window} \subseteq Nat \ {0}
    /\ Careful \in BOOLEAN

Ids == 1..NStreams
Flags == {"HAS_EOF", "TRAILERS_SUBMITTED", "HEAD_REQUEST"}

VARIABLES
    server,     \* T is Http3Server
    m_streams,  \* the stream table, a function on the known ids
    conn,       \* the session's flags and the state of the QUIC connection
    ng,         \* what nghttp3 and ngtcp2 know of each stream
    phase,      \* "idle", in a "flush", or "gone"
    last,       \* the last callback raised for each stream, and whether all
                \* of them came in order
    unread,     \* bytes given to the application, not consumed yet
    rcvConn,    \* received bytes the connection window misses
    lost        \* streams that ended with unread data in their buffer

vars == <<server, m_streams, conn, ng, phase, last, unread, rcvConn, lost>>

\* "has_buffer" tells an empty buffer from none.
Stream == [message: BOOLEAN, flags: SUBSET Flags, has_buffer: BOOLEAN,
           buffer: 0..MaxBuffer, read_offset: 0..MaxBuffer]
NewStream == [message |-> FALSE, flags |-> {}, has_buffer |-> FALSE,
              buffer |-> 0, read_offset |-> 0]

\* "closes" and "on_close" count the CONNECTION_CLOSE frames sent and the
\* on_close callbacks, "fault" says that input() has failed.
Conn == [m_last_error: {"none", "asked", "app", "tls", "lib"},
         m_handshake_completed: BOOLEAN, m_handled_rx_connection_close: BOOLEAN,
         m_connection_close_sent: BOOLEAN, m_drop_silently: BOOLEAN,
         quic: {"ok", "closing", "draining", "dropped"},
         closes: 0..1, on_close: 0..1, fault: BOOLEAN]
NewConn == [m_last_error |-> "none",
            m_handshake_completed |-> FALSE, m_handled_rx_connection_close |-> FALSE,
            m_connection_close_sent |-> FALSE, m_drop_silently |-> FALSE,
            quic |-> "ok", closes |-> 0, on_close |-> 0, fault |-> FALSE]

\* A stream in the two libraries.  "raw": the peer has opened it and sent bytes,
\* but no header frame.  "own": what the application submitted of its headers.
\* "pend" and "flight": bytes nghttp3 has read and ngtcp2 not taken, and bytes
\* ngtcp2 has taken that are not acknowledged.  "local": the end of the own side,
\* known to nghttp3, sent and acknowledged.  "shut": ngtcp2 sends no more on it,
\* "told": nghttp3 knows.  "deaf": ngtcp2 delivers no more.
NgStream == [state: {"idle", "raw", "open", "closed"},
             own: {"none", "interim", "final", "ended"},
             reader: {"none", "on_read_data", "null"}, waits: BOOLEAN,
             pend: 0..MaxBuffer, flight: 0..MaxBuffer, blocked: BOOLEAN,
             local: {"open", "eof", "sent", "acked"}, shut: BOOLEAN, told: BOOLEAN,
             got: BOOLEAN, remote: BOOLEAN, deaf: BOOLEAN,
             window: 0..Window, rcv: 0..Window]
NewNgStream == [state |-> "idle", own |-> "none", reader |-> "none", waits |-> FALSE,
                pend |-> 0, flight |-> 0, blocked |-> FALSE, local |-> "open",
                shut |-> FALSE, told |-> FALSE, got |-> FALSE, remote |-> FALSE,
                deaf |-> FALSE, window |-> Window, rcv |-> 0]
Closed == [NewNgStream EXCEPT !.state = "closed"]

Event == {"none", "message", "body", "trailer", "finished", "closed"}
Rank == [none |-> 0, message |-> 1, body |-> 2, trailer |-> 3, finished |-> 4, closed |-> 5]

\* Callback e is raised on top of l.  A client may get several responses in a
\* row, of which only the last is final.
Raise(l, e) ==
    [event |-> e,
     ordered |-> /\ l.ordered
                 /\ Rank[l.event] < Rank[e] \/ (l.event = e /\ e \in {"message", "body"})]
Raised(s, e) == [last EXCEPT ![s] = Raise(@, e)]

Known == DOMAIN m_streams
With(s, stream) == [t \in Known \cup {s} |-> IF t = s THEN stream ELSE m_streams[t]]
Without(s) == [t \in Known \ {s} |-> m_streams[t]]

Init ==
    /\ server \in BOOLEAN
    /\ m_streams = <<>>
    /\ conn = NewConn
    /\ ng = [s \in Ids |-> NewNgStream]
    /\ phase = "idle"
    /\ last = [s \in Ids |-> [event |-> "none", ordered |-> TRUE]]
    /\ unread = [s \in Ids |-> 0]
    /\ rcvConn = 0
    /\ lost = {}

-----------------------------------------------------------------------------
(***************************************************************************)
(* The end of the connection                                               *)
(***************************************************************************)
\* A faulty close_connection() that does not note what it sent.
close_connection_again(c) ==
    {IF c.quic = "draining" THEN c
     ELSE [c EXCEPT !.quic = "closing", !.closes = @ + 1]}

\* close_connection(): the states after it.  ngtcp2 writes no CONNECTION_CLOSE
\* after the peer's, and may have no keys to write one for a dropped connection.
close_connection(c) ==
    LET sent == [c EXCEPT !.quic = "closing", !.closes = @ + 1,
                          !.m_connection_close_sent = TRUE]
    IN CASE c.m_connection_close_sent \/ c.quic = "draining" -> {c}
         [] c.quic = "dropped" -> {c, sent}
         [] OTHER -> {sent}

\* The error of input() is noted if there is none yet.
NoteError(c, e) ==
    [c EXCEPT !.m_last_error = IF @ = "none" THEN e ELSE @, !.fault = TRUE]

\* What input() does when ngtcp2_conn_read_pkt() fails: a client closes the
\* connection at once only for a TLS error.
InputError(c, e) ==
    IF server \/ e = "tls" THEN close_connection(NoteError(c, e)) ELSE {NoteError(c, e)}

-----------------------------------------------------------------------------
(***************************************************************************)
(* The application's calls, also from its callbacks                        *)
(***************************************************************************)
\* A session that has failed is only flushed and destroyed.
MayCall == phase \in {"idle", "flush"} /\ conn.quic = "ok"

\* Streams are numbered in the order they are opened in.
IsNext(s) == s = 1 + Cardinality({t \in Ids : ng[t].state # "idle"})

submit_request(s, end, head) ==
    LET eof == end \/ head IN
    /\ MayCall /\ ~server /\ conn.m_handshake_completed /\ IsNext(s)
    /\ m_streams' = With(s, [NewStream EXCEPT
           !.flags = {f \in {"HEAD_REQUEST"} : head} \cup {f \in {"HAS_EOF"} : eof},
           !.has_buffer = ~eof])
    /\ ng' = [ng EXCEPT ![s].state = "open",
                        ![s].own = IF eof THEN "ended" ELSE "final",
                        ![s].reader = IF eof THEN "none" ELSE "on_read_data",
                        ![s].local = IF eof THEN "eof" ELSE "open"]
    /\ UNCHANGED <<server, conn, phase, last, unread, rcvConn, lost>>

\* The reader of submit_response(): empty when there is a buffer already.
Reader(stream, eof) ==
    CASE eof -> "none"
      [] ~eof /\ ~stream.has_buffer -> "on_read_data"
      [] OTHER -> "null"

\* A response to HEAD is ended with its headers whatever the caller says.
submit_response(s, kind, end) ==
    LET stream == m_streams[s]
        eof == end \/ "HEAD_REQUEST" \in stream.flags
    IN
    /\ MayCall /\ server /\ s \in Known /\ last[s].event # "none"
    /\ ng[s].own = "none" \/ (ng[s].own = "interim" /\ kind = "final")
    /\ kind = "interim" => ~Careful /\ ~end
    /\ m_streams' = With(s, [stream EXCEPT !.has_buffer = @ \/ ~eof])
    /\ ng' = [ng EXCEPT ![s].own = IF end THEN "ended" ELSE kind,
                        ![s].reader = Reader(stream, eof),
                        ![s].waits = FALSE,
                        ![s].local = IF eof THEN "eof" ELSE @]
    /\ UNCHANGED <<server, conn, phase, last, unread, rcvConn, lost>>

\* The buffer and the flags after push_data().
push_data(stream, n, eof) ==
    [stream EXCEPT !.has_buffer = TRUE, !.buffer = @ + n,
                   !.flags = (@ \ {"HAS_EOF"}) \cup {f \in {"HAS_EOF"} : eof}]

\* After nghttp3_conn_resume_stream() the stream asks for data again.
Resumed(s) == FALSE

submit_body(s, n, eof) ==
    /\ MayCall /\ s \in Known
    /\ ng[s].own = "final" \/ (~Careful /\ server /\ ng[s].own = "none" /\ last[s].event # "none")
    /\ m_streams[s].flags \cap {"HAS_EOF", "TRAILERS_SUBMITTED"} = {}
    /\ m_streams[s].buffer + n <= MaxBuffer
    /\ m_streams' = With(s, push_data(m_streams[s], n, eof))
    /\ ng' = [ng EXCEPT ![s].waits = Resumed(s)]
    /\ UNCHANGED <<server, conn, phase, last, unread, rcvConn, lost>>

submit_trailer(s) ==
    /\ MayCall /\ s \in Known /\ ng[s].own = "final" /\ ng[s].local = "open"
    /\ "HAS_EOF" \notin m_streams[s].flags
    /\ m_streams' = With(s, [m_streams[s] EXCEPT !.flags = @ \cup {"TRAILERS_SUBMITTED"}])
    /\ ng' = [ng EXCEPT ![s].own = "ended", ![s].waits = Resumed(s)]
    /\ UNCHANGED <<server, conn, phase, last, unread, rcvConn, lost>>

\* ngtcp2 shuts both sides of the stream; nghttp3 is not told.
reset_stream(s) ==
    /\ MayCall /\ ng[s].state = "open" /\ ~(ng[s].shut /\ ng[s].deaf)
    /\ ng' = [ng EXCEPT ![s].shut = TRUE, ![s].deaf = TRUE]
    /\ UNCHANGED <<server, m_streams, conn, phase, last, unread, rcvConn, lost>>

ConsumedWithStream(n) == rcvConn - n

\* Both windows get back what the application read.
consume_stream(s) ==
    /\ MayCall /\ unread[s] > 0
    /\ rcvConn' = ConsumedWithStream(unread[s])
    /\ ng' = [ng EXCEPT ![s].rcv = IF ng[s].state = "closed" THEN @ ELSE @ - unread[s]]
    /\ unread' = [unread EXCEPT ![s] = 0]
    /\ UNCHANGED <<server, m_streams, conn, phase, last, lost>>

\* Enough for a stream that is closed.
consume_connection(s) ==
    /\ MayCall /\ unread[s] > 0 /\ ng[s].state = "closed"
    /\ rcvConn' = rcvConn - unread[s]
    /\ unread' = [unread EXCEPT ![s] = 0]
    /\ UNCHANGED <<server, m_streams, conn, ng, phase, last, lost>>

\* The error for the CONNECTION_CLOSE of the destructor.
set_session_close_error ==
    /\ phase = "idle" /\ conn.m_last_error # "asked"
    /\ conn' = [conn EXCEPT !.m_last_error = "asked"]
    /\ UNCHANGED <<server, m_streams, ng, phase, last, unread, rcvConn, lost>>

-----------------------------------------------------------------------------
(***************************************************************************)
(* flush() and the destructor                                              *)
(***************************************************************************)
flush ==
    /\ phase = "idle"
    /\ Careful => conn.m_last_error # "asked"
    /\ phase' = "flush"
    /\ UNCHANGED <<server, m_streams, conn, ng, last, unread, rcvConn, lost>>

Unsent(stream) == stream.buffer - stream.read_offset

\* Faulty one: trailers alone are no work.
ReadTrailers_never(stream, n) == FALSE

\* on_read_data() with n of the unsent bytes: whether the body ends with them,
\* and whether it has ended and trailers follow.
ReadEof(stream, n) == n = Unsent(stream) /\ "HAS_EOF" \in stream.flags
ReadTrailers(stream, n) ==
    n = 0 /\ Unsent(stream) = 0 /\ "TRAILERS_SUBMITTED" \in stream.flags

\* nghttp3 asks for data once ngtcp2 has taken what it had, and gets the first n
\* of the unsent bytes: all of them unless they lie in too many pieces.
on_read_data(s, n) ==
    LET stream == m_streams[s]
        ends == ReadEof(stream, n) \/ ReadTrailers(stream, n)
    IN
    /\ phase = "flush" /\ conn.quic = "ok" /\ s \in Known
    /\ ng[s].reader = "on_read_data" /\ ng[s].local = "open"
    /\ ~ng[s].waits /\ ~ng[s].told /\ ~ng[s].blocked /\ ng[s].pend = 0
    /\ n <= Unsent(stream) /\ (n = 0 => Unsent(stream) = 0)
    /\ m_streams' = With(s, [stream EXCEPT !.read_offset = @ + n])
    /\ ng' = [ng EXCEPT ![s].pend = n,
                        ![s].local = IF ends THEN "eof" ELSE "open",
                        ![s].waits = n = 0 /\ ~ends]
    /\ lost' = IF ends /\ n < Unsent(stream) THEN lost \cup {s} ELSE lost
    /\ UNCHANGED <<server, conn, phase, last, unread, rcvConn>>

\* ngtcp2 takes k of the pending bytes into packets, with the end of the stream
\* when they are the last.  It refuses when the window is closed or the stream
\* was shut, and nghttp3 is told.
WriteStream(s, k) ==
    LET st == ng[s] IN
    /\ phase = "flush" /\ conn.quic = "ok" /\ s \in Known
    /\ st.pend > 0 \/ st.local = "eof"
    /\ ~st.blocked /\ ~st.told
    /\ CASE st.shut ->
              k = 0 /\ ng' = [ng EXCEPT ![s].told = TRUE, ![s].pend = 0]
         [] ~st.shut /\ st.pend > 0 /\ st.window = 0 ->
              k = 0 /\ ng' = [ng EXCEPT ![s].blocked = TRUE]
         [] OTHER ->
              /\ k <= st.pend /\ k <= st.window /\ (k = 0 => st.pend = 0)
              /\ ng' = [ng EXCEPT ![s].pend = @ - k, ![s].flight = @ + k,
                                  ![s].window = @ - k,
                                  ![s].local = IF @ = "eof" /\ k = st.pend THEN "sent" ELSE @]
    /\ UNCHANGED <<server, m_streams, conn, phase, last, unread, rcvConn, lost>>

\* Whether the exit of the loop finds an error.
FlushError(c) == c.m_last_error # "none"

\* The loop ends when there is nothing left to write, or when congestion or
\* pacing lets nothing out for now.  A closing connection is an error of its own.
FlushEnd ==
    LET c == IF conn.quic = "closing" THEN [conn EXCEPT !.m_last_error = "lib"] ELSE conn IN
    /\ phase = "flush"
    /\ conn' \in IF FlushError(c) THEN close_connection(c) ELSE {c}
    /\ phase' = "idle"
    /\ UNCHANGED <<server, m_streams, ng, last, unread, rcvConn, lost>>

CloseAll == [s \in Ids |-> IF s \in Known THEN Raise(last[s], "closed") ELSE last[s]]

destroy ==
    /\ phase = "idle"
    /\ m_streams' = <<>>
    /\ last' = CloseAll
    /\ conn' \in IF conn.m_drop_silently THEN {conn} ELSE close_connection(conn)
    /\ phase' = "gone"
    /\ UNCHANGED <<server, ng, unread, rcvConn, lost>>

-----------------------------------------------------------------------------
(***************************************************************************)
(* input(): what ngtcp2 and nghttp3 pass on                                *)
(***************************************************************************)
MayRecv == phase = "idle" /\ conn.quic = "ok"
CanRecv(s) == MayRecv /\ ng[s].state = "open" /\ ~ng[s].remote /\ ~ng[s].deaf

on_handshake_completed ==
    /\ MayRecv /\ ~conn.m_handshake_completed
    /\ conn' = [conn EXCEPT !.m_handshake_completed = TRUE]
    /\ UNCHANGED <<server, m_streams, ng, phase, last, unread, rcvConn, lost>>

\* The peer opens a stream; its header frame has not begun yet.
RecvOpen(s) ==
    /\ MayRecv /\ server /\ conn.m_handshake_completed /\ IsNext(s)
    /\ ng' = [ng EXCEPT ![s].state = "raw"]
    /\ UNCHANGED <<server, m_streams, conn, phase, last, unread, rcvConn, lost>>

\* Headers or trailers begin.  Only on_begin_headers() adds a stream.
on_begin_headers(s) ==
    LET stream == IF s \in Known THEN m_streams[s] ELSE NewStream IN
    /\ CanRecv(s) \/ (MayRecv /\ ng[s].state = "raw" /\ ~ng[s].remote)
    /\ last[s].event # "trailer" /\ ~stream.message
    /\ m_streams' = With(s, [stream EXCEPT !.message = TRUE])
    /\ ng' = [ng EXCEPT ![s].state = "open"]
    /\ UNCHANGED <<server, conn, phase, last, unread, rcvConn, lost>>

HeadersEvent(s) == IF ng[s].got THEN "trailer" ELSE "message"

\* They end: the callback of the message or of the trailers.  A response may be
\* an interim one.
on_end_headers(s, interim, head) ==
    LET stream == m_streams[s] IN
    /\ CanRecv(s) /\ s \in Known /\ stream.message
    /\ interim => ~server /\ ~ng[s].got
    /\ head => server /\ ~ng[s].got
    /\ m_streams' = With(s, [stream EXCEPT !.message = FALSE,
                                !.flags = @ \cup {f \in {"HEAD_REQUEST"} : head}])
    /\ ng' = [ng EXCEPT ![s].got = ~interim]
    /\ last' = Raised(s, HeadersEvent(s))
    /\ UNCHANGED <<server, conn, phase, unread, rcvConn, lost>>

\* on_data_chunk_recv().  The bytes of the framing are consumed at once.
RecvData(s) ==
    /\ CanRecv(s) /\ ng[s].got /\ ~m_streams[s].message /\ last[s].event # "trailer"
    /\ ng[s].rcv < Window
    /\ ng' = [ng EXCEPT ![s].rcv = @ + 1]
    /\ rcvConn' = rcvConn + 1
    /\ unread' = [unread EXCEPT ![s] = @ + 1]
    /\ last' = Raised(s, "body")
    /\ UNCHANGED <<server, m_streams, conn, phase, lost>>

on_end_stream(s) ==
    /\ CanRecv(s) /\ ng[s].got /\ ~m_streams[s].message
    /\ ng' = [ng EXCEPT ![s].remote = TRUE]
    /\ last' = Raised(s, "finished")
    /\ UNCHANGED <<server, m_streams, conn, phase, unread, rcvConn, lost>>

\* The peer resets its side, or answers our reset.
on_quic_stream_reset(s) ==
    /\ MayRecv /\ ng[s].state \in {"raw", "open"} /\ ~ng[s].remote
    /\ ng' = [ng EXCEPT ![s].remote = TRUE]
    /\ UNCHANGED <<server, m_streams, conn, phase, last, unread, rcvConn, lost>>

\* The peer wants nothing more of our side: both libraries stop sending.
on_quic_stream_stop_sending(s) ==
    /\ MayRecv /\ ng[s].state \in {"raw", "open"} /\ ~ng[s].told
    /\ ng' = [ng EXCEPT ![s].shut = TRUE, ![s].told = TRUE, ![s].pend = 0]
    /\ UNCHANGED <<server, m_streams, conn, phase, last, unread, rcvConn, lost>>

\* nghttp3 finds the headers to be malformed and gives the stream up with
\* on_h3_stop_sending() and on_h3_reset_stream(), which shut one side each.
RejectStream(s) ==
    /\ CanRecv(s) /\ m_streams[s].message
    /\ ng' = [ng EXCEPT ![s].shut = TRUE, ![s].deaf = TRUE]
    /\ UNCHANGED <<server, m_streams, conn, phase, last, unread, rcvConn, lost>>

\* extend_max_stream_data: the window grows and nghttp3 takes the stream up again.
RecvMaxStreamData(s) ==
    /\ MayRecv /\ ng[s].state = "open" /\ ng[s].window < Window
    /\ ng' = [ng EXCEPT ![s].window = @ + 1, ![s].blocked = FALSE]
    /\ UNCHANGED <<server, m_streams, conn, phase, last, unread, rcvConn, lost>>

\* A faulty on_acked_stream_data() that leaves the offset where it was.
Acked_offset(stream, orig_len) == [stream EXCEPT !.buffer = @ - orig_len]

\* on_acked_stream_data(): both the buffer and the offset into it shrink, by no
\* more than they are.
Acked(stream, orig_len) ==
    LET len == IF stream.buffer < orig_len THEN stream.buffer ELSE orig_len
        off == IF stream.read_offset < len THEN stream.read_offset ELSE len
    IN [stream EXCEPT !.buffer = @ - len, !.read_offset = @ - off]

\* The peer acknowledges n bytes in order, and with the last the end.
RecvAck(s, n) ==
    LET st == ng[s] IN
    /\ MayRecv /\ st.state = "open" /\ ~st.shut /\ st.local # "acked"
    /\ n <= st.flight
    /\ n = 0 => st.local = "sent" /\ st.flight = 0
    /\ m_streams' = IF n = 0 THEN m_streams ELSE With(s, Acked(m_streams[s], n))
    /\ ng' = [ng EXCEPT ![s].flight = @ - n,
                        ![s].local = IF n = 0 THEN "acked" ELSE @]
    /\ UNCHANGED <<server, conn, phase, last, unread, rcvConn, lost>>

Extract(s) == Without(s)

\* on_quic_stream_close() and on_h3_stream_close(): both sides of the stream are
\* done.  A stream without headers is not in the table, and that is an error of
\* the connection.
on_quic_stream_close(s) ==
    LET st == ng[s] IN
    /\ MayRecv /\ st.state \in {"raw", "open"}
    /\ st.remote /\ (st.local = "acked" \/ st.shut)
    /\ ng' = [ng EXCEPT ![s] = Closed]
    /\ IF s \in Known
       THEN /\ m_streams' = Extract(s)
            /\ last' = Raised(s, "closed")
            /\ UNCHANGED conn
       ELSE /\ conn' \in InputError([conn EXCEPT !.m_last_error = "app"], "lib")
            /\ UNCHANGED <<m_streams, last>>
    /\ UNCHANGED <<server, phase, unread, rcvConn, lost>>

IsFirstClose == ~conn.m_handled_rx_connection_close

\* NGTCP2_ERR_DRAINING, for the peer's CONNECTION_CLOSE and every packet after it.
RecvConnectionClose ==
    /\ phase = "idle" /\ conn.quic \in {"ok", "draining"}
    /\ conn' = [conn EXCEPT !.quic = "draining", !.m_handled_rx_connection_close = TRUE,
                            !.on_close = IF IsFirstClose THEN @ + 1 ELSE @]
    /\ UNCHANGED <<server, m_streams, ng, phase, last, unread, rcvConn, lost>>

\* Any other error of ngtcp2_conn_read_pkt(): of TLS, or because the connection
\* is closing, or another.
RecvError(e) ==
    /\ phase = "idle" /\ conn.quic \in {"ok", "closing"}
    /\ e = "tls" => ~conn.m_handshake_completed
    /\ conn' \in InputError(conn, e)
    /\ UNCHANGED <<server, m_streams, ng, phase, last, unread, rcvConn, lost>>

\* NGTCP2_ERR_DROP_CONN of a server.
RecvDropConn ==
    /\ MayRecv /\ server /\ ~conn.m_handshake_completed
    /\ conn' \in close_connection([conn EXCEPT !.quic = "dropped", !.fault = TRUE,
                                               !.m_drop_silently = TRUE])
    /\ UNCHANGED <<server, m_streams, ng, phase, last, unread, rcvConn, lost>>

-----------------------------------------------------------------------------
Application ==
    \/ \E s \in Ids :
        \/ \E end, head \in BOOLEAN : submit_request(s, end, head)
        \/ \E kind \in {"interim", "final"}, end \in BOOLEAN : submit_response(s, kind, end)
        \/ \E n \in 0..MaxBuffer, eof \in BOOLEAN : submit_body(s, n, eof)
        \/ submit_trailer(s)
        \/ reset_stream(s)
        \/ consume_stream(s)
        \/ consume_connection(s)
    \/ set_session_close_error

Peer ==
    \/ \E s \in Ids :
        \/ RecvOpen(s)
        \/ on_begin_headers(s)
        \/ \E interim, head \in BOOLEAN : on_end_headers(s, interim, head)
        \/ RecvData(s)
        \/ on_end_stream(s)
        \/ on_quic_stream_reset(s)
        \/ on_quic_stream_stop_sending(s)
        \/ RejectStream(s)
        \/ RecvMaxStreamData(s)
        \/ \E n \in 0..MaxBuffer : RecvAck(s, n)
        \/ on_quic_stream_close(s)
    \/ on_handshake_completed
    \/ RecvConnectionClose
    \/ \E e \in {"tls", "lib"} : RecvError(e)
    \/ RecvDropConn

Write(s) == \E n \in 0..MaxBuffer : on_read_data(s, n) \/ WriteStream(s, n)

Next == Application \/ Peer \/ flush \/ (\E s \in Ids : Write(s)) \/ FlushEnd \/ destroy

Spec == Init /\ [][Next]_vars

\* The application flushes again and again, as it has to after its calls and when
\* the timer fires; congestion lets packets out again and again; and the peer
\* opens the windows again.
Fairness ==
    /\ WF_vars(flush)
    /\ WF_vars(FlushEnd)
    /\ \A s \in Ids : SF_vars(Write(s)) /\ SF_vars(RecvMaxStreamData(s))

FairSpec == Spec /\ Fairness

-----------------------------------------------------------------------------
TypeOK ==
    /\ server \in BOOLEAN
    /\ Known \subseteq Ids /\ \A s \in Known : m_streams[s] \in Stream
    /\ conn \in Conn
    /\ ng \in [Ids -> NgStream]
    /\ phase \in {"idle", "flush", "gone"}
    /\ last \in [Ids -> [event: Event, ordered: BOOLEAN]]
    /\ unread \in [Ids -> 0..(NStreams * Window)]
    /\ rcvConn \in 0..(NStreams * Window)
    /\ lost \subseteq Ids

\* The session's table holds exactly the streams whose headers nghttp3 has seen
\* or sent, so no callback but the one of a stream closed without headers meets
\* an unknown stream.
StreamsMatch ==
    phase # "gone" => Known = {s \in Ids : ng[s].state = "open"}

\* The bytes before read_offset are exactly those that nghttp3 or ngtcp2 still
\* point to: none of them is freed before its acknowledgement, none is skipped
\* and none is read twice.
OffsetsExact ==
    \A s \in Known : ~ng[s].shut =>
        /\ m_streams[s].read_offset = ng[s].pend + ng[s].flight
        /\ m_streams[s].read_offset <= m_streams[s].buffer

\* A stream that waits for nghttp3_conn_resume_stream() has nothing to send.
WaitsIsIdle ==
    \A s \in Known : ng[s].waits =>
        /\ Unsent(m_streams[s]) = 0
        /\ m_streams[s].flags \cap {"HAS_EOF", "TRAILERS_SUBMITTED"} = {}

\* The end of a stream follows all of the body the application submitted.
EndMeansAll == lost = {}

\* The callbacks of a stream come in the order message, body, trailers, read
\* finished, closed; none comes twice or after the close.
EventsInOrder == \A s \in Ids : last[s].ordered

\* Every stream the application has heard of is closed to it when the session
\* is gone.
AllClosed == phase = "gone" => \A s \in Ids : last[s].event \in {"none", "closed"}

\* The receive windows miss exactly the bytes that were given to the application
\* and not consumed.
Sum(f) == LET sum[k \in 0..NStreams] == IF k = 0 THEN 0 ELSE sum[k - 1] + f[k] IN sum[NStreams]
WindowsExact ==
    /\ rcvConn = Sum(unread)
    /\ \A s \in Ids : ng[s].state = "open" => ng[s].rcv = unread[s]

\* However errors, flushes, packets and the destructor follow each other, one
\* CONNECTION_CLOSE is sent at most and one close of the peer reported at most;
\* and the peer of a session that is gone has been told, unless it closed the
\* connection itself or the connection was dropped.
CloseOnce ==
    /\ conn.closes <= 1 /\ conn.on_close <= 1
    /\ (phase = "gone" /\ conn.quic # "draining" /\ ~conn.m_drop_silently) => conn.closes = 1

\* A session that has met no error of input() is not closed before it is destroyed.
ClosedByDestructor == (conn.closes > 0 /\ ~conn.fault) => phase = "gone"

\* A response that promises a body has on_read_data() to read it with.
ReaderAttached == \A s \in Ids : ng[s].reader # "null"

\* A body that was submitted to its end, with or without trailers, is sent to its
\* end, unless the stream is shut or closed or the connection ends before.
EndIsSent ==
    \A s \in Ids :
        (/\ s \in Known /\ ng[s].own \in {"final", "ended"}
         /\ m_streams[s].flags \cap {"HAS_EOF", "TRAILERS_SUBMITTED"} # {})
            ~> (\/ s \notin Known \/ ng[s].shut
                \/ conn.quic # "ok" \/ conn.m_last_error # "none"
                \/ ng[s].local \in {"sent", "acked"})

\* get_stream_send_capacity_impl()
get_stream_send_capacity(s) ==
    LET unsent == IF s \in Known THEN Unsent(m_streams[s]) ELSE 0
        left == IF ng[s].state = "open" THEN ng[s].window ELSE 0
    IN IF unsent >= left THEN 0 ELSE left - unsent

\* Between two calls, what the capacity promises fits into the window together
\* with all that was submitted before and not handed to the transport.
CapacityFits ==
    phase = "idle" => \A s \in Known : get_stream_send_capacity(s) > 0 =>
        get_stream_send_capacity(s) + Unsent(m_streams[s]) + ng[s].pend <= ng[s].window

\* The session and nghttp3 know the same streams; the application hears of each of them
\* in order, up to its end, and the peer of one end of the connection.
ReportsExact == StreamsMatch /\ EventsInOrder /\ AllClosed /\ CloseOnce /\ ClosedByDestructor

\* Every byte of a body is accounted for, in both directions: those sent and not yet
\* acknowledged, those that wait, and those received and not yet consumed.
BodiesExact == OffsetsExact /\ WaitsIsIdle /\ EndMeansAll /\ WindowsExact
=============================================================================
