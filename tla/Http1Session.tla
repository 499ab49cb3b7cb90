---------------------------- MODULE Http1Session ----------------------------
(***************************************************************************)
(* What Http1Server and Http1Client share (the template Http1Session<T>):  *)
(* stream records, what send_body and send_trailer put on the wire, and    *)
(* the receiving end of that wire.                                         *)
(*                                                                         *)
(* A callback result is a value of the model: an event handed to the       *)
(* application, or a token handed to on_output.  A token stands for the    *)
(* bytes of one syntactic element: a message head, a non-empty chunk, the  *)
(* zero chunk's size line, the trailer headers, an empty line (CHUNK_FOOTER*)
(* on its own), or body bytes.                                             *)
(***************************************************************************)
EXTENDS Integers, Sequences, SequencesExt

Flags == {"REQ_SENT", "UPGRADE_REQUEST", "HEAD_REQUEST", "HAS_BODY",
          "BODY_DATA_STARTED", "INTERMEDIATE_RESPONSE", "ZERO_CHUNK_SENT"}

\* The alternatives of the variant ContentLength.
Unset == <<"unset">>
Chunked == <<"chunked">>
Size(n) == <<"size", n>>
IsSize(cl) == cl[1] = "size"

NewStream(id) == [id |-> id, flags |-> {}, content_length |-> Unset]

SetFlag(s, f, b) == [s EXCEPT !.flags = IF b THEN @ \cup {f} ELSE @ \ {f}]

\* `std::optional x = to_integer(v).has_value()': an optional<bool>, which always
\* has a value, and it is that bool that becomes the size_t of content_length.
ParsedLength(header) == Size(IF header = "absent" THEN 0 ELSE 1)

Token(t, id, n) == [t |-> t, id |-> id, n |-> n]

\* m_streams.pop_front()
pop_front(streams) == Tail(streams)

\* Faulty variant: the body is over before its trailer headers.
EndOfBody_swapped(trailer, hasBody) ==
    (IF hasBody THEN <<"body_finished">> ELSE <<>>) \o (IF trailer THEN <<"trailer">> ELSE <<>>)

\* What on_message_complete raises for the body.
EndOfBody(trailer, hasBody) ==
    (IF trailer THEN <<"trailer">> ELSE <<>>) \o (IF hasBody THEN <<"body_finished">> ELSE <<>>)

ChunkToken(id, n) == IF n = 0 THEN Token("zero", id, 0) ELSE Token("chunk", id, n)

\* Faulty variant: no empty line after the last chunk.
ChunkedOut_no_footer(id, n, eof) ==
    <<ChunkToken(id, n)>> \o (IF n > 0 /\ eof THEN <<ChunkToken(id, 0)>> ELSE <<>>)

\* A chunk; the end of the message adds the zero chunk, unless this is it, and an
\* empty line.
ChunkedOut(id, n, eof) ==
    <<ChunkToken(id, n)>>
    \o (IF n > 0 /\ eof THEN <<ChunkToken(id, 0)>> ELSE <<>>)
    \o (IF eof THEN <<Token("crlf", id, 0)>> ELSE <<>>)

\* Faulty variant: a zero chunk ends the message, trailers or not.
ChunkedEnd_at_zero(n, eof) == eof \/ n = 0

ChunkedEnd(n, eof) == eof

\* send_body_impl up to the point where the end of the message is acted upon, on
\* stream s for n bytes: the stream afterwards, the tokens put out, and whether the
\* message has ended.
SendBody(s, n, eof) ==
    LET left == IF s.content_length[2] >= n THEN s.content_length[2] - n ELSE 0
        raw == IF n = 0 THEN <<>> ELSE <<Token("data", s.id, n)>>
    IN  CASE s.content_length = Chunked ->
               [stream |-> SetFlag(s, "ZERO_CHUNK_SENT", n = 0 \/ eof),
                out |-> ChunkedOut(s.id, n, eof),
                eof |-> ChunkedEnd(n, eof)]
          [] IsSize(s.content_length) ->
               [stream |-> [s EXCEPT !.content_length = Size(left)],
                out |-> raw,
                eof |-> left = 0]
          [] OTHER ->
               [stream |-> s, out |-> raw, eof |-> eof]

\* What send_trailer_impl puts out when it gets past its checks: without an earlier
\* zero chunk it sends one, then an empty line, then the headers.
TrailerOut(s, eof) ==
    (IF "ZERO_CHUNK_SENT" \in s.flags
     THEN <<>>
     ELSE SendBody(s, 0, FALSE).out \o <<Token("crlf", s.id, 0)>>)
    \o <<Token("trailer", s.id, 0)>>
    \o (IF eof THEN <<Token("crlf", s.id, 0)>> ELSE <<>>)

----------------------------------------------------------------------------
(* The receiver of the output: HTTP/1.1 framing.  `id' is the last message whose *)
(* final head was read.                                                          *)

PeerStates == {"head", "chunk", "last", "body", "bad"}

NewPeer == [at |-> "head", id |-> 0, left |-> 0]

\* One token read by the peer.  A head's n is the length of the body: 0 for none,
\* -1 for a chunked one, -2 for an interim response, which has no body and leaves
\* the final head to come.
Read(w, tok) ==
    LET ok == CASE tok.t = "head"    -> w.at = "head" /\ tok.id = w.id + 1
                [] tok.t = "chunk"   -> w.at = "chunk" /\ tok.id = w.id
                [] tok.t = "zero"    -> w.at = "chunk" /\ tok.id = w.id
                [] tok.t = "trailer" -> w.at = "last" /\ tok.id = w.id
                [] tok.t = "crlf"    -> w.at = "last" /\ tok.id = w.id
                [] tok.t = "data"    -> w.at = "body" /\ tok.id = w.id /\ tok.n <= w.left
    IN  CASE ~ok -> [w EXCEPT !.at = "bad"]
          [] ok /\ tok.t = "head" /\ tok.n = -2 -> w
          [] ok /\ tok.t = "head" /\ tok.n = -1 -> [at |-> "chunk", id |-> tok.id, left |-> 0]
          [] ok /\ tok.t = "head" /\ tok.n >= 0 ->
                [at |-> IF tok.n = 0 THEN "head" ELSE "body", id |-> tok.id, left |-> tok.n]
          [] ok /\ tok.t = "zero" -> [w EXCEPT !.at = "last"]
          [] ok /\ tok.t = "crlf" -> [w EXCEPT !.at = "head"]
          [] ok /\ tok.t = "data" ->
                [w EXCEPT !.left = @ - tok.n, !.at = IF w.left = tok.n THEN "head" ELSE @]
          [] OTHER -> w

ReadAll(w, out) == FoldLeft(Read, w, out)

\* The peer has all of message id.
Received(w, id) == w.id > id \/ (w.id = id /\ w.at = "head")

----------------------------------------------------------------------------
\* The events of one stream come in the order the callbacks' documentation gives:
\* the message, its body chunks, its trailer headers, the end of the body, and
\* nothing after on_stream_finished.
Ordered(ev) ==
    LET Before(x, y) == \A i, j \in DOMAIN ev : ev[i] = x /\ ev[j] = y => i < j
        Once(x) == \A i, j \in DOMAIN ev : ev[i] = x /\ ev[j] = x => i = j
    IN  /\ \A x \in {"trailer", "body_finished", "finished"} : Once(x)
        /\ \A x \in {"message", "body", "trailer", "body_finished"} : Before(x, "finished")
        /\ Before("message", "body") /\ Before("message", "body_finished")
        /\ Before("body", "trailer") /\ Before("body", "body_finished")
        /\ Before("trailer", "body_finished")

Finished(ev) == \E i \in DOMAIN ev : ev[i] = "finished"
Has(ev, x) == \E i \in DOMAIN ev : ev[i] = x
=============================================================================
