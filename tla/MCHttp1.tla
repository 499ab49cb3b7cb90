-------------------------------- MODULE MCHttp1 --------------------------------
(***************************************************************************)
(* A server or a client session of HTTP/1: a behaviour exercises one side. *)
(***************************************************************************)
EXTENDS Http1Server

CONSTANTS
    ClientRequests, ClientResponses,    \* the client's Requests and Responses
    ClientMaxBody, MaxInterim, Trailers

VARIABLES side, answered, interims, failed

clientOnly == <<answered, interims, failed>>

Client == INSTANCE Http1Client
    WITH Requests <- ClientRequests, Responses <- ClientResponses, MaxBody <- ClientMaxBody

ASSUME ClientAssumption == Client!ConstantsOK

MCRequests == {[upgrade |-> FALSE, head |-> FALSE, body |-> "none"],
               [upgrade |-> FALSE, head |-> FALSE, body |-> "chunked"],
               [upgrade |-> TRUE, head |-> FALSE, body |-> "none"],
               [upgrade |-> FALSE, head |-> TRUE, body |-> "none"]}

Get == [head |-> FALSE, framing |-> "absent", length |-> 0]
Head1 == [head |-> TRUE, framing |-> "absent", length |-> 0]
Post(n) == [head |-> FALSE, framing |-> "length", length |-> n]
Upload == [head |-> FALSE, framing |-> "chunked", length |-> 0]

MCClientRequests == {Get, Post(0), Post(1), Post(2), Upload}
MCClientRequestsHead == {Get, Head1}
MCClientRequestsUpload == {Upload}

MCClientResponses == {[status |-> "interim", framing |-> "close"],
                      [status |-> "switching", framing |-> "close"],
                      [status |-> "no_body", framing |-> "close"],
                      [status |-> "other", framing |-> "empty"],
                      [status |-> "other", framing |-> "chunked"],
                      [status |-> "other", framing |-> "close"]}
MCClientResponsesLength == {[status |-> "other", framing |-> "length"]}

Http1Init ==
    \/ side = "server" /\ Init /\ answered = 0 /\ interims = 0 /\ failed = FALSE
    \/ side = "client" /\ Client!Init /\ refused = {}

Http1Next ==
    \/ side = "server" /\ Next /\ UNCHANGED <<side, clientOnly>>
    \/ side = "client" /\ Client!Next /\ UNCHANGED <<side, refused>>

http1Vars == <<vars, side, clientOnly>>

Http1Spec == Http1Init /\ [][Http1Next]_http1Vars

-----------------------------------------------------------------------------

\* The server's list of streams and its callbacks are as Http1Server says.
ServerStreamsExact == side = "server" => StreamsExact

\* The responses a server puts out are in order and framed.
ServerOutputWellFormed == side = "server" => OutputWellFormed

\* A server's streams finish when their responses are out.
ServerFinishedWhenSent == side = "server" => FinishedWhenSent

\* A server reports what it reads of a request on the stream of that request, and on
\* no other of the pipeline.
ServerReportedOnOwnStream == [][side = "server" => ReportsOnOwnStream]_http1Vars

\* A client takes what follows a final response for another protocol if, and only if,
\* the request was not sent, but for the lengths named at UpgradesExactly.
ClientUpgradeExact == [][side = "client" => Client!UpgradesExactly]_http1Vars

\* A client reports a response on the stream of its request, in order.
ClientResponsesExact == side = "client" => Client!ResponsesExact

\* A client's stream finishes only once its final response has begun.
ClientAnsweredFirst == side = "client" => Client!AnsweredBeforeFinished

\* A client reports no bytes as the body of a response that are none of it.
ClientBodyIsOwn == side = "client" => Client!BodyIsOwn

\* "Content-length of an HTTP message that currently being sent": a message is taken for
\* sent when all the bytes its Content-Length announced are out.  A server does not
\* finish the stream earlier; and a client takes what follows a final response for
\* another protocol exactly "if server responds before request is sent".
SentByItsLength ==
    [][/\ side = "server" =>
             \A id \in StreamIds : Finished(events'[id]) /\ app[id].head = "length" =>
                 Received(peer', id)
       /\ side = "client" /\ Client!ReadsFinalHead =>
             (Client!TakenForUpgrade <=> ~app[Client!active_stream.id].done)]_http1Vars
=============================================================================
