--------------------------- MODULE MCHttp2Session ---------------------------
(* Instances of Http2Session for TLC. *)
EXTENDS Http2Session
=============================================================================
