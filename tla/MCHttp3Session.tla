--------------------------- MODULE MCHttp3Session ---------------------------
(* Instances of Http3Session for TLC. *)
EXTENDS Http3Session
=============================================================================
