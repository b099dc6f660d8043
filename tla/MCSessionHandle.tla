--------------------------- MODULE MCSessionHandle ---------------------------
(* Three threads: the supervisor, the exit monitor and a client.            *)
EXTENDS SessionHandle
=============================================================================
