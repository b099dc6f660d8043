------------------------- MODULE MCPendingLiveness -------------------------
(* The instance for the liveness question: one gated client call and the    *)
(* supervisor's shutdown call, without symmetry.                            *)
EXTENDS PendingRequests

CONSTANTS a, shutdown

MCCalls == {a, shutdown}
MCGated == {a}
MCShutdown == {shutdown}

=============================================================================
