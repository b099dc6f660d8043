------------------------- MODULE MCPendingRequests -------------------------
(* The instance of PendingRequests that TLC checks: two gated client calls  *)
(* and the supervisor's shutdown call.                                      *)
EXTENDS PendingRequests, TLC

CONSTANTS a, b, shutdown

MCCalls == {a, b, shutdown}
MCGated == {a, b}
MCHandlers == {shutdown}
MCControlCalls == {shutdown}

\* The two client calls are interchangeable.
ClientSymmetry == Permutations({a, b})

=============================================================================
