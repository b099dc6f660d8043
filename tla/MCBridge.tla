------------------------------ MODULE MCBridge ------------------------------
(* Two threads that may call shutdown again and again, and the last Drop.  *)
EXTENDS Bridge, TLC

CONSTANTS exit, again, drop

MCCallers == {exit, again, drop}
MCOneThread == {exit, drop}
MCSymmetry == Permutations({exit, again})
=============================================================================
