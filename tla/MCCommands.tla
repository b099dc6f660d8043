----------------------------- MODULE MCCommands -----------------------------
(* One approval identity asked for by two turns, and one that is unknown.   *)
EXTENDS Commands

MCIdOf(n) == "a"
MCTurnOf(n) == n
=============================================================================
