---------------------------- MODULE MCEventQueue ----------------------------
(* Lanes of two control, two request and one data slot; a request takes two *)
(* of three control bytes, so capacity and byte budget bind at different    *)
(* moments.                                                                 *)
EXTENDS EventQueue

MCSize == [k \in Kind |-> IF k = "request" THEN 2 ELSE 1]
=============================================================================
