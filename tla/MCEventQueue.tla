----------------------------- MODULE MCEventQueue -----------------------------
(* EventQueue with two producers, for TLC. *)
EXTENDS EventQueue

CONSTANTS p1, p2
MCProducers == {p1, p2}
MCBatchSizes == {0, 1}
=============================================================================
