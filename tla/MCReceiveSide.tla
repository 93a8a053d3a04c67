---------------------------- MODULE MCReceiveSide ----------------------------
(* ReceiveSide with three streams and two worker threads. *)
EXTENDS ReceiveSide

MCStreams == 0..2
MCSymbols == 0..1
=============================================================================
