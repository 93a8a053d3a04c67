--------------------------- MODULE MCReceiverCenter ---------------------------
(* ReceiverCenter on a handful of streams, for TLC. *)
EXTENDS ReceiverCenter

MCStreams == 0..4
=============================================================================
