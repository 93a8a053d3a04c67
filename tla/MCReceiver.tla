----------------------------- MODULE MCReceiver -----------------------------
(* Receiver with two threads: streams 0 and 2 share a thread. *)
EXTENDS Receiver

MCStreams == 0..2
MCSymbols == 0..2
=============================================================================
