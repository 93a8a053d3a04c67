---------------------------- MODULE MCMediaTransfer ----------------------------
(* A file of three packets, one of which belongs to neither stream. *)
EXTENDS MediaTransfer

MCSource == <<"video", "other", "audio">>
=============================================================================
