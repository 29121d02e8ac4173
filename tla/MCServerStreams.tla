----------------------------- MODULE MCServerStreams -----------------------------
(* An instance of ServerStreams for TLC: MCServerStreams.cfg. *)
EXTENDS ServerStreams
==================================================================================
