---------------------------- MODULE MCPipeWireRing ----------------------------
(* Small instances of PipeWireRing for TLC; the .cfg files give the constants. *)
EXTENDS PipeWireRing
=============================================================================
