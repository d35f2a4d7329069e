-------------------------- MODULE MCCapturePipeline --------------------------
(* Small instances of CapturePipeline for TLC; the .cfg files give the constants. *)
EXTENDS CapturePipeline
=============================================================================
