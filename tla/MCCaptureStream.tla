--------------------------- MODULE MCCaptureStream ---------------------------
(* Small instances of CaptureStream for TLC; the .cfg files give the constants. *)
EXTENDS CaptureStream
=============================================================================
