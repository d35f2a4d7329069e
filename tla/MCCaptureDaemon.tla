---- MODULE MCCaptureDaemon ----
(* Small instances of CaptureDaemon: two addresses that cards take in turn.  *)
EXTENDS CaptureDaemon
====
