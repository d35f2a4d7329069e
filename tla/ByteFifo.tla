------------------------------ MODULE ByteFifo ------------------------------
(***************************************************************************)
(* What the ring between the capture thread and PipeWire's real-time       *)
(* thread promises both: a bounded first-in first-out queue of bytes.  A   *)
(* packet goes in whole or not at all; the reader takes bytes off the      *)
(* front, to play them or to skip them.                                    *)
(***************************************************************************)
EXTENDS Integers, Sequences

CONSTANTS
  Capacity,   \* how many bytes fit
  Packets     \* the sequences of bytes that are offered

VARIABLE bytes

Init == bytes = << >>

Put ==
  \E packet \in Packets :
    /\ Len(bytes) + Len(packet) <= Capacity
    /\ bytes' = bytes \o packet

Take ==
  \E n \in 1 .. Len(bytes) : bytes' = SubSeq(bytes, n + 1, Len(bytes))

Next == Put \/ Take

Spec == Init /\ [][Next]_bytes
=============================================================================
