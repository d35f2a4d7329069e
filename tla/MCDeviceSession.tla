--------------------------- MODULE MCDeviceSession ---------------------------
(* Small instances of DeviceSession for TLC; the .cfg file gives the rest.   *)
EXTENDS DeviceSession

\* Polled are single registers, then blocks of two lengths, then a single register, as in
\* readAdvStatus; then come a counter, the EDID map, the GPIO expander, the colour space, the
\* picture, a register of the recording, and the one whose reply the recording never reads.
MCLengths == <<1, 1, 2, 3, 1,  1, 1, 2, 1, 1, 1, 2>>

MCPlan == [counters |-> <<6>>, board |-> <<7, 8>>, colour |-> <<9>>, picture |-> <<10>>]

Write(length) == [kind |-> "write", length |-> length, request |-> NoRequest]
Request5(r) == [kind |-> "write", length |-> 5, request |-> r]
ReadOf(length) == [kind |-> "read", length |-> length, request |-> NoRequest]
MCRecording == <<Write(5), Request5(11), ReadOf(1), Write(5), Request5(12)>>

MCLeftovers == {<< >>} \cup {<<r>> : r \in {1, 3, 4}}
=============================================================================
