---------------------------- MODULE PipeWireRing ----------------------------
(***************************************************************************)
(* PipeWireAudioOutput (liblgx-pipewire): the lock-free ring between the   *)
(* capture thread, which offers audio packets (audioFrameAvailable), and   *)
(* PipeWire's real-time thread, which pulls them (onProcess).              *)
(*                                                                         *)
(* The two threads share a spa_ringbuffer: a read index that only the      *)
(* reader stores, a write index that only the writer stores, and the bytes.*)
(* An access of one of them is one action.  A copy into the ring is two,   *)
(* so the reader may come in the middle of it.  Indices wrap at IndexMod,  *)
(* as spa's uint32_t ones do.  A byte is the index it was written at, the  *)
(* most that the reader can ask of it.                                     *)
(***************************************************************************)
EXTENDS Integers, Sequences

CONSTANTS
  RingBytes,    \* RING_BYTES
  IndexMod,     \* 2^32 in the code
  Stride,       \* STRIDE
  TargetBytes,  \* TARGET_BYTES
  MaxBytes,     \* MAX_BYTES
  PacketSizes,  \* bound: the byteLengths offered
  Requests      \* bound: the sizes PipeWire asks for, in bytes

ASSUME ConstantsAssumption ==
  /\ RingBytes \in Nat \ {0} /\ Stride \in Nat \ {0}
  /\ IndexMod \in Nat /\ IndexMod % RingBytes = 0 /\ RingBytes < IndexMod \div 2
  /\ RingBytes % Stride = 0
  /\ TargetBytes \in Nat \ {0} /\ MaxBytes \in Nat
  /\ TargetBytes + Stride <= MaxBytes + 1 /\ MaxBytes < RingBytes
  /\ PacketSizes \subseteq Nat \ {0} /\ Requests \subseteq Nat

VARIABLES
  data,         \* _ringData
  written,      \* spa's writeindex
  read,         \* spa's readindex
  writer,       \* the capture thread: its step, and the packet in hand
  reader,       \* the real-time thread: its step, and its local variables
  prebuffering  \* _prebuffering

vars == <<data, written, read, writer, reader, prebuffering>>

Torn == -1   \* a byte while it is being written
Offsets == 0 .. RingBytes - 1
Wrapped(i) == i % IndexMod

\* spa_ringbuffer_get_*_index: the distance as int32_t.
Filled(w, r) ==
  LET distance == Wrapped(w - r) IN
  IF distance < IndexMod \div 2 THEN distance ELSE distance - IndexMod

Fill == Filled(written, read)

Least(a, b) == IF a < b THEN a ELSE b

WriterIdle == [at |-> "idle", length |-> 0]
ReaderIdle == [at |-> "idle", wanted |-> 0, filled |-> 0, index |-> 0]

Init ==
  /\ data = [o \in Offsets |-> Torn]
  /\ written = 0 /\ read = 0
  /\ writer = WriterIdle /\ reader = ReaderIdle
  /\ prebuffering = TRUE

-----------------------------------------------------------------------------
(* The capture thread: audioFrameAvailable.                                *)

\* Mutant: the packet that does not fit overwrites what the reader owns.
FitsAlways(filled, length) == TRUE
Fits(filled, length) == filled >= 0 /\ filled + length <= RingBytes

\* Load the read index; drop the packet or begin to copy it.
Offer ==
  \E length \in PacketSizes :
    /\ writer.at = "idle"
    /\ writer' = IF Fits(Fill, length) THEN [at |-> "copying", length |-> length] ELSE writer
    /\ UNCHANGED <<data, written, read, reader, prebuffering>>

\* The bytes the packet in hand goes to are these, for as long as it is not published.
Landing == { (written + k) % RingBytes : k \in 0 .. writer.length - 1 }

TearBytes ==
  /\ writer.at = "copying"
  /\ writer' = [writer EXCEPT !.at = "torn"]
  /\ data' = [o \in Offsets |-> IF o \in Landing THEN Torn ELSE data[o]]
  /\ UNCHANGED <<written, read, reader, prebuffering>>

WriteData ==
  /\ writer.at = "torn"
  /\ writer' = [writer EXCEPT !.at = "copied"]
  /\ data' = [o \in Offsets |->
                IF o \in Landing
                THEN CHOOSE i \in { Wrapped(written + k) : k \in 0 .. writer.length - 1 } :
                       i % RingBytes = o
                ELSE data[o]]
  /\ UNCHANGED <<written, read, reader, prebuffering>>

WriteUpdate ==
  /\ writer.at = "copied"
  /\ written' = Wrapped(written + writer.length)
  /\ writer' = WriterIdle
  /\ UNCHANGED <<data, read, reader, prebuffering>>

-----------------------------------------------------------------------------
(* The real-time thread: onProcess.                                        *)

WholeBytes(n) == n                    \* mutant: frames may be split
Whole(n) == n - (n % Stride)

\* How far a reader that is too far behind skips (mutant: not at all).
SkipNone(filled) == 0
Skip(filled) == IF filled > MaxBytes THEN Whole(filled - TargetBytes) ELSE 0

\* A buffer is dequeued; load the write index.
GetReadIndex ==
  \E wanted \in Requests :
    LET filled == IF Fill < 0 THEN 0 ELSE Fill IN
    /\ reader.at = "idle"
    /\ reader' = [at |-> IF Skip(filled) > 0 THEN "trimming" ELSE "playing",
                  wanted |-> Whole(wanted), filled |-> filled, index |-> read]
    /\ UNCHANGED <<data, written, read, writer, prebuffering>>

\* spa_ringbuffer_read_update of a trim.
Trim ==
  LET skip == Skip(reader.filled) IN
  /\ reader.at = "trimming"
  /\ read' = Wrapped(reader.index + skip)
  /\ reader' = [reader EXCEPT !.at = "playing", !.index = Wrapped(reader.index + skip),
                              !.filled = reader.filled - skip]
  /\ UNCHANGED <<data, written, writer, prebuffering>>

Plays  == ~prebuffering \/ reader.filled >= TargetBytes
Copied == IF Plays THEN Whole(Least(reader.filled, reader.wanted)) ELSE 0

\* Mutant: once dry, dry for ever.
UnderrunForGood(copied) == prebuffering \/ copied < reader.wanted
Underrun(copied) == IF Plays THEN copied < reader.wanted ELSE prebuffering

\* The bytes have been copied out: spa_ringbuffer_read_update, and silence for the rest.
ReadUpdate ==
  /\ reader.at = "playing"
  /\ read' = IF Plays THEN Wrapped(reader.index + Copied) ELSE read
  /\ prebuffering' = Underrun(Copied)
  /\ reader' = ReaderIdle
  /\ UNCHANGED <<data, written, writer>>

Write == TearBytes \/ WriteData \/ WriteUpdate
Play  == Trim \/ ReadUpdate

Next == Offer \/ Write \/ GetReadIndex \/ Play

Spec == Init /\ [][Next]_vars

\* The card keeps sending audio, and a consumer keeps pulling it: the two conditions under which
\* audio is heard at all.
FairSpec == Spec /\ WF_vars(Offer) /\ WF_vars(Write) /\ WF_vars(GetReadIndex) /\ WF_vars(Play)

-----------------------------------------------------------------------------
Indices == 0 .. IndexMod - 1
ReaderSteps == {"idle", "trimming", "playing"}

TypeOK ==
  /\ data \in [Offsets -> Indices \cup {Torn}]
  /\ written \in Indices /\ read \in Indices
  /\ writer \in [at : {"idle", "copying", "torn", "copied"}, length : PacketSizes \cup {0}]
  /\ reader \in [at : ReaderSteps, wanted : Nat, filled : 0 .. RingBytes, index : Indices]
  /\ prebuffering \in BOOLEAN

\* What the reader copies out is what was written there, for as long as it copies: the writer
\* neither overwrites it nor has yet to finish it, also when the indices have wrapped
\* (PipeWireAudioOutput.cpp 79-91, 125-131).
ReadsWhatWasWritten ==
  reader.at = "playing" =>
    \A k \in 0 .. Copied - 1 : data[(reader.index + k) % RingBytes] = Wrapped(reader.index + k)

\* The reader's view of the fill is never more than there is, nor is there ever more than fits
\* (PipeWireAudioOutput.cpp 81-90, 112-121).
FillBounded == /\ Fill \in 0 .. RingBytes
               /\ reader.at # "idle" => reader.filled <= Fill

\* However long nobody pulled, once the reader has looked it has at most MAX_BYTES before it: the
\* latency is bounded (PipeWireAudioOutput.cpp 115-123).
LatencyBounded == reader.at = "playing" => reader.filled <= MaxBytes

\* The consumer never gets half a frame, so the channels never swap, whatever size
\* PipeWire's buffers have (PipeWireAudioOutput.cpp 106-109, 118, 128).
FramesWhole == read % Stride = 0

\* The ring refines a bounded queue of bytes, whatever the two threads interleave.
PacketsAt == { [k \in 1 .. n |-> Wrapped(i + k - 1)] : n \in PacketSizes, i \in Indices }
Contents == [k \in 1 .. Fill |-> data[(read + k - 1) % RingBytes]]
Fifo == INSTANCE ByteFifo
          WITH Capacity <- RingBytes, Packets <- PacketsAt, bytes <- Contents
ImplementsFifo == Fifo!Spec

\* Audio comes back after the ring ran dry, and after nobody pulled, if no request exceeds the
\* target the ring is filled to (PipeWireAudioOutput.cpp 126-136).
Resumes == prebuffering ~> ~prebuffering
=============================================================================
