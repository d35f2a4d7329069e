---------------------------- MODULE FrameBuilder ----------------------------
(***************************************************************************)
(* FrameBuilder (liblgx): the parser that finds frames and audio packets   *)
(* in the card's bytes.  It keeps what a chunk leaves unfinished in one    *)
(* record, the parser, and Fed gives the parser after the next chunk,      *)
(* with the frames and packets that it handed to its callbacks.            *)
(*                                                                         *)
(* Left out: the frame and desync counters, which only a log reads.        *)
(***************************************************************************)
EXTENDS DeviceStream

CONSTANTS
  VideoFrameBytes,      \* VIDEO_FRAME_BYTES
  FrameSizeTolerance,   \* FRAME_SIZE_TOLERANCE
  VideoBufferCapacity,  \* VIDEO_BUFFER_CAPACITY
  AudioMaxPacketBytes   \* AUDIO_MAX_PACKET_BYTES

ASSUME FrameBuilderAssumption ==
  /\ FrameSizeTolerance \in Nat /\ VideoFrameBytes \in Nat
  /\ 3 <= FrameSizeTolerance /\ FrameSizeTolerance < VideoFrameBytes
  /\ VideoBufferCapacity \in Nat /\ VideoFrameBytes + FrameSizeTolerance < VideoBufferCapacity
  /\ AudioMaxPacketBytes \in Nat /\ AudioMaxPacketBytes < Implausible

\* "memory" is what _carry holds, of which the next chunk is given carryLen bytes.
NewParser(memory) ==
  [state |-> "Idle", armed |-> FALSE,
   video |-> [b \in {0, 1} |-> [i \in 1 .. VideoBufferCapacity |-> Garbage]],
   index |-> 0, offset |-> 0,
   audio |-> << >>, remaining |-> 0,
   memory |-> memory, carryLen |-> 0]

\* Mutant: a gap only drops the carried bytes.
GapKeepsState(p) == [p EXCEPT !.carryLen = 0]
AfterGap(p) ==
  [p EXCEPT !.state = "Idle", !.armed = FALSE, !.offset = 0, !.remaining = 0,
            !.audio = << >>, !.carryLen = 0]

-----------------------------------------------------------------------------
(* One chunk.  A scan is the parser with feed's local variables: the work  *)
(* buffer, the position, the start of the video not yet copied, and the    *)
(* position of a marker whose header has not come yet.                     *)

ScanOf(p, chunk) ==
  [parser |-> p, work |-> SubSeq(p.memory, 1, p.carryLen) \o chunk,
   pos |-> 0, start |-> 0, marker |-> -1, frames |-> << >>, packets |-> << >>]

\* The byte at a position of the work buffer, which counts from 0.
At(s, pos) == s.work[pos + 1]

Least(a, b) == IF a < b THEN a ELSE b

\* Append work[start, end) to the frame being assembled, as much as there is room for.
FlushVideo(s, end) ==
  LET p == s.parser
      from == s.start
      n == IF end > from THEN Least(end - from, VideoBufferCapacity - p.offset) ELSE 0
  IN [s EXCEPT !.parser.video[p.index] =
                 [i \in DOMAIN @ |-> IF i \in p.offset + 1 .. p.offset + n
                                     THEN At(s, from + i - p.offset - 1) ELSE @[i]],
               !.parser.offset = @ + n]

InVideo(s) == s.parser.state = "VideoData"
FlushIfVideo(s, end) == IF InVideo(s) THEN FlushVideo(s, end) ELSE s

\* Mutant: a packet that is cut by the end of a chunk is handed out as far as it came.
ConsumeAvailable(s) ==
  LET p == s.parser
      take == Least(Len(s.work) - s.pos, p.remaining)
      audio == p.audio \o SubSeq(s.work, s.pos + 1, s.pos + take)
  IN IF p.state # "AudioData" THEN s
     ELSE [s EXCEPT !.pos = @ + take, !.parser.audio = audio, !.parser.remaining = 0,
                    !.parser.state = "Idle", !.packets = Append(@, audio)]

\* The payload is opaque, and whole when nothing of it remains.
ConsumeAudio(s) ==
  LET p == s.parser
      take == Least(Len(s.work) - s.pos, p.remaining)
      audio == p.audio \o SubSeq(s.work, s.pos + 1, s.pos + take)
      whole == take = p.remaining
  IN IF p.state # "AudioData" THEN s
     ELSE [s EXCEPT !.pos = @ + take,
                    !.parser.audio = audio,
                    !.parser.remaining = @ - take,
                    !.parser.state = IF whole THEN "Idle" ELSE @,
                    !.packets = IF whole THEN Append(@, audio) ELSE @]

\* Mutant: a span is only required not to be longer than a frame.
ShownIfShort(s) ==
  LET p == s.parser IN
  IF ~p.armed \/ p.offset > VideoFrameBytes + FrameSizeTolerance THEN s
  ELSE [s EXCEPT !.frames = Append(@, SubSeq(p.video[p.index], 1, VideoFrameBytes)),
                 !.parser.offset = 0, !.parser.index = 1 - @]

\* A span that is nearly a frame is shown, VIDEO_FRAME_BYTES of it whatever its length.
CheckFrameCompletion(s) ==
  LET p == s.parser IN
  IF \/ ~p.armed
     \/ p.offset < VideoFrameBytes - FrameSizeTolerance
     \/ p.offset > VideoFrameBytes + FrameSizeTolerance
  THEN s
  ELSE [s EXCEPT !.frames = Append(@, SubSeq(p.video[p.index], 1, VideoFrameBytes)),
                 !.parser.offset = 0, !.parser.index = 1 - @]

Passed(s) == [s EXCEPT !.pos = @ + 1]
AfterHeader(s, type) == [s EXCEPT !.pos = @ + Width(type)]
HeaderAt(s) == At(s, s.pos + MarkerBytes)   \* the byte that stands for it

\* The opening marker of a frame: whatever was being assembled is forgotten.
OpenFrame(s) ==
  IF HeaderAt(s).v # "header" THEN Passed(s)
  ELSE LET t == AfterHeader(s, "C0")
       IN [t EXCEPT !.parser.state = "VideoData", !.start = t.pos, !.parser.offset = 0]

\* The closing marker.  That c0 is the frame's b0 is counted, never required.
CloseFrame(s) ==
  LET flushed == FlushVideo(s, s.pos)
      closed == IF HeaderAt(s).v = "header"
                THEN CheckFrameCompletion([flushed EXCEPT !.parser.armed = TRUE])
                ELSE flushed
  IN AfterHeader([closed EXCEPT !.parser.state = "Idle"], "C1")

OpenPacket(s) ==
  IF HeaderAt(s).n > AudioMaxPacketBytes THEN Passed(s)
  ELSE AfterHeader([FlushIfVideo(s, s.pos) EXCEPT
                      !.parser.state = "AudioData", !.parser.audio = << >>,
                      !.parser.remaining = HeaderAt(s).n], "58")

ProcessMarker(s) ==
  LET type == At(s, s.pos + MarkerBytes - 1).v
      complete == Len(s.work) - s.pos >= Width(type)
      candidate == type \in {"C0", "58"} \/ (type = "C1" /\ InVideo(s))
  IN CASE ~candidate -> Passed(s)
       [] candidate /\ ~complete -> [s EXCEPT !.marker = s.pos]
       [] complete /\ type = "C0" -> OpenFrame(s)
       [] complete /\ type = "C1" /\ InVideo(s) -> CloseFrame(s)
       [] complete /\ type = "58" -> OpenPacket(s)

Scanning(s) ==
  /\ s.marker < 0
  /\ s.parser.state # "AudioData"
  /\ s.pos + MarkerBytes <= Len(s.work)

ScanStep(s) ==
  IF SubSeq(s.work, s.pos + 1, s.pos + 3) # <<Zero, Ones, Ones>> THEN Passed(s)
  ELSE ConsumeAudio(ProcessMarker(s))

\* A step that goes on consumes a byte, so there are never more steps than bytes.
Scanned(s) ==
  LET after[k \in 0 .. Len(s.work)] ==
        IF k = 0 THEN s
        ELSE LET t == after[k - 1] IN IF Scanning(t) THEN ScanStep(t) ELSE t
  IN after[Len(s.work)]

\* What a marker begins with.
Beginning(k) == SubSeq(<<Zero, Ones, Ones>>, 1, k)
EndsWith(s, k) == IsSuffix(Beginning(k), s.work)

\* Mutant: only two bytes are looked at, so a third is not kept.
TailOfTwo(s) == IF \E k \in 1 .. 2 : EndsWith(s, k) THEN CHOOSE k \in 1 .. 2 : EndsWith(s, k) ELSE 0

\* How many bytes at the end may be the beginning of a marker, be they a header's.
PrefixLength(s) == IF \E k \in 1 .. 3 : EndsWith(s, k) THEN CHOOSE k \in 1 .. 3 : EndsWith(s, k) ELSE 0

\* A marker without its header is carried over with its bytes.  For the beginning of a
\* marker only the length is set: the bytes the next chunk is given are those of the
\* last marker that was carried.  If they are the end of a SAV's header, the next chunk's
\* video begins with them.  Of _carry, what a beginning may read is kept.
Carried(s) ==
  LET tail == SubSeq(s.work, s.marker + 1, Len(s.work))
      kept == SubSeq(s.parser.memory, 1, 3)
      prefix == PrefixLength(s)
  IN CASE s.marker >= 0 ->
            [FlushIfVideo(s, s.marker) EXCEPT !.parser.memory = tail, !.parser.carryLen = Len(tail)]
       [] s.marker < 0 /\ s.parser.state = "AudioData" ->
            [s EXCEPT !.parser.memory = kept, !.parser.carryLen = 0]
       [] s.marker < 0 /\ s.parser.state # "AudioData" ->
            [FlushIfVideo(s, Len(s.work) - prefix) EXCEPT !.parser.memory = kept, !.parser.carryLen = prefix]

\* feed: the parser after a chunk, and the frames and packets it handed out.
Fed(parser, chunk, gapped) ==
  LET p == IF gapped THEN AfterGap(parser) ELSE parser
      s == Carried(Scanned(ConsumeAudio(ScanOf(p, chunk))))
      done == IF chunk = << >> THEN ScanOf(p, chunk) ELSE s
  IN [parser |-> done.parser, frames |-> done.frames, packets |-> done.packets]
=============================================================================
