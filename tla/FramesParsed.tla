---------------------------- MODULE FramesParsed ----------------------------
(***************************************************************************)
(* The card's stream through FrameBuilder, cut into chunks anywhere, with  *)
(* bytes lost in between.  The deliverer says of a chunk that it follows a *)
(* loss (CaptureStream!LossReportedWithinRing), so every loss is flagged.  *)
(***************************************************************************)
EXTENDS FrameBuilder

CONSTANTS
  Streams,     \* bound: the streams the card may send, each a sequence of units
  ChunkSizes,  \* bound: the lengths of the chunks
  Losses,      \* bound: how many bytes are lost at once
  MaxLosses,   \* bound: how often
  Memories     \* what _carry may hold at first, for each stream

ASSUME StreamsAssumption ==
  /\ \A s \in DOMAIN Streams : Streams[s] \in Seq(Unit)
  /\ ChunkSizes \subseteq Nat /\ Losses \subseteq Nat

\* What begins _carry is what begins a marker, or was never written.
ASSUME MemoriesAssumption ==
  /\ DOMAIN Memories = DOMAIN Streams
  /\ \A s \in DOMAIN Memories : \A m \in Memories[s] :
       m \in Seq(Byte) /\ Len(m) >= 3 /\ \A i \in 1 .. 3 : m[i] \in {<<Zero, Ones, Ones>>[i], Garbage}

VARIABLES
  stream,   \* which of the streams it is
  memory,   \* what _carry held at first
  sent,     \* how many of its bytes have been delivered or lost
  lost,     \* how often bytes were lost
  gapped,   \* bytes were lost since the last chunk
  parser,   \* the FrameBuilder
  shown,    \* the frames it has handed out
  heard,    \* the audio packets
  since,    \* history: where the run of bytes began that was delivered without a loss
  seams,    \* history: where the tail of a SAV's header was carried into the next chunk
  marred,   \* history: the bytes for which a _carry that was never written stood in
  fooled    \* history: the parser began to read inside a packet that holds a marker

Units == Streams[stream]
Wires == [s \in DOMAIN Streams |-> Bytes(Streams[s])]
Wire == Wires[stream]

\* Where unit i of a stream begins and ends.
Spans == [s \in DOMAIN Streams |-> [i \in DOMAIN Streams[s] |->
            [first |-> Before(Streams[s], i), last |-> Before(Streams[s], i + 1)]]]
Span(i) == Spans[stream][i]

\* A marker whose header is valid, and the places where video begins behind one.
MarkerIn(wire, i, type) ==
  SubSeq(wire, i + 1, i + 3) = <<Zero, Ones, Ones>> /\ wire[i + 4].v = type /\ wire[i + 5].v = "header"
Heads(wire) == {a \in Width("C0") .. Len(wire) : MarkerIn(wire, a - Width("C0"), "C0")}

\* A chunk that ends at "end" leaves the next one the bytes from here: they look like the
\* beginning of a marker, and the first of them end a SAV's header.
Seams(wire, end) ==
  {c \in 0 .. end - 1 : /\ end - c <= 3 /\ SubSeq(wire, c + 1, end) = Beginning(end - c)
                        /\ \E a \in Heads(wire) : c < a /\ a <= end}

\* Where the video of a frame may begin, for some way of cutting the stream.
Openings(wire) == Heads(wire) \cup UNION {Seams(wire, end) : end \in 0 .. Len(wire)}

\* The bytes from a to e, where a closing marker begins, are nearly a frame.
Plausible(wire, a, e) ==
  /\ e + Width("C1") <= Len(wire) /\ MarkerIn(wire, e, "C1")
  /\ e - a \in VideoFrameBytes - FrameSizeTolerance .. VideoFrameBytes + FrameSizeTolerance

\* Only a frame looks like one: neither pixels nor damaged frames spell the two markers with
\* their headers just so far apart, and a frame has all of its pixels (PROTOCOL.md).
ASSUME SpansAssumption ==
  \A s \in DOMAIN Streams : \A a \in Openings(Wires[s]) : \A e \in a .. Len(Wires[s]) :
    Plausible(Wires[s], a, e) =>
      \E i \in DOMAIN Streams[s] :
        LET head == Spans[s][i].first + Width("C0") IN
        /\ Streams[s][i].kind = "frame" /\ a \in head - 3 .. head /\ e = head + VideoFrameBytes
        /\ Streams[s][i].content = SubSeq(Wires[s], head + 1, e)

\* The units are those of DeviceStream: frames have all of their pixels, packets are as short as
\* the driver takes them to be.
ASSUME UnitsAssumption ==
  \A s \in DOMAIN Streams : \A i \in DOMAIN Streams[s] :
    LET u == Streams[s][i]
        size == Len(u.bytes) IN
    /\ u.kind = "frame" =>
         /\ u = Frame(u.bytes[5].n, u.content, SubSeq(u.bytes, 6, 8), SubSeq(u.bytes, size - 3, size))
         /\ Len(u.content) = VideoFrameBytes
    /\ u.kind = "packet" =>
         u = Packet(u.content, SubSeq(u.bytes, 6, 8)) /\ Len(u.content) <= AudioMaxPacketBytes

\* These bytes spell a marker of this type, and there is a byte behind it.
Spelled(wire, i, type) ==
  i + 5 <= Len(wire) /\ SubSeq(wire, i + 1, i + 3) = <<Zero, Ones, Ones>> /\ wire[i + 4].v = type

\* Outside of payloads nothing spells a marker but the markers (PROTOCOL.md: the codes are
\* reserved, pixels do not use them): a packet's marker with a length that a packet may have is
\* a packet's, no other begins inside a frame, and behind a marker comes all of its header,
\* damaged or not, before the next unit.
ASSUME MarkersAssumption ==
  \A s \in DOMAIN Streams : \A i \in 0 .. Len(Wires[s]) :
    /\ Spelled(Wires[s], i, "58") /\ Wires[s][i + 5].n <= AudioMaxPacketBytes =>
         \E k \in DOMAIN Streams[s] :
           /\ Streams[s][k].kind = "packet"
           /\ \/ i = Spans[s][k].first
              \/ HoldsMarker(Streams[s][k]) /\ i \in Spans[s][k].first + 8 .. Spans[s][k].last - 4
    /\ \A k \in DOMAIN Streams[s] : Streams[s][k].kind \in {"frame", "packet"} =>
         /\ Spelled(Wires[s], i, "C1") => Spans[s][k].first \notin i + 4 .. i + 8
         /\ Spelled(Wires[s], i, "C0") /\ Wires[s][i + 5].v = "header" =>
              Spans[s][k].first \notin i + 4 .. i + 7
         /\ Streams[s][k].kind = "frame" /\ (Spelled(Wires[s], i, "C0") \/ Spelled(Wires[s], i, "C1")) =>
              i <= Spans[s][k].first \/ i >= Spans[s][k].last - 9

vars == <<stream, memory, sent, lost, gapped, parser, shown, heard, since, seams, marred, fooled>>

Init ==
  /\ stream \in DOMAIN Streams
  /\ sent = 0 /\ lost = 0 /\ since = 0 /\ gapped = FALSE
  /\ seams = {} /\ marred = {} /\ fooled = FALSE
  /\ memory \in Memories[stream] /\ parser = NewParser(memory)
  /\ shown = << >> /\ heard = << >>

\* The bytes in front of a chunk for which the parser has only what _carry held at first.
Unwritten == {sent - parser.carryLen + i : i \in {j \in 1 .. parser.carryLen : parser.memory[j] = Garbage}}

\* A parser that misses the marker of such a packet takes what its payload spells for markers.
Misleading(i) == Units[i].kind = "packet" /\ HoldsMarker(Units[i])

Feed ==
  \E n \in ChunkSizes :
    LET chunk == SubSeq(Wire, sent + 1, sent + n)
        fed == Fed(parser, chunk, gapped)
        missing == IF gapped THEN {} ELSE Unwritten
    IN /\ sent + n <= Len(Wire)
       /\ n > 0 \/ gapped
       /\ sent' = sent + n
       /\ gapped' = FALSE
       /\ parser' = fed.parser
       /\ shown' = shown \o fed.frames
       /\ heard' = heard \o fed.packets
       /\ seams' = seams \cup Seams(Wire, sent')
       /\ marred' = marred \cup missing
       /\ fooled' = (fooled \/ \E i \in DOMAIN Units :
                                  Misleading(i) /\ missing \cap (Span(i).first + 1 .. Span(i).first + 3) # {})
       /\ UNCHANGED <<stream, memory, lost, since>>

Lose ==
  \E n \in Losses :
    /\ lost < MaxLosses
    /\ sent + n <= Len(Wire)
    /\ sent' = sent + n /\ since' = sent + n
    /\ lost' = lost + 1 /\ gapped' = TRUE
    /\ fooled' = (fooled \/ \E i \in DOMAIN Units :
                               Misleading(i) /\ since' \in Span(i).first + 1 .. Span(i).last - 1)
    /\ UNCHANGED <<stream, memory, parser, shown, heard, seams, marred>>

Next == Feed \/ Lose

Spec == Init /\ [][Next]_vars

-----------------------------------------------------------------------------
(* Properties.                                                             *)

UnitsOf == [s \in DOMAIN Streams |-> [kind \in {"frame", "packet"} |->
              {i \in DOMAIN Streams[s] : Streams[s][i].kind = kind}]]

\* Where the video of a frame may begin, as the stream was cut: behind the SAV's header, or at
\* the tail of the header if a chunk ended in what looks there like a marker's beginning.
Starts(i) ==
  LET head == Span(i).first + Width("C0")
  IN {head} \cup {c \in seams : c < head /\ head <= c + 3}

\* The bytes behind a, but for those that an unwritten _carry stood in for.
Shows(frame, a) ==
  /\ Len(frame) = VideoFrameBytes
  /\ \A p \in DOMAIN frame : frame[p] = Wire[a + p] \/ (a + p \in marred /\ frame[p] = Garbage)

ShownAs(frame, i) == \E a \in Starts(i) : Shows(frame, a)

\* A frame that is shown is one that the card sent, whatever was lost: never the beginning of one
\* and the end of another, never padded with an older one, and none is shown twice or late
\* (checkFrameCompletion, resetForGap).  It is as it was sent, byte for byte, but where a chunk
\* ended in the tail of its header (feed carries that as if it were pixels; see FramesExact).
FramesWhole ==
  \E place \in [DOMAIN shown -> UnitsOf[stream]["frame"]] :
    /\ \A k \in DOMAIN shown : ShownAs(shown[k], place[k])
    /\ \A j, k \in DOMAIN shown : j < k => place[j] < place[k]

\* An audio packet that is played is one that the card sent, byte for byte and in order.  A parser
\* that begins to read inside a packet cannot tell its samples from markers, so it must not
\* have (consumeAudio).
PacketsWhole ==
  ~fooled =>
    \E place \in [DOMAIN heard -> UnitsOf[stream]["packet"]] :
      /\ \A k \in DOMAIN heard : heard[k] = Units[place[k]].content
      /\ \A j, k \in DOMAIN heard : j < k => place[j] < place[k]

ReceivedWhole(i) == since <= Span(i).first /\ Span(i).last <= sent /\ ~gapped

\* No unwritten byte stood in for one of the markers.
MarkersIntact(i) ==
  /\ marred \cap (Span(i).first + 1 .. Span(i).first + 3) = {}
  /\ Units[i].kind = "frame" => marred \cap (Span(i).last - 8 .. Span(i).last - 6) = {}

\* What was received whole is handed out as soon as its last byte is there, however it was cut
\* into chunks (feed's carry), with the exceptions of FramesWhole.  If a chunk ended in one of its
\* markers before _carry was ever written, it may not be: its bytes are then read from memory that
\* the constructor left as it was (FrameBuilder.cpp 174, 217).
ReceivedIsHandedOut ==
  ~fooled => \A i \in DOMAIN Units :
    ReceivedWhole(i) /\ MarkersIntact(i) =>
      /\ Units[i].kind = "frame" => \E k \in DOMAIN shown : ShownAs(shown[k], i)
      /\ Units[i].kind = "packet" => Contains(heard, Units[i].content)

-----------------------------------------------------------------------------
(* What a comment of the code says, and the code does not do.              *)

\* "If we are mid-video-data, the carried bytes (if any) are unflushed data" (FrameBuilder.cpp:179):
\* a frame that is shown has the pixels of the card, and nothing else.
FramesExact == \A k \in DOMAIN shown : \E i \in UnitsOf[stream]["frame"] : shown[k] = Units[i].content
=============================================================================
