-------------------------- MODULE ReorderedFrames --------------------------
(***************************************************************************)
(* The card's DMA buffers through BufferReorderer into FrameBuilder, as    *)
(* CapturePipeline connects them.  The card delivers each pair of buffers  *)
(* in order or swapped and may change that at any pair (external;          *)
(* PROTOCOL.md, "Swapped DMA buffer order"), and bytes may be lost between *)
(* chunks, which is flagged.                                               *)
(***************************************************************************)
EXTENDS FrameBuilder, FiniteSetsExt

CONSTANTS
  DmaBufferBytes,
  Deliveries,   \* bound: what the card may deliver: units, and the pairs that it swaps
  ChunkSizes,   \* bound: the lengths of the chunks
  Losses,       \* bound: how many bytes are lost at once
  MaxLosses,    \* bound: how often
  Settling      \* how many SAVs it takes at most until frames are shown again

ASSUME ReordererAssumption == DmaBufferBytes \in Nat \ {0}
ASSUME DeliveriesAssumption ==
  /\ \A d \in DOMAIN Deliveries : Deliveries[d].units \in Seq(Unit)
  /\ ChunkSizes \subseteq Nat /\ Losses \subseteq Nat /\ MaxLosses \in Nat

Reorderer == INSTANCE BufferReorderer

VARIABLES
  delivery,   \* which of the deliveries it is
  sent,       \* how many of its bytes have been delivered or lost
  lost,       \* how often bytes were lost
  gapped,     \* bytes were lost since the last chunk
  reorderer,  \* _reorderer
  parser,     \* _frameBuilder
  shown,      \* the frames handed out
  fooled,     \* history: the first SAV behind a loss was one that audio samples spell
  since       \* history: where the run of bytes began that was delivered without a loss

vars == <<delivery, sent, lost, gapped, reorderer, parser, shown, fooled, since>>

PairBytes == 2 * DmaBufferBytes

\* What arrives when the pairs in "swapped", counted from 1, are swapped.
Arrived(bytes, swapped) ==
  FlattenSeq([j \in 1 .. Len(bytes) \div PairBytes |->
    LET start == (j - 1) * PairBytes
        first == SubSeq(bytes, start + 1, start + DmaBufferBytes)
        second == SubSeq(bytes, start + DmaBufferBytes + 1, start + PairBytes)
    IN IF j \in swapped THEN second \o first ELSE first \o second])

Wires == [d \in DOMAIN Deliveries |-> Arrived(Bytes(Deliveries[d].units), Deliveries[d].swapped)]

Init ==
  /\ delivery \in DOMAIN Deliveries
  /\ sent = 0 /\ lost = 0 /\ since = 0 /\ gapped = FALSE
  /\ reorderer = Reorderer!NewReorderer
  /\ parser = NewParser(<<Zero, Ones, Ones>>)
  /\ shown = << >> /\ fooled = FALSE

\* The sink: the parser after a sequence of pieces, and the frames it handed out.
Parsed(p, pieces) ==
  FoldLeft(LAMBDA done, piece :
             LET fed == Fed(done.parser, piece.bytes, piece.gapped)
             IN [parser |-> fed.parser, frames |-> done.frames \o fed.frames],
           [parser |-> p, frames |-> << >>], pieces)

Feed ==
  \E n \in ChunkSizes :
    LET fed == Reorderer!Fed(reorderer, SubSeq(Wires[delivery], sent + 1, sent + n), gapped)
        parsed == Parsed(parser, fed.sunk)
    IN /\ sent + n <= Len(Wires[delivery])
       /\ n > 0 \/ gapped
       /\ sent' = sent + n /\ gapped' = FALSE
       /\ reorderer' = [fed EXCEPT !.sunk = << >>]
       /\ parser' = parsed.parser
       /\ shown' = shown \o parsed.frames
       /\ UNCHANGED <<delivery, lost, fooled, since>>

\* The first SAV from this offset on is in the samples of a packet.
Misleads(offset) ==
  LET wire == Wires[delivery]
      savs == {o \in offset .. Len(wire) - Reorderer!MarkerSpan : SubSeq(wire, o + 1, o + 4) = Marker("C0")}
      units == Deliveries[delivery].units
  IN savs # {} /\ \A i \in DOMAIN units :
                    units[i].kind = "frame" => units[i].bytes[5] # wire[Min(savs) + 5]

Lose ==
  \E n \in Losses :
    /\ lost < MaxLosses
    /\ sent + n <= Len(Wires[delivery])
    /\ sent' = sent + n /\ since' = sent + n
    /\ lost' = lost + 1 /\ gapped' = TRUE
    /\ fooled' = (fooled \/ Misleads(since'))
    /\ UNCHANGED <<delivery, reorderer, parser, shown>>

Next == Feed \/ Lose

Spec == Init /\ [][Next]_vars

-----------------------------------------------------------------------------
(* Properties.                                                             *)

Units == Deliveries[delivery].units
Frames == LET frames == OfKind(Units, "frame") IN [i \in DOMAIN frames |-> frames[i].content]

\* A frame that is shown is one that the card sent, whatever order its buffers came in, wherever
\* that order changed and whatever was lost: what is put together in a wrong order is never shown.
OnlyTrueFrames == ~fooled => \A i \in DOMAIN shown : Contains(Frames, shown[i])

\* Where the frames begin and end in the stream, in whole pairs of buffers.
FrameSpans ==
  [d \in DOMAIN Deliveries |->
     LET units == Deliveries[d].units
         frames == SelectSeq([i \in DOMAIN units |-> i], LAMBDA i : units[i].kind = "frame")
         Down(n) == (n \div PairBytes) * PairBytes
     IN [k \in DOMAIN frames |-> [first |-> Down(Before(units, frames[k])),
                                  last |-> Down(Before(units, frames[k] + 1) + PairBytes - 1)]]]

\* Where the order of delivery changes.
Changes ==
  [d \in DOMAIN Deliveries |->
     {j * PairBytes : j \in {j \in 1 .. Len(Wires[d]) \div PairBytes - 1 :
        (j \in Deliveries[d].swapped) # (j + 1 \in Deliveries[d].swapped)}}]

\* Once the order is steady and nothing is lost, every frame is shown from the Settling-th SAV on,
\* as soon as the bytes that are held back behind it have come.  A marker that audio samples
\* spell may delay that, it never ends it (applyObservation's candidate).
SteadyFramesShown ==
  LET spans == FrameSpans[delivery] IN
  \A k \in Settling + 1 .. Len(spans) :
    LET from == spans[k - Settling].first
        to == spans[k].last
    IN (/\ ~gapped /\ since <= from
        /\ \A c \in Changes[delivery] : c <= from \/ c >= to
        /\ sent >= to + Reorderer!HoldBack(reorderer)) =>
       Contains(shown, Frames[k])

\* Bytes are never passed on before every SAV in front of them has its verdict: no pending SAV and
\* no undecided observation is behind what was output, and observations are in the stream's order.
\* What is held back is bounded (feed's holdBack).
VerdictBeforeOutput ==
  LET r == reorderer IN
  /\ r.pendingSav # -1 => r.pendingSav >= r.outOffset
  /\ \A i \in DOMAIN r.observations :
       /\ r.observations[i].savOffset >= r.outOffset
       /\ i > 1 => r.observations[i - 1].savOffset < r.observations[i].savOffset
  /\ r.inOffset - r.outOffset < Reorderer!HoldBack(r) + PairBytes
  /\ Len(r.pipe) = r.inOffset - r.outOffset
=============================================================================
