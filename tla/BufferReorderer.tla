-------------------------- MODULE BufferReorderer --------------------------
(***************************************************************************)
(* BufferReorderer (liblgx): puts the card's DMA buffers back in order     *)
(* before the bytes are parsed.  The card may deliver each pair of buffers *)
(* swapped; the order is read from the stream (an EAV of another frame     *)
(* soon after a SAV means swapped), and bytes are held back until every    *)
(* SAV before them has its verdict.                                        *)
(*                                                                         *)
(* The reorderer is one record; offsets count every byte it was ever fed.  *)
(* Fed gives the reorderer after the next chunk and what it passed to its  *)
(* sink: pieces, each with the flag that a gap comes before it.            *)
(***************************************************************************)
EXTENDS DeviceStream, FiniteSetsExt

CONSTANT DmaBufferBytes   \* DMA_BUFFER_BYTES

PairBytes == 2 * DmaBufferBytes
SwapWindow == PairBytes
MarkerSpan == MarkerBytes + 5   \* a marker and the longest header
Never == -1

NewReorderer ==
  [pipe |-> << >>, pipeStart |-> 0, out |-> << >>, outOffset |-> 0, inOffset |-> 0,
   scanOffset |-> 0, pendingSav |-> Never, pendingB0 |-> 0, observations |-> << >>,
   order |-> "Unknown", pairOrigin |-> 0,
   candidate |-> [order |-> "Unknown", origin |-> 0, count |-> 0],
   gapPending |-> TRUE, sunk |-> << >>]

Reset(r) ==
  [r EXCEPT !.pipe = << >>, !.pipeStart = r.inOffset, !.outOffset = r.inOffset,
            !.scanOffset = r.inOffset, !.pendingSav = Never, !.observations = << >>,
            !.order = "Unknown", !.candidate.count = 0, !.gapPending = TRUE]

\* The bytes from one offset up to another.
Piped(r, from, to) == SubSeq(r.pipe, from - r.pipeStart + 1, to - r.pipeStart)

-----------------------------------------------------------------------------
(* scan: a verdict for every SAV.                                          *)

Observe(r, order) ==
  [r EXCEPT !.observations = Append(@, [savOffset |-> r.pendingSav, order |-> order]),
            !.pendingSav = Never]

\* No late EAV in the window of the pending SAV: normal order.
Expire(r, offset) ==
  IF r.pendingSav # Never /\ offset >= r.pendingSav + SwapWindow THEN Observe(r, "Normal") ELSE r

\* A marker with a valid header stands at this offset.
MarkerAt(r, offset) ==
  LET m == Piped(r, offset, offset + MarkerSpan) IN
  SubSeq(m, 1, 3) = <<Zero, Ones, Ones>> /\ m[MarkerBytes + 1].v = "header"

\* The frame counter skips values, so another frame's EAV is one with another counter.
Late(r, c0) == c0 # r.pendingB0

SeeMarker(r, offset) ==
  LET q == Expire(r, offset)
      m == Piped(q, offset, offset + MarkerSpan)
      n == m[MarkerBytes + 1].n
  IN CASE m[4].v = "C0" ->
            [(IF q.pendingSav # Never THEN Observe(q, "Normal") ELSE q)
               EXCEPT !.pendingSav = offset, !.pendingB0 = n]
       [] m[4].v = "C1" /\ q.pendingSav # Never ->
            Observe(q, IF Late(q, n) THEN "Swapped" ELSE "Normal")
       [] OTHER -> q

\* The markers up to the limit that were not seen before.
Markers(r, limit) == {offset \in r.scanOffset .. limit - 1 : MarkerAt(r, offset)}

SeeNext(r, limit) ==
  LET ahead == Markers(r, limit)
  IN IF ahead = {} THEN r
     ELSE [SeeMarker(r, Min(ahead)) EXCEPT !.scanOffset = Min(ahead) + 1]

Scanned(r) ==
  LET limit == Max({r.scanOffset, r.inOffset - MarkerSpan + 1})
      steps == Cardinality(Markers(r, limit))
      after[k \in 0 .. steps] == IF k = 0 THEN r ELSE SeeNext(after[k - 1], limit)
  IN IF r.inOffset < MarkerSpan THEN r
     ELSE Expire([after[steps] EXCEPT !.scanOffset = limit], limit)

-----------------------------------------------------------------------------
(* emit: the bytes whose order is known.                                   *)

FlushOut(r) ==
  IF r.out = << >> THEN r
  ELSE [r EXCEPT !.sunk = Append(@, [bytes |-> r.out, gapped |-> r.gapPending]),
                 !.gapPending = FALSE, !.out = << >>]

\* A swapped SAV must also sit on the pair grid.
Agrees(o, order, origin) ==
  /\ o.order = order
  /\ order = "Swapped" => (o.savOffset - origin) % PairBytes = 0

Confirms(r, o) == r.order # "Unknown" /\ Agrees(o, r.order, r.pairOrigin)
Seconds(r, o) == r.candidate.count > 0 /\ Agrees(o, r.candidate.order, r.candidate.origin)

\* Mutant: one dissenting SAV is enough.
AdoptsAtOnce(r, o) == ~Confirms(r, o)
\* The first verdict decides, and later two that agree with each other.
Adopts(r, o) == r.order = "Unknown" \/ (~Confirms(r, o) /\ Seconds(r, o))

Adopt(r, o) ==
  [FlushOut(r) EXCEPT !.order = o.order, !.pairOrigin = o.savOffset,
                      !.candidate.count = 0, !.gapPending = TRUE]

ApplyObservation(r, o) ==
  CASE Adopts(r, o) -> Adopt(r, o)
    [] ~Adopts(r, o) /\ Confirms(r, o) -> [r EXCEPT !.candidate.count = 0]
    [] ~Adopts(r, o) /\ ~Confirms(r, o) ->
         [r EXCEPT !.candidate = [order |-> o.order, origin |-> o.savOffset, count |-> 1]]

NextSav(r, limit) == IF r.observations = << >> THEN limit + PairBytes ELSE r.observations[1].savOffset

ApplyFirst(r) ==
  ApplyObservation([r EXCEPT !.observations = Tail(@)], r.observations[1])

\* In swapped order: a SAV inside the pair, or the pair itself, second half first.
EmitPair(r, limit) ==
  LET out == r.outOffset
      middle == out + DmaBufferBytes
      end == out + PairBytes
  IN IF NextSav(r, limit) < end
     THEN IF Adopts(r, r.observations[1])
          THEN [ApplyFirst(r) EXCEPT !.outOffset = r.observations[1].savOffset]
          ELSE ApplyFirst(r)
     ELSE [r EXCEPT !.out = @ \o Piped(r, middle, end) \o Piped(r, out, middle),
                    !.outOffset = end]

Emitting(r, limit) ==
  /\ r.outOffset < limit
  /\ \/ r.order # "Swapped" \/ NextSav(r, limit) = r.outOffset
     \/ r.outOffset + PairBytes <= limit

EmitStep(r, limit) ==
  LET end == Min({NextSav(r, limit), limit}) IN
  CASE NextSav(r, limit) = r.outOffset -> ApplyFirst(r)
    [] NextSav(r, limit) # r.outOffset /\ r.order = "Unknown" -> [r EXCEPT !.outOffset = end]
    [] NextSav(r, limit) # r.outOffset /\ r.order = "Normal" ->
         [r EXCEPT !.out = @ \o Piped(r, r.outOffset, end), !.outOffset = end]
    [] NextSav(r, limit) # r.outOffset /\ r.order = "Swapped" -> EmitPair(r, limit)

\* A step takes an observation, passes a pair, or reaches the next SAV or the limit.
Emitted(r, limit) ==
  LET steps == 2 * Len(r.observations) + Max({0, limit - r.outOffset}) \div PairBytes + 2
      after[k \in 0 .. steps] ==
        IF k = 0 THEN r
        ELSE LET q == after[k - 1] IN IF Emitting(q, limit) THEN EmitStep(q, limit) ELSE q
  IN after[steps]

\* Mutant: bytes are held back for a marker, not for the window.
HoldMarker(r) == MarkerSpan
HoldBack(r) == SwapWindow + MarkerSpan

\* feed.
Fed(reorderer, chunk, gapped) ==
  LET r == IF gapped THEN Reset(reorderer) ELSE reorderer
      piped == [r EXCEPT !.pipe = @ \o chunk, !.inOffset = @ + Len(chunk), !.sunk = << >>]
      seen == Scanned(piped)
      limit == seen.inOffset - HoldBack(seen)
      emitted == IF limit > 0 THEN Emitted(seen, limit) ELSE seen
      erased == [emitted EXCEPT !.pipe = SubSeq(@, emitted.outOffset - emitted.pipeStart + 1, Len(@)),
                                !.pipeStart = emitted.outOffset]
  IN IF chunk = << >> THEN [r EXCEPT !.sunk = << >>] ELSE FlushOut(erased)
=============================================================================
