-------------------------- MODULE MCReorderedFrames --------------------------
(* Buffers of 26 bytes, four to a frame period: the SAV begins the second    *)
(* buffer of a pair and the frame ends one byte into the first of another,   *)
(* followed by its EAV and audio up to the end of that buffer.               *)
EXTENDS ReorderedFrames

Pixels(n) == Content(100 * n, 71)
Samples(n) == Content(1000 + 100 * n, 8)
SavRest == Content(5, 3)
EavRest == Content(5, 4)
LikeSav == Sav(42, SavRest)
Packed(payload) == Packet(payload, SavRest)
EndBlock(n, payload) == Content(100 * n - 1, 1) \o Eav(n, EavRest) \o Packed(payload).bytes

\* The end of a frame, then "periods" frames; the samples of one packet spell a SAV.
Stream(periods, odd) ==
  <<Filler(EndBlock(99, IF odd = 0 THEN LikeSav ELSE Samples(0)))>>
  \o FlattenSeq([n \in 1 .. periods |->
       <<Frame(n, Pixels(n), SavRest, EavRest), Packed(IF odd = n THEN LikeSav ELSE Samples(n))>>])
  \o <<Filler(Content(5000, DmaBufferBytes))>>

Periods == 5
Pairs == 1 .. 2 * Periods + 1
OddOnes == {0, 2}

\* Normal, swapped, and changes between them: within a frame or at its SAV, never two in one frame.
Between(a, b) == {j \in Pairs : a <= j /\ j < b}
Turns == {1, 4, 5} \X {7, 8, 12}
SwappedPairs ==
  {Between(t[1], t[2]) : t \in Turns} \cup {Pairs \ Between(t[1], t[2]) : t \in Turns}

CardDeliveries ==
  [key \in OddOnes \X SwappedPairs |-> [units |-> Stream(Periods, key[1]), swapped |-> key[2]]]
=============================================================================
