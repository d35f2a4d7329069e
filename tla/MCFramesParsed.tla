---------------------------- MODULE MCFramesParsed ----------------------------
(* Frames of eight bytes, shown when they are within three of it.           *)
EXTENDS FramesParsed

Pixels(n) == Content(10 * n, 8)
Samples(n) == Content(500 + 10 * n, 3)

\* Pixels with the beginnings of markers in them, in front and at their end.
Begun(n) == <<Zero, Ones, Data(10 * n), Data(10 * n + 1), Zero, Ones, Zero, Zero>>
Striped(n) == <<Ones, Ones, Data(10 * n), Zero, Ones, Ones, Data(10 * n + 1), Zero>>

\* What the headers go on with: bytes of any value, the last ones a marker's beginning.
Plain(length) == [i \in 1 .. length |-> Data(990 + i)]
EndsIn(length, k) == [i \in 1 .. length |-> IF i > length - k THEN Beginning(k)[i - length + k] ELSE Data(990 + i)]

Framed(n, pixels) == Frame(n, pixels, Plain(3), Plain(4))
Packed(payload) == Packet(payload, Plain(3))

\* Audio that looks like the beginning of a frame, or like another packet.
LikeSav == <<Data(700)>> \o Sav(9, Plain(3))
LikePacket == <<Data(800)>> \o Declaring(4, Plain(3)) \o <<Data(801)>>

Partial(b0) == Filler(Sav(b0, Plain(3)) \o Content(900, 2) \o Eav(b0, Plain(4)))
Padding == Filler(<<Data(910), Zero, Data(911)>>)
BadSav(n) == Filler(Marker("C0") \o <<Damaged(n)>> \o Content(920, 5))
BadEav(n) == Filler(Sav(n, Plain(3)) \o Content(930, 8) \o Marker("C1") \o <<Damaged(n)>> \o EndsIn(4, 1))
\* A frame with a packet in it is given up where the packet ends.
Divided(n) == <<Filler(Sav(n, Plain(3)) \o Content(940, 4)), Packed(<< >>),
                Filler(Content(944, 4) \o Eav(n, Plain(4)))>>
TooLong(n) == Filler(Sav(n, Plain(3)) \o Content(950, 14) \o Eav(n, Plain(4)))
Implausibly == Filler(Declaring(20, Plain(3)))

CardStreams == <<
  <<Partial(9), Framed(1, Pixels(1)), Padding, Frame(2, Begun(2), EndsIn(3, 1), EndsIn(4, 3))>>,
  <<Packed(LikeSav), Framed(2, Pixels(2)), Packed(LikePacket)>>,
  <<BadSav(1), Packed(Samples(1)), BadEav(2), Frame(3, Striped(3), EndsIn(3, 2), Plain(4))>>,
  <<Frame(1, Begun(1), EndsIn(3, 3), EndsIn(4, 1)), TooLong(2), Packed(<< >>)>>,
  Divided(2) \o <<Implausibly, Framed(3, Striped(3))>>,
  <<Frame(1, Striped(1), EndsIn(3, 1), Plain(4)), Packed(Samples(1)), Packed(LikeSav), Framed(2, Pixels(2))>>,
  <<Frame(1, Pixels(1), EndsIn(3, 1), Plain(4)), Packed(LikeSav)>> >>

\* _carry once a marker was carried; and as the constructor leaves it.
Written == <<Zero, Ones, Ones>>
Uninitialised == <<Garbage, Garbage, Garbage>>
CarryMemories == [s \in 1 .. 7 |-> IF s = 7 THEN {Uninitialised} ELSE {Written}]

\* A frame whose checksum is 00, for a parser that has carried a marker before.
SeamStreams == << <<Frame(1, Pixels(1), EndsIn(3, 1), Plain(4)), Packed(Samples(1)), Framed(2, Pixels(2))>> >>
WrittenOnly == [s \in 1 .. 1 |-> {Written}]
=============================================================================
