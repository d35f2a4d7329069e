---------------------------- MODULE DeviceStream ----------------------------
(***************************************************************************)
(* The bytes the card sends (external; PROTOCOL.md, FrameBuilder.t.cpp).   *)
(*                                                                         *)
(* A stream is a sequence of units: frames (SAV, pixels, EAV), audio       *)
(* packets (marker, declared length, payload) and fillers.  A byte is a    *)
(* record of what it is worth to a parser, "v", and a number, "n": which   *)
(* pixel or sample it is, the frame counter (b0, c0) of a header, or the   *)
(* length that an audio header declares.                                   *)
(*                                                                         *)
(* A marker and its header have all of their bytes.  What a header spells  *)
(* as a whole, its checksum or its length, is told by its first byte: a    *)
(* parser reads a header from one run of the stream, so its bytes are      *)
(* always together.  The bytes behind the first are whatever they are; the *)
(* last one of a SAV is a checksum, and may be 00.                         *)
(***************************************************************************)
EXTENDS Integers, Sequences, SequencesExt

Byte == [v : STRING, n : Nat]
MarkerBytes == 4
Implausible == 999   \* the length that bytes other than an audio header spell

Zero == [v |-> "00", n |-> Implausible]
Ones == [v |-> "FF", n |-> Implausible]
Type(t) == [v |-> t, n |-> Implausible]
Header(n) == [v |-> "header", n |-> n]          \* begins one whose checksum holds
Damaged(n) == [v |-> "damaged", n |-> n]        \* begins one whose checksum does not
Data(n) == [v |-> "data", n |-> Implausible + n]
Garbage == [v |-> "garbage", n |-> Implausible] \* memory nobody initialised

\* A marker of each type has so many bytes with its header: four or five behind the marker's.
Width(t) == IF t = "C1" THEN 9 ELSE 8

Marker(t) == <<Zero, Ones, Ones, Type(t)>>
Sav(b0, rest) == Append(Marker("C0"), Header(b0)) \o rest
Eav(c0, rest) == Append(Marker("C1"), Header(c0)) \o rest
Declaring(length, rest) == Append(Marker("58"), Header(length)) \o rest

\* "length" bytes of content, all different, numbered from "first".
Content(first, length) == [i \in 1 .. length |-> Data(first + i)]

Frame(n, pixels, savRest, eavRest) ==
  [kind |-> "frame", bytes |-> Sav(n, savRest) \o pixels \o Eav(n, eavRest), content |-> pixels]

Packet(payload, rest) ==
  [kind |-> "packet", bytes |-> Declaring(Len(payload), rest) \o payload, content |-> payload]

\* Bytes a parser has to pass over: padding, damaged and partial frames.
Filler(bytes) == [kind |-> "filler", bytes |-> bytes, content |-> << >>]

Unit == [kind : STRING, bytes : Seq(Byte), content : Seq(Byte)]

Bytes(units) == FlattenSeq([i \in DOMAIN units |-> units[i].bytes])

\* How many bytes come before unit i.
Before(units, i) == Len(Bytes(SubSeq(units, 1, i - 1)))

OfKind(units, kind) == SelectSeq(units, LAMBDA u : u.kind = kind)

\* A parser that begins inside this packet may take its payload for markers.
HoldsMarker(unit) ==
  \E i \in 1 .. Len(unit.content) - 3 :
    SubSeq(unit.content, i, i + 2) = <<Zero, Ones, Ones>>
=============================================================================
