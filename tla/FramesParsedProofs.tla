------------------------- MODULE FramesParsedProofs -------------------------
(***************************************************************************)
(* Proofs about FramesParsed, for every stream, however it is cut and      *)
(* whatever is lost: where in the stream the frames shown are from, and    *)
(* which of its audio packets are heard. That what was received whole is   *)
(* handed out is checked by TLC only.                                      *)
(***************************************************************************)
EXTENDS FramesParsed, SequenceTheorems, FiniteSetTheorems, WellFoundedInduction,
        NaturalsInduction, TLAPS

(***************************************************************************)
(* Induction over the naturals for a set in place of a predicate: what the *)
(* recursive functions compute is proved with it.                          *)
(***************************************************************************)

LEMMA LeastNumber ==
  ASSUME NEW T, T \subseteq Nat, T # {}
  PROVE  \E m \in T : \A n \in T : m <= n
<1> DEFINE R == {ss \in Nat \X Nat : ss[1] < ss[2]}
<1>1. IsWellFoundedOn(R, Nat)
  BY NatLessThanWellFounded DEF OpToRel
<1>2. PICK m \in T : \A n \in T : ~(<<n, m>> \in R)
  <2> HIDE DEF R
  <2> QED BY <1>1, WFMin
<1>3. \A n \in T : ~(n < m)
  BY <1>2
<1> QED
  BY <1>3

\* A set that holds 0, and n + 1 with every n up to a bound, holds every number up to it.
LEMMA UpToBound ==
  ASSUME NEW S, NEW N \in Nat, 0 \in S,
         \A n \in 0 .. N - 1 : n \in S => n + 1 \in S
  PROVE  \A n \in 0 .. N : n \in S
<1> SUFFICES ASSUME (0 .. N) \ S # {} PROVE FALSE
  OBVIOUS
<1>1. PICK m \in (0 .. N) \ S : \A n \in (0 .. N) \ S : m <= n
  <2>1. (0 .. N) \ S \subseteq Nat
    OBVIOUS
  <2> QED
    BY <2>1, LeastNumber
<1>2. m # 0 /\ m - 1 \in 0 .. N - 1 /\ m - 1 \in 0 .. N /\ (m - 1) + 1 = m
  BY <1>1
<1>3. m - 1 \in S
  BY <1>1, <1>2
<1> QED
  BY <1>1, <1>2, <1>3

\* The pieces of a sequence of sequences, put together.
FlattenRun(f, seqs, n) ==
  f = [i \in 1 .. n |-> IF i = 1 THEN seqs[i] ELSE f[i - 1] \o seqs[i]]

LEMMA FlattenRecursion ==
  ASSUME NEW seqs, NEW n \in Nat \ {0}
  PROVE  \E f : FlattenRun(f, seqs, n)
<1> DEFINE S == {k \in Nat : \E f : FlattenRun(f, seqs, k + 1)}
<1>1. 0 \in S
  <2>1. FlattenRun([i \in 1 .. 1 |-> seqs[i]], seqs, 0 + 1)
    BY DEF FlattenRun
  <2> QED
    BY <2>1
<1>2. \A k \in 0 .. (n - 1) - 1 : k \in S => k + 1 \in S
  <2> SUFFICES ASSUME NEW k \in Nat, NEW f, FlattenRun(f, seqs, k + 1)
               PROVE  \E g : FlattenRun(g, seqs, (k + 1) + 1)
    OBVIOUS
  <2> DEFINE g == [i \in 1 .. k + 2 |-> IF i = k + 2 THEN f[k + 1] \o seqs[i] ELSE f[i]]
  <2>1. \A i \in 1 .. k + 1 : f[i] = IF i = 1 THEN seqs[i] ELSE f[i - 1] \o seqs[i]
    BY DEF FlattenRun
  <2>2. \A i \in 1 .. k + 2 : g[i] = IF i = 1 THEN seqs[i] ELSE g[i - 1] \o seqs[i]
    BY <2>1
  <2>3. (k + 1) + 1 = k + 2
    OBVIOUS
  <2>4. FlattenRun(g, seqs, k + 2)
    BY <2>2 DEF FlattenRun
  <2> QED
    BY <2>3, <2>4
<1>3. n - 1 \in S
  <2> HIDE DEF S
  <2>1. n - 1 \in Nat /\ n - 1 \in 0 .. n - 1
    OBVIOUS
  <2> QED
    BY <1>1, <1>2, <2>1, UpToBound
<1>4. (n - 1) + 1 = n
  OBVIOUS
<1> QED
  BY <1>3, <1>4

LEMMA FlattenSeqType ==
  ASSUME NEW S, NEW seqs \in Seq(Seq(S))
  PROVE  FlattenSeq(seqs) \in Seq(S)
<1> DEFINE n == Len(seqs)
           flatten[i \in 1 .. n] == IF i = 1 THEN seqs[i] ELSE flatten[i - 1] \o seqs[i]
<1>0. n \in Nat /\ \A i \in 1 .. n : seqs[i] \in Seq(S)
  BY LenProperties
<1>1. CASE n = 0
  <2>1. FlattenSeq(seqs) = seqs /\ seqs = << >>
    BY <1>1, EmptySeq DEF FlattenSeq
  <2> QED
    BY <2>1, EmptySeq
<1>2. CASE n # 0
  <2>1. FlattenSeq(seqs) = flatten[n]
    BY <1>2 DEF FlattenSeq
  <2>2. FlattenRun(flatten, seqs, n)
    <3> HIDE DEF n
    <3>1. \E f : FlattenRun(f, seqs, n)
      BY <1>0, <1>2, FlattenRecursion
    <3> QED
      BY ONLY <3>1 DEF FlattenRun
  <2> HIDE DEF flatten, n
  <2> DEFINE T == {k \in Nat : k + 1 <= n => flatten[k + 1] \in Seq(S)}
  <2>3. 0 \in T
    BY <1>0, <1>2, <2>2 DEF FlattenRun
  <2>4. \A k \in 0 .. (n - 1) - 1 : k \in T => k + 1 \in T
    <3> SUFFICES ASSUME NEW k \in 0 .. (n - 1) - 1, flatten[k + 1] \in Seq(S)
                 PROVE  flatten[(k + 1) + 1] \in Seq(S)
      BY <1>0
    <3>1. (k + 1) + 1 \in 1 .. n /\ (k + 1) + 1 # 1 /\ ((k + 1) + 1) - 1 = k + 1
      BY <1>0
    <3>2. flatten[(k + 1) + 1] = flatten[k + 1] \o seqs[(k + 1) + 1]
      BY <2>2, <3>1 DEF FlattenRun
    <3> QED
      BY <1>0, <3>1, <3>2, ConcatProperties
  <2>5. n - 1 \in T
    <3> HIDE DEF T
    <3>1. n - 1 \in Nat /\ n - 1 \in 0 .. n - 1
      BY <1>0, <1>2
    <3> QED
      BY <2>3, <2>4, <3>1, UpToBound
  <2>6. flatten[n] \in Seq(S)
    BY <1>0, <1>2, <2>5
  <2> QED
    BY <2>1, <2>6 DEF flatten, n
<1> QED
  BY <1>1, <1>2

\* What lies between two places of a sequence.
LEMMA SliceType ==
  ASSUME NEW S, NEW s \in Seq(S), NEW m \in Nat, NEW n \in Nat, m >= 1, n <= Len(s)
  PROVE  SubSeq(s, m, n) \in Seq(S)
<1>1. \A i \in m .. n : s[i] \in S
  BY LenProperties
<1> QED
  BY <1>1, SubSeqProperties

LEMMA BytesType ==
  ASSUME NEW units \in Seq(Unit)
  PROVE  Bytes(units) \in Seq(Byte)
<1> DEFINE pieces == [i \in DOMAIN units |-> units[i].bytes]
<1>1. Len(units) \in Nat /\ DOMAIN units = 1 .. Len(units)
      /\ \A i \in 1 .. Len(units) : units[i] \in Unit
  BY LenProperties
<1>2. \A i \in 1 .. Len(units) : units[i].bytes \in Seq(Byte)
  BY <1>1 DEF Unit
<1>3. pieces \in [1 .. Len(units) -> Seq(Byte)]
  BY <1>1, <1>2
<1> HIDE DEF pieces
<1>4. pieces \in Seq(Seq(Byte))
  BY <1>1, <1>3, SeqDef
<1>5. FlattenSeq(pieces) \in Seq(Byte)
  BY <1>4, FlattenSeqType
<1> QED
  BY <1>5 DEF Bytes, pieces

\* Two runs over the same pieces agree as far as both go.
LEMMA FlattenRunAgree ==
  ASSUME NEW q, NEW r, NEW f, NEW g, NEW n \in Nat, NEW m \in Nat, n <= m,
         FlattenRun(f, q, n), FlattenRun(g, r, m), \A i \in 1 .. n : q[i] = r[i]
  PROVE  \A i \in 1 .. n : f[i] = g[i]
<1> DEFINE T == {k \in Nat : k \in 1 .. n => f[k] = g[k]}
<1>1. /\ \A i \in 1 .. n : f[i] = IF i = 1 THEN q[i] ELSE f[i - 1] \o q[i]
      /\ \A i \in 1 .. m : g[i] = IF i = 1 THEN r[i] ELSE g[i - 1] \o r[i]
  BY DEF FlattenRun
<1>2. 0 \in T
  OBVIOUS
<1>3. \A k \in 0 .. n - 1 : k \in T => k + 1 \in T
  <2> SUFFICES ASSUME NEW k \in 0 .. n - 1, k \in T PROVE f[k + 1] = g[k + 1]
    OBVIOUS
  <2>1. k + 1 \in 1 .. n /\ k + 1 \in 1 .. m /\ (k + 1) - 1 = k
    OBVIOUS
  <2>2. CASE k = 0
    BY <1>1, <2>1, <2>2
  <2>3. CASE k # 0
    <3>1. f[k] = g[k] /\ k + 1 # 1
      BY <2>3
    <3>2. f[k + 1] = f[k] \o q[k + 1] /\ g[k + 1] = g[k] \o r[k + 1]
      BY <1>1, <2>1, <3>1
    <3> QED
      BY <2>1, <3>1, <3>2
  <2> QED
    BY <2>2, <2>3
<1>4. \A k \in 0 .. n : k \in T
  <2> HIDE DEF T
  <2> QED
    BY <1>2, <1>3, UpToBound
<1> QED
  BY <1>4

\* One piece more makes it longer by that piece.
LEMMA FlattenGrows ==
  ASSUME NEW S, NEW q \in Seq(Seq(S)), NEW r \in Seq(Seq(S)),
         Len(r) = Len(q) + 1, \A i \in 1 .. Len(q) : q[i] = r[i]
  PROVE  Len(FlattenSeq(q)) <= Len(FlattenSeq(r))
<1> DEFINE n == Len(q)
           f[i \in 1 .. Len(q)] == IF i = 1 THEN q[i] ELSE f[i - 1] \o q[i]
           g[i \in 1 .. Len(r)] == IF i = 1 THEN r[i] ELSE g[i - 1] \o r[i]
<1>1. n \in Nat /\ Len(r) = n + 1 /\ FlattenSeq(q) \in Seq(S) /\ FlattenSeq(r) \in Seq(S)
  BY LenProperties, FlattenSeqType
<1>2. Len(FlattenSeq(q)) \in Nat /\ Len(FlattenSeq(r)) \in Nat
  BY <1>1, LenProperties
<1>3. CASE n = 0
  <2>1. FlattenSeq(q) = q
    BY <1>3 DEF FlattenSeq
  <2> QED
    BY <1>2, <1>3, <2>1
<1>4. CASE n # 0
  <2>1. FlattenSeq(q) = f[n] /\ FlattenSeq(r) = g[n + 1]
    <3>1. FlattenSeq(q) = f[Len(q)]
      BY <1>4 DEF FlattenSeq
    <3>2. FlattenSeq(r) = g[Len(r)]
      BY <1>1, <1>4 DEF FlattenSeq
    <3> QED
      BY <1>1, <3>1, <3>2
  <2>2. FlattenRun(f, q, n) /\ FlattenRun(g, r, n + 1)
    <3> HIDE DEF n
    <3>1. (\E h : FlattenRun(h, q, n)) /\ (\E h : FlattenRun(h, r, n + 1))
      <4>1. n \in Nat \ {0} /\ n + 1 \in Nat \ {0}
        BY <1>1, <1>4
      <4> QED
        BY <4>1, FlattenRecursion
    <3>2. FlattenRun(f, q, n)
      BY ONLY <3>1 DEF FlattenRun, n
    <3>3. FlattenRun(g, r, n + 1)
      BY ONLY <3>1, <1>1, ZenonT(30) DEF FlattenRun
    <3> QED
      BY <3>2, <3>3
  <2> HIDE DEF f, g, n
  <2>3. f[n] = g[n]
    <3>1. \A i \in 1 .. n : q[i] = r[i]
      BY DEF n
    <3>2. \A i \in 1 .. n : f[i] = g[i]
      <4>1. n \in Nat /\ n <= n + 1 /\ n + 1 \in Nat
        BY <1>1
      <4> QED
        BY ONLY <2>2, <3>1, <4>1, FlattenRunAgree
    <3> QED
      BY <1>1, <1>4, <3>2
  <2>4. g[n + 1] = g[n] \o r[n + 1]
    <3>1. n + 1 \in 1 .. n + 1 /\ n + 1 # 1 /\ (n + 1) - 1 = n
      BY <1>1, <1>4
    <3> QED
      BY <2>2, <3>1 DEF FlattenRun
  <2>5. r[n + 1] \in Seq(S) /\ g[n] \in Seq(S)
    <3>1. n + 1 \in 1 .. Len(r)
      BY <1>1
    <3> QED
      BY <1>1, <2>1, <2>3, <3>1, LenProperties
  <2>6. Len(g[n + 1]) = Len(g[n]) + Len(r[n + 1]) /\ Len(r[n + 1]) \in Nat /\ Len(g[n]) \in Nat
    BY <2>4, <2>5, ConcatProperties, LenProperties
  <2>7. Len(g[n]) <= Len(g[n + 1])
    <3> DEFINE a == Len(g[n])
               b == Len(r[n + 1])
    <3>1. a \in Nat /\ b \in Nat /\ Len(g[n + 1]) = a + b
      BY <2>6
    <3>2. a <= a + b
      <4> HIDE DEF a, b
      <4> QED
        BY <3>1
    <3> QED
      BY <3>1, <3>2
  <2> QED
    BY ONLY <2>1, <2>3, <2>7
<1> QED
  BY <1>3, <1>4

\* A unit begins no earlier than the one in front of it.
LEMMA BeforeGrows ==
  ASSUME NEW units \in Seq(Unit)
  PROVE  \A i, j \in 1 .. Len(units) :
           /\ Before(units, i) \in Nat
           /\ i <= j => Before(units, i) <= Before(units, j)
<1> DEFINE front(i) == SubSeq(units, 1, i - 1)
           pieces(i) == [k \in DOMAIN front(i) |-> front(i)[k].bytes]
<1>0. Len(units) \in Nat /\ \A i \in 1 .. Len(units) : units[i] \in Unit
  BY LenProperties
<1>1. ASSUME NEW i \in 1 .. Len(units)
      PROVE  /\ front(i) \in Seq(Unit) /\ Len(front(i)) = i - 1 /\ DOMAIN front(i) = 1 .. i - 1
             /\ \A k \in 1 .. i - 1 : front(i)[k] = units[k]
  <2>1. /\ 1 \in Nat /\ i - 1 \in Nat /\ 1 <= (i - 1) + 1 /\ i - 1 <= Len(units)
        /\ \A k \in 1 .. i - 1 : units[k] \in Unit
    BY <1>0
  <2> DEFINE m == i - 1
  <2>2. /\ SubSeq(units, 1, m) \in Seq(Unit)
        /\ Len(SubSeq(units, 1, m)) = IF 1 <= m THEN m - 1 + 1 ELSE 0
        /\ \A k \in 1 .. m - 1 + 1 : SubSeq(units, 1, m)[k] = units[1 + k - 1]
    <3> HIDE DEF m
    <3> QED
      BY <1>0, <2>1, SubSeqProperties DEF m
  <2>3. \A k \in 1 .. m : 1 + k - 1 = k
    BY <2>1
  <2> QED
    BY <2>1, <2>2, <2>3, LenProperties
<1>2. ASSUME NEW i \in 1 .. Len(units)
      PROVE  /\ pieces(i) \in Seq(Seq(Byte)) /\ Len(pieces(i)) = i - 1
             /\ \A k \in 1 .. i - 1 : pieces(i)[k] = units[k].bytes
  <2>1. i - 1 \in Nat /\ \A k \in 1 .. i - 1 : k \in 1 .. Len(units)
    BY <1>0
  <2> HIDE DEF front
  <2>2. pieces(i) \in [1 .. i - 1 -> Seq(Byte)]
    BY <1>0, <1>1, <2>1 DEF Unit
  <2>3. pieces(i) \in Seq(Seq(Byte)) /\ Len(pieces(i)) = i - 1
    <3> HIDE DEF pieces
    <3>1. pieces(i) \in Seq(Seq(Byte))
      BY <2>1, <2>2, SeqDef
    <3> QED
      BY <2>1, <2>2, <3>1, LenProperties
  <2> QED
    BY <1>1, <2>3
<1>3. \A i \in 1 .. Len(units) : Before(units, i) = Len(FlattenSeq(pieces(i)))
  BY DEF Before, Bytes
<1> HIDE DEF front, pieces
<1>4. \A i \in 1 .. Len(units) : Before(units, i) \in Nat
  BY <1>2, <1>3, FlattenSeqType, LenProperties
<1>5. ASSUME NEW i \in 1 .. Len(units) - 1
      PROVE  Before(units, i) <= Before(units, i + 1)
  <2>1. i \in 1 .. Len(units) /\ i + 1 \in 1 .. Len(units) /\ (i + 1) - 1 = (i - 1) + 1
        /\ \A k \in 1 .. i - 1 : k \in 1 .. (i + 1) - 1
    BY <1>0
  <2>2. /\ pieces(i) \in Seq(Seq(Byte)) /\ pieces(i + 1) \in Seq(Seq(Byte))
        /\ Len(pieces(i + 1)) = Len(pieces(i)) + 1
        /\ \A k \in 1 .. Len(pieces(i)) : pieces(i)[k] = pieces(i + 1)[k]
    BY <1>2, <2>1
  <2>3. Len(FlattenSeq(pieces(i))) <= Len(FlattenSeq(pieces(i + 1)))
    BY <2>2, FlattenGrows
  <2> QED
    BY <1>3, <2>1, <2>3
<1>6. ASSUME NEW i \in 1 .. Len(units), NEW j \in 1 .. Len(units), i <= j
      PROVE  Before(units, i) <= Before(units, j)
  <2> DEFINE T == {k \in Nat : i + k <= Len(units) => Before(units, i) <= Before(units, i + k)}
  <2>1. 0 \in T
    <3>1. i + 0 = i
      BY <1>0
    <3> QED
      BY <1>4, <3>1
  <2>2. \A k \in 0 .. (Len(units) - i) - 1 : k \in T => k + 1 \in T
    <3> SUFFICES ASSUME NEW k \in 0 .. (Len(units) - i) - 1, k \in T
                 PROVE  Before(units, i) <= Before(units, i + (k + 1))
      BY <1>0
    <3>1. /\ i + k \in 1 .. Len(units) - 1 /\ i + (k + 1) = (i + k) + 1
          /\ i + k \in 1 .. Len(units) /\ (i + k) + 1 \in 1 .. Len(units) /\ i + k <= Len(units)
      BY <1>0
    <3>2. Before(units, i) <= Before(units, i + k) /\ Before(units, i + k) <= Before(units, (i + k) + 1)
      BY <1>5, <3>1
    <3>3. /\ Before(units, i) \in Nat /\ Before(units, i + k) \in Nat
          /\ Before(units, (i + k) + 1) \in Nat
      BY <1>4, <3>1
    <3> QED
      BY <3>1, <3>2, <3>3
  <2>3. j - i \in T
    <3> HIDE DEF T
    <3>1. Len(units) - i \in Nat /\ j - i \in 0 .. Len(units) - i
      BY <1>0, <1>6
    <3> QED
      BY <2>1, <2>2, <3>1, UpToBound
  <2>4. i + (j - i) = j /\ j <= Len(units)
    BY <1>0, <1>6
  <2> QED
    BY <2>3, <2>4
<1> QED
  BY <1>4, <1>6

(***************************************************************************)
(* Where in the stream w the parser is.  A byte it holds is the stream's,  *)
(* or one that _carry never held: where that may be, and where video may   *)
(* begin, is recorded in g, [starts, marred].                              *)
(***************************************************************************)

Kept == Byte \cup {Garbage}

Agrees(b, x, g) == b = x \/ (b = Garbage /\ g)

Parsers ==
  [state : {"Idle", "VideoData", "AudioData"}, armed : BOOLEAN,
   video : [{0, 1} -> [1 .. VideoBufferCapacity -> Kept]], index : {0, 1},
   offset : 0 .. VideoBufferCapacity, audio : Seq(Kept), remaining : Nat,
   memory : Seq(Kept), carryLen : 0 .. 8]

Scans ==
  [parser : Parsers, work : Seq(Kept), pos : Nat, start : Nat, marker : Int,
   frames : Seq(Seq(Kept)), packets : Seq(Seq(Kept))]

\* The frame is what is between a and e, as far as that goes.
Showing(frame, a, e, w, g) ==
  /\ Len(frame) = VideoFrameBytes
  /\ \A i \in 1 .. VideoFrameBytes : i <= e - a => Agrees(frame[i], w[a + i], a + i \in g.marred)

\* Where video may begin.
Begun(g) == g.starts \cap Nat

\* The frames are from different places of the stream in its order, all of them in front of "bound".
Traced(frames, w, g, bound) ==
  \E at \in [DOMAIN frames -> Begun(g)], to \in [DOMAIN frames -> 0 .. Len(w)] :
    /\ \A k \in DOMAIN frames :
         to[k] < bound /\ Plausible(w, at[k], to[k]) /\ Showing(frames[k], at[k], to[k], w, g)
    /\ \A j, k \in DOMAIN frames : j < k => to[j] < at[k]

\* The frame being assembled is what follows an opening marker behind all the frames shown.
OpenAt(p, frames, w, g, filled, a) ==
  /\ a \in Begun(g) /\ a <= filled /\ Traced(frames, w, g, a)
  /\ p.offset = Least(filled - a, VideoBufferCapacity)
  /\ \A i \in 1 .. p.offset : Agrees(p.video[p.index][i], w[a + i], a + i \in g.marred)

OpenSpan(p, frames, w, g, filled) ==
  p.state = "VideoData" => \E a : OpenAt(p, frames, w, g, filled, a)

\* What _carry holds begins like a marker.
MemoryShape(p) ==
  /\ Len(p.memory) >= 3 /\ p.carryLen <= Len(p.memory)
  /\ \A i \in 1 .. 3 : Agrees(p.memory[i], <<Zero, Ones, Ones>>[i], TRUE)

\* The frames shown ended in front of this position of the work buffer.
Limit(pos) == IF pos > 9 THEN pos - 4 ELSE 5

\* The work buffer holds the stream from "base" on; only what began it may never have been in _carry.
WorkAgrees(s, base, w, g) ==
  /\ base + Len(s.work) <= Len(w)
  /\ \A i \in 1 .. Len(s.work) :
       Agrees(s.work[i], w[base + i], base + i \in g.marred /\ i <= 3 /\ i <= s.parser.carryLen)

InScan(s) ==
  /\ s.pos <= Len(s.work) /\ s.start <= s.pos
  /\ s.marker # -1 =>
       /\ s.marker = s.pos /\ s.pos + 4 <= Len(s.work) /\ Len(s.work) <= s.pos + 8
       /\ s.parser.state # "AudioData"
       /\ SubSeq(s.work, s.pos + 1, s.pos + 3) = <<Zero, Ones, Ones>>

\* Of a frame whose marker is in this buffer nothing was copied, and the frames shown ended before it.
Fresh(s, frames, base, w, g) ==
  InVideo(s) /\ s.start > 0 =>
    /\ s.parser.offset = 0 /\ base + s.start \in Heads(w)
    /\ Traced(frames, w, g, (base + s.start) - 3)

\* Video may begin behind the markers, and where a chunk that ends here ends in one's tail.
Covers(g, w, stop) == Heads(w) \subseteq g.starts /\ Seams(w, stop) \subseteq g.starts

ScanInv(s, before, base, stop, w, g) ==
  /\ base + Len(s.work) = stop /\ Covers(g, w, stop)
  /\ s \in Scans /\ MemoryShape(s.parser)
  /\ WorkAgrees(s, base, w, g) /\ InScan(s)
  /\ Traced(before \o s.frames, w, g, base + Limit(s.pos))
  /\ OpenSpan(s.parser, before \o s.frames, w, g, base + s.start)
  /\ Fresh(s, before \o s.frames, base, w, g)

LEMMA Sizes ==
  /\ VideoFrameBytes \in Nat /\ FrameSizeTolerance \in Nat /\ VideoBufferCapacity \in Nat
  /\ AudioMaxPacketBytes \in Nat /\ FrameSizeTolerance < VideoFrameBytes
  /\ VideoFrameBytes + FrameSizeTolerance < VideoBufferCapacity
  BY FrameBuilderAssumption

LEMMA Marks ==
  /\ Zero # Garbage /\ Ones # Garbage
  /\ Zero.v # "header" /\ Ones.v # "header" /\ Garbage.v # "header"
  /\ Garbage.v # "C0" /\ Garbage.v # "C1"
  BY DEF Zero, Ones, Garbage

LEMMA AgreesHeader ==
  ASSUME NEW b, NEW x, NEW g, Agrees(b, x, g)
  PROVE  /\ b # Garbage => b = x
         /\ (b.v = "header" \/ b.v = "C0" \/ b.v = "C1" \/ b = Zero \/ b = Ones) => b = x
  BY Marks DEF Agrees

LEMMA TracedLater ==
  ASSUME NEW frames, NEW w \in Seq(Byte), NEW g, NEW a \in Int, NEW b \in Int, a <= b,
         Traced(frames, w, g, a)
  PROVE  Traced(frames, w, g, b)
<1>1. PICK at \in [DOMAIN frames -> Begun(g)], to \in [DOMAIN frames -> 0 .. Len(w)] :
        /\ \A k \in DOMAIN frames :
             to[k] < a /\ Plausible(w, at[k], to[k]) /\ Showing(frames[k], at[k], to[k], w, g)
        /\ \A j, k \in DOMAIN frames : j < k => to[j] < at[k]
  BY DEF Traced
<1>2. \A k \in DOMAIN frames : to[k] \in Int
  BY <1>1
<1>3. \A k \in DOMAIN frames : to[k] < b
  BY <1>1, <1>2
<1> QED
  BY <1>1, <1>3 DEF Traced

\* What is recorded grows.
LEMMA TracedMore ==
  ASSUME NEW frames, NEW w, NEW g, NEW h, NEW b, Traced(frames, w, g, b),
         g.starts \subseteq h.starts, g.marred \subseteq h.marred
  PROVE  Traced(frames, w, h, b)
<1>1. PICK at \in [DOMAIN frames -> Begun(g)], to \in [DOMAIN frames -> 0 .. Len(w)] :
        /\ \A k \in DOMAIN frames :
             to[k] < b /\ Plausible(w, at[k], to[k]) /\ Showing(frames[k], at[k], to[k], w, g)
        /\ \A j, k \in DOMAIN frames : j < k => to[j] < at[k]
  BY DEF Traced
<1>2. at \in [DOMAIN frames -> Begun(h)]
  BY <1>1 DEF Begun
<1>3. ASSUME NEW k \in DOMAIN frames PROVE Showing(frames[k], at[k], to[k], w, h)
  <2>1. Showing(frames[k], at[k], to[k], w, g)
    BY <1>1
  <2> QED
    BY <2>1 DEF Showing, Agrees
<1> QED
  BY <1>1, <1>2, <1>3 DEF Traced

\* A frame that began where the open span begins comes behind those shown.
LEMMA TracedAppend ==
  ASSUME NEW frames \in Seq(Seq(Kept)), NEW w \in Seq(Byte), NEW g, NEW a \in Begun(g),
         NEW b \in Int, Traced(frames, w, g, a), a <= b,
         NEW frame \in Seq(Kept), NEW e \in 0 .. Len(w), e < b, Plausible(w, a, e),
         Showing(frame, a, e, w, g)
  PROVE  Traced(Append(frames, frame), w, g, b)
<1> DEFINE n == Len(frames)
           all == Append(frames, frame)
<1>1. n \in Nat /\ DOMAIN frames = 1 .. n
  BY LenProperties
<1>2. /\ DOMAIN all = 1 .. n + 1 /\ all[n + 1] = frame
      /\ \A k \in 1 .. n : all[k] = frames[k]
  BY AppendProperties, LenProperties
<1> HIDE DEF n, all
<1>3. PICK at \in [1 .. n -> Begun(g)], to \in [1 .. n -> 0 .. Len(w)] :
        /\ \A k \in 1 .. n :
             to[k] < a /\ Plausible(w, at[k], to[k]) /\ Showing(frames[k], at[k], to[k], w, g)
        /\ \A j, k \in 1 .. n : j < k => to[j] < at[k]
  BY <1>1 DEF Traced
<1> DEFINE from == [k \in 1 .. n + 1 |-> IF k = n + 1 THEN a ELSE at[k]]
           end == [k \in 1 .. n + 1 |-> IF k = n + 1 THEN e ELSE to[k]]
<1>4. /\ from[n + 1] = a /\ \A k \in 1 .. n : from[k] = at[k]
      /\ end[n + 1] = e /\ \A k \in 1 .. n : end[k] = to[k]
      /\ \A k \in 1 .. n + 1 : k = n + 1 \/ k \in 1 .. n
  BY <1>1
<1>5. from \in [1 .. n + 1 -> Begun(g)] /\ end \in [1 .. n + 1 -> 0 .. Len(w)]
  BY <1>3, <1>4
<1>6. \A k \in 1 .. n : to[k] \in Int
  BY <1>3
<1>7. a \in Int
  BY DEF Begun
<1> HIDE DEF from, end
<1>8. ASSUME NEW k \in 1 .. n + 1
      PROVE  end[k] < b /\ Plausible(w, from[k], end[k]) /\ Showing(all[k], from[k], end[k], w, g)
  <2>1. CASE k = n + 1
    BY <1>2, <1>4, <2>1
  <2>2. CASE k \in 1 .. n
    <3>1. from[k] = at[k] /\ end[k] = to[k] /\ all[k] = frames[k]
      BY <1>2, <1>4, <2>2
    <3>2. to[k] < b
      BY <1>3, <1>6, <1>7, <2>2
    <3> QED
      BY <1>3, <2>2, <3>1, <3>2
  <2> QED
    BY <1>4, <2>1, <2>2
<1>9. ASSUME NEW j \in 1 .. n + 1, NEW k \in 1 .. n + 1, j < k
      PROVE  end[j] < from[k]
  <2>1. j \in 1 .. n
    BY <1>1, <1>9
  <2>2. CASE k = n + 1
    BY <1>3, <1>4, <2>1, <2>2
  <2>3. CASE k \in 1 .. n
    BY <1>3, <1>4, <1>9, <2>1, <2>3
  <2> QED
    BY <1>4, <2>2, <2>3
<1>10. Traced(all, w, g, b)
  BY <1>2, <1>5, <1>8, <1>9 DEF Traced
<1> QED
  BY <1>10 DEF all

LEMMA LimitGrows ==
  /\ \A m, n \in Nat : m <= n => Limit(m) <= Limit(n)
  /\ \A m \in Nat : Limit(m) \in Int /\ Limit(m) <= m + 5 /\ m < Limit(m + 9)
  BY DEF Limit

\* What a step that only copies video leaves as it is.
SameButVideo(s, q) ==
  /\ q.work = s.work /\ q.pos = s.pos /\ q.start = s.start /\ q.marker = s.marker
  /\ q.frames = s.frames /\ q.packets = s.packets
  /\ q.parser.state = s.parser.state /\ q.parser.armed = s.parser.armed
  /\ q.parser.index = s.parser.index /\ q.parser.audio = s.parser.audio
  /\ q.parser.remaining = s.parser.remaining /\ q.parser.memory = s.parser.memory
  /\ q.parser.carryLen = s.parser.carryLen

LEMMA FlushVideoIs ==
  ASSUME NEW s \in Scans, NEW end \in Nat, s.start <= end, end <= Len(s.work)
  PROVE  LET q == FlushVideo(s, end)
             p == s.parser
             n == Least(end - s.start, VideoBufferCapacity - p.offset)
         IN /\ q \in Scans /\ SameButVideo(s, q) /\ n \in Nat /\ q.parser.offset = p.offset + n
            /\ \A i \in 1 .. p.offset : q.parser.video[p.index][i] = p.video[p.index][i]
            /\ \A i \in p.offset + 1 .. p.offset + n :
                 q.parser.video[p.index][i] = s.work[s.start + i - p.offset]
<1> DEFINE q == FlushVideo(s, end)
           p == s.parser
           from == s.start
           n == Least(end - from, VideoBufferCapacity - p.offset)
           image == [i \in DOMAIN p.video[p.index] |->
                       IF i \in p.offset + 1 .. p.offset + n
                       THEN At(s, from + i - p.offset - 1) ELSE p.video[p.index][i]]
           v == [p.video EXCEPT ![p.index] = image]
           r == [p EXCEPT !.video = v, !.offset = p.offset + n]
<1>1. /\ p \in Parsers /\ p.index \in {0, 1} /\ p.offset \in 0 .. VideoBufferCapacity
      /\ p.video \in [{0, 1} -> [1 .. VideoBufferCapacity -> Kept]]
      /\ from \in Nat /\ s.work \in Seq(Kept) /\ Len(s.work) \in Nat
  BY LenProperties DEF Scans, Parsers
<1>2. /\ n \in Nat /\ n <= end - from /\ p.offset + n <= VideoBufferCapacity
      /\ n = IF end > from THEN Least(end - from, VideoBufferCapacity - p.offset) ELSE 0
  <2> DEFINE o == p.offset
  <2>1. o \in Nat /\ o <= VideoBufferCapacity /\ from \in Nat /\ from <= end
    BY <1>1, Sizes
  <2> HIDE DEF o, from
  <2>2. /\ Least(end - from, VideoBufferCapacity - o) \in Nat
        /\ Least(end - from, VideoBufferCapacity - o) <= end - from
        /\ o + Least(end - from, VideoBufferCapacity - o) <= VideoBufferCapacity
        /\ end = from => Least(end - from, VideoBufferCapacity - o) = 0
    BY <2>1, Sizes DEF Least
  <2> QED
    BY <2>1, <2>2 DEF o
<1>3. q = [s EXCEPT !.parser = r]
  BY <1>1, <1>2 DEF FlushVideo, Scans, Parsers
<1> HIDE DEF n, q
<1>4. p.video[p.index] \in [1 .. VideoBufferCapacity -> Kept]
  BY <1>1
<1>5. ASSUME NEW i \in p.offset + 1 .. p.offset + n
      PROVE  /\ i \in 1 .. VideoBufferCapacity
             /\ At(s, from + i - p.offset - 1) = s.work[s.start + i - p.offset]
             /\ s.work[s.start + i - p.offset] \in Kept
  <2> DEFINE o == p.offset
             j == from + i - o
             l == Len(s.work)
  <2>0. l \in Nat /\ end \in Nat /\ end <= l /\ VideoBufferCapacity \in Nat
    BY <1>1, Sizes
  <2>1. o \in Nat /\ n \in Nat /\ o + n <= VideoBufferCapacity /\ n <= end - from /\ from \in Nat
    BY <1>1, <1>2
  <2>2. i \in o + 1 .. o + n
    BY <1>5
  <2> HIDE DEF o, from, l
  <2>3. i \in 1 .. VideoBufferCapacity /\ j \in 1 .. l /\ (from + i - o - 1) + 1 = j
    BY ONLY <2>0, <2>1, <2>2
  <2>4. s.work[j] \in Kept
    BY <1>1, <2>3 DEF l
  <2>5. At(s, from + i - o - 1) = s.work[j]
    BY <2>3 DEF At
  <2> QED
    BY <2>3, <2>4, <2>5 DEF o, from
<1>6. image \in [1 .. VideoBufferCapacity -> Kept]
  BY <1>4, <1>5
<1>7. v \in [{0, 1} -> [1 .. VideoBufferCapacity -> Kept]] /\ v[p.index] = image
  <2> HIDE DEF image
  <2> QED
    BY <1>1, <1>6
<1>8. r \in Parsers /\ r.video = v /\ r.offset = p.offset + n
  <2>1. p.offset + n \in 0 .. VideoBufferCapacity
    BY <1>1, <1>2, Sizes, SMTT(40)
  <2> HIDE DEF v
  <2> QED
    BY <1>1, <1>7, <2>1 DEF Parsers
<1>9. /\ \A i \in 1 .. p.offset : image[i] = p.video[p.index][i]
      /\ \A i \in p.offset + 1 .. p.offset + n : image[i] = s.work[s.start + i - p.offset]
  <2>1. ASSUME NEW i \in 1 .. p.offset
        PROVE  i \in 1 .. VideoBufferCapacity /\ ~(i \in p.offset + 1 .. p.offset + n)
    <3> DEFINE o == p.offset
    <3>1. o \in Nat /\ o <= VideoBufferCapacity /\ VideoBufferCapacity \in Nat /\ i \in 1 .. o
      BY <1>1, Sizes
    <3> HIDE DEF o
    <3>2. i \in 1 .. VideoBufferCapacity /\ ~(i \in o + 1 .. o + n)
      BY ONLY <1>2, <3>1
    <3> QED
      BY <3>2 DEF o
  <2> QED
    BY <1>4, <1>5, <2>1
<1> HIDE DEF image, v
<1>10. SameButVideo(s, q) /\ q \in Scans /\ q.parser = r
  <2> HIDE DEF p
  <2>1. /\ r.state = p.state /\ r.armed = p.armed /\ r.index = p.index /\ r.audio = p.audio
        /\ r.remaining = p.remaining /\ r.memory = p.memory /\ r.carryLen = p.carryLen
    BY <1>1 DEF Parsers
  <2> HIDE DEF r
  <2>2. q \in Scans /\ q.parser = r
    BY <1>3, <1>8 DEF Scans
  <2>3. /\ q.work = s.work /\ q.pos = s.pos /\ q.start = s.start /\ q.marker = s.marker
        /\ q.frames = s.frames /\ q.packets = s.packets
    BY <1>3 DEF Scans
  <2> QED
    BY <2>1, <2>2, <2>3 DEF SameButVideo, p
<1> QED
  BY <1>2, <1>7, <1>8, <1>9, <1>10 DEF q, n

\* Copying the video up to "end" keeps the span in the stream.
LEMMA FlushOpen ==
  ASSUME NEW s \in Scans, NEW end \in Nat, s.start <= end, end <= Len(s.work),
         NEW w \in Seq(Byte), NEW g, NEW base \in Nat, WorkAgrees(s, base, w, g),
         NEW frames, NEW a, OpenAt(s.parser, frames, w, g, base + s.start, a)
  PROVE  OpenAt(FlushVideo(s, end).parser, frames, w, g, base + end, a)
<1> DEFINE q == FlushVideo(s, end)
           p == s.parser
           o == s.parser.offset
           n == Least(end - s.start, VideoBufferCapacity - o)
<1>1. /\ n \in Nat /\ q.parser.offset = o + n /\ q.parser.index = p.index
      /\ \A i \in 1 .. o : q.parser.video[p.index][i] = p.video[p.index][i]
      /\ \A i \in o + 1 .. o + n : q.parser.video[p.index][i] = s.work[s.start + i - o]
  BY FlushVideoIs DEF SameButVideo
<1> HIDE DEF q, n
<1>2. /\ a \in Begun(g) /\ a <= base + s.start /\ Traced(frames, w, g, a)
      /\ o = Least((base + s.start) - a, VideoBufferCapacity)
      /\ \A i \in 1 .. o : Agrees(p.video[p.index][i], w[a + i], a + i \in g.marred)
  BY DEF OpenAt
<1>3. /\ s.start \in Nat /\ o \in Nat /\ o <= VideoBufferCapacity /\ a \in Int /\ Len(s.work) \in Nat
  <2>1. s.start \in Nat /\ s.work \in Seq(Kept) /\ o \in 0 .. VideoBufferCapacity
    BY DEF Scans, Parsers
  <2>2. a \in Int
    BY <1>2 DEF Begun
  <2> QED
    BY <2>1, <2>2, LenProperties, Sizes
<1> DEFINE from == s.start
<1>4. a <= base + end /\ o + n = Least((base + end) - a, VideoBufferCapacity)
  <2> HIDE DEF o, from
  <2>1. from \in Nat /\ from <= end /\ a <= base + from
        /\ o = Least((base + from) - a, VideoBufferCapacity)
    BY <1>2, <1>3 DEF from
  <2>2. n = Least(end - from, VideoBufferCapacity - o)
    BY DEF n, from
  <2> QED
    BY <1>3, <2>1, <2>2, Sizes DEF Least
<1>5. ASSUME NEW i \in 1 .. o + n
      PROVE  Agrees(q.parser.video[p.index][i], w[a + i], a + i \in g.marred)
  <2>1. CASE i <= o
    <3>1. i \in 1 .. o
      BY <1>1, <1>3, <2>1
    <3> QED
      BY <1>1, <1>2, <3>1
  <2>2. CASE ~(i <= o)
    <3>1. i \in o + 1 .. o + n
      BY <1>1, <1>3, <2>2
    <3>2. o = (base + s.start) - a
      <4> HIDE DEF o
      <4>1. n # 0 /\ n <= VideoBufferCapacity - o
        <5>1. n # 0
          BY <1>1, <1>3, <3>1
        <5>2. n <= VideoBufferCapacity - o
          BY <1>3, Sizes DEF n, Least
        <5> QED
          BY <5>1, <5>2
      <4> QED
        BY <1>1, <1>2, <1>3, <4>1, Sizes DEF Least
    <3> DEFINE j == from + i - o
    <3>3. j \in 1 .. Len(s.work) /\ base + j = a + i
      <4>1. n <= end - from
        BY <1>3, Sizes, SMTT(30) DEF n, Least
      <4> DEFINE l == Len(s.work)
      <4>2. /\ l \in Nat /\ end <= l /\ from \in Nat /\ o \in Nat /\ a \in Int
            /\ o = (base + from) - a
        BY <1>3, <3>2
      <4> HIDE DEF o, l, from
      <4>3. j \in 1 .. l /\ base + j = a + i
        BY ONLY <1>1, <3>1, <4>1, <4>2, base \in Nat, end \in Nat DEF j
      <4> QED
        BY <4>3 DEF l
    <3>4. q.parser.video[p.index][i] = s.work[j]
      BY <1>1, <3>1
    <3>5. Agrees(s.work[j], w[base + j], base + j \in g.marred)
      BY <3>3 DEF WorkAgrees, Agrees
    <3> QED
      BY <3>3, <3>4, <3>5
  <2> QED
    BY <2>1, <2>2
<1> QED
  BY <1>1, <1>2, <1>4, <1>5 DEF OpenAt, q

\* There is nothing to copy in front of where the video begins.
LEMMA FlushNothing ==
  ASSUME NEW s \in Scans, NEW end \in Nat, end < s.start
  PROVE  FlushIfVideo(s, end) = s
<1> DEFINE p == s.parser
           image == [i \in DOMAIN p.video[p.index] |->
                       IF i \in p.offset + 1 .. p.offset + 0
                       THEN At(s, s.start + i - p.offset - 1) ELSE p.video[p.index][i]]
<1>1. /\ p \in Parsers /\ p.index \in {0, 1} /\ p.offset \in Nat
      /\ p.video \in [{0, 1} -> [1 .. VideoBufferCapacity -> Kept]] /\ s.start \in Nat
  BY Sizes DEF Scans, Parsers
<1>2. image = p.video[p.index]
  <2> DEFINE o == p.offset
             v == p.video[p.index]
  <2>1. o \in Nat /\ v \in [1 .. VideoBufferCapacity -> Kept]
    BY <1>1
  <2> HIDE DEF o, v
  <2>2. \A i : ~(i \in o + 1 .. o + 0)
    BY <2>1
  <2> QED
    BY <2>1, <2>2 DEF o, v
<1>3. ~(end > s.start)
  BY <1>1
<1>4. FlushVideo(s, end) = [s EXCEPT !.parser.video[p.index] = image, !.parser.offset = p.offset + 0]
  BY <1>1, <1>3 DEF FlushVideo, Scans, Parsers
<1> HIDE DEF image
<1>5. FlushVideo(s, end) = s
  <2>1. [p.video EXCEPT ![p.index] = p.video[p.index]] = p.video
    BY <1>1
  <2>2. p.offset + 0 = p.offset
    BY <1>1
  <2> DEFINE r == [p EXCEPT !.video = [@ EXCEPT ![p.index] = image], !.offset = p.offset + 0]
  <2>3. r = p
    <3> DEFINE v == p.video
               o == p.offset
    <3>1. r = [p EXCEPT !.video = v, !.offset = o]
      BY <1>1, <1>2, <2>1, <2>2 DEF Parsers
    <3> HIDE DEF r
    <3> QED
      BY <1>1, <3>1 DEF Parsers
  <2>4. FlushVideo(s, end) = [s EXCEPT !.parser = r]
    BY <1>1, <1>4 DEF Scans, Parsers
  <2> HIDE DEF r
  <2> QED
    BY <2>3, <2>4 DEF Scans
<1> QED
  BY <1>5 DEF FlushIfVideo

LEMMA FlushIfVideoSpan ==
  ASSUME NEW s \in Scans, NEW end \in Nat, s.start <= end, end <= Len(s.work),
         NEW w \in Seq(Byte), NEW g, NEW base \in Nat, WorkAgrees(s, base, w, g),
         NEW frames, OpenSpan(s.parser, frames, w, g, base + s.start)
  PROVE  LET q == FlushIfVideo(s, end) IN
         q \in Scans /\ SameButVideo(s, q) /\ OpenSpan(q.parser, frames, w, g, base + end)
<1>1. CASE InVideo(s)
  <2> DEFINE q == FlushVideo(s, end)
  <2>1. FlushIfVideo(s, end) = q
    BY <1>1 DEF FlushIfVideo
  <2>2. q \in Scans /\ SameButVideo(s, q)
    BY FlushVideoIs
  <2>3. PICK a : OpenAt(s.parser, frames, w, g, base + s.start, a)
    BY <1>1 DEF InVideo, OpenSpan
  <2>4. OpenAt(q.parser, frames, w, g, base + end, a)
    BY <2>3, FlushOpen
  <2> HIDE DEF q
  <2> QED
    BY <2>1, <2>2, <2>4 DEF OpenSpan
<1>2. CASE ~InVideo(s)
  BY <1>2 DEF FlushIfVideo, InVideo, OpenSpan, SameButVideo
<1> QED
  BY <1>1, <1>2

\* What is left to show of a step that hands out no frame.
LEMMA ScanMoves ==
  ASSUME NEW s, NEW q \in Scans, NEW before, NEW base \in Nat, NEW stop, NEW w \in Seq(Byte), NEW g,
         ScanInv(s, before, base, stop, w, g),
         q.work = s.work, q.frames = s.frames, q.parser.memory = s.parser.memory,
         q.parser.carryLen = s.parser.carryLen, s.pos <= q.pos, InScan(q),
         Fresh(q, before \o s.frames, base, w, g),
         OpenSpan(q.parser, before \o s.frames, w, g, base + q.start)
  PROVE  ScanInv(q, before, base, stop, w, g)
<1>1. s.pos \in Nat /\ q.pos \in Nat
  BY DEF ScanInv, Scans
<1> DEFINE m == s.pos
           n == q.pos
<1>2. base + Limit(m) <= base + Limit(n) /\ base + Limit(m) \in Int /\ base + Limit(n) \in Int
  <2>1. m \in Nat /\ n \in Nat /\ m <= n
    BY <1>1
  <2> HIDE DEF m, n
  <2>2. Limit(m) <= Limit(n) /\ Limit(m) \in Int /\ Limit(n) \in Int
    BY <2>1, LimitGrows
  <2> QED
    BY <2>2
<1>3. Traced(before \o s.frames, w, g, base + Limit(m))
  BY DEF ScanInv
<1> HIDE DEF m, n
<1>4. Traced(before \o s.frames, w, g, base + Limit(n))
  BY <1>2, <1>3, TracedLater
<1>5. MemoryShape(q.parser) /\ WorkAgrees(q, base, w, g)
  BY DEF ScanInv, MemoryShape, WorkAgrees
<1> QED
  BY <1>4, <1>5 DEF ScanInv, n

LEMMA PassedScan ==
  ASSUME NEW s, NEW before, NEW base \in Nat, NEW stop, NEW w \in Seq(Byte), NEW g,
         ScanInv(s, before, base, stop, w, g), s.marker = -1, s.pos < Len(s.work)
  PROVE  ScanInv(Passed(s), before, base, stop, w, g)
<1> DEFINE q == Passed(s)
<1>1. s \in Scans /\ s.pos \in Nat /\ s.start \in Nat /\ s.work \in Seq(Kept)
  BY DEF ScanInv, Scans
<1>2. /\ q \in Scans /\ q.pos = s.pos + 1 /\ q.work = s.work /\ q.frames = s.frames
      /\ q.parser = s.parser /\ q.start = s.start /\ q.marker = -1
  <2>1. s.pos + 1 \in Nat
    BY <1>1
  <2>2. q \in Scans /\ q.pos = s.pos + 1
    BY <1>1, <2>1 DEF Passed, Scans
  <2>3. /\ q.work = s.work /\ q.frames = s.frames
        /\ q.parser = s.parser /\ q.start = s.start /\ q.marker = s.marker
    BY <1>1 DEF Passed, Scans
  <2> QED
    BY <2>2, <2>3
<1> HIDE DEF q
<1>3. Len(s.work) \in Nat
  BY <1>1, LenProperties
<1>4. s.pos <= q.pos /\ q.pos <= Len(q.work) /\ q.start <= q.pos
  BY <1>1, <1>2, <1>3 DEF ScanInv, InScan
<1>5. InScan(q)
  BY <1>2, <1>4 DEF ScanInv, InScan
<1>6. OpenSpan(q.parser, before \o s.frames, w, g, base + q.start)
  BY <1>2 DEF ScanInv
<1>7. Fresh(q, before \o s.frames, base, w, g)
  BY <1>2 DEF ScanInv, Fresh, InVideo
<1> QED
  BY <1>2, <1>4, <1>5, <1>6, <1>7, ScanMoves DEF q

\* The payload is taken from the buffer, whatever it spells.
LEMMA ConsumeAudioScan ==
  ASSUME NEW s, NEW before, NEW base \in Nat, NEW stop, NEW w \in Seq(Byte), NEW g,
         ScanInv(s, before, base, stop, w, g)
  PROVE  ScanInv(ConsumeAudio(s), before, base, stop, w, g)
<1> DEFINE q == ConsumeAudio(s)
           p == s.parser
           take == Least(Len(s.work) - s.pos, p.remaining)
           audio == p.audio \o SubSeq(s.work, s.pos + 1, s.pos + take)
           whole == take = p.remaining
           r == [p EXCEPT !.audio = audio, !.remaining = @ - take,
                          !.state = IF whole THEN "Idle" ELSE @]
<1>1. CASE p.state # "AudioData"
  BY <1>1 DEF ConsumeAudio
<1>2. CASE p.state = "AudioData"
  <2>1. /\ s \in Scans /\ p \in Parsers /\ s.pos \in Nat /\ s.start \in Nat /\ s.work \in Seq(Kept)
        /\ p.remaining \in Nat /\ p.audio \in Seq(Kept) /\ Len(s.work) \in Nat
        /\ s.pos <= Len(s.work) /\ s.start <= s.pos /\ s.packets \in Seq(Seq(Kept))
    BY LenProperties DEF ScanInv, InScan, Scans, Parsers
  <2>2. take \in Nat /\ s.pos + take <= Len(s.work) /\ p.remaining - take \in Nat
    <3> DEFINE m == s.pos
               l == Len(s.work)
               n == p.remaining
    <3>1. m \in Nat /\ l \in Nat /\ n \in Nat /\ m <= l
      BY <2>1
    <3> HIDE DEF m, l, n
    <3>2. Least(l - m, n) \in Nat /\ m + Least(l - m, n) <= l /\ n - Least(l - m, n) \in Nat
      BY ONLY <3>1 DEF Least
    <3> QED
      BY <3>2 DEF m, l, n
  <2> HIDE DEF take
  <2>3. audio \in Seq(Kept)
    <3>1. s.pos + 1 \in Nat /\ s.pos + 1 >= 1 /\ s.pos + take \in Nat
      BY <2>1, <2>2, SMTT(30)
    <3>2. SubSeq(s.work, s.pos + 1, s.pos + take) \in Seq(Kept)
      BY <2>1, <2>2, <3>1, SliceType
    <3> QED
      BY <2>1, <3>2, ConcatProperties
  <2> HIDE DEF audio, whole
  <2>4. q = [s EXCEPT !.pos = @ + take, !.parser = r,
                      !.packets = IF whole THEN Append(@, audio) ELSE @]
    BY <1>2, <2>1, ZenonT(30) DEF ConsumeAudio, take, audio, whole, Scans, Parsers
  <2>5. /\ r \in Parsers /\ r.memory = p.memory /\ r.carryLen = p.carryLen
        /\ r.state # "VideoData"
    BY <1>2, <2>1, <2>2, <2>3 DEF Parsers
  <2>6. (IF whole THEN Append(s.packets, audio) ELSE s.packets) \in Seq(Seq(Kept))
    BY <2>1, <2>3, AppendProperties
  <2>7. /\ q \in Scans /\ q.pos = s.pos + take /\ q.work = s.work /\ q.frames = s.frames
        /\ q.parser = r /\ q.start = s.start /\ q.marker = s.marker
    <3> HIDE DEF r, p
    <3>1. s.pos + take \in Nat
      BY <2>1, <2>2
    <3> QED
      BY <2>1, <2>4, <2>5, <2>6, <3>1 DEF Scans
  <2> HIDE DEF q, r
  <2>8. s.marker = -1
    BY <1>2 DEF ScanInv, InScan
  <2>9. s.pos <= q.pos /\ q.pos <= Len(q.work) /\ q.start <= q.pos
    BY <2>1, <2>2, <2>7
  <2>10. InScan(q)
    BY <2>7, <2>8, <2>9 DEF ScanInv, InScan
  <2>11. OpenSpan(q.parser, before \o s.frames, w, g, base + q.start)
    BY <2>5, <2>7 DEF OpenSpan
  <2>12. Fresh(q, before \o s.frames, base, w, g)
    BY <2>5, <2>7 DEF Fresh, InVideo
  <2> QED
    BY <2>5, <2>7, <2>9, <2>10, <2>11, <2>12, ScanMoves DEF q
<1> QED
  BY <1>1, <1>2

LEMMA Triple ==
  ASSUME NEW S, NEW s \in Seq(S), NEW i \in Nat, i + 3 <= Len(s)
  PROVE  SubSeq(s, i + 1, i + 3) = <<s[i + 1], s[i + 2], s[i + 3]>>
<1> DEFINE t == SubSeq(s, i + 1, i + 3)
<1>1. Len(s) \in Nat /\ \A k \in 1 .. Len(s) : s[k] \in S
  BY LenProperties
<1>2. t \in Seq(S) /\ Len(t) = 3 /\ t[1] = s[i + 1] /\ t[2] = s[i + 2] /\ t[3] = s[i + 3]
  <2> DEFINE m == i + 1
             n == i + 3
  <2>1. /\ m \in Nat /\ n \in Nat /\ m <= n + 1 /\ m <= n /\ n - m + 1 = 3
        /\ \A k \in m .. n : s[k] \in S
    BY <1>1
  <2>2. m + 1 - 1 = i + 1 /\ m + 2 - 1 = i + 2 /\ m + 3 - 1 = i + 3
    OBVIOUS
  <2> HIDE DEF m, n
  <2>3. /\ SubSeq(s, m, n) \in Seq(S)
        /\ Len(SubSeq(s, m, n)) = IF m <= n THEN n - m + 1 ELSE 0
        /\ \A k \in 1 .. n - m + 1 : SubSeq(s, m, n)[k] = s[m + k - 1]
    BY ONLY <2>1, SubSeqProperties
  <2>4. Len(SubSeq(s, m, n)) = 3 /\ \A k \in 1 .. 3 : SubSeq(s, m, n)[k] = s[m + k - 1]
    BY ONLY <2>1, <2>3
  <2>5. /\ SubSeq(s, m, n)[1] = s[i + 1] /\ SubSeq(s, m, n)[2] = s[i + 2]
        /\ SubSeq(s, m, n)[3] = s[i + 3]
    <3>1. 1 \in 1 .. 3 /\ 2 \in 1 .. 3 /\ 3 \in 1 .. 3
      OBVIOUS
    <3>2. /\ SubSeq(s, m, n)[1] = s[m + 1 - 1] /\ SubSeq(s, m, n)[2] = s[m + 2 - 1]
          /\ SubSeq(s, m, n)[3] = s[m + 3 - 1]
      BY ONLY <2>4, <3>1, Zenon
    <3> QED
      BY ONLY <2>2, <3>2, Zenon
  <2> QED
    BY <2>3, <2>4, <2>5 DEF m, n
<1> HIDE DEF t
<1>3. t = <<t[1], t[2], t[3]>>
  BY <1>2
<1> QED
  BY <1>2, <1>3 DEF t

LEMMA TripleIs ==
  ASSUME NEW S, NEW s \in Seq(S), NEW i \in Nat, i + 3 <= Len(s), NEW x, NEW y, NEW z,
         SubSeq(s, i + 1, i + 3) = <<x, y, z>>
  PROVE  s[i + 1] = x /\ s[i + 2] = y /\ s[i + 3] = z
<1>1. SubSeq(s, i + 1, i + 3) = <<s[i + 1], s[i + 2], s[i + 3]>>
  BY Triple
<1>2. <<s[i + 1], s[i + 2], s[i + 3]>> = <<x, y, z>>
  BY <1>1
<1> QED
  BY ONLY <1>2

\* The marker that is found is in the stream.
LEMMA MarkerFound ==
  ASSUME NEW s \in Scans, NEW base \in Nat, NEW w \in Seq(Byte), NEW g, WorkAgrees(s, base, w, g),
         NEW n \in Nat, n >= 5, s.pos + n <= Len(s.work), SubSeq(s.work, s.pos + 1, s.pos + 3) = <<Zero, Ones, Ones>>,
         NEW type \in {"C0", "C1"}, s.work[s.pos + 4].v = type, s.work[s.pos + 5].v = "header"
  PROVE  (base + s.pos) + n <= Len(w) /\ MarkerIn(w, base + s.pos, type)
<1> DEFINE work == s.work
           pos == s.pos
<1>1. /\ work \in Seq(Kept) /\ pos \in Nat /\ Len(work) \in Nat /\ Len(w) \in Nat
      /\ pos + n <= Len(work) /\ base + Len(work) <= Len(w)
      /\ \A i \in 1 .. Len(work) : Agrees(work[i], w[base + i], TRUE)
  BY LenProperties DEF Scans, WorkAgrees, Agrees
<1>2. /\ SubSeq(work, pos + 1, pos + 3) = <<Zero, Ones, Ones>>
      /\ work[pos + 4].v = type /\ work[pos + 5].v = "header"
  OBVIOUS
<1> HIDE DEF work, pos
<1> DEFINE l == Len(work)
           b == base + pos
<1>3. /\ pos + 3 <= l /\ pos + 1 \in 1 .. l /\ pos + 2 \in 1 .. l /\ pos + 3 \in 1 .. l
      /\ pos + 4 \in 1 .. l /\ pos + 5 \in 1 .. l
      /\ base + (pos + 1) = b + 1 /\ base + (pos + 2) = b + 2 /\ base + (pos + 3) = b + 3
      /\ base + (pos + 4) = b + 4 /\ base + (pos + 5) = b + 5
      /\ b \in Nat /\ b + 3 <= Len(w) /\ b + n <= Len(w)
  BY <1>1
<1>4. work[pos + 1] = Zero /\ work[pos + 2] = Ones /\ work[pos + 3] = Ones
  <2>1. work \in Seq(Kept) /\ pos \in Nat /\ pos + 3 <= Len(work)
    BY <1>1, <1>3
  <2>2. SubSeq(work, pos + 1, pos + 3) = <<Zero, Ones, Ones>>
    BY <1>2
  <2> QED
    BY ONLY <2>1, <2>2, TripleIs
<1>5. /\ Agrees(Zero, w[b + 1], TRUE) /\ Agrees(Ones, w[b + 2], TRUE) /\ Agrees(Ones, w[b + 3], TRUE)
      /\ Agrees(work[pos + 4], w[b + 4], TRUE) /\ Agrees(work[pos + 5], w[b + 5], TRUE)
  <2> HIDE DEF l, b
  <2>1. \A i \in 1 .. l : Agrees(work[i], w[base + i], TRUE)
    BY <1>1 DEF l
  <2> QED
    BY <1>3, <1>4, <2>1
<1> HIDE DEF b
<1>6. w[b + 1] = Zero /\ w[b + 2] = Ones /\ w[b + 3] = Ones
  BY <1>5, Marks DEF Agrees
<1>7. w[b + 4].v = type /\ w[b + 5].v = "header"
  <2>1. work[pos + 4] = w[b + 4]
    BY <1>2, <1>5, Marks DEF Agrees
  <2>2. work[pos + 5] = w[b + 5]
    BY <1>2, <1>5, Marks DEF Agrees
  <2> QED
    BY <1>2, <2>1, <2>2
<1>8. SubSeq(w, b + 1, b + 3) = <<Zero, Ones, Ones>>
  <2>1. w \in Seq(Byte) /\ b \in Nat /\ b + 3 <= Len(w)
    BY <1>3
  <2> QED
    BY ONLY <1>6, <2>1, Triple
<1> QED
  BY <1>3, <1>7, <1>8 DEF MarkerIn, b, pos

\* A scan that has found the first three bytes of a marker, with its type and its header.
Found(s) ==
  /\ s.marker = -1 /\ s.parser.state # "AudioData"
  /\ s.pos + Width(s.work[s.pos + 4].v) <= Len(s.work)
  /\ SubSeq(s.work, s.pos + 1, s.pos + 3) = <<Zero, Ones, Ones>>

LEMMA Widths ==
  ASSUME NEW t
  PROVE  Width(t) \in {8, 9} /\ Width("C0") = 8 /\ Width("C1") = 9 /\ Width("58") = 8
  BY DEF Width

LEMMA FoundThere ==
  ASSUME NEW s \in Scans, Found(s)
  PROVE  /\ s.pos + 5 <= Len(s.work) /\ s.pos + 8 <= Len(s.work) /\ s.pos < Len(s.work)
         /\ s.work[s.pos + 4].v = "C1" => s.pos + 9 <= Len(s.work)
<1>1. s.pos \in Nat /\ Len(s.work) \in Nat
  BY LenProperties DEF Scans
<1> DEFINE n == Width(s.work[s.pos + 4].v)
<1>2. n \in {8, 9} /\ (s.work[s.pos + 4].v = "C1" => n = 9) /\ s.pos + n <= Len(s.work)
  BY Widths DEF Found
<1> HIDE DEF n
<1> QED
  BY <1>1, <1>2

LEMMA HeaderIs ==
  ASSUME NEW s \in Scans, s.pos + 5 <= Len(s.work)
  PROVE  /\ HeaderAt(s) = s.work[s.pos + 5] /\ HeaderAt(s) \in Kept
         /\ At(s, s.pos + MarkerBytes - 1) = s.work[s.pos + 4]
<1>1. s.pos \in Nat /\ s.work \in Seq(Kept) /\ Len(s.work) \in Nat
  BY LenProperties DEF Scans
<1>2. /\ (s.pos + MarkerBytes) + 1 = s.pos + 5 /\ (s.pos + MarkerBytes - 1) + 1 = s.pos + 4
      /\ s.pos + 5 \in 1 .. Len(s.work)
  BY <1>1 DEF MarkerBytes
<1>3. s.work[s.pos + 5] \in Kept
  BY <1>1, <1>2
<1> QED
  BY <1>2, <1>3 DEF HeaderAt, At

LEMMA OpenFrameScan ==
  ASSUME NEW s, NEW before, NEW base \in Nat, NEW stop, NEW w \in Seq(Byte), NEW g,
         ScanInv(s, before, base, stop, w, g), Found(s), s.work[s.pos + 4].v = "C0"
  PROVE  ScanInv(OpenFrame(s), before, base, stop, w, g)
<1>1. /\ s \in Scans /\ s.pos \in Nat /\ s.start \in Nat /\ s.work \in Seq(Kept)
      /\ Len(s.work) \in Nat /\ s.parser \in Parsers /\ s.pos + 8 <= Len(s.work) /\ s.start <= s.pos
      /\ s.pos + 5 <= Len(s.work) /\ Heads(w) \subseteq g.starts
  BY FoundThere, LenProperties DEF ScanInv, InScan, Scans, Covers
<1>2. HeaderAt(s) = s.work[s.pos + 5]
  BY <1>1, HeaderIs
<1>3. CASE HeaderAt(s).v # "header"
  <2>1. s.pos < Len(s.work)
    BY <1>1
  <2> QED
    BY <1>3, <2>1, PassedScan DEF OpenFrame, Found
<1>4. CASE HeaderAt(s).v = "header"
  <2> DEFINE n == s.pos + 8
             r == [s.parser EXCEPT !.state = "VideoData", !.offset = 0]
             q == OpenFrame(s)
             frames == before \o s.frames
  <2>1. n \in Nat /\ s.pos + Width("C0") = n /\ s.pos <= n /\ n > 0
    BY <1>1, Widths
  <2>2. q = [s EXCEPT !.pos = n, !.start = n, !.parser = r]
    BY <1>1, <1>4, <2>1 DEF OpenFrame, AfterHeader, Scans, Parsers
  <2>3. /\ r \in Parsers /\ r.memory = s.parser.memory /\ r.carryLen = s.parser.carryLen
        /\ r.state = "VideoData" /\ r.offset = 0
    <3>1. 0 \in 0 .. VideoBufferCapacity
      BY Sizes
    <3> QED
      BY <1>1, <3>1 DEF Parsers
  <2>4. /\ q \in Scans /\ q.pos = n /\ q.start = n /\ q.work = s.work /\ q.frames = s.frames
        /\ q.parser = r /\ q.marker = s.marker
    <3> HIDE DEF n, r
    <3> QED
      BY <1>1, <2>1, <2>2, <2>3 DEF Scans
  <2>5. InScan(q)
    <3>1. q.pos <= Len(q.work) /\ q.start <= q.pos /\ q.marker = -1
      BY <1>1, <2>1, <2>4 DEF Found
    <3> QED
      BY <3>1 DEF InScan
  <2>6. OpenAt(r, frames, w, g, base + n, base + n) /\ base + n \in Heads(w)
        /\ Traced(frames, w, g, (base + n) - 3)
    <3> DEFINE a == base + n
    <3>1. /\ (base + s.pos) + 8 = a /\ a - 8 = base + s.pos /\ a \in Nat /\ a >= 8
          /\ Len(w) \in Nat /\ a - a = 0
      <4> DEFINE m == s.pos
      <4>1. m \in Nat /\ n = m + 8
        BY <1>1
      <4> HIDE DEF m
      <4>2. (base + m) + 8 = a /\ a - 8 = base + m /\ a \in Nat /\ a >= 8 /\ a - a = 0
        BY <4>1
      <4> QED
        BY <4>2, LenProperties DEF m
    <3>2. a <= Len(w) /\ MarkerIn(w, base + s.pos, "C0")
      <4>1. (base + s.pos) + 8 <= Len(w) /\ MarkerIn(w, base + s.pos, "C0")
        <5> DEFINE k == 8
        <5>1. /\ k \in Nat /\ k >= 5 /\ s.pos + k <= Len(s.work)
              /\ s.work[s.pos + 4].v = "C0" /\ s.work[s.pos + 5].v = "header"
          BY <1>1, <1>2, <1>4
        <5>3. SubSeq(s.work, s.pos + 1, s.pos + 3) = <<Zero, Ones, Ones>> /\ WorkAgrees(s, base, w, g)
          BY ONLY Found(s), ScanInv(s, before, base, stop, w, g) DEF ScanInv, Found
        <5> HIDE DEF k
        <5>2. (base + s.pos) + k <= Len(w) /\ MarkerIn(w, base + s.pos, "C0")
          BY ONLY <1>1, <5>1, <5>3, MarkerFound, base \in Nat, w \in Seq(Byte)
        <5> QED
          BY <5>2 DEF k
      <4> QED
        BY <3>1, <4>1
    <3>3. a \in Heads(w) /\ a \in Begun(g)
      <4>1. a \in Heads(w)
        BY <3>1, <3>2, Widths DEF Heads
      <4> QED
        BY <1>1, <3>1, <4>1 DEF Begun
    <3>4. Traced(frames, w, g, a) /\ Traced(frames, w, g, a - 3)
      <4> DEFINE m == s.pos
      <4>1. m \in Nat /\ Limit(m) <= m + 5 /\ Limit(m) \in Int
        BY <1>1, LimitGrows
      <4> HIDE DEF m
      <4>2. /\ base + Limit(m) <= (base + (m + 8)) - 3 /\ base + Limit(m) \in Int
            /\ (base + (m + 8)) - 3 \in Int /\ base + (m + 8) \in Int
            /\ (base + (m + 8)) - 3 <= base + (m + 8)
        BY <4>1
      <4>3. Traced(frames, w, g, base + Limit(m))
        BY DEF ScanInv, m
      <4>4. Traced(frames, w, g, (base + (m + 8)) - 3)
        BY ONLY <4>2, <4>3, TracedLater, w \in Seq(Byte)
      <4>5. Traced(frames, w, g, base + (m + 8))
        BY ONLY <4>2, <4>4, TracedLater, w \in Seq(Byte)
      <4> QED
        BY <4>4, <4>5 DEF m
    <3>5. r.offset = Least(a - a, VideoBufferCapacity)
      BY <2>3, <3>1, Sizes DEF Least
    <3>6. \A i \in 1 .. r.offset : Agrees(r.video[r.index][i], w[a + i], a + i \in g.marred)
      BY <2>3
    <3> HIDE DEF r, frames
    <3>7. a <= a
      BY <3>1
    <3> QED
      BY <3>3, <3>4, <3>5, <3>6, <3>7 DEF OpenAt
  <2>7. OpenSpan(q.parser, frames, w, g, base + q.start)
    BY <2>4, <2>6 DEF OpenSpan
  <2>9. Fresh(q, frames, base, w, g)
    BY <2>3, <2>4, <2>6 DEF Fresh
  <2> HIDE DEF q, r, n
  <2>8. q.parser.memory = s.parser.memory /\ q.parser.carryLen = s.parser.carryLen /\ s.pos <= q.pos
    BY <2>1, <2>3, <2>4
  <2> QED
    BY <2>4, <2>5, <2>7, <2>8, <2>9, ScanMoves DEF q
<1> QED
  BY <1>3, <1>4

LEMMA ClosedScan ==
  ASSUME NEW s, NEW before, NEW base \in Nat, NEW stop, NEW w \in Seq(Byte), NEW g,
         ScanInv(s, before, base, stop, w, g), Found(s), s.work[s.pos + 4].v = "C1",
         NEW c \in Scans, c.work = s.work, c.pos = s.pos, c.start = s.start, c.marker = s.marker,
         c.parser.memory = s.parser.memory, c.parser.carryLen = s.parser.carryLen,
         Traced(before \o c.frames, w, g, base + Limit(s.pos + 9))
  PROVE  ScanInv(AfterHeader([c EXCEPT !.parser.state = "Idle"], "C1"), before, base, stop, w, g)
<1> DEFINE q == AfterHeader([c EXCEPT !.parser.state = "Idle"], "C1")
           r == [c.parser EXCEPT !.state = "Idle"]
           n == s.pos + 9
<1>1. /\ s.pos \in Nat /\ s.start \in Nat /\ s.work \in Seq(Kept) /\ Len(s.work) \in Nat
      /\ s.pos + 9 <= Len(s.work) /\ s.start <= s.pos /\ s.marker = -1
  BY FoundThere, LenProperties DEF ScanInv, InScan, Scans, Found
<1>2. n \in Nat /\ c.pos + Width("C1") = n /\ n <= Len(s.work) /\ s.start <= n
  BY <1>1, Widths
<1>3. q = [c EXCEPT !.pos = n, !.parser = r]
  BY <1>2 DEF AfterHeader, Scans, Parsers
<1>4. r \in Parsers /\ r.state = "Idle" /\ r.memory = c.parser.memory /\ r.carryLen = c.parser.carryLen
  BY DEF Scans, Parsers
<1> HIDE DEF q, r
<1>5. /\ q \in Scans /\ q.pos = n /\ q.parser = r /\ q.work = s.work /\ q.start = s.start
      /\ q.marker = s.marker /\ q.frames = c.frames
  <2> HIDE DEF n
  <2> QED
    BY <1>2, <1>3, <1>4 DEF Scans
<1>6. InScan(q)
  <2>1. q.pos <= Len(q.work) /\ q.start <= q.pos /\ q.marker = -1
    BY <1>1, <1>2, <1>5
  <2> QED
    BY <2>1 DEF InScan
<1>7. MemoryShape(q.parser) /\ WorkAgrees(q, base, w, g)
  BY <1>4, <1>5 DEF ScanInv, MemoryShape, WorkAgrees
<1>8. OpenSpan(q.parser, before \o q.frames, w, g, base + q.start)
  BY <1>4, <1>5 DEF OpenSpan
<1>9. Traced(before \o q.frames, w, g, base + Limit(q.pos))
  BY <1>5
<1>10. Fresh(q, before \o q.frames, base, w, g)
  BY <1>4, <1>5 DEF Fresh, InVideo
<1> QED
  BY <1>5, <1>6, <1>7, <1>8, <1>9, <1>10 DEF ScanInv, q

LEMMA AppendBehind ==
  ASSUME NEW S, NEW s \in Seq(S), NEW t \in Seq(S), NEW x \in S
  PROVE  Append(t, x) \in Seq(S) /\ s \o Append(t, x) = Append(s \o t, x)
<1>1. <<x>> \in Seq(S) /\ s \o t \in Seq(S)
  BY ConcatProperties
<1>2. Append(t, x) = t \o <<x>> /\ Append(s \o t, x) = (s \o t) \o <<x>>
  BY <1>1, AppendIsConcat
<1>3. (s \o t) \o <<x>> = s \o (t \o <<x>>)
  BY <1>1, ConcatAssociative
<1>4. t \o <<x>> \in Seq(S)
  BY <1>1, ConcatProperties
<1> QED
  BY <1>2, <1>3, <1>4

\* The frames shown, when the span that is closed is nearly a frame.
LEMMA CompletionScan ==
  ASSUME NEW before \in Seq(Seq(Kept)), NEW base \in Nat, NEW stop, NEW w \in Seq(Byte), NEW g, NEW pos \in Nat,
         NEW t \in Scans, NEW a, OpenAt(t.parser, before \o t.frames, w, g, base + pos, a),
         (base + pos) + 9 <= Len(w), MarkerIn(w, base + pos, "C1")
  PROVE  LET c == CheckFrameCompletion(t) IN
         /\ c \in Scans /\ c.work = t.work /\ c.pos = t.pos /\ c.start = t.start /\ c.marker = t.marker
         /\ c.parser.memory = t.parser.memory /\ c.parser.carryLen = t.parser.carryLen
         /\ Traced(before \o c.frames, w, g, base + Limit(pos + 9))
<1> DEFINE p == t.parser
           c == CheckFrameCompletion(t)
           frames == before \o t.frames
           e == base + pos
           b == base + Limit(pos + 9)
           frame == SubSeq(p.video[p.index], 1, VideoFrameBytes)
<1>1. /\ a \in Begun(g) /\ a <= e /\ Traced(frames, w, g, a)
      /\ p.offset = Least(e - a, VideoBufferCapacity)
      /\ \A i \in 1 .. p.offset : Agrees(p.video[p.index][i], w[a + i], a + i \in g.marred)
  BY DEF OpenAt
<1>2. a \in Int /\ e \in Nat /\ b \in Int /\ a < b /\ e < b
  <2>1. a \in Int
    BY <1>1 DEF Begun
  <2>2. Limit(pos + 9) \in Int /\ pos < Limit(pos + 9)
    <3>1. pos + 9 \in Nat
      OBVIOUS
    <3> QED
      BY <3>1, LimitGrows
  <2> QED
    BY <1>1, <2>1, <2>2
<1>3. Traced(frames, w, g, b)
  <2>1. a <= b
    BY <1>2
  <2> HIDE DEF b, frames
  <2> QED
    BY <1>1, <1>2, <2>1, TracedLater
<1>4. /\ p \in Parsers /\ t.frames \in Seq(Seq(Kept)) /\ p.index \in {0, 1}
      /\ p.offset \in 0 .. VideoBufferCapacity
      /\ p.video[p.index] \in [1 .. VideoBufferCapacity -> Kept]
  BY DEF Scans, Parsers
<1> DEFINE unlike == \/ ~p.armed
                     \/ p.offset < VideoFrameBytes - FrameSizeTolerance
                     \/ p.offset > VideoFrameBytes + FrameSizeTolerance
<1>5. CASE unlike
  <2>1. c = t
    BY <1>5 DEF CheckFrameCompletion
  <2> QED
    BY <1>3, <2>1
<1>6. CASE ~unlike
  <2> DEFINE r == [p EXCEPT !.offset = 0, !.index = 1 - @]
             all == Append(t.frames, frame)
  <2>1. c = [t EXCEPT !.frames = all, !.parser = r]
    BY <1>6 DEF CheckFrameCompletion, Scans, Parsers
  <2>2. p.offset = e - a /\ e - a \in VideoFrameBytes - FrameSizeTolerance .. VideoFrameBytes + FrameSizeTolerance
    <3> DEFINE o == p.offset
    <3>1. /\ o \in Nat /\ ~(o < VideoFrameBytes - FrameSizeTolerance)
          /\ ~(o > VideoFrameBytes + FrameSizeTolerance) /\ o = Least(e - a, VideoBufferCapacity)
      BY <1>1, <1>4, <1>6, Sizes
    <3> HIDE DEF o, e
    <3>2. o = e - a
      BY <1>2, <3>1, Sizes DEF Least
    <3> QED
      BY <1>2, <3>1, <3>2, Sizes DEF o
  <2>3. /\ frame \in Seq(Kept) /\ Len(frame) = VideoFrameBytes
        /\ \A i \in 1 .. VideoFrameBytes : frame[i] = p.video[p.index][i]
    <3> DEFINE v == p.video[p.index]
               n == VideoFrameBytes
    <3>1. n \in Nat /\ n >= 1 /\ n - 1 + 1 = n /\ \A i \in 1 .. n : v[i] \in Kept /\ 1 + i - 1 = i
      <4>1. n \in Nat /\ n >= 1 /\ n <= VideoBufferCapacity /\ VideoBufferCapacity \in Nat
        BY Sizes
      <4> HIDE DEF n
      <4> QED
        BY <1>4, <4>1
    <3> HIDE DEF v, n
    <3>2. /\ SubSeq(v, 1, n) \in Seq(Kept)
          /\ Len(SubSeq(v, 1, n)) = IF 1 <= n THEN n - 1 + 1 ELSE 0
          /\ \A i \in 1 .. n - 1 + 1 : SubSeq(v, 1, n)[i] = v[1 + i - 1]
      BY <3>1, SubSeqProperties
    <3>3. /\ Len(SubSeq(v, 1, n)) = n
          /\ \A i \in 1 .. n : SubSeq(v, 1, n)[i] = v[i]
      BY ONLY <3>1, <3>2
    <3> QED
      BY <3>2, <3>3 DEF v, n
  <2> HIDE DEF frame
  <2>4. Showing(frame, a, e, w, g)
    <3>1. ASSUME NEW i \in 1 .. VideoFrameBytes, i <= e - a
          PROVE  Agrees(frame[i], w[a + i], a + i \in g.marred)
      <4>1. i \in 1 .. p.offset
        <5> DEFINE o == p.offset
        <5>1. o \in Nat /\ o = e - a
          BY <1>4, <2>2, Sizes
        <5> HIDE DEF o, e
        <5>2. i \in 1 .. o
          BY <3>1, <5>1, Sizes
        <5> QED
          BY <5>2 DEF o
      <4> QED
        BY <1>1, <2>3, <4>1
    <3> QED
      BY <2>3, <3>1 DEF Showing
  <2>5. Plausible(w, a, e) /\ e \in 0 .. Len(w)
    <3>1. e + 9 <= Len(w) /\ Len(w) \in Nat
      BY LenProperties
    <3>2. e \in 0 .. Len(w)
      BY <1>2, <3>1
    <3> QED
      BY <1>1, <2>2, <3>1, <3>2, Widths DEF Plausible
  <2>6. r \in Parsers /\ r.memory = p.memory /\ r.carryLen = p.carryLen
    <3>1. 1 - p.index \in {0, 1} /\ 0 \in 0 .. VideoBufferCapacity
      BY <1>4, Sizes
    <3> QED
      BY <1>4, <3>1 DEF Parsers
  <2>7. all \in Seq(Seq(Kept)) /\ before \o all = Append(frames, frame) /\ frames \in Seq(Seq(Kept))
    <3> DEFINE had == t.frames
    <3>1. had \in Seq(Seq(Kept)) /\ frame \in Seq(Kept)
      BY <1>4, <2>3
    <3> HIDE DEF had
    <3>2. /\ Append(had, frame) \in Seq(Seq(Kept))
          /\ before \o Append(had, frame) = Append(before \o had, frame)
          /\ before \o had \in Seq(Seq(Kept))
      BY ONLY <3>1, AppendBehind, ConcatProperties, before \in Seq(Seq(Kept))
    <3> QED
      BY <3>2 DEF had
  <2> HIDE DEF r, all, frames, e, b
  <2>8. Traced(before \o all, w, g, b)
    <3>0. a <= b
      BY <1>2
    <3>1. Traced(Append(frames, frame), w, g, b)
      BY <1>1, <1>2, <3>0, <2>3, <2>4, <2>5, <2>7, TracedAppend
    <3> QED
      BY <2>7, <3>1
  <2>9. /\ c \in Scans /\ c.frames = all /\ c.parser = r /\ c.work = t.work /\ c.pos = t.pos
        /\ c.start = t.start /\ c.marker = t.marker
    <3> HIDE DEF c
    <3> QED
      BY <2>1, <2>6, <2>7 DEF Scans
  <2> HIDE DEF c
  <2> QED
    BY <2>6, <2>8, <2>9 DEF c, b
<1> QED
  BY <1>5, <1>6

LEMMA CloseFrameScan ==
  ASSUME NEW s, NEW before \in Seq(Seq(Kept)), NEW base \in Nat, NEW stop, NEW w \in Seq(Byte), NEW g,
         ScanInv(s, before, base, stop, w, g), Found(s), InVideo(s), s.work[s.pos + 4].v = "C1"
  PROVE  ScanInv(CloseFrame(s), before, base, stop, w, g)
<1> DEFINE f == FlushVideo(s, s.pos)
           t == [f EXCEPT !.parser.armed = TRUE]
           c == IF HeaderAt(s).v = "header" THEN CheckFrameCompletion(t) ELSE f
<1>1. CloseFrame(s) = AfterHeader([c EXCEPT !.parser.state = "Idle"], "C1")
  BY DEF CloseFrame
<1>2. /\ s \in Scans /\ s.pos \in Nat /\ s.start <= s.pos /\ s.pos <= Len(s.work)
      /\ WorkAgrees(s, base, w, g) /\ s.pos + 5 <= Len(s.work) /\ s.pos + 9 <= Len(s.work)
  <2>1. s.pos \in Nat /\ Len(s.work) \in Nat
    BY LenProperties DEF ScanInv, Scans
  <2>2. s.pos + 5 <= Len(s.work) /\ s.pos + 9 <= Len(s.work)
    BY FoundThere DEF ScanInv
  <2> QED
    BY <2>1, <2>2 DEF ScanInv, InScan
<1>3. f \in Scans /\ SameButVideo(s, f)
  BY <1>2, FlushVideoIs
<1>4. PICK a : OpenAt(s.parser, before \o s.frames, w, g, base + s.start, a)
  BY DEF InVideo, ScanInv, OpenSpan
<1>5. OpenAt(f.parser, before \o s.frames, w, g, base + s.pos, a)
  BY <1>2, <1>4, FlushOpen
<1> HIDE DEF f
<1>6. /\ t \in Scans /\ t.work = s.work /\ t.pos = s.pos /\ t.start = s.start /\ t.marker = s.marker
      /\ t.frames = s.frames /\ t.parser.memory = s.parser.memory
      /\ t.parser.carryLen = s.parser.carryLen
      /\ t.parser.offset = f.parser.offset /\ t.parser.video = f.parser.video
      /\ t.parser.index = f.parser.index
  <2> DEFINE r == [f.parser EXCEPT !.armed = TRUE]
  <2>1. t = [f EXCEPT !.parser = r]
    BY <1>3 DEF Scans, Parsers
  <2>2. /\ r \in Parsers /\ r.memory = f.parser.memory /\ r.carryLen = f.parser.carryLen
        /\ r.offset = f.parser.offset /\ r.video = f.parser.video /\ r.index = f.parser.index
    BY <1>3 DEF Scans, Parsers
  <2> HIDE DEF r, t
  <2>3. /\ t \in Scans /\ t.parser = r /\ t.work = f.work /\ t.pos = f.pos /\ t.start = f.start
        /\ t.marker = f.marker /\ t.frames = f.frames
    BY <1>3, <2>1, <2>2 DEF Scans
  <2> QED
    BY <1>3, <2>2, <2>3 DEF SameButVideo
<1> HIDE DEF t
<1>7. /\ c \in Scans /\ c.work = s.work /\ c.pos = s.pos /\ c.start = s.start /\ c.marker = s.marker
      /\ c.parser.memory = s.parser.memory /\ c.parser.carryLen = s.parser.carryLen
      /\ Traced(before \o c.frames, w, g, base + Limit(s.pos + 9))
  <2>1. CASE HeaderAt(s).v = "header"
    <3>1. s.work[s.pos + 5].v = "header"
      BY <1>2, <2>1, HeaderIs
    <3>2. (base + s.pos) + 9 <= Len(w) /\ MarkerIn(w, base + s.pos, "C1")
      <4> DEFINE k == 9
      <4>1. /\ k \in Nat /\ k >= 5 /\ s.pos + k <= Len(s.work)
            /\ SubSeq(s.work, s.pos + 1, s.pos + 3) = <<Zero, Ones, Ones>>
            /\ s.work[s.pos + 4].v = "C1"
        BY <1>2 DEF Found
      <4> HIDE DEF k
      <4>2. (base + s.pos) + k <= Len(w) /\ MarkerIn(w, base + s.pos, "C1")
        BY <1>2, <3>1, <4>1, MarkerFound
      <4> QED
        BY <4>2 DEF k
    <3>3. OpenAt(t.parser, before \o t.frames, w, g, base + s.pos, a)
      BY <1>5, <1>6 DEF OpenAt
    <3> DEFINE d == CheckFrameCompletion(t)
    <3>4. /\ d \in Scans /\ d.work = t.work /\ d.pos = t.pos /\ d.start = t.start
          /\ d.marker = t.marker /\ d.parser.memory = t.parser.memory
          /\ d.parser.carryLen = t.parser.carryLen
          /\ Traced(before \o d.frames, w, g, base + Limit(s.pos + 9))
      <4> DEFINE m == s.pos
      <4>1. /\ m \in Nat /\ t \in Scans /\ OpenAt(t.parser, before \o t.frames, w, g, base + m, a)
            /\ (base + m) + 9 <= Len(w) /\ MarkerIn(w, base + m, "C1")
        BY <1>2, <1>6, <3>2, <3>3 DEF Scans
      <4> HIDE DEF m
      <4>2. d \in Scans /\ d.work = t.work
        BY ONLY <4>1, CompletionScan, before \in Seq(Seq(Kept)), base \in Nat, w \in Seq(Byte), ZenonT(30)
      <4>3. d.pos = t.pos /\ d.start = t.start
        BY ONLY <4>1, CompletionScan, before \in Seq(Seq(Kept)), base \in Nat, w \in Seq(Byte), ZenonT(30)
      <4>4. d.marker = t.marker
        BY ONLY <4>1, CompletionScan, before \in Seq(Seq(Kept)), base \in Nat, w \in Seq(Byte), ZenonT(30)
      <4>5. d.parser.memory = t.parser.memory
        BY ONLY <4>1, CompletionScan, before \in Seq(Seq(Kept)), base \in Nat, w \in Seq(Byte), ZenonT(30)
      <4>6. d.parser.carryLen = t.parser.carryLen
        BY ONLY <4>1, CompletionScan, before \in Seq(Seq(Kept)), base \in Nat, w \in Seq(Byte), ZenonT(30)
      <4>7. Traced(before \o d.frames, w, g, base + Limit(m + 9))
        BY ONLY <4>1, CompletionScan, before \in Seq(Seq(Kept)), base \in Nat, w \in Seq(Byte), ZenonT(30)
      <4> QED
        BY <4>2, <4>3, <4>4, <4>5, <4>6, <4>7 DEF m
    <3> HIDE DEF d
    <3>5. c = d
      BY <2>1 DEF d
    <3> HIDE DEF c
    <3> QED
      BY <1>6, <3>4, <3>5
  <2>2. CASE ~(HeaderAt(s).v = "header")
    <3>1. c = f
      BY <2>2
    <3>2. Traced(before \o s.frames, w, g, base + Limit(s.pos + 9))
      <4> DEFINE m == s.pos
      <4>1. Traced(before \o s.frames, w, g, base + Limit(m))
        BY DEF ScanInv
      <4>2. m \in Nat /\ m + 9 \in Nat /\ m <= m + 9
        BY <1>2
      <4> HIDE DEF m
      <4>3. Limit(m) <= Limit(m + 9) /\ Limit(m) \in Int /\ Limit(m + 9) \in Int
        BY <4>2, LimitGrows
      <4>4. /\ base + Limit(m) <= base + Limit(m + 9) /\ base + Limit(m) \in Int
            /\ base + Limit(m + 9) \in Int
        BY <4>3
      <4>5. Traced(before \o s.frames, w, g, base + Limit(m + 9))
        BY <4>1, <4>4, TracedLater
      <4> QED
        BY <4>5 DEF m
    <3> HIDE DEF c
    <3> QED
      BY <1>3, <3>1, <3>2 DEF SameButVideo
  <2> QED
    BY <2>1, <2>2
<1> HIDE DEF c
<1>8. ScanInv(AfterHeader([c EXCEPT !.parser.state = "Idle"], "C1"), before, base, stop, w, g)
  BY <1>7, ClosedScan
<1> QED
  BY <1>1, <1>8

LEMMA OpenPacketScan ==
  ASSUME NEW s, NEW before, NEW base \in Nat, NEW stop, NEW w \in Seq(Byte), NEW g,
         ScanInv(s, before, base, stop, w, g), Found(s), s.work[s.pos + 4].v = "58"
  PROVE  ScanInv(OpenPacket(s), before, base, stop, w, g)
<1> DEFINE f == FlushIfVideo(s, s.pos)
           r == [f.parser EXCEPT !.state = "AudioData", !.audio = << >>,
                                 !.remaining = HeaderAt(s).n]
           n == s.pos + 8
           q == OpenPacket(s)
<1>1. /\ s \in Scans /\ s.pos \in Nat /\ s.start \in Nat /\ s.start <= s.pos /\ s.pos <= Len(s.work)
      /\ WorkAgrees(s, base, w, g) /\ s.pos + 5 <= Len(s.work) /\ s.pos + 8 <= Len(s.work) /\ Len(s.work) \in Nat
      /\ s.marker = -1 /\ s.pos < Len(s.work)
  <2>1. s.pos \in Nat /\ s.start \in Nat /\ Len(s.work) \in Nat
    BY LenProperties DEF ScanInv, Scans
  <2>2. s.pos + 5 <= Len(s.work) /\ s.pos + 8 <= Len(s.work)
    BY FoundThere DEF ScanInv
  <2> QED
    BY <2>1, <2>2 DEF ScanInv, InScan, Found
<1>2. CASE HeaderAt(s).n > AudioMaxPacketBytes
  BY <1>1, <1>2, PassedScan DEF OpenPacket
<1>3. CASE ~(HeaderAt(s).n > AudioMaxPacketBytes)
  <2>1. OpenSpan(s.parser, before \o s.frames, w, g, base + s.start)
    BY DEF ScanInv
  <2>2. f \in Scans /\ SameButVideo(s, f)
    BY <1>1, <2>1, FlushIfVideoSpan
  <2> HIDE DEF f
  <2>3. n \in Nat /\ f.pos + Width("58") = n /\ s.pos <= n /\ n <= Len(s.work) /\ s.start <= n
    BY <1>1, <2>2, Widths DEF SameButVideo
  <2>4. q = [f EXCEPT !.pos = n, !.parser = r]
    BY <1>3, <2>2, <2>3 DEF OpenPacket, f, AfterHeader, Scans, Parsers
  <2>5. HeaderAt(s).n \in Nat
    <3>1. HeaderAt(s) \in Kept
      BY <1>1, HeaderIs
    <3> QED
      BY <3>1 DEF Kept, Byte, Garbage, Implausible
  <2>6. /\ r \in Parsers /\ r.state = "AudioData" /\ r.memory = f.parser.memory
        /\ r.carryLen = f.parser.carryLen
    <3> DEFINE h == HeaderAt(s).n
    <3> HIDE DEF h
    <3>1. << >> \in Seq(Kept) /\ h \in Nat
      BY <2>5, EmptySeq DEF h
    <3>2. r = [f.parser EXCEPT !.state = "AudioData", !.audio = << >>, !.remaining = h]
      BY DEF h
    <3> HIDE DEF r
    <3> QED
      BY <2>2, <3>1, <3>2 DEF Scans, Parsers
  <2> HIDE DEF q, r, n
  <2>7. /\ q \in Scans /\ q.pos = n /\ q.parser = r /\ q.work = f.work /\ q.start = f.start
        /\ q.marker = f.marker /\ q.frames = f.frames
    BY <2>2, <2>3, <2>4, <2>6 DEF Scans
  <2>8. /\ q.work = s.work /\ q.start = s.start /\ q.marker = -1 /\ q.frames = s.frames
        /\ q.parser.memory = s.parser.memory /\ q.parser.carryLen = s.parser.carryLen
    BY <1>1, <2>2, <2>6, <2>7 DEF SameButVideo
  <2>9. InScan(q)
    <3>1. q.pos <= Len(q.work) /\ q.start <= q.pos
      BY <2>3, <2>7, <2>8
    <3> QED
      BY <2>8, <3>1 DEF InScan
  <2>10. OpenSpan(q.parser, before \o s.frames, w, g, base + q.start)
    BY <2>6, <2>7 DEF OpenSpan
  <2>11. s.pos <= q.pos
    BY <2>3, <2>7
  <2>12. Fresh(q, before \o s.frames, base, w, g)
    BY <2>6, <2>7 DEF Fresh, InVideo
  <2> QED
    BY <2>7, <2>8, <2>9, <2>10, <2>11, <2>12, ScanMoves DEF q
<1> QED
  BY <1>2, <1>3

LEMMA ProcessMarkerScan ==
  ASSUME NEW s, NEW before \in Seq(Seq(Kept)), NEW base \in Nat, NEW stop, NEW w \in Seq(Byte), NEW g,
         ScanInv(s, before, base, stop, w, g), s.marker = -1, Scanning(s),
         SubSeq(s.work, s.pos + 1, s.pos + 3) = <<Zero, Ones, Ones>>
  PROVE  ScanInv(ProcessMarker(s), before, base, stop, w, g)
<1> DEFINE type == At(s, s.pos + MarkerBytes - 1).v
           complete == Len(s.work) - s.pos >= Width(type)
           candidate == type \in {"C0", "58"} \/ (type = "C1" /\ InVideo(s))
<1>1. /\ s \in Scans /\ s.pos \in Nat /\ Len(s.work) \in Nat /\ s.pos + 4 <= Len(s.work)
      /\ s.parser.state # "AudioData" /\ s.pos < Len(s.work)
  <2>1. s \in Scans /\ s.pos \in Nat /\ Len(s.work) \in Nat
    BY LenProperties DEF ScanInv, Scans
  <2> QED
    BY <2>1 DEF Scanning, MarkerBytes
<1>2. complete => Found(s) /\ type = s.work[s.pos + 4].v
  <2> SUFFICES ASSUME complete PROVE Found(s) /\ type = s.work[s.pos + 4].v
    OBVIOUS
  <2>1. type = s.work[s.pos + 4].v
    <3>1. (s.pos + MarkerBytes - 1) + 1 = s.pos + 4
      BY <1>1 DEF MarkerBytes
    <3> QED
      BY <3>1 DEF At
  <2>2. s.pos + Width(s.work[s.pos + 4].v) <= Len(s.work)
    <3> DEFINE n == Width(type)
    <3>1. n \in {8, 9} /\ Len(s.work) - s.pos >= n
      BY Widths
    <3> HIDE DEF n
    <3> DEFINE m == s.pos
               l == Len(s.work)
    <3>2. m \in Nat /\ l \in Nat /\ n \in {8, 9} /\ l - m >= n
      BY <1>1, <3>1
    <3> HIDE DEF m, l
    <3>3. m + n <= l
      BY ONLY <3>2
    <3> QED
      BY <2>1, <3>3 DEF n, m, l
  <2> QED
    BY <1>1, <2>1, <2>2 DEF Found
<1>3. ProcessMarker(s) =
        CASE ~candidate -> Passed(s)
          [] candidate /\ ~complete -> [s EXCEPT !.marker = s.pos]
          [] complete /\ type = "C0" -> OpenFrame(s)
          [] complete /\ type = "C1" /\ InVideo(s) -> CloseFrame(s)
          [] complete /\ type = "58" -> OpenPacket(s)
  BY DEF ProcessMarker
<1>4. ~complete => s.pos + 4 <= Len(s.work) /\ Len(s.work) <= s.pos + 8
  <2> DEFINE n == Width(type)
  <2>1. n \in {8, 9}
    BY Widths
  <2> HIDE DEF n
  <2> DEFINE m == s.pos
             l == Len(s.work)
  <2>2. m \in Nat /\ l \in Nat /\ n \in {8, 9}
    BY <1>1, <2>1
  <2> HIDE DEF m, l
  <2>3. ~(l - m >= n) => l <= m + 8
    BY ONLY <2>2
  <2> QED
    BY <1>1, <2>3 DEF n, m, l
<1> HIDE DEF type, complete
<1>5. CASE ~candidate
  <2>1. type # "C0" /\ type # "58" /\ ~(type = "C1" /\ InVideo(s))
    BY <1>5
  <2>2. ProcessMarker(s) = Passed(s)
    BY <1>3, <1>5, <2>1
  <2> QED
    BY <1>1, <2>2, PassedScan
<1>6. CASE candidate /\ ~complete
  <2> DEFINE q == [s EXCEPT !.marker = s.pos]
  <2>1. ProcessMarker(s) = q
    BY <1>3, <1>6
  <2>2. /\ q \in Scans /\ q.work = s.work /\ q.pos = s.pos /\ q.start = s.start /\ q.marker = s.pos
        /\ q.frames = s.frames /\ q.parser = s.parser
    <3> DEFINE m == s.pos
    <3>1. m \in Int
      BY <1>1
    <3> HIDE DEF m
    <3>2. q = [s EXCEPT !.marker = m]
      BY DEF m
    <3> HIDE DEF q
    <3> QED
      BY <1>1, <3>1, <3>2 DEF Scans, m
  <2> HIDE DEF q
  <2>3. InScan(q)
    <3>1. s.pos <= Len(s.work) /\ s.start <= s.pos
      BY DEF ScanInv, InScan
    <3> QED
      BY <1>1, <1>4, <1>6, <2>2, <3>1 DEF InScan
  <2>4. OpenSpan(q.parser, before \o s.frames, w, g, base + q.start)
    BY <2>2 DEF ScanInv
  <2>5. s.pos <= q.pos
    BY <1>1, <2>2
  <2>6. Fresh(q, before \o s.frames, base, w, g)
    BY <2>2 DEF ScanInv, Fresh, InVideo
  <2> QED
    BY <2>1, <2>2, <2>3, <2>4, <2>5, <2>6, ScanMoves
<1>7. CASE complete /\ type = "C0"
  <2>1. ProcessMarker(s) = OpenFrame(s)
    BY <1>3, <1>7
  <2> QED
    BY <1>2, <1>7, <2>1, OpenFrameScan
<1>8. CASE complete /\ type = "C1" /\ InVideo(s)
  <2>1. ProcessMarker(s) = CloseFrame(s)
    BY <1>3, <1>8
  <2> QED
    BY <1>2, <1>8, <2>1, CloseFrameScan
<1>9. CASE complete /\ type = "58"
  <2>1. ProcessMarker(s) = OpenPacket(s)
    BY <1>3, <1>9
  <2> QED
    BY <1>2, <1>9, <2>1, OpenPacketScan
<1> QED
  BY <1>5, <1>6, <1>7, <1>8, <1>9

LEMMA ScanStepScan ==
  ASSUME NEW s, NEW before \in Seq(Seq(Kept)), NEW base \in Nat, NEW stop, NEW w \in Seq(Byte), NEW g,
         ScanInv(s, before, base, stop, w, g), Scanning(s)
  PROVE  ScanInv(ScanStep(s), before, base, stop, w, g)
<1>1. s.pos \in Nat /\ Len(s.work) \in Nat /\ s.marker \in Int
  BY LenProperties DEF ScanInv, Scans
<1>2. s.marker = -1 /\ s.pos < Len(s.work)
  <2>1. s.marker < 0 /\ s.pos + 4 <= Len(s.work)
    BY DEF Scanning, MarkerBytes
  <2>2. s.marker # -1 => s.marker = s.pos
    BY DEF ScanInv, InScan
  <2> QED
    BY <1>1, <2>1, <2>2
<1>3. CASE SubSeq(s.work, s.pos + 1, s.pos + 3) # <<Zero, Ones, Ones>>
  BY <1>2, <1>3, PassedScan DEF ScanStep
<1>4. CASE SubSeq(s.work, s.pos + 1, s.pos + 3) = <<Zero, Ones, Ones>>
  <2>1. ScanInv(ProcessMarker(s), before, base, stop, w, g)
    BY <1>2, <1>4, ProcessMarkerScan
  <2>2. ScanInv(ConsumeAudio(ProcessMarker(s)), before, base, stop, w, g)
    BY <2>1, ConsumeAudioScan
  <2> QED
    BY <1>4, <2>2 DEF ScanStep
<1> QED
  BY <1>3, <1>4

\* The scan after each step.
ScanRun(f, s, steps) ==
  f = [k \in 0 .. steps |->
        IF k = 0 THEN s ELSE LET t == f[k - 1] IN IF Scanning(t) THEN ScanStep(t) ELSE t]

LEMMA ScanRecursion ==
  ASSUME NEW s, NEW steps \in Nat
  PROVE  \E f : ScanRun(f, s, steps)
<1> DEFINE Step(t) == IF Scanning(t) THEN ScanStep(t) ELSE t
           Is(f, n) == f = [k \in 0 .. n |-> IF k = 0 THEN s ELSE Step(f[k - 1])]
           S == {n \in Nat : \E f : Is(f, n)}
<1>1. 0 \in S
  <2>1. Is([k \in 0 .. 0 |-> s], 0)
    OBVIOUS
  <2> QED
    BY <2>1
<1>2. \A n \in 0 .. steps - 1 : n \in S => n + 1 \in S
  <2> SUFFICES ASSUME NEW n \in Nat, NEW f, Is(f, n)
               PROVE  \E h : Is(h, n + 1)
    OBVIOUS
  <2> HIDE DEF Step
  <2> DEFINE h == [k \in 0 .. n + 1 |-> IF k = n + 1 THEN Step(f[n]) ELSE f[k]]
  <2>1. \A k \in 0 .. n + 1 : h[k] = IF k = 0 THEN s ELSE Step(h[k - 1])
    OBVIOUS
  <2>2. Is(h, n + 1)
    BY <2>1
  <2> QED
    BY <2>2
<1>3. steps \in S
  <2> HIDE DEF S
  <2> QED
    BY <1>1, <1>2, UpToBound
<1> QED
  BY <1>3 DEF ScanRun

LEMMA ScannedScan ==
  ASSUME NEW s, NEW before \in Seq(Seq(Kept)), NEW base \in Nat, NEW stop, NEW w \in Seq(Byte), NEW g,
         ScanInv(s, before, base, stop, w, g)
  PROVE  ScanInv(Scanned(s), before, base, stop, w, g)
<1> DEFINE steps == Len(s.work)
           after[k \in 0 .. steps] ==
             IF k = 0 THEN s ELSE LET t == after[k - 1] IN IF Scanning(t) THEN ScanStep(t) ELSE t
<1>1. steps \in Nat
  BY LenProperties DEF ScanInv, Scans
<1>2. Scanned(s) = after[steps]
  BY DEF Scanned
<1>3. ScanRun(after, s, steps)
  <2> HIDE DEF steps
  <2>1. \E f : ScanRun(f, s, steps)
    BY <1>1, ScanRecursion
  <2> QED
    BY ONLY <2>1 DEF ScanRun
<1> HIDE DEF steps, after
<1>4. /\ after[0] = s
      /\ \A k \in 0 .. steps - 1 :
           after[k + 1] = IF Scanning(after[k]) THEN ScanStep(after[k]) ELSE after[k]
  <2>1. 0 \in 0 .. steps
    BY <1>1
  <2>2. \A k \in 0 .. steps - 1 : k + 1 \in 0 .. steps /\ k + 1 # 0 /\ (k + 1) - 1 = k
    BY <1>1
  <2> QED
    BY <1>3, <2>1, <2>2 DEF ScanRun
<1> DEFINE T == {k \in Nat : ScanInv(after[k], before, base, stop, w, g)}
<1>5. 0 \in T
  BY <1>4
<1>6. \A k \in 0 .. steps - 1 : k \in T => k + 1 \in T
  <2> SUFFICES ASSUME NEW k \in 0 .. steps - 1, ScanInv(after[k], before, base, stop, w, g)
               PROVE  ScanInv(after[k + 1], before, base, stop, w, g)
    BY <1>1
  <2> QED
    BY <1>4, ScanStepScan
<1>7. steps \in T
  <2> HIDE DEF T
  <2>1. steps \in 0 .. steps
    BY <1>1
  <2> QED
    BY <1>1, <1>5, <1>6, <2>1, UpToBound
<1> QED
  BY <1>2, <1>7

\* What the whole buffer leaves behind.
LEMMA ReverseIs ==
  ASSUME NEW S, NEW t \in Seq(S)
  PROVE  /\ Reverse(t) \in Seq(S) /\ Len(Reverse(t)) = Len(t)
         /\ \A j \in 1 .. Len(t) : Reverse(t)[j] = t[(Len(t) - j) + 1]
<1> DEFINE n == Len(t)
<1>1. n \in Nat /\ \A j \in 1 .. n : t[j] \in S
  BY LenProperties
<1> HIDE DEF n
<1>2. \A j \in 1 .. n : (n - j) + 1 \in 1 .. n
  BY <1>1
<1>3. Reverse(t) = [j \in 1 .. n |-> t[(n - j) + 1]]
  BY DEF Reverse, n
<1>4. Reverse(t) \in Seq(S) /\ Len(Reverse(t)) = n
  BY <1>1, <1>2, <1>3
<1> QED
  BY <1>3, <1>4 DEF n

LEMMA SuffixIs ==
  ASSUME NEW R, NEW S, NEW m \in Seq(R), NEW t \in Seq(S), IsSuffix(m, t)
  PROVE  Len(m) <= Len(t) /\ \A i \in 1 .. Len(m) : t[(Len(t) - Len(m)) + i] = m[i]
<1> DEFINE k == Len(m)
           n == Len(t)
           a == Reverse(m)
           b == Reverse(t)
<1>1. k \in Nat /\ n \in Nat
  BY LenProperties
<1>2. /\ a \in Seq(R) /\ Len(a) = k /\ \A j \in 1 .. k : a[j] = m[(k - j) + 1]
      /\ b \in Seq(S) /\ Len(b) = n /\ \A j \in 1 .. n : b[j] = t[(n - j) + 1]
  BY ReverseIs
<1>3. k <= n /\ SubSeq(a, 1, k) = SubSeq(b, 1, k)
  BY <1>2 DEF IsSuffix, IsPrefix
<1> HIDE DEF k, n, a, b
<1>4. ASSUME NEW i \in 1 .. k
      PROVE  t[(n - k) + i] = m[i]
  <2> DEFINE j == (k - i) + 1
  <2>1. /\ j \in 1 .. k /\ j \in 1 .. n /\ (k - j) + 1 = i /\ (n - j) + 1 = (n - k) + i
        /\ (k - 1) + 1 = k /\ (1 + j) - 1 = j
    BY <1>1, <1>3
  <2> HIDE DEF j
  <2>2. SubSeq(a, 1, k)[j] = a[j] /\ SubSeq(b, 1, k)[j] = b[j]
    BY <1>1, <1>2, <1>3, <2>1
  <2>3. a[j] = m[(k - j) + 1] /\ b[j] = t[(n - j) + 1]
    BY <1>2, <2>1
  <2> QED
    BY <1>3, <2>1, <2>2, <2>3
<1> QED
  BY <1>3, <1>4 DEF k, n

\* The bytes a marker begins with.
LEMMA BeginningIs ==
  ASSUME NEW k \in 1 .. 3
  PROVE  /\ Beginning(k) \in Seq({Zero, Ones}) /\ Len(Beginning(k)) = k
         /\ \A i \in 1 .. k : Beginning(k)[i] = <<Zero, Ones, Ones>>[i]
<1> DEFINE z == <<Zero, Ones, Ones>>
<1>1. z \in Seq({Zero, Ones}) /\ Len(z) = 3
  OBVIOUS
<1>2. k \in Nat /\ k <= 3 /\ (k - 1) + 1 = k
  OBVIOUS
<1>3. \A i \in 1 .. k : z[i] \in {Zero, Ones} /\ (1 + i) - 1 = i
  OBVIOUS
<1>4. Beginning(k) = SubSeq(z, 1, k)
  BY DEF Beginning
<1> HIDE DEF z
<1> QED
  BY <1>1, <1>2, <1>3, <1>4 DEF z

\* A buffer that ends in the beginning of a marker.
LEMMA EndsWithIs ==
  ASSUME NEW s \in Scans, NEW k \in 1 .. 3, EndsWith(s, k)
  PROVE  /\ k <= Len(s.work)
         /\ \A i \in 1 .. k : s.work[(Len(s.work) - k) + i] = <<Zero, Ones, Ones>>[i]
<1> DEFINE m == Beginning(k)
           t == s.work
<1>1. t \in Seq(Kept)
  BY DEF Scans
<1>2. m \in Seq({Zero, Ones}) /\ Len(m) = k /\ \A i \in 1 .. k : m[i] = <<Zero, Ones, Ones>>[i]
  BY BeginningIs
<1>3. IsSuffix(m, t)
  BY DEF EndsWith
<1> HIDE DEF m, t
<1>4. Len(m) <= Len(t) /\ \A i \in 1 .. Len(m) : t[(Len(t) - Len(m)) + i] = m[i]
  BY ONLY <1>1, <1>2, <1>3, SuffixIs
<1> QED
  BY <1>2, <1>4 DEF t

\* A sequence holds the beginning of a marker where it holds its bytes.
LEMMA BeginningThere ==
  ASSUME NEW S, NEW t \in Seq(S), NEW c \in Nat, NEW k \in 1 .. 3, c + k <= Len(t),
         \A i \in 1 .. k : t[c + i] = <<Zero, Ones, Ones>>[i]
  PROVE  SubSeq(t, c + 1, c + k) = Beginning(k)
<1> DEFINE m == c + 1
           n == c + k
           b == SubSeq(t, m, n)
<1>1. /\ m \in Int /\ n \in Int /\ n - m + 1 = k /\ m <= n /\ k \in Nat
      /\ \A i \in 1 .. k : m + i - 1 = c + i
      /\ \A i \in m .. n : i - c \in 1 .. k /\ c + (i - c) = i
  OBVIOUS
<1>2. \A i \in 1 .. k : <<Zero, Ones, Ones>>[i] \in {Zero, Ones}
  OBVIOUS
<1>3. \A i \in m .. n : t[i] \in {Zero, Ones}
  <2> SUFFICES ASSUME NEW i \in m .. n PROVE t[i] \in {Zero, Ones}
    OBVIOUS
  <2>1. i - c \in 1 .. k /\ t[c + (i - c)] = t[i]
    BY <1>1
  <2> QED
    BY <1>2, <2>1
<1> HIDE DEF m, n
<1>4. /\ b \in Seq({Zero, Ones}) /\ Len(b) = IF m <= n THEN n - m + 1 ELSE 0
      /\ \A i \in 1 .. n - m + 1 : b[i] = t[m + i - 1]
  BY ONLY <1>1, <1>3, SubSeqProperties
<1>5. Len(b) = k /\ \A i \in 1 .. k : b[i] = <<Zero, Ones, Ones>>[i]
  BY <1>1, <1>4
<1> HIDE DEF b
<1>6. /\ Beginning(k) \in Seq({Zero, Ones}) /\ Len(Beginning(k)) = k
      /\ \A i \in 1 .. k : Beginning(k)[i] = <<Zero, Ones, Ones>>[i]
  BY BeginningIs
<1>7. Len(b) = Len(Beginning(k)) /\ \A i \in 1 .. Len(b) : b[i] = Beginning(k)[i]
  BY ONLY <1>5, <1>6
<1>8. b = Beginning(k)
  BY ONLY <1>4, <1>6, <1>7, SeqEqual
<1> QED
  BY <1>8 DEF b, m, n

\* Between two chunks, of which "n" bytes of the stream have come or were lost: the frames shown
\* ended in front of what is carried.
Behind(p, frames, w, g, n) ==
  /\ p \in Parsers /\ MemoryShape(p) /\ p.carryLen <= n
  /\ Traced(frames, w, g, (n - p.carryLen) + 5)

\* What is carried, and the frame being assembled, are the last that came.
Aligned(p, frames, w, g, n) ==
  /\ \A i \in 1 .. p.carryLen : Agrees(p.memory[i], w[(n - p.carryLen) + i], i <= 3)
  /\ OpenSpan(p, frames, w, g, n - p.carryLen)

LEMMA CarryEnds ==
  ASSUME NEW f \in Scans, NEW r \in Parsers, NEW frames, NEW base \in Nat, NEW end \in Nat,
         NEW l \in Nat, NEW pos \in Nat, NEW w \in Seq(Byte), NEW g,
         Traced(frames, w, g, base + Limit(pos)), pos - 4 <= end, MemoryShape(r),
         r.carryLen = l - end, r.carryLen \in Nat
  PROVE  Behind(r, frames, w, g, base + l)
<1> DEFINE c == r.carryLen
<1>1. c \in Nat /\ c = l - end
  OBVIOUS
<1> HIDE DEF c
<1>2. /\ c <= base + l /\ base + Limit(pos) \in Int /\ ((base + l) - c) + 5 \in Int
      /\ base + Limit(pos) <= ((base + l) - c) + 5
  BY ONLY <1>1, pos \in Nat, end \in Nat, l \in Nat, base \in Nat, pos - 4 <= end DEF Limit
<1>3. Traced(frames, w, g, ((base + l) - c) + 5)
  BY <1>2, TracedLater
<1> QED
  BY <1>2, <1>3 DEF Behind, c

\* A marker without its header is carried.
LEMMA CarriedMarker ==
  ASSUME NEW s, NEW before, NEW base \in Nat, NEW stop, NEW w \in Seq(Byte), NEW g,
         ScanInv(s, before, base, stop, w, g), s.marker >= 0
  PROVE  LET q == Carried(s)
             n == base + Len(s.work)
         IN /\ q.frames = s.frames /\ Behind(q.parser, before \o s.frames, w, g, n)
            /\ Aligned(q.parser, before \o s.frames, w, g, n)
<1> DEFINE q == Carried(s)
           all == before \o s.frames
           pos == s.pos
           work == s.work
           l == Len(work)
           tail == SubSeq(work, s.marker + 1, l)
           f == FlushIfVideo(s, s.marker)
           r == [f.parser EXCEPT !.memory = tail, !.carryLen = Len(tail)]
<1>1. /\ s \in Scans /\ pos \in Nat /\ s.start \in Nat /\ s.start <= pos /\ work \in Seq(Kept)
      /\ l \in Nat /\ s.marker = pos /\ pos + 4 <= l /\ l <= pos + 8 /\ WorkAgrees(s, base, w, g)
      /\ SubSeq(work, pos + 1, pos + 3) = <<Zero, Ones, Ones>>
  <2>1. s \in Scans /\ pos \in Nat /\ s.start \in Nat /\ work \in Seq(Kept) /\ l \in Nat
    BY LenProperties DEF ScanInv, Scans
  <2>2. s.marker # -1
    OBVIOUS
  <2> QED
    BY <2>1, <2>2 DEF ScanInv, InScan
<1>2. f \in Scans /\ SameButVideo(s, f) /\ OpenSpan(f.parser, all, w, g, base + pos)
  <2>1. OpenSpan(s.parser, all, w, g, base + s.start)
    BY DEF ScanInv
  <2>2. pos <= l
    BY <1>1
  <2> HIDE DEF all
  <2> QED
    BY <1>1, <2>1, <2>2, FlushIfVideoSpan
<1>3. q = [f EXCEPT !.parser = r]
  <2>1. s.marker \in Int /\ ~(s.marker < 0)
    BY <1>1
  <2>2. q = [f EXCEPT !.parser.memory = tail, !.parser.carryLen = Len(tail)]
    BY <2>1 DEF Carried
  <2> HIDE DEF f, q, tail
  <2> QED
    BY <1>2, <2>2 DEF Scans, Parsers
<1> HIDE DEF f, q
<1> DEFINE c == l - pos
<1>13. c \in 4 .. 8 /\ c \in Nat
  <2>1. pos \in Nat /\ l \in Nat /\ pos + 4 <= l /\ l <= pos + 8
    BY <1>1
  <2> HIDE DEF pos, l
  <2> QED
    BY ONLY <2>1
<1>4. tail \in Seq(Kept) /\ Len(tail) = c /\ \A i \in 1 .. c : tail[i] = work[pos + i]
  <2> DEFINE m == pos + 1
  <2>0. pos \in Nat /\ l \in Nat /\ pos + 4 <= l /\ s.marker = pos
    BY <1>1
  <2>2. \A i \in 1 .. l : work[i] \in Kept
    BY <1>1, LenProperties
  <2>4. tail = SubSeq(work, m, l)
    BY <1>1
  <2> HIDE DEF l, work, pos
  <2>1. /\ m \in Nat /\ m >= 1 /\ m <= l /\ m <= l + 1 /\ l \in Nat /\ l - m + 1 = l - pos
        /\ \A i \in 1 .. l - pos : m + i - 1 = pos + i
        /\ \A i \in m .. l : work[i] \in Kept
    BY ONLY <2>0, <2>2
  <2> HIDE DEF m, tail
  <2>3. /\ SubSeq(work, m, l) \in Seq(Kept)
        /\ Len(SubSeq(work, m, l)) = IF m <= l THEN l - m + 1 ELSE 0
        /\ \A i \in 1 .. l - m + 1 : SubSeq(work, m, l)[i] = work[m + i - 1]
    BY ONLY <2>1, SubSeqProperties
  <2> QED
    BY <2>1, <2>3, <2>4
<1> HIDE DEF tail, c
<1>5. /\ r \in Parsers /\ r.memory = tail /\ r.carryLen = c /\ r.state = f.parser.state
      /\ r.offset = f.parser.offset /\ r.video = f.parser.video /\ r.index = f.parser.index
  <2>1. f.parser \in Parsers
    BY <1>2 DEF Scans
  <2> DEFINE p == f.parser
  <2>2. r = [p EXCEPT !.memory = tail, !.carryLen = c]
    BY <1>4
  <2>3. p \in Parsers /\ tail \in Seq(Kept)
    BY <1>4, <2>1
  <2> HIDE DEF r, p
  <2>4. r \in Parsers
    <3>1. c \in 0 .. 8
      BY <1>13
    <3> QED
      BY ONLY <2>2, <2>3, <3>1 DEF Parsers
  <2>5. /\ r.memory = tail /\ r.carryLen = c /\ r.state = p.state
        /\ r.offset = p.offset /\ r.video = p.video /\ r.index = p.index
    BY ONLY <2>2, <2>3 DEF Parsers
  <2> QED
    BY <2>4, <2>5 DEF p
<1> HIDE DEF r
<1>6. q.parser = r /\ q.frames = s.frames
  BY <1>2, <1>3 DEF Scans, SameButVideo
<1>7. MemoryShape(r)
  <2>1. tail[1] = Zero /\ tail[2] = Ones /\ tail[3] = Ones
    <3>1. work[pos + 1] = Zero /\ work[pos + 2] = Ones /\ work[pos + 3] = Ones
      <4>1. pos + 3 <= Len(work)
        BY <1>1
      <4> HIDE DEF work, pos
      <4> QED
        BY ONLY <1>1, <4>1, TripleIs
    <3>2. 1 \in 1 .. c /\ 2 \in 1 .. c /\ 3 \in 1 .. c
      BY <1>13
    <3> QED
      BY <1>4, <3>1, <3>2
  <2>2. \A i \in 1 .. 3 : tail[i] = <<Zero, Ones, Ones>>[i]
    <3>1. \A i \in 1 .. 3 : i = 1 \/ i = 2 \/ i = 3
      OBVIOUS
    <3> QED
      BY <2>1, <3>1
  <2>3. \A i \in 1 .. 3 : Agrees(tail[i], <<Zero, Ones, Ones>>[i], TRUE)
    BY <2>2 DEF Agrees
  <2>4. r.carryLen <= Len(tail) /\ Len(tail) >= 3
    BY ONLY <1>4, <1>5, <1>13
  <2> QED
    BY <1>5, <2>3, <2>4 DEF MemoryShape
<1>8. Traced(all, w, g, base + Limit(pos))
  BY DEF ScanInv
<1>9. Behind(r, all, w, g, base + l)
  <2> HIDE DEF all, pos, l
  <2>1. pos \in Nat /\ l \in Nat /\ pos - 4 <= pos /\ r.carryLen = l - pos /\ r.carryLen \in Nat
    BY <1>1, <1>5, <1>13 DEF c, l, pos
  <2> QED
    BY <1>2, <1>5, <1>7, <1>8, <2>1, CarryEnds
<1>10. (base + l) - r.carryLen = base + pos
  BY <1>1, <1>5 DEF c
<1>11. \A i \in 1 .. r.carryLen : Agrees(r.memory[i], w[((base + l) - r.carryLen) + i], i <= 3)
  <2> HIDE DEF l, pos
  <2> SUFFICES ASSUME NEW i \in 1 .. r.carryLen
               PROVE  Agrees(r.memory[i], w[((base + l) - r.carryLen) + i], i <= 3)
    OBVIOUS
  <2>1. i \in 1 .. c
    BY <1>5
  <2> DEFINE j == pos + i
  <2>2. j \in 1 .. l /\ base + j = (base + pos) + i /\ (j <= 3 => i <= 3)
    <3>1. c = l - pos /\ pos \in Nat /\ l \in Nat
      BY <1>1 DEF c
    <3> QED
      BY ONLY <2>1, <3>1, base \in Nat
  <2>6. tail[i] = work[j]
    BY <1>4, <2>1
  <2> HIDE DEF j
  <2>3. Agrees(work[j], w[base + j], base + j \in g.marred /\ j <= 3 /\ j <= s.parser.carryLen)
    BY <1>1, <2>2 DEF WorkAgrees, l
  <2>4. work[j] = w[base + j] \/ (work[j] = Garbage /\ i <= 3)
    BY <2>2, <2>3 DEF Agrees
  <2>5. Agrees(tail[i], w[(base + pos) + i], i <= 3)
    BY <2>2, <2>4, <2>6 DEF Agrees
  <2> QED
    BY <1>5, <1>10, <2>5
<1>12. OpenSpan(r, all, w, g, (base + l) - r.carryLen)
  BY <1>2, <1>5, <1>10 DEF OpenSpan, OpenAt
<1> QED
  BY <1>6, <1>9, <1>11, <1>12 DEF Aligned, q

\* What is kept of _carry holds the beginning of a marker still.
LEMMA MemoryKept ==
  ASSUME NEW p \in Parsers, MemoryShape(p)
  PROVE  LET kept == SubSeq(p.memory, 1, 3) IN
         kept \in Seq(Kept) /\ Len(kept) = 3 /\ \A i \in 1 .. 3 : kept[i] = p.memory[i]
<1> DEFINE held == p.memory
<1>1. held \in Seq(Kept) /\ Len(held) \in Nat /\ Len(held) >= 3
  BY LenProperties DEF MemoryShape, Parsers
<1> HIDE DEF held
<1>2. \A i \in 1 .. 3 : held[i] \in Kept /\ 1 + i - 1 = i
  BY <1>1, LenProperties
<1> DEFINE n == 3
<1>3. n \in Int /\ 1 <= n /\ n - 1 + 1 = n /\ \A i \in 1 .. n : held[i] \in Kept /\ 1 + i - 1 = i
  BY <1>2
<1> HIDE DEF n
<1>4. /\ SubSeq(held, 1, n) \in Seq(Kept)
      /\ Len(SubSeq(held, 1, n)) = IF 1 <= n THEN n - 1 + 1 ELSE 0
      /\ \A i \in 1 .. n - 1 + 1 : SubSeq(held, 1, n)[i] = held[1 + i - 1]
  BY ONLY <1>3, SubSeqProperties
<1>5. /\ SubSeq(held, 1, n) \in Seq(Kept) /\ Len(SubSeq(held, 1, n)) = n
      /\ \A i \in 1 .. n : SubSeq(held, 1, n)[i] = held[i]
  BY ONLY <1>3, <1>4
<1> QED
  BY <1>5 DEF n, held

\* Only the length of the beginning of a marker is set: what _carry holds begins like one.
LEMMA CarriedPrefix ==
  ASSUME NEW s, NEW before, NEW base \in Nat, NEW stop, NEW w \in Seq(Byte), NEW g,
         ScanInv(s, before, base, stop, w, g), s.marker = -1, s.parser.state # "AudioData"
  PROVE  LET q == Carried(s)
             n == base + Len(s.work)
         IN /\ q.frames = s.frames /\ Behind(q.parser, before \o s.frames, w, g, n)
            /\ Aligned(q.parser, before \o s.frames, w, g, n)
<1> DEFINE q == Carried(s)
           all == before \o s.frames
           pos == s.pos
           start == s.start
           work == s.work
           l == Len(work)
           k == PrefixLength(s)
           f == FlushIfVideo(s, l - k)
           kept == SubSeq(s.parser.memory, 1, 3)
           r == [f.parser EXCEPT !.memory = kept, !.carryLen = k]
<1>1. /\ s \in Scans /\ pos \in Nat /\ start \in Nat /\ start <= pos /\ work \in Seq(Kept)
      /\ l \in Nat /\ pos <= l /\ WorkAgrees(s, base, w, g)
  BY LenProperties DEF ScanInv, InScan, Scans
<1>2. /\ k \in 0 .. 3 /\ k <= l
      /\ \A i \in 1 .. k : work[(l - k) + i] = <<Zero, Ones, Ones>>[i]
  <2>1. CASE \E j \in 1 .. 3 : EndsWith(s, j)
    <3>1. k \in 1 .. 3 /\ EndsWith(s, k)
      BY <2>1 DEF PrefixLength
    <3> HIDE DEF k
    <3> QED
      BY <1>1, <3>1, EndsWithIs, SMTT(30)
  <2>2. CASE ~ \E j \in 1 .. 3 : EndsWith(s, j)
    <3>1. k = 0
      BY <2>2 DEF PrefixLength
    <3> HIDE DEF k
    <3> QED
      BY <1>1, <3>1
  <2> QED
    BY <2>1, <2>2
<1> HIDE DEF k
<1>4. l - k \in Nat /\ l - k <= l
  BY <1>1, <1>2
<1>16. MemoryShape(s.parser) /\ s.parser \in Parsers
  BY DEF ScanInv, Scans
<1>17. kept \in Seq(Kept) /\ Len(kept) = 3 /\ \A i \in 1 .. 3 : kept[i] = s.parser.memory[i]
  BY <1>16, MemoryKept
<1> HIDE DEF kept
<1>5. f \in Scans /\ SameButVideo(s, f) /\ OpenSpan(f.parser, all, w, g, base + (l - k))
  <2> DEFINE end == l - k
  <2>1. CASE start <= end
    <3>1. OpenSpan(s.parser, all, w, g, base + start)
      BY DEF ScanInv
    <3>2. end \in Nat /\ start <= end /\ end <= Len(work)
      BY <1>4, <2>1
    <3> HIDE DEF all, end
    <3>3. FlushIfVideo(s, end) \in Scans /\ SameButVideo(s, FlushIfVideo(s, end))
          /\ OpenSpan(FlushIfVideo(s, end).parser, all, w, g, base + end)
      BY <1>1, <3>1, <3>2, FlushIfVideoSpan
    <3> QED
      BY <3>3 DEF end
  <2>2. CASE ~(start <= end)
    <3>1. end \in Nat /\ end < start /\ start > 0 /\ end + k = l /\ start <= l /\ k # 0
      BY <1>1, <1>2, <1>4, <2>2
    <3>2. FlushIfVideo(s, end) = s
      <4> HIDE DEF end
      <4> QED
        BY <1>1, <3>1, FlushNothing
    <3>3. f \in Scans /\ SameButVideo(s, f) /\ f.parser = s.parser
      BY <1>1, <3>2 DEF SameButVideo
    <3>4. ASSUME s.parser.state = "VideoData"
          PROVE  OpenAt(s.parser, all, w, g, base + end, base + end)
      <4> DEFINE a == base + end
                 h == base + start
      <4>1. s.parser.offset = 0 /\ h \in Heads(w) /\ Traced(all, w, g, h - 3)
        BY <3>1, <3>4 DEF ScanInv, Fresh, InVideo
      <4>2. /\ a \in Nat /\ h \in Nat /\ a < h /\ h <= a + k /\ a + k = stop /\ h - 3 <= a
            /\ a + k <= Len(w) /\ Len(w) \in Nat /\ a \in 0 .. stop - 1 /\ stop - a = k /\ h <= stop
            /\ k \in 1 .. 3
        <5>1. base + l = stop /\ base + l <= Len(w) /\ Len(w) \in Nat
          BY LenProperties DEF ScanInv, WorkAgrees
        <5>2. start \in Nat /\ l \in Nat /\ k \in 0 .. 3
          BY <1>1, <1>2
        <5> HIDE DEF l, start, end
        <5>3. /\ end \in Nat /\ end < start /\ end + k = l /\ start <= l /\ k # 0
          BY <3>1
        <5> QED
          BY ONLY <5>1, <5>2, <5>3, base \in Nat
      <4>3. \A i \in 1 .. k : w[a + i] = <<Zero, Ones, Ones>>[i]
        <5> SUFFICES ASSUME NEW i \in 1 .. k PROVE w[a + i] = <<Zero, Ones, Ones>>[i]
          OBVIOUS
        <5> DEFINE j == end + i
                   x == <<Zero, Ones, Ones>>[i]
        <5>1. j \in 1 .. l /\ base + j = a + i
          <6> HIDE DEF l, end, start
          <6> QED
            BY ONLY <1>1, <1>2, <3>1, base \in Nat, i \in 1 .. k
        <5>2. x = Zero \/ x = Ones
          <6>1. i = 1 \/ i = 2 \/ i = 3
            BY <1>2
          <6> QED
            BY <6>1
        <5>3. work[j] = x
          BY <1>2
        <5> HIDE DEF j, x
        <5>4. Agrees(work[j], w[base + j], base + j \in g.marred /\ j <= 3 /\ j <= s.parser.carryLen)
          BY <1>1, <5>1 DEF WorkAgrees, l
        <5>5. w[base + j] = x
          BY <5>2, <5>3, <5>4, Marks DEF Agrees
        <5> QED
          BY <5>1, <5>5 DEF x
      <4> HIDE DEF a, h
      <4>4. SubSeq(w, a + 1, a + k) = Beginning(k)
        BY ONLY <4>2, <4>3, w \in Seq(Byte), BeginningThere
      <4>5. a \in Seams(w, stop)
        <5>1. SubSeq(w, a + 1, stop) = Beginning(stop - a)
          BY <4>2, <4>4
        <5>2. a < h /\ h <= stop /\ stop - a <= 3 /\ a \in 0 .. stop - 1
          BY <4>2
        <5> QED
          BY <4>1, <5>1, <5>2 DEF Seams
      <4>6. a \in Begun(g)
        <5>1. Seams(w, stop) \subseteq g.starts
          BY DEF ScanInv, Covers
        <5> QED
          BY <4>2, <4>5, <5>1 DEF Begun
      <4>7. Traced(all, w, g, a)
        <5>1. h - 3 \in Int /\ a \in Int /\ h - 3 <= a
          BY ONLY <4>2
        <5> QED
          BY ONLY <4>1, <5>1, w \in Seq(Byte), TracedLater
      <4>8. s.parser.offset = Least(a - a, VideoBufferCapacity)
        BY <4>1, <4>2, Sizes DEF Least
      <4>9. \A i \in 1 .. s.parser.offset : Agrees(s.parser.video[s.parser.index][i], w[a + i], a + i \in g.marred)
        BY <4>1
      <4>10. a <= a
        BY <4>2
      <4> HIDE DEF all
      <4> QED
        BY ONLY <4>6, <4>7, <4>8, <4>9, <4>10 DEF OpenAt, a
    <3> HIDE DEF all
    <3> QED
      BY <3>3, <3>4 DEF OpenSpan
  <2> QED
    BY <2>1, <2>2
<1>6. q = [f EXCEPT !.parser = r]
  <2>1. ~(s.marker >= 0) /\ s.marker < 0
    OBVIOUS
  <2>2. q = [f EXCEPT !.parser.memory = kept, !.parser.carryLen = k]
    BY <2>1 DEF Carried, k, kept
  <2> HIDE DEF f, q
  <2> QED
    BY <1>5, <2>2 DEF Scans, Parsers
<1> HIDE DEF f, q
<1>7. /\ r \in Parsers /\ r.memory = kept /\ r.carryLen = k /\ r.state = f.parser.state
      /\ r.offset = f.parser.offset /\ r.video = f.parser.video /\ r.index = f.parser.index
  <2> DEFINE p == f.parser
  <2>1. p \in Parsers
    BY <1>5 DEF Scans
  <2>2. k \in 0 .. 8 /\ kept \in Seq(Kept)
    BY <1>2, <1>17
  <2> HIDE DEF p
  <2>3. r = [p EXCEPT !.memory = kept, !.carryLen = k]
    BY DEF p
  <2> HIDE DEF r
  <2>4. r \in Parsers
    BY ONLY <2>1, <2>2, <2>3 DEF Parsers
  <2>5. /\ r.memory = kept /\ r.carryLen = k /\ r.state = p.state
        /\ r.offset = p.offset /\ r.video = p.video /\ r.index = p.index
    BY ONLY <2>1, <2>3 DEF Parsers
  <2> QED
    BY <2>4, <2>5 DEF p
<1> HIDE DEF r
<1>8. q.parser = r /\ q.frames = s.frames
  BY <1>5, <1>6, <1>7 DEF Scans, SameButVideo
<1>10. MemoryShape(r)
  <2>1. k <= Len(kept) /\ Len(kept) >= 3
    BY <1>2, <1>17
  <2>2. \A i \in 1 .. 3 : Agrees(kept[i], <<Zero, Ones, Ones>>[i], TRUE)
    BY <1>16, <1>17 DEF MemoryShape
  <2> QED
    BY <1>7, <2>1, <2>2 DEF MemoryShape
<1>11. Traced(all, w, g, base + Limit(pos))
  BY DEF ScanInv
<1>12. Behind(r, all, w, g, base + l)
  <2> DEFINE end == l - k
  <2> HIDE DEF all, pos, l
  <2>1. pos \in Nat /\ l \in Nat /\ end \in Nat /\ pos - 4 <= end /\ r.carryLen = l - end
        /\ r.carryLen \in Nat
    BY <1>1, <1>2, <1>4, <1>7
  <2> HIDE DEF end
  <2> QED
    BY <1>5, <1>7, <1>10, <1>11, <2>1, CarryEnds
<1>13. (base + l) - r.carryLen = base + (l - k)
  BY <1>1, <1>2, <1>7
<1>14. \A i \in 1 .. r.carryLen : Agrees(r.memory[i], w[((base + l) - r.carryLen) + i], i <= 3)
  <2> HIDE DEF l
  <2> SUFFICES ASSUME NEW i \in 1 .. r.carryLen
               PROVE  Agrees(r.memory[i], w[((base + l) - r.carryLen) + i], i <= 3)
    OBVIOUS
  <2>1. i \in 1 .. k /\ i \in 1 .. 3
    BY <1>2, <1>7
  <2> DEFINE x == <<Zero, Ones, Ones>>[i]
             j == (l - k) + i
  <2>2. x = Zero \/ x = Ones
    <3>1. i = 1 \/ i = 2 \/ i = 3
      BY <2>1
    <3> QED
      BY <3>1
  <2>9. i <= 3
    BY <2>1
  <2>3. Agrees(r.memory[i], x, TRUE)
    BY <1>10, <2>1 DEF MemoryShape
  <2>4. work[j] = x
    BY <1>2, <2>1
  <2> HIDE DEF x
  <2>5. j \in 1 .. l /\ base + j = (base + (l - k)) + i
    <3>1. l \in Nat /\ l - k \in Nat /\ l - k <= l /\ k \in 0 .. 3 /\ i \in 1 .. k
      BY <1>1, <1>2, <1>4, <2>1
    <3> QED
      BY ONLY <3>1, base \in Nat
  <2> HIDE DEF j
  <2>7. Agrees(work[j], w[base + j], base + j \in g.marred /\ j <= 3 /\ j <= s.parser.carryLen)
    BY <1>1, <2>5 DEF WorkAgrees, l
  <2>8. w[base + j] = x
    BY <2>2, <2>4, <2>7, Marks DEF Agrees
  <2> QED
    BY <1>13, <2>3, <2>5, <2>8, <2>9 DEF Agrees
<1>15. OpenSpan(r, all, w, g, (base + l) - r.carryLen)
  BY <1>5, <1>7, <1>13 DEF OpenSpan, OpenAt
<1> QED
  BY <1>8, <1>12, <1>14, <1>15 DEF Aligned, q

\* Of a payload nothing is carried.
LEMMA CarriedAudio ==
  ASSUME NEW s, NEW before, NEW base \in Nat, NEW stop, NEW w \in Seq(Byte), NEW g,
         ScanInv(s, before, base, stop, w, g), s.marker = -1, s.parser.state = "AudioData"
  PROVE  LET q == Carried(s)
             n == base + Len(s.work)
         IN /\ q.frames = s.frames /\ Behind(q.parser, before \o s.frames, w, g, n)
            /\ Aligned(q.parser, before \o s.frames, w, g, n)
<1> DEFINE q == Carried(s)
           all == before \o s.frames
           pos == s.pos
           l == Len(s.work)
           p == s.parser
           kept == SubSeq(p.memory, 1, 3)
           r == [p EXCEPT !.memory = kept, !.carryLen = 0]
<1>1. s \in Scans /\ pos \in Nat /\ l \in Nat /\ pos <= l /\ p \in Parsers /\ MemoryShape(p)
  BY LenProperties DEF ScanInv, InScan, Scans
<1>2. q = [s EXCEPT !.parser = r]
  <2>1. ~(s.marker >= 0) /\ s.marker < 0
    OBVIOUS
  <2>2. q = [s EXCEPT !.parser.memory = kept, !.parser.carryLen = 0]
    BY <2>1 DEF Carried
  <2> HIDE DEF q
  <2> QED
    BY <1>1, <2>2 DEF Scans, Parsers
<1> HIDE DEF q
<1>9. kept \in Seq(Kept) /\ Len(kept) = 3 /\ \A i \in 1 .. 3 : kept[i] = p.memory[i]
  BY <1>1, MemoryKept
<1> HIDE DEF kept
<1>3. r \in Parsers /\ r.memory = kept /\ r.carryLen = 0 /\ r.state = "AudioData"
  <2> DEFINE c == 0
  <2>1. c \in 0 .. 8
    OBVIOUS
  <2>2. r = [p EXCEPT !.memory = kept, !.carryLen = c] /\ p.state = "AudioData"
    OBVIOUS
  <2> HIDE DEF c, r, p
  <2>3. r \in Parsers
    BY ONLY <1>1, <1>9, <2>1, <2>2 DEF Parsers
  <2>4. r.memory = kept /\ r.carryLen = c /\ r.state = p.state
    BY ONLY <1>1, <2>2 DEF Parsers
  <2> QED
    BY <2>2, <2>3, <2>4 DEF c
<1> HIDE DEF r
<1>4. q.parser = r /\ q.frames = s.frames
  BY <1>1, <1>2 DEF Scans
<1>5. MemoryShape(r)
  <2>1. Len(r.memory) >= 3 /\ r.carryLen <= Len(r.memory)
    BY <1>3, <1>9
  <2>2. \A i \in 1 .. 3 : Agrees(kept[i], <<Zero, Ones, Ones>>[i], TRUE)
    BY <1>1, <1>9 DEF MemoryShape
  <2> QED
    BY <1>3, <2>1, <2>2 DEF MemoryShape
<1>6. Traced(all, w, g, base + Limit(pos))
  BY DEF ScanInv
<1>7. Behind(r, all, w, g, base + l)
  <2> HIDE DEF all, pos, l
  <2>1. pos - 4 <= l /\ r.carryLen = l - l /\ r.carryLen \in Nat
    BY <1>1, <1>3
  <2> QED
    BY <1>1, <1>3, <1>5, <1>6, <2>1, CarryEnds
<1>8. Aligned(r, all, w, g, base + l)
  BY <1>3 DEF Aligned, OpenSpan
<1> QED
  BY <1>4, <1>7, <1>8 DEF q

LEMMA CarriedScan ==
  ASSUME NEW s, NEW before, NEW base \in Nat, NEW stop, NEW w \in Seq(Byte), NEW g,
         ScanInv(s, before, base, stop, w, g)
  PROVE  LET q == Carried(s)
         IN /\ q.frames = s.frames /\ Behind(q.parser, before \o s.frames, w, g, stop)
            /\ Aligned(q.parser, before \o s.frames, w, g, stop)
<1>1. base + Len(s.work) = stop
  BY DEF ScanInv
<1>2. s.marker = -1 \/ s.marker >= 0
  <2>1. s.pos \in Nat /\ (s.marker = -1 \/ s.marker = s.pos)
    BY DEF ScanInv, InScan, Scans
  <2> QED
    BY <2>1
<1>3. CASE s.marker >= 0
  BY <1>1, <1>3, CarriedMarker
<1>4. CASE s.marker = -1 /\ s.parser.state # "AudioData"
  BY <1>1, <1>4, CarriedPrefix
<1>5. CASE s.marker = -1 /\ s.parser.state = "AudioData"
  BY <1>1, <1>5, CarriedAudio
<1> QED
  BY <1>2, <1>3, <1>4, <1>5

\* The work buffer of a chunk.
LEMMA ScanOfScan ==
  ASSUME NEW p, NEW before \in Seq(Seq(Kept)), NEW w \in Seq(Byte), NEW g, NEW n \in Nat, NEW m \in Nat,
         n + m <= Len(w), Behind(p, before, w, g, n), Aligned(p, before, w, g, n),
         Covers(g, w, n + m), \A i \in 1 .. p.carryLen : p.memory[i] = Garbage => (n - p.carryLen) + i \in g.marred
  PROVE  ScanInv(ScanOf(p, SubSeq(w, n + 1, n + m)), before, n - p.carryLen, n + m, w, g)
<1> DEFINE chunk == SubSeq(w, n + 1, n + m)
           c == p.carryLen
           kept == SubSeq(p.memory, 1, c)
           work == kept \o chunk
           base == n - c
           q == ScanOf(p, chunk)
<1>1. /\ p \in Parsers /\ MemoryShape(p) /\ c \in Nat /\ c <= n /\ p.memory \in Seq(Kept)
      /\ Len(p.memory) \in Nat /\ c <= Len(p.memory) /\ base \in Nat /\ Len(w) \in Nat
  <2>1. p \in Parsers /\ MemoryShape(p) /\ c <= n
    BY DEF Behind
  <2>2. c \in Nat /\ p.memory \in Seq(Kept)
    BY <2>1 DEF Parsers
  <2>3. c <= Len(p.memory)
    BY <2>1 DEF MemoryShape
  <2> QED
    BY <2>1, <2>2, <2>3, LenProperties
<1>2. kept \in Seq(Kept) /\ Len(kept) = c /\ \A i \in 1 .. c : kept[i] = p.memory[i]
  <2> DEFINE held == p.memory
  <2>1. \A i \in 1 .. Len(held) : held[i] \in Kept
    BY <1>1, LenProperties
  <2>2. c \in Nat /\ c <= Len(held) /\ Len(held) \in Nat
    BY <1>1
  <2> HIDE DEF c, held
  <2>3. (\A i \in 1 .. c : held[i] \in Kept /\ 1 + i - 1 = i) /\ c - 1 + 1 = c
    BY <2>1, <2>2
  <2>4. /\ SubSeq(held, 1, c) \in Seq(Kept)
        /\ Len(SubSeq(held, 1, c)) = IF 1 <= c THEN c - 1 + 1 ELSE 0
        /\ \A i \in 1 .. c - 1 + 1 : SubSeq(held, 1, c)[i] = held[1 + i - 1]
    BY ONLY <2>2, <2>3, SubSeqProperties
  <2>5. Len(SubSeq(held, 1, c)) = c
    BY ONLY <2>2, <2>3, <2>4
  <2> QED
    BY <2>3, <2>4, <2>5 DEF held
<1>3. chunk \in Seq(Kept) /\ Len(chunk) = m /\ \A i \in 1 .. m : chunk[i] = w[n + i]
  <2>1. \A i \in 1 .. Len(w) : w[i] \in Kept
    BY LenProperties DEF Kept
  <2>2. /\ \A i \in n + 1 .. n + m : i \in 1 .. Len(w)
        /\ \A i \in 1 .. m : (n + 1) + i - 1 = n + i
        /\ (n + m) - (n + 1) + 1 = m /\ n + 1 \in Int /\ n + m \in Int
    BY <1>1
  <2>3. /\ SubSeq(w, n + 1, n + m) \in Seq(Kept)
        /\ Len(SubSeq(w, n + 1, n + m)) = IF n + 1 <= n + m THEN (n + m) - (n + 1) + 1 ELSE 0
        /\ \A i \in 1 .. (n + m) - (n + 1) + 1 :
             SubSeq(w, n + 1, n + m)[i] = w[(n + 1) + i - 1]
    BY ONLY <2>1, <2>2, SubSeqProperties
  <2>4. Len(SubSeq(w, n + 1, n + m)) = m
    BY ONLY <2>2, <2>3, n \in Nat, m \in Nat
  <2> QED
    BY <2>2, <2>3, <2>4
<1> HIDE DEF kept, chunk
<1>4. /\ work \in Seq(Kept) /\ Len(work) = c + m
      /\ \A i \in 1 .. c + m : work[i] = IF i <= c THEN kept[i] ELSE chunk[i - c]
  <2> HIDE DEF c
  <2>1. /\ kept \o chunk \in Seq(Kept) /\ Len(kept \o chunk) = Len(kept) + Len(chunk)
        /\ \A i \in 1 .. Len(kept) + Len(chunk) :
             (kept \o chunk)[i] = IF i <= Len(kept) THEN kept[i] ELSE chunk[i - Len(kept)]
    BY ONLY <1>2, <1>3, ConcatProperties
  <2> QED
    BY ONLY <1>2, <1>3, <2>1
<1>5. /\ q \in Scans /\ q.parser = p /\ q.work = work /\ q.pos = 0 /\ q.start = 0
      /\ q.marker = -1 /\ q.frames = << >>
  <2>1. q = [parser |-> p, work |-> work, pos |-> 0, start |-> 0, marker |-> -1,
             frames |-> << >>, packets |-> << >>]
    BY DEF ScanOf, kept
  <2> HIDE DEF q, work
  <2>2. << >> \in Seq(Seq(Kept)) /\ 0 \in Nat /\ -1 \in Int
    BY EmptySeq
  <2> QED
    BY <1>1, <1>4, <2>1, <2>2 DEF Scans
<1> HIDE DEF q, work
<1>6. base + Len(q.work) = n + m
  BY <1>1, <1>4, <1>5
<1>7. WorkAgrees(q, base, w, g)
  <2> SUFFICES ASSUME NEW i \in 1 .. c + m PROVE Agrees(work[i], w[base + i], base + i \in g.marred /\ i <= 3 /\ i <= c)
    BY <1>4, <1>5, <1>6 DEF WorkAgrees
  <2>1. CASE i <= c
    <3>1. i \in 1 .. c
      BY <1>1, <2>1
    <3>2. Agrees(p.memory[i], w[base + i], i <= 3) /\ (p.memory[i] = Garbage => base + i \in g.marred)
      BY <3>1 DEF Aligned
    <3>3. work[i] = p.memory[i]
      <4> HIDE DEF c
      <4> QED
        BY <1>2, <1>4, <2>1, <3>1
    <3> HIDE DEF base
    <3> QED
      BY <2>1, <3>2, <3>3 DEF Agrees
  <2>2. CASE ~(i <= c)
    <3> HIDE DEF c
    <3>1. i - c \in 1 .. m /\ n + (i - c) = base + i
      BY <1>1, <2>2
    <3>2. work[i] = w[n + (i - c)]
      BY <1>3, <1>4, <2>2, <3>1
    <3> QED
      BY <3>1, <3>2 DEF Agrees
  <2> QED
    BY <2>1, <2>2
<1>8. InScan(q)
  <2>1. c + m >= 0 /\ ~(q.start > 0) /\ q.start <= q.pos
    BY <1>1, <1>5
  <2>2. q.pos <= Len(q.work)
    BY <1>4, <1>5, <2>1
  <2> QED
    BY <1>5, <2>1, <2>2 DEF InScan
<1>9. before \o q.frames = before
  BY <1>5, ConcatEmptySeq
<1>10. Traced(before \o q.frames, w, g, base + Limit(q.pos))
  <2>1. Limit(q.pos) = 5
    BY <1>5 DEF Limit
  <2> QED
    BY <1>9, <2>1 DEF Behind
<1>11. OpenSpan(q.parser, before \o q.frames, w, g, base + q.start)
  <2>1. base + q.start = base
    BY <1>1, <1>5
  <2> QED
    BY <1>5, <1>9, <2>1 DEF Aligned
<1>12. Fresh(q, before \o q.frames, base, w, g)
  BY <1>5 DEF Fresh
<1> QED
  BY <1>1, <1>5, <1>6, <1>7, <1>8, <1>10, <1>11, <1>12 DEF ScanInv, q, chunk

\* A chunk that follows what came, and the frames that it completes.
LEMMA FedScan ==
  ASSUME NEW p, NEW before \in Seq(Seq(Kept)), NEW w \in Seq(Byte), NEW g, NEW n \in Nat, NEW m \in Nat,
         n + m <= Len(w), Behind(p, before, w, g, n), Aligned(p, before, w, g, n),
         Covers(g, w, n + m), \A i \in 1 .. p.carryLen : p.memory[i] = Garbage => (n - p.carryLen) + i \in g.marred
  PROVE  LET fed == Fed(p, SubSeq(w, n + 1, n + m), FALSE)
         IN /\ fed.frames \in Seq(Seq(Kept))
            /\ Behind(fed.parser, before \o fed.frames, w, g, n + m)
            /\ Aligned(fed.parser, before \o fed.frames, w, g, n + m)
<1> DEFINE chunk == SubSeq(w, n + 1, n + m)
           base == n - p.carryLen
           first == ScanOf(p, chunk)
           last == Scanned(ConsumeAudio(first))
           fed == Fed(p, chunk, FALSE)
<1>1. base \in Nat
  <2>1. p.carryLen \in Nat /\ p.carryLen <= n
    BY DEF Behind, Parsers
  <2> QED
    BY <2>1
<1>2. ScanInv(first, before, base, n + m, w, g)
  BY ScanOfScan
<1>3. CASE chunk = << >>
  <2>1. fed.parser = p /\ fed.frames = << >>
    BY <1>3 DEF Fed, ScanOf
  <2>2. m = 0
    <3> DEFINE i == n + 1
               j == n + m
    <3>1. \A k \in i .. j : w[k] \in {w[y] : y \in i .. j}
      OBVIOUS
    <3>2. i \in Int /\ j \in Int
      OBVIOUS
    <3>3. SubSeq(w, i, j) = << >>
      BY <1>3
    <3> HIDE DEF i, j
    <3>4. Len(SubSeq(w, i, j)) = IF i <= j THEN j - i + 1 ELSE 0
      BY ONLY <3>1, <3>2, SubSeqProperties
    <3>5. (IF i <= j THEN j - i + 1 ELSE 0) = 0
      BY ONLY <3>3, <3>4
    <3> QED
      BY <3>5 DEF i, j
  <2>3. n + m = n /\ before \o fed.frames = before
    <3>1. before \o << >> = before
      BY ConcatEmptySeq
    <3>2. n + m = n
      BY ONLY <2>2, n \in Nat
    <3> QED
      BY <2>1, <3>1, <3>2
  <2>4. << >> \in Seq(Seq(Kept))
    BY EmptySeq
  <2> HIDE DEF fed
  <2> QED
    BY <2>1, <2>3, <2>4 DEF fed
<1>4. CASE chunk # << >>
  <2> HIDE DEF first, base
  <2>1. ScanInv(ConsumeAudio(first), before, base, n + m, w, g)
    BY <1>1, <1>2, ConsumeAudioScan
  <2>2. ScanInv(last, before, base, n + m, w, g)
    BY <1>1, <2>1, ScannedScan
  <2>3. fed.parser = Carried(last).parser /\ fed.frames = Carried(last).frames
    BY <1>4 DEF Fed, first
  <2> HIDE DEF last, fed
  <2>4. /\ Carried(last).frames = last.frames
        /\ Behind(Carried(last).parser, before \o last.frames, w, g, n + m)
        /\ Aligned(Carried(last).parser, before \o last.frames, w, g, n + m)
    BY <1>1, <2>2, CarriedScan
  <2>5. last.frames \in Seq(Seq(Kept))
    BY <2>2 DEF ScanInv, Scans
  <2> QED
    BY <2>3, <2>4, <2>5 DEF fed
<1> QED
  BY <1>3, <1>4

\* After a loss, and with what is not known of it, parsing begins anew.
LEMMA GapScan ==
  ASSUME NEW p, NEW before, NEW w \in Seq(Byte), NEW g, NEW n \in Nat, Behind(p, before, w, g, n)
  PROVE  /\ Behind(AfterGap(p), before, w, g, n) /\ Aligned(AfterGap(p), before, w, g, n)
<1> DEFINE c == p.carryLen
           r == AfterGap(p)
<1>1. p \in Parsers /\ c \in Nat /\ c <= n /\ MemoryShape(p)
  BY DEF Behind, Parsers
<1>2. r \in Parsers /\ r.memory = p.memory /\ r.carryLen = 0 /\ r.state = "Idle"
  <2>1. << >> \in Seq(Kept) /\ 0 \in 0 .. VideoBufferCapacity
    BY EmptySeq, Sizes
  <2> DEFINE zero == 0
  <2>2. r = [p EXCEPT !.state = "Idle", !.armed = FALSE, !.offset = zero, !.remaining = zero,
                      !.audio = << >>, !.carryLen = zero]
    BY DEF AfterGap
  <2>3. zero \in Nat /\ zero \in 0 .. 8 /\ zero \in 0 .. VideoBufferCapacity
    BY <2>1
  <2> HIDE DEF zero, r
  <2>4. r \in Parsers
    BY ONLY <1>1, <2>1, <2>2, <2>3 DEF Parsers
  <2>5. r.memory = p.memory /\ r.carryLen = zero /\ r.state = "Idle"
    BY ONLY <1>1, <2>2 DEF Parsers
  <2> QED
    BY <2>4, <2>5 DEF zero
<1> HIDE DEF r
<1>3. MemoryShape(r)
  <2>1. Len(r.memory) >= 3 /\ r.carryLen <= Len(r.memory)
    BY <1>1, <1>2 DEF MemoryShape
  <2> QED
    BY <1>1, <1>2, <2>1 DEF MemoryShape
<1>4. Traced(before, w, g, (n - r.carryLen) + 5)
  <2>1. Traced(before, w, g, (n - c) + 5)
    BY DEF Behind
  <2>2. /\ (n - c) + 5 \in Int /\ n + 5 \in Int /\ (n - c) + 5 <= n + 5
        /\ (n - r.carryLen) + 5 = n + 5
    BY <1>1, <1>2
  <2> HIDE DEF c
  <2> QED
    BY <2>1, <2>2, TracedLater
<1> QED
  BY <1>2, <1>3, <1>4 DEF Behind, Aligned, OpenSpan, r

(***************************************************************************)
(* The stream and its parser.                                              *)
(***************************************************************************)

\* What has been recorded of where video may begin, and of unwritten bytes.
Recorded == [starts |-> Heads(Wire) \cup seams, marred |-> marred]

ParserInv ==
  /\ stream \in DOMAIN Streams /\ memory \in Memories[stream] /\ gapped \in BOOLEAN
  /\ sent \in Nat /\ sent <= Len(Wire) /\ shown \in Seq(Seq(Kept))
  /\ seams \subseteq Openings(Wire)
  /\ Behind(parser, shown, Wire, Recorded, sent)
  /\ ~gapped => Aligned(parser, shown, Wire, Recorded, sent)

\* What is recorded is never forgotten.
LEMMA AlignedMore ==
  ASSUME NEW p, NEW frames, NEW w, NEW g, NEW h, NEW n, g.starts \subseteq h.starts, g.marred \subseteq h.marred
  PROVE  /\ Behind(p, frames, w, g, n) => Behind(p, frames, w, h, n)
         /\ Aligned(p, frames, w, g, n) => Aligned(p, frames, w, h, n)
<1>1. ASSUME NEW b, Traced(frames, w, g, b) PROVE Traced(frames, w, h, b)
  BY <1>1, TracedMore
<1>2. ASSUME NEW m, NEW a, OpenAt(p, frames, w, g, m, a) PROVE OpenAt(p, frames, w, h, m, a)
  <2>1. a \in Begun(h)
    BY <1>2 DEF OpenAt, Begun
  <2>2. Traced(frames, w, h, a)
    BY <1>1, <1>2 DEF OpenAt
  <2> QED
    BY <1>2, <2>1, <2>2 DEF OpenAt, Agrees
<1>3. ASSUME NEW m, OpenSpan(p, frames, w, g, m) PROVE OpenSpan(p, frames, w, h, m)
  BY <1>2, <1>3 DEF OpenSpan
<1> QED
  BY <1>1, <1>3 DEF Behind, Aligned

LEMMA WireType ==
  ASSUME stream \in DOMAIN Streams
  PROVE  Wire \in Seq(Byte) /\ Len(Wire) \in Nat
<1>1. Streams[stream] \in Seq(Unit)
  BY StreamsAssumption
<1>2. Wire = Bytes(Streams[stream])
  BY DEF Wire, Wires
<1>3. Bytes(Streams[stream]) \in Seq(Byte)
  BY <1>1, BytesType
<1> QED
  BY <1>2, <1>3, LenProperties

LEMMA ParserInit ==
  ASSUME Init
  PROVE  ParserInv
<1>1. /\ stream \in DOMAIN Streams /\ memory \in Memories[stream] /\ parser = NewParser(memory)
      /\ sent = 0 /\ gapped = FALSE /\ shown = << >> /\ seams = {}
  BY DEF Init
<1>2. /\ memory \in Seq(Byte) /\ Len(memory) >= 3 /\ Len(memory) \in Nat
      /\ \A i \in 1 .. 3 : memory[i] \in {<<Zero, Ones, Ones>>[i], Garbage}
  <2>1. /\ memory \in Seq(Byte) /\ Len(memory) >= 3
        /\ \A i \in 1 .. 3 : memory[i] \in {<<Zero, Ones, Ones>>[i], Garbage}
    BY <1>1, MemoriesAssumption
  <2> QED
    BY <2>1, LenProperties
<1>3. Wire \in Seq(Byte) /\ Len(Wire) \in Nat
  BY <1>1, WireType
<1>4. parser \in Parsers
  <2> DEFINE image == [b \in {0, 1} |-> [i \in 1 .. VideoBufferCapacity |-> Garbage]]
             zero == 0
  <2>1. image \in [{0, 1} -> [1 .. VideoBufferCapacity -> Kept]]
    BY DEF Kept
  <2>2. /\ zero \in Nat /\ zero \in {0, 1} /\ zero \in 0 .. 8 /\ zero \in 0 .. VideoBufferCapacity
        /\ << >> \in Seq(Kept)
    BY Sizes, EmptySeq
  <2>3. memory \in Seq(Kept)
    BY <1>2, LenProperties DEF Kept
  <2>4. parser = [state |-> "Idle", armed |-> FALSE, video |-> image, index |-> zero,
                  offset |-> zero, audio |-> << >>, remaining |-> zero, memory |-> memory,
                  carryLen |-> zero]
    BY <1>1 DEF NewParser
  <2> HIDE DEF image, zero
  <2> QED
    BY ONLY <2>1, <2>2, <2>3, <2>4 DEF Parsers
<1>5. parser.memory = memory /\ parser.carryLen = 0 /\ parser.state = "Idle"
  BY <1>1 DEF NewParser
<1>6. MemoryShape(parser)
  <2>1. \A i \in 1 .. 3 : i \in 1 .. Len(memory)
    BY <1>2
  <2>2. \A i \in 1 .. 3 : Agrees(memory[i], <<Zero, Ones, Ones>>[i], TRUE)
    BY <1>2, <2>1 DEF Agrees
  <2>3. Len(parser.memory) >= 3 /\ parser.carryLen <= Len(parser.memory)
    BY <1>2, <1>5
  <2> QED
    BY <1>5, <2>2, <2>3 DEF MemoryShape
<1>7. Traced(shown, Wire, Recorded, (sent - parser.carryLen) + 5)
  <2>1. DOMAIN shown = {}
    BY <1>1
  <2> DEFINE none == [k \in {} |-> 5]
  <2>2. none \in [DOMAIN shown -> Begun(Recorded)] /\ none \in [DOMAIN shown -> 0 .. Len(Wire)]
    BY <2>1
  <2> HIDE DEF none
  <2> QED
    BY <2>1, <2>2 DEF Traced
<1>8. Behind(parser, shown, Wire, Recorded, sent)
  <2>1. parser.carryLen <= sent
    BY <1>1, <1>5
  <2> QED
    BY <1>4, <1>6, <1>7, <2>1 DEF Behind
<1>9. Aligned(parser, shown, Wire, Recorded, sent)
  BY <1>5 DEF Aligned, OpenSpan
<1>10. shown \in Seq(Seq(Kept)) /\ sent \in Nat /\ sent <= Len(Wire) /\ gapped \in BOOLEAN
  <2>1. << >> \in Seq(Seq(Kept))
    BY EmptySeq
  <2>2. sent \in Nat /\ sent <= Len(Wire)
    BY <1>1, <1>3
  <2> QED
    BY <1>1, <2>1, <2>2
<1>11. seams \subseteq Openings(Wire)
  BY <1>1
<1> QED
  BY <1>1, <1>8, <1>9, <1>10, <1>11 DEF ParserInv

\* A chunk: what the parser is given of it, and what is recorded.
LEMMA FeedIs ==
  ASSUME ParserInv, Feed
  PROVE  \E m \in Nat :
           LET p == IF gapped THEN AfterGap(parser) ELSE parser
               fed == Fed(p, SubSeq(Wire, sent + 1, sent + m), FALSE)
               h == Recorded'
           IN /\ sent + m <= Len(Wire) /\ sent' = sent + m /\ gapped' = FALSE
              /\ parser' = fed.parser /\ shown' = shown \o fed.frames /\ heard' = heard \o fed.packets
              /\ seams' = seams \cup Seams(Wire, sent') /\ UNCHANGED <<stream, memory, since>>
              /\ Recorded.starts \subseteq h.starts /\ Recorded.marred \subseteq h.marred
              /\ Covers(h, Wire, sent + m)
              /\ \A i \in 1 .. p.carryLen : p.memory[i] = Garbage => (sent - p.carryLen) + i \in h.marred
              /\ Behind(p, shown, Wire, h, sent) /\ Aligned(p, shown, Wire, h, sent)
<1> DEFINE w == Wire
           g == Recorded
           h == Recorded'
           missing == IF gapped THEN {} ELSE Unwritten
           p == IF gapped THEN AfterGap(parser) ELSE parser
<1>1. /\ stream \in DOMAIN Streams /\ gapped \in BOOLEAN /\ sent \in Nat /\ sent <= Len(w)
      /\ Behind(parser, shown, w, g, sent)
      /\ ~gapped => Aligned(parser, shown, w, g, sent)
  BY DEF ParserInv
<1>2. w \in Seq(Byte) /\ Len(w) \in Nat
  BY <1>1, WireType
<1>3. PICK m \in ChunkSizes :
        LET fed == Fed(parser, SubSeq(w, sent + 1, sent + m), gapped)
        IN /\ sent + m <= Len(w) /\ sent' = sent + m /\ gapped' = FALSE
           /\ parser' = fed.parser /\ shown' = shown \o fed.frames /\ heard' = heard \o fed.packets
           /\ seams' = seams \cup Seams(w, sent') /\ marred' = marred \cup missing
           /\ UNCHANGED <<stream, memory, since>>
  BY DEF Feed
<1>4. m \in Nat
  BY StreamsAssumption
<1> DEFINE fed == Fed(p, SubSeq(w, sent + 1, sent + m), FALSE)
<1>5. parser' = fed.parser /\ shown' = shown \o fed.frames /\ heard' = heard \o fed.packets
  BY <1>3 DEF Fed
<1>6. w' = w
  BY <1>3 DEF Wire
<1>13. /\ g.starts \subseteq h.starts /\ g.marred \subseteq h.marred
       /\ h.starts = Heads(w) \cup seams' /\ h.marred = marred \cup missing
  <2> HIDE DEF w
  <2>1. h = [starts |-> Heads(w) \cup seams', marred |-> marred'] /\ g = [starts |-> Heads(w) \cup seams, marred |-> marred]
    BY <1>6 DEF Recorded, w
  <2> HIDE DEF g, h, missing
  <2> QED
    BY <1>3, <2>1
<1>14. Covers(h, w, sent + m)
  <2> HIDE DEF h, w, missing
  <2> QED
    BY <1>3, <1>13 DEF Covers
<1>15. \A i \in 1 .. p.carryLen : p.memory[i] = Garbage => (sent - p.carryLen) + i \in h.marred
  <2> HIDE DEF h, w
  <2>1. CASE gapped
    <3>1. p.carryLen = 0
      <4>1. parser \in Parsers
        BY <1>1 DEF Behind
      <4> QED
        BY <2>1, <4>1 DEF AfterGap, Parsers
    <3> QED
      BY <3>1
  <2>2. CASE ~gapped
    <3>1. p = parser /\ missing = Unwritten
      BY <2>2
    <3>2. \A i \in 1 .. parser.carryLen : parser.memory[i] = Garbage => sent - parser.carryLen + i \in Unwritten
      BY DEF Unwritten
    <3> QED
      BY <1>13, <3>1, <3>2
  <2> QED
    BY <2>1, <2>2
<1> HIDE DEF w, g, h, missing
<1>7. Behind(p, shown, w, g, sent) /\ Aligned(p, shown, w, g, sent)
  <2>1. CASE gapped
    BY <1>1, <1>2, <2>1, GapScan
  <2>2. CASE ~gapped
    BY <1>1, <2>2
  <2> QED
    BY <2>1, <2>2
<1> HIDE DEF p, fed
<1>16. Behind(p, shown, w, h, sent) /\ Aligned(p, shown, w, h, sent)
  BY <1>7, <1>13, AlignedMore
<1>17. /\ sent + m <= Len(w) /\ sent' = sent + m /\ gapped' = FALSE
       /\ seams' = seams \cup Seams(w, sent') /\ UNCHANGED <<stream, memory, since>>
  BY <1>3
<1> QED
  BY <1>4, <1>5, <1>13, <1>14, <1>15, <1>16, <1>17 DEF w, g, h, p, fed

LEMMA ParserFeed ==
  ASSUME ParserInv, Feed
  PROVE  ParserInv'
<1> DEFINE w == Wire
           h == Recorded'
           p == IF gapped THEN AfterGap(parser) ELSE parser
<1>1. /\ stream \in DOMAIN Streams /\ memory \in Memories[stream] /\ gapped \in BOOLEAN
      /\ sent \in Nat /\ sent <= Len(w) /\ shown \in Seq(Seq(Kept)) /\ seams \subseteq Openings(w)
  BY DEF ParserInv
<1>2. w \in Seq(Byte) /\ Len(w) \in Nat
  BY <1>1, WireType
<1>3. PICK m \in Nat :
        LET fed == Fed(p, SubSeq(w, sent + 1, sent + m), FALSE)
        IN /\ sent + m <= Len(w) /\ sent' = sent + m /\ gapped' = FALSE
           /\ parser' = fed.parser /\ shown' = shown \o fed.frames
           /\ seams' = seams \cup Seams(w, sent') /\ UNCHANGED <<stream, memory>>
           /\ Covers(h, w, sent + m)
           /\ \A i \in 1 .. p.carryLen : p.memory[i] = Garbage => (sent - p.carryLen) + i \in h.marred
           /\ Behind(p, shown, w, h, sent) /\ Aligned(p, shown, w, h, sent)
  BY FeedIs
<1> DEFINE fed == Fed(p, SubSeq(w, sent + 1, sent + m), FALSE)
<1>6. w' = w
  BY <1>3 DEF Wire
<1>5. parser' = fed.parser /\ shown' = shown \o fed.frames
  BY <1>3
<1> HIDE DEF w, h, p
<1>8. /\ fed.frames \in Seq(Seq(Kept))
      /\ Behind(fed.parser, shown \o fed.frames, w, h, sent + m)
      /\ Aligned(fed.parser, shown \o fed.frames, w, h, sent + m)
  BY <1>1, <1>2, <1>3, FedScan
<1> HIDE DEF fed
<1>9. shown' \in Seq(Seq(Kept))
  BY <1>1, <1>5, <1>8, ConcatProperties
<1>10. sent' \in Nat /\ sent' <= Len(w)
  BY <1>1, <1>3
<1>11. Behind(parser', shown', w', h, sent') /\ Aligned(parser', shown', w', h, sent')
  BY <1>3, <1>5, <1>6, <1>8
<1>17. seams' \subseteq Openings(w')
  <2>1. sent' \in 0 .. Len(w)
    BY <1>2, <1>10
  <2> QED
    BY <1>1, <1>3, <1>6, <2>1 DEF Openings
<1>12. stream' \in DOMAIN Streams /\ memory' \in Memories[stream'] /\ gapped' \in BOOLEAN
  BY <1>1, <1>3
<1> QED
  BY <1>6, <1>9, <1>10, <1>11, <1>12, <1>17 DEF ParserInv, w, h

LEMMA ParserLose ==
  ASSUME ParserInv, Lose
  PROVE  ParserInv'
<1> DEFINE w == Wire
           g == Recorded
           c == parser.carryLen
<1>1. /\ stream \in DOMAIN Streams /\ memory \in Memories[stream]
      /\ sent \in Nat /\ sent <= Len(w) /\ shown \in Seq(Seq(Kept))
      /\ seams \subseteq Openings(w)
      /\ Behind(parser, shown, w, g, sent)
  BY DEF ParserInv
<1>2. w \in Seq(Byte) /\ Len(w) \in Nat
  BY <1>1, WireType
<1>3. PICK m \in Losses :
        /\ sent + m <= Len(w) /\ sent' = sent + m /\ gapped' = TRUE
        /\ UNCHANGED <<stream, memory, parser, shown, seams, marred>>
  BY DEF Lose
<1>4. m \in Nat
  BY StreamsAssumption
<1>5. w' = w /\ g' = g
  BY <1>3 DEF Wire, Recorded
<1> HIDE DEF w, g
<1>6. Behind(parser, shown, w, g, sent + m)
  <2>1. c \in Nat /\ c <= sent /\ Traced(shown, w, g, (sent - c) + 5)
    BY <1>1 DEF Behind, Parsers
  <2>2. parser \in Parsers /\ MemoryShape(parser)
    BY <1>1 DEF Behind
  <2> HIDE DEF c
  <2>3. /\ c <= sent + m /\ (sent - c) + 5 \in Int /\ ((sent + m) - c) + 5 \in Int
        /\ (sent - c) + 5 <= ((sent + m) - c) + 5
    BY <1>1, <1>4, <2>1
  <2>4. Traced(shown, w, g, ((sent + m) - c) + 5)
    BY <1>2, <2>1, <2>3, TracedLater
  <2> QED
    BY <2>2, <2>3, <2>4 DEF Behind, c
<1>7. sent' \in Nat /\ sent' <= Len(w) /\ gapped' \in BOOLEAN /\ gapped'
  BY <1>1, <1>3, <1>4
<1>8. /\ stream' \in DOMAIN Streams /\ memory' \in Memories[stream'] /\ shown' \in Seq(Seq(Kept))
      /\ seams' \subseteq Openings(w') /\ Behind(parser', shown', w', g', sent')
  BY <1>1, <1>3, <1>5, <1>6
<1> QED
  BY <1>5, <1>7, <1>8 DEF ParserInv, w, g

\* However the stream is cut and whatever of it is lost, the frames shown are from where video may
\* begin, each from another place in the stream's order and behind the end of the one before, as
\* long as a frame may be, and agreeing with the stream but where an unwritten _carry stood in
\* (feed, checkFrameCompletion).  This takes nothing of what the card sends.
THEOREM ParserInvariant == Spec => []ParserInv
<1>1. Init => ParserInv
  BY ParserInit
<1>2. ParserInv /\ [Next]_vars => ParserInv'
  <2> SUFFICES ASSUME ParserInv, [Next]_vars PROVE ParserInv'
    OBVIOUS
  <2>1. CASE Feed
    BY <2>1, ParserFeed
  <2>2. CASE Lose
    BY <2>2, ParserLose
  <2>3. CASE UNCHANGED vars
    BY <2>3 DEF vars, ParserInv, Wire, Recorded
  <2> QED
    BY <2>1, <2>2, <2>3 DEF Next
<1> QED
  BY <1>1, <1>2, PTL DEF Spec

(***************************************************************************)
(* Where the units of a stream are, and what is written there.             *)
(***************************************************************************)

\* The pieces put together one after the other.
Joined(f, q, S) ==
  /\ f \in [0 .. Len(q) -> Seq(S)] /\ f[0] = << >>
  /\ \A i \in 1 .. Len(q) : f[i] = f[i - 1] \o q[i]

LEMMA JoinedThere ==
  ASSUME NEW S, NEW q \in Seq(Seq(S))
  PROVE  \E f : Joined(f, q, S) /\ f[Len(q)] = FlattenSeq(q)
<1> DEFINE n == Len(q)
           run[i \in 1 .. n] == IF i = 1 THEN q[i] ELSE run[i - 1] \o q[i]
           f == [i \in 0 .. n |-> IF i = 0 THEN << >> ELSE run[i]]
<1>0. n \in Nat /\ \A i \in 1 .. n : q[i] \in Seq(S)
  BY LenProperties
<1>1. << >> \in Seq(S)
  BY EmptySeq
<1>2. CASE n = 0
  <2>1. FlattenSeq(q) = q /\ q = << >>
    BY <1>2, EmptySeq DEF FlattenSeq
  <2> DEFINE e == [i \in 0 .. 0 |-> << >>]
  <2>2. Joined(e, q, S)
    BY <1>1, <1>2 DEF Joined
  <2>3. e[n] = FlattenSeq(q)
    BY <1>2, <2>1
  <2> QED
    BY <2>2, <2>3
<1>3. CASE n # 0
  <2>1. FlattenSeq(q) = run[n]
    BY <1>3 DEF FlattenSeq
  <2>2. FlattenRun(run, q, n)
    <3> HIDE DEF n
    <3>1. \E h : FlattenRun(h, q, n)
      BY <1>0, <1>3, FlattenRecursion
    <3> QED
      BY ONLY <3>1 DEF FlattenRun
  <2> HIDE DEF run, n
  <2>3. \A i \in 1 .. n : run[i] = IF i = 1 THEN q[i] ELSE run[i - 1] \o q[i]
    BY <2>2 DEF FlattenRun
  <2>4. \A i \in 1 .. n : f[i] = f[i - 1] \o q[i]
    <3> SUFFICES ASSUME NEW i \in 1 .. n PROVE f[i] = f[i - 1] \o q[i]
      OBVIOUS
    <3>1. CASE i = 1
      <4>1. f[i] = q[i] /\ f[i - 1] = << >>
        BY <1>0, <2>3, <3>1
      <4>2. << >> \o q[i] = q[i]
        BY <1>0, ConcatEmptySeq
      <4> QED
        BY <4>1, <4>2
    <3>2. CASE i # 1
      <4>1. i # 0 /\ i - 1 # 0 /\ i \in 0 .. n /\ i - 1 \in 0 .. n
        BY <1>0, <3>2
      <4> QED
        BY <2>3, <3>2, <4>1
    <3> QED
      BY <3>1, <3>2
  <2>5. f[0] = << >> /\ f[n] = run[n]
    BY <1>0, <1>3
  <2> HIDE DEF f
  <2>6. \A i \in 0 .. n : f[i] \in Seq(S)
    <3> DEFINE T == {k \in Nat : f[k] \in Seq(S)}
    <3>1. 0 \in T
      BY <1>1, <2>5
    <3>2. \A k \in 0 .. n - 1 : k \in T => k + 1 \in T
      <4> SUFFICES ASSUME NEW k \in 0 .. n - 1, f[k] \in Seq(S) PROVE f[k + 1] \in Seq(S)
        BY <1>0
      <4>1. k + 1 \in 1 .. n /\ (k + 1) - 1 = k
        BY <1>0
      <4>2. f[k + 1] = f[k] \o q[k + 1]
        BY <2>4, <4>1
      <4> QED
        BY <1>0, <4>1, <4>2, ConcatProperties
    <3> HIDE DEF T
    <3>3. \A k \in 0 .. n : k \in T
      BY <1>0, <3>1, <3>2, UpToBound
    <3> QED
      BY <3>3 DEF T
  <2>7. f \in [0 .. n -> Seq(S)]
    <3>1. f = [i \in 0 .. n |-> f[i]]
      BY DEF f
    <3> QED
      BY <2>6, <3>1
  <2>8. Joined(f, q, S)
    BY <2>4, <2>5, <2>7 DEF Joined, n
  <2> QED
    BY <2>1, <2>5, <2>8 DEF n
<1> QED
  BY <1>2, <1>3

\* The first pieces of a sequence make the beginning of what all of them make.
LEMMA JoinedFront ==
  ASSUME NEW S, NEW q \in Seq(Seq(S)), NEW r \in Seq(Seq(S)), NEW f, Joined(f, q, S),
         Len(r) <= Len(q), \A i \in 1 .. Len(r) : r[i] = q[i]
  PROVE  FlattenSeq(r) = f[Len(r)]
<1> DEFINE n == Len(q)
           m == Len(r)
<1>1. n \in Nat /\ m \in Nat /\ m <= n
  BY LenProperties
<1>2. PICK g : Joined(g, r, S) /\ g[m] = FlattenSeq(r)
  BY JoinedThere
<1>3. /\ f[0] = << >> /\ \A i \in 1 .. n : f[i] = f[i - 1] \o q[i]
      /\ g[0] = << >> /\ \A i \in 1 .. m : g[i] = g[i - 1] \o r[i]
      /\ \A i \in 1 .. m : r[i] = q[i]
  BY <1>2 DEF Joined
<1> HIDE DEF n, m
<1> DEFINE T == {k \in Nat : g[k] = f[k]}
<1>4. 0 \in T
  BY <1>3
<1>5. \A k \in 0 .. m - 1 : k \in T => k + 1 \in T
  <2> SUFFICES ASSUME NEW k \in 0 .. m - 1, g[k] = f[k] PROVE g[k + 1] = f[k + 1]
    BY <1>1
  <2>1. k + 1 \in 1 .. m /\ k + 1 \in 1 .. n /\ (k + 1) - 1 = k
    BY <1>1
  <2>2. g[k + 1] = g[k] \o r[k + 1] /\ f[k + 1] = f[k] \o q[k + 1] /\ r[k + 1] = q[k + 1]
    BY <1>3, <2>1
  <2> QED
    BY <2>2
<1>6. \A k \in 0 .. m : k \in T
  <2> HIDE DEF T
  <2> QED
    BY <1>1, <1>4, <1>5, UpToBound
<1>7. g[m] = f[m]
  BY <1>1, <1>6
<1> QED
  BY <1>2, <1>7 DEF m

\* What has been put together stays as pieces are added.
LEMMA JoinedGrows ==
  ASSUME NEW S, NEW q \in Seq(Seq(S)), NEW f, Joined(f, q, S), NEW i \in 0 .. Len(q)
  PROVE  \A j \in i .. Len(q) :
           Len(f[i]) <= Len(f[j]) /\ \A y \in 1 .. Len(f[i]) : f[j][y] = f[i][y]
<1> DEFINE n == Len(q)
<1>1. n \in Nat /\ (\A k \in 0 .. n : f[k] \in Seq(S)) /\ (\A k \in 1 .. n : q[k] \in Seq(S))
  BY LenProperties DEF Joined
<1>2. \A k \in 1 .. n : f[k] = f[k - 1] \o q[k]
  BY DEF Joined
<1>3. i \in 0 .. n
  OBVIOUS
<1> HIDE DEF n
<1> DEFINE Held(j) == Len(f[i]) <= Len(f[j]) /\ \A y \in 1 .. Len(f[i]) : f[j][y] = f[i][y]
           T == {k \in Nat : Held(i + k)}
<1>4. 0 \in T
  <2>1. Len(f[i]) \in Nat /\ i + 0 = i
    BY <1>1, <1>3, LenProperties
  <2>2. Len(f[i]) <= Len(f[i])
    BY <2>1
  <2> QED
    BY <2>1, <2>2
<1>5. \A k \in 0 .. (n - i) - 1 : k \in T => k + 1 \in T
  <2> HIDE DEF Held
  <2> SUFFICES ASSUME NEW k \in 0 .. (n - i) - 1, Held(i + k) PROVE Held(i + (k + 1))
    BY <1>1, <1>3
  <2> USE DEF Held
  <2> DEFINE j == i + k
  <2>1. j \in 0 .. n /\ j + 1 \in 1 .. n /\ (j + 1) - 1 = j /\ i + (k + 1) = j + 1
    BY <1>1, <1>3
  <2>2. Held(j)
    OBVIOUS
  <2> HIDE DEF j
  <2>3. f[j + 1] = f[j] \o q[j + 1] /\ f[j] \in Seq(S) /\ q[j + 1] \in Seq(S)
    BY <1>1, <1>2, <2>1
  <2>4. /\ Len(f[j + 1]) = Len(f[j]) + Len(q[j + 1])
        /\ \A y \in 1 .. Len(f[j]) + Len(q[j + 1]) :
             f[j + 1][y] = IF y <= Len(f[j]) THEN f[j][y] ELSE q[j + 1][y - Len(f[j])]
    <3>1. /\ Len(f[j] \o q[j + 1]) = Len(f[j]) + Len(q[j + 1])
          /\ \A y \in 1 .. Len(f[j]) + Len(q[j + 1]) :
               (f[j] \o q[j + 1])[y] = IF y <= Len(f[j]) THEN f[j][y] ELSE q[j + 1][y - Len(f[j])]
      BY ONLY <2>3, ConcatProperties
    <3> QED
      BY <2>3, <3>1
  <2>5. Len(f[i]) \in Nat /\ Len(f[j]) \in Nat /\ Len(q[j + 1]) \in Nat
    BY <1>1, <1>3, <2>3, LenProperties
  <2> DEFINE a == Len(f[i])
             b == Len(f[j])
             c == Len(q[j + 1])
  <2>6. a \in Nat /\ b \in Nat /\ c \in Nat /\ a <= b
    BY <2>2, <2>5
  <2>7. /\ \A y \in 1 .. b + c : f[j + 1][y] = IF y <= b THEN f[j][y] ELSE q[j + 1][y - b]
        /\ Len(f[j + 1]) = b + c /\ \A y \in 1 .. a : f[j][y] = f[i][y]
    BY <2>2, <2>4
  <2> HIDE DEF a, b, c
  <2>8. a <= b + c /\ \A y \in 1 .. a : y \in 1 .. b + c /\ y <= b
    BY <2>6
  <2>9. \A y \in 1 .. a : f[j + 1][y] = f[i][y]
    BY <2>7, <2>8
  <2> QED
    BY <2>1, <2>7, <2>8, <2>9 DEF a
<1>6. \A k \in 0 .. n - i : k \in T
  <2> HIDE DEF T
  <2>1. n - i \in Nat
    BY <1>1, <1>3
  <2> QED
    BY <1>4, <1>5, <2>1, UpToBound
<1>7. ASSUME NEW j \in i .. n PROVE Held(j)
  <2>1. j - i \in 0 .. n - i /\ i + (j - i) = j
    BY <1>1, <1>3
  <2> HIDE DEF Held
  <2>2. Held(i + (j - i))
    BY <1>6, <2>1
  <2> QED
    BY <2>1, <2>2
<1> QED
  BY <1>7 DEF n

\* A unit's bytes are where the stream has come to with those in front of it.
LEMMA UnitBytes ==
  ASSUME NEW units \in Seq(Unit), NEW i \in 1 .. Len(units)
  PROVE  LET n == Len(units[i].bytes) IN
         /\ Before(units, i) \in Nat /\ Before(units, i + 1) = Before(units, i) + n
         /\ Before(units, i) + n <= Len(Bytes(units))
         /\ \A y \in 1 .. n : Bytes(units)[Before(units, i) + y] = units[i].bytes[y]
         /\ \A j \in 1 .. i : Before(units, j) \in Nat /\ Before(units, j) <= Before(units, i)
<1> DEFINE all == [k \in DOMAIN units |-> units[k].bytes]
           front(j) == SubSeq(units, 1, j - 1)
           pieces(j) == [k \in DOMAIN front(j) |-> front(j)[k].bytes]
           l == Len(units)
<1>0. l \in Nat /\ (\A k \in 1 .. l : units[k] \in Unit) /\ DOMAIN units = 1 .. l
  BY LenProperties
<1>1. \A k \in 1 .. l : units[k].bytes \in Seq(Byte)
  BY <1>0 DEF Unit
<1>2. all \in Seq(Seq(Byte)) /\ Len(all) = l /\ \A k \in 1 .. l : all[k] = units[k].bytes
  <2>1. all \in [1 .. l -> Seq(Byte)]
    BY <1>0, <1>1
  <2> HIDE DEF all, l
  <2>2. all \in Seq(Seq(Byte)) /\ Len(all) = l
    <3>1. all \in Seq(Seq(Byte))
      BY <1>0, <2>1, SeqDef
    <3> QED
      BY <1>0, <2>1, <3>1, LenProperties
  <2> QED
    BY <1>0, <2>2 DEF all
<1>3. ASSUME NEW j \in 1 .. l + 1
      PROVE  /\ pieces(j) \in Seq(Seq(Byte)) /\ Len(pieces(j)) = j - 1
             /\ \A k \in 1 .. j - 1 : pieces(j)[k] = all[k]
  <2>1. /\ j - 1 \in Nat /\ 1 <= (j - 1) + 1 /\ j - 1 <= l
        /\ \A k \in 1 .. j - 1 : k \in 1 .. l
    BY <1>0
  <2> DEFINE m == j - 1
  <2>2. /\ SubSeq(units, 1, m) \in Seq(Unit)
        /\ Len(SubSeq(units, 1, m)) = IF 1 <= m THEN m - 1 + 1 ELSE 0
        /\ \A k \in 1 .. m - 1 + 1 : SubSeq(units, 1, m)[k] = units[1 + k - 1]
    <3>1. \A k \in 1 .. m : units[k] \in Unit
      BY <1>0, <2>1
    <3> HIDE DEF m
    <3> QED
      BY <1>0, <2>1, <3>1, SubSeqProperties DEF m
  <2>3. \A k \in 1 .. m : 1 + k - 1 = k
    BY <2>1
  <2>4. /\ front(j) \in Seq(Unit) /\ Len(front(j)) = m /\ DOMAIN front(j) = 1 .. m
        /\ \A k \in 1 .. m : front(j)[k] = units[k]
    BY <2>1, <2>2, <2>3, LenProperties
  <2> HIDE DEF front, all
  <2>5. \A k \in 1 .. m : pieces(j)[k] = all[k]
    BY <1>2, <2>1, <2>4
  <2>6. pieces(j) \in [1 .. m -> Seq(Byte)]
    BY <1>1, <2>1, <2>4
  <2> HIDE DEF pieces, m
  <2>7. m \in Nat
    BY <2>1 DEF m
  <2>8. pieces(j) \in Seq(Seq(Byte))
    BY <2>6, <2>7, SeqDef
  <2>9. Len(pieces(j)) = m
    BY <2>6, <2>7, <2>8, LenProperties
  <2> QED
    BY <2>5, <2>8, <2>9 DEF m
<1>4. \A j \in 1 .. l + 1 : Before(units, j) = Len(FlattenSeq(pieces(j)))
  BY DEF Before, Bytes
<1>5. Bytes(units) = FlattenSeq(all)
  BY DEF Bytes
<1> HIDE DEF all, front, pieces
<1>6. PICK f : Joined(f, all, Byte) /\ f[Len(all)] = FlattenSeq(all)
  BY <1>2, JoinedThere
<1>7. ASSUME NEW j \in 1 .. l + 1
      PROVE  j - 1 \in 0 .. l /\ Before(units, j) = Len(f[j - 1]) /\ f[j - 1] \in Seq(Byte)
  <2>1. j - 1 \in 0 .. l /\ j - 1 <= l
    BY <1>0
  <2>2. /\ pieces(j) \in Seq(Seq(Byte)) /\ Len(pieces(j)) <= Len(all)
        /\ \A k \in 1 .. Len(pieces(j)) : pieces(j)[k] = all[k]
    BY <1>2, <1>3, <2>1
  <2>3. FlattenSeq(pieces(j)) = f[Len(pieces(j))]
    BY ONLY <1>2, <1>6, <2>2, JoinedFront
  <2>4. f[j - 1] \in Seq(Byte)
    BY <1>2, <1>6, <2>1 DEF Joined
  <2> QED
    BY <1>3, <1>4, <2>1, <2>3, <2>4
<1>8. i \in 1 .. l /\ i \in 1 .. l + 1 /\ i + 1 \in 1 .. l + 1 /\ (i + 1) - 1 = i /\ i - 1 \in 0 .. l /\ i \in 0 .. l
  BY <1>0
<1> DEFINE a == f[i - 1]
           b == f[i]
           u == units[i].bytes
<1>9. a \in Seq(Byte) /\ b \in Seq(Byte) /\ u \in Seq(Byte) /\ b = a \o u
      /\ Before(units, i) = Len(a) /\ Before(units, i + 1) = Len(b)
  BY <1>1, <1>2, <1>6, <1>7, <1>8 DEF Joined
<1>10. /\ Len(f[i]) <= Len(f[l])
       /\ \A y \in 1 .. Len(f[i]) : f[l][y] = f[i][y]
  <2>1. Len(all) = l /\ i \in 0 .. Len(all) /\ l \in i .. Len(all)
    BY <1>0, <1>2, <1>8
  <2>2. \A j \in i .. Len(all) :
          Len(f[i]) <= Len(f[j]) /\ \A y \in 1 .. Len(f[i]) : f[j][y] = f[i][y]
    BY ONLY <1>2, <1>6, <2>1, JoinedGrows
  <2> HIDE DEF l
  <2> QED
    BY ONLY <2>1, <2>2
<1>11. Bytes(units) = f[l]
  BY <1>2, <1>5, <1>6
<1>12. \A j \in 1 .. i : Before(units, j) \in Nat /\ Before(units, j) <= Before(units, i)
  <2> SUFFICES ASSUME NEW j \in 1 .. i
               PROVE  Before(units, j) \in Nat /\ Before(units, j) <= Before(units, i)
    OBVIOUS
  <2>1. j \in 1 .. l + 1 /\ j - 1 \in 0 .. l /\ i - 1 \in j - 1 .. l
    BY <1>0
  <2>2. Len(f[j - 1]) <= Len(f[i - 1])
    BY <1>2, <1>6, <2>1, JoinedGrows
  <2> QED
    BY <1>7, <1>8, <2>1, <2>2, LenProperties
<1> HIDE DEF a, b, u
<1>13. /\ Len(b) = Len(a) + Len(u) /\ Len(a) \in Nat /\ Len(u) \in Nat
       /\ \A y \in 1 .. Len(a) + Len(u) : b[y] = IF y <= Len(a) THEN a[y] ELSE u[y - Len(a)]
  <2>1. /\ Len(a \o u) = Len(a) + Len(u)
        /\ \A y \in 1 .. Len(a) + Len(u) : (a \o u)[y] = IF y <= Len(a) THEN a[y] ELSE u[y - Len(a)]
    BY ONLY <1>9, ConcatProperties
  <2> QED
    BY <1>9, <2>1, LenProperties
<1>14. \A y \in 1 .. Len(u) : Bytes(units)[Before(units, i) + y] = u[y]
  <2> SUFFICES ASSUME NEW y \in 1 .. Len(u) PROVE Bytes(units)[Len(a) + y] = u[y]
    BY <1>9
  <2> DEFINE x == Len(a)
             z == Len(u)
  <2>1. x \in Nat /\ z \in Nat /\ y \in 1 .. z
    BY <1>13
  <2>2. \A m \in 1 .. x + z : b[m] = IF m <= x THEN a[m] ELSE u[m - x]
    BY <1>13
  <2>3. \A m \in 1 .. x + z : Bytes(units)[m] = b[m]
    BY <1>10, <1>11, <1>13 DEF b
  <2> HIDE DEF x, z
  <2>4. x + y \in 1 .. x + z /\ ~(x + y <= x) /\ (x + y) - x = y
    BY <2>1
  <2>5. Bytes(units)[x + y] = u[y]
    BY <2>2, <2>3, <2>4
  <2> QED
    BY <2>5 DEF x
<1>15. Before(units, i) + Len(u) <= Len(Bytes(units))
  BY <1>9, <1>10, <1>11, <1>13 DEF b
<1> QED
  BY <1>9, <1>12, <1>13, <1>14, <1>15 DEF u

Packets(x) == UnitsOf[x]["packet"]
Begins(x, k) == Spans[x][k].first
Ends(x, k) == Spans[x][k].last
Load(x, k) == Streams[x][k].content

\* A unit of a stream, in its place.
LEMMA UnitThere ==
  ASSUME NEW x \in DOMAIN Streams, NEW k \in DOMAIN Streams[x]
  PROVE  LET u == Streams[x][k].bytes IN
         /\ k \in Nat /\ Wires[x] \in Seq(Byte) /\ Streams[x][k] \in Unit
         /\ Begins(x, k) \in Nat /\ Ends(x, k) = Begins(x, k) + Len(u) /\ Ends(x, k) <= Len(Wires[x])
         /\ \A y \in 1 .. Len(u) : Wires[x][Begins(x, k) + y] = u[y]
         /\ \A j \in DOMAIN Streams[x] : j < k => Ends(x, j) <= Begins(x, k)
<1> DEFINE units == Streams[x]
           u == units[k].bytes
<1>1. units \in Seq(Unit) /\ Wires[x] = Bytes(units)
  BY StreamsAssumption DEF Wires
<1>2. DOMAIN units = 1 .. Len(units) /\ Len(units) \in Nat /\ units[k] \in Unit
  BY <1>1, LenProperties
<1>3. \A j \in DOMAIN units : Begins(x, j) = Before(units, j) /\ Ends(x, j) = Before(units, j + 1)
  BY DEF Begins, Ends, Spans
<1>4. Bytes(units) \in Seq(Byte)
  BY <1>1, BytesType
<1>5. k \in DOMAIN units /\ k \in 1 .. Len(units) /\ \A j \in DOMAIN units : j < k => j + 1 \in 1 .. k
  BY <1>2
<1> HIDE DEF units
<1>6. /\ Before(units, k) \in Nat /\ Before(units, k + 1) = Before(units, k) + Len(units[k].bytes)
      /\ Before(units, k) + Len(units[k].bytes) <= Len(Bytes(units))
      /\ \A y \in 1 .. Len(units[k].bytes) : Bytes(units)[Before(units, k) + y] = units[k].bytes[y]
      /\ \A j \in 1 .. k : Before(units, j) \in Nat /\ Before(units, j) <= Before(units, k)
  BY ONLY <1>1, <1>5, UnitBytes
<1>7. \A j \in DOMAIN units : j < k => Ends(x, j) <= Begins(x, k)
  BY <1>3, <1>5, <1>6
<1> QED
  BY <1>1, <1>2, <1>3, <1>4, <1>5, <1>6, <1>7 DEF units

LEMMA WireIs ==
  ASSUME NEW x \in DOMAIN Streams
  PROVE  Wires[x] \in Seq(Byte) /\ Len(Wires[x]) \in Nat
<1>1. Streams[x] \in Seq(Unit) /\ Wires[x] = Bytes(Streams[x])
  BY StreamsAssumption DEF Wires
<1> QED
  BY <1>1, BytesType, LenProperties

\* A marker and a header.
LEMMA MarkerIs ==
  ASSUME NEW t, NEW h, NEW S, NEW rest \in Seq(S), {Zero, Ones, Type(t), h} \subseteq S
  PROVE  LET m == Append(Marker(t), h) \o rest IN
         /\ m \in Seq(S) /\ Len(m) = 5 + Len(rest)
         /\ m[1] = Zero /\ m[2] = Ones /\ m[3] = Ones /\ m[4] = Type(t) /\ m[5] = h
<1> DEFINE q == Marker(t)
           p == Append(q, h)
<1>2. /\ q \in Seq(S) /\ Len(q) = 4
      /\ q[1] = Zero /\ q[2] = Ones /\ q[3] = Ones /\ q[4] = Type(t)
  BY DEF Marker
<1> HIDE DEF q
<1>3. /\ Append(q, h) \in Seq(S) /\ Len(Append(q, h)) = Len(q) + 1
      /\ Append(q, h)[Len(q) + 1] = h /\ \A i \in 1 .. Len(q) : Append(q, h)[i] = q[i]
  <2>1. q \in Seq(S) /\ h \in S
    BY <1>2
  <2> QED
    BY ONLY <2>1, AppendProperties
<1>4. 1 \in 1 .. Len(q) /\ 2 \in 1 .. Len(q) /\ 3 \in 1 .. Len(q) /\ 4 \in 1 .. Len(q) /\ Len(q) + 1 = 5
  BY <1>2
<1>5. /\ p \in Seq(S) /\ Len(p) = 5
      /\ p[1] = Zero /\ p[2] = Ones /\ p[3] = Ones /\ p[4] = Type(t) /\ p[5] = h
  BY <1>2, <1>3, <1>4
<1> HIDE DEF p
<1>6. /\ p \o rest \in Seq(S) /\ Len(p \o rest) = Len(p) + Len(rest)
      /\ \A i \in 1 .. Len(p) + Len(rest) : (p \o rest)[i] = IF i <= Len(p) THEN p[i] ELSE rest[i - Len(p)]
  BY ONLY <1>5, rest \in Seq(S), ConcatProperties
<1>7. Len(rest) \in Nat
  BY LenProperties
<1>8. \A i \in 1 .. 5 : (p \o rest)[i] = p[i]
  BY <1>5, <1>6, <1>7
<1> QED
  BY <1>5, <1>6, <1>8 DEF p, q

\* The bytes of a unit from one place to another, were it that long.
LEMMA RestIs ==
  ASSUME NEW u, NEW m \in Int, NEW n \in Int, m <= n
  PROVE  /\ SubSeq(u, m, n) \in Seq({u[i] : i \in Int})
         /\ Len(SubSeq(u, m, n)) = n - m + 1
<1> DEFINE S == {u[i] : i \in Int}
<1>1. \A i \in m .. n : u[i] \in S
  OBVIOUS
<1> HIDE DEF S
<1>2. /\ SubSeq(u, m, n) \in Seq(S)
      /\ Len(SubSeq(u, m, n)) = IF m <= n THEN n - m + 1 ELSE 0
  BY ONLY <1>1, m \in Int, n \in Int, SubSeqProperties
<1> QED
  BY <1>2 DEF S

\* A packet in the stream: its marker, the length it declares, and its payload.
LEMMA PacketBytes ==
  ASSUME NEW x \in DOMAIN Streams, NEW k \in Packets(x)
  PROVE  LET w == Wires[x]
             b == Begins(x, k)
             c == Load(x, k)
         IN /\ c \in Seq(Byte) /\ Len(c) \in Nat /\ Len(c) <= AudioMaxPacketBytes
            /\ b \in Nat /\ Ends(x, k) = b + 8 + Len(c) /\ b + 8 + Len(c) <= Len(w)
            /\ w[b + 1] = Zero /\ w[b + 2] = Ones /\ w[b + 3] = Ones
            /\ w[b + 4] = Type("58") /\ w[b + 5] = Header(Len(c))
            /\ \A i \in 1 .. Len(c) : w[(b + 8) + i] = c[i]
<1> DEFINE w == Wires[x]
           b == Begins(x, k)
           c == Load(x, k)
           u == Streams[x][k].bytes
           rest == SubSeq(u, 6, 8)
           m == Append(Marker("58"), Header(Len(c))) \o rest
<1>1. k \in DOMAIN Streams[x] /\ Streams[x][k].kind = "packet"
  BY DEF Packets, UnitsOf
<1>2. /\ b \in Nat /\ Ends(x, k) = b + Len(u) /\ Ends(x, k) <= Len(w)
      /\ \A y \in 1 .. Len(u) : w[b + y] = u[y]
      /\ Streams[x][k] \in Unit
  BY <1>1, UnitThere
<1>3. Streams[x][k] = Packet(c, rest) /\ Len(c) <= AudioMaxPacketBytes
  BY <1>1, UnitsAssumption DEF Load
<1>4. c \in Seq(Byte) /\ Len(c) \in Nat
  BY <1>2, LenProperties DEF Load, Unit
<1>5. u = m \o c
  <2>1. Packet(c, rest).bytes = m \o c
    BY DEF Packet, Declaring
  <2> QED
    BY <1>3, <2>1
<1> DEFINE R == {u[i] : i \in Int}
           S == R \cup Byte \cup {Zero, Ones, Type("58"), Header(Len(c))}
<1>6. {Zero, Ones, Type("58"), Header(Len(c))} \subseteq S /\ c \in Seq(S) /\ rest \in Seq(S) /\ Len(rest) = 3
  <2>1. rest \in Seq(R) /\ Len(rest) = 3
    BY RestIs
  <2> HIDE DEF R, rest
  <2> QED
    BY <1>4, <2>1
<1> HIDE DEF S, rest
<1>7. /\ m \in Seq(S) /\ Len(m) = 8
      /\ m[1] = Zero /\ m[2] = Ones /\ m[3] = Ones /\ m[4] = Type("58") /\ m[5] = Header(Len(c))
  <2> DEFINE h == Header(Len(c))
  <2> HIDE DEF h
  <2>1. {Zero, Ones, Type("58"), h} \subseteq S /\ rest \in Seq(S) /\ Len(rest) = 3
    BY <1>6 DEF h
  <2>2. \A r \in Seq(S) : LET p == Append(Marker("58"), h) \o r IN
        /\ p \in Seq(S) /\ Len(p) = 5 + Len(r)
        /\ p[1] = Zero /\ p[2] = Ones /\ p[3] = Ones /\ p[4] = Type("58") /\ p[5] = h
    BY ONLY <2>1, MarkerIs
  <2> DEFINE q == Append(Marker("58"), h) \o rest
  <2>3. /\ q \in Seq(S) /\ Len(q) = 5 + Len(rest)
        /\ q[1] = Zero /\ q[2] = Ones /\ q[3] = Ones /\ q[4] = Type("58") /\ q[5] = h
    BY ONLY <2>1, <2>2
  <2>4. m = q
    BY DEF h
  <2> HIDE DEF q, m
  <2> QED
    BY ONLY <2>1, <2>3, <2>4 DEF h
<1> HIDE DEF u, m, c, b, w
<1>8. /\ Len(u) = Len(m) + Len(c)
      /\ \A i \in 1 .. Len(m) + Len(c) : u[i] = IF i <= Len(m) THEN m[i] ELSE c[i - Len(m)]
  <2>1. /\ Len(m \o c) = Len(m) + Len(c)
        /\ \A i \in 1 .. Len(m) + Len(c) : (m \o c)[i] = IF i <= Len(m) THEN m[i] ELSE c[i - Len(m)]
    BY ONLY <1>6, <1>7, ConcatProperties
  <2> QED
    BY <1>5, <2>1
<1> DEFINE l == Len(c)
<1>9. /\ l \in Nat /\ Len(u) = 8 + l /\ Len(m) = 8
      /\ \A i \in 1 .. 8 + l : u[i] = IF i <= 8 THEN m[i] ELSE c[i - 8]
      /\ \A i \in 1 .. 8 + l : w[b + i] = u[i]
  BY <1>2, <1>4, <1>7, <1>8
<1> HIDE DEF l
<1>10. /\ w[b + 1] = m[1] /\ w[b + 2] = m[2] /\ w[b + 3] = m[3] /\ w[b + 4] = m[4] /\ w[b + 5] = m[5]
  <2>1. \A i \in 1 .. 5 : i \in 1 .. 8 + l /\ i <= 8
    BY <1>9
  <2>2. \A i \in 1 .. 5 : w[b + i] = m[i]
    BY <1>9, <2>1
  <2> QED
    BY <2>2
<1>11. \A i \in 1 .. l : w[(b + 8) + i] = c[i]
  <2> SUFFICES ASSUME NEW i \in 1 .. l PROVE w[(b + 8) + i] = c[i]
    OBVIOUS
  <2>1. 8 + i \in 1 .. 8 + l /\ ~(8 + i <= 8) /\ (8 + i) - 8 = i /\ b + (8 + i) = (b + 8) + i
    BY <1>2, <1>9
  <2>2. u[8 + i] = c[i] /\ w[b + (8 + i)] = u[8 + i]
    BY <1>9, <2>1
  <2> QED
    BY <2>1, <2>2
<1>12. Ends(x, k) = (b + 8) + l /\ (b + 8) + l <= Len(w)
  BY <1>2, <1>9
<1> QED
  BY <1>2, <1>3, <1>4, <1>7, <1>10, <1>11, <1>12 DEF l, c, b, w

\* Where packets are: one behind the other.
LEMMA PacketsApart ==
  ASSUME NEW x \in DOMAIN Streams, NEW j \in Packets(x), NEW k \in Packets(x)
  PROVE  /\ j \in Nat /\ Begins(x, j) \in Nat /\ Ends(x, j) \in Nat /\ Begins(x, j) + 8 <= Ends(x, j)
         /\ Ends(x, j) <= Len(Wires[x])
         /\ j = k \/ j < k \/ k < j
         /\ j < k => Ends(x, j) <= Begins(x, k)
         /\ k < j => Ends(x, k) <= Begins(x, j)
<1>1. j \in DOMAIN Streams[x] /\ k \in DOMAIN Streams[x]
  BY DEF Packets, UnitsOf
<1>2. j \in Nat /\ k \in Nat /\ (j < k => Ends(x, j) <= Begins(x, k)) /\ (k < j => Ends(x, k) <= Begins(x, j))
  BY <1>1, UnitThere
<1>3. /\ Begins(x, j) \in Nat /\ Ends(x, j) = Begins(x, j) + 8 + Len(Load(x, j)) /\ Len(Load(x, j)) \in Nat
      /\ Ends(x, j) <= Len(Wires[x])
  BY PacketBytes
<1>4. Ends(x, j) \in Nat /\ Begins(x, j) + 8 <= Ends(x, j)
  BY <1>3
<1> QED
  BY <1>2, <1>3, <1>4

Frames(x) == UnitsOf[x]["frame"]

\* At this place of the stream is a marker of this type, with its header.
Marked(w, i, t) ==
  /\ i \in Nat /\ i + 5 <= Len(w)
  /\ w[i + 1] = Zero /\ w[i + 2] = Ones /\ w[i + 3] = Ones
  /\ w[i + 4].v = t /\ w[i + 5].v = "header"

LEMMA MarkedIs ==
  ASSUME NEW w \in Seq(Byte), NEW i, NEW t, Marked(w, i, t)
  PROVE  MarkerIn(w, i, t)
<1>1. i \in Nat /\ i + 3 <= Len(w)
  BY LenProperties DEF Marked
<1>2. SubSeq(w, i + 1, i + 3) = <<w[i + 1], w[i + 2], w[i + 3]>>
  BY <1>1, Triple
<1> QED
  BY <1>2 DEF Marked, MarkerIn

\* A frame in the stream: its two markers, and its pixels in between.
LEMMA FrameBytes ==
  ASSUME NEW x \in DOMAIN Streams, NEW k \in Frames(x)
  PROVE  LET w == Wires[x]
             b == Begins(x, k)
             c == Load(x, k)
             v == VideoFrameBytes
         IN /\ c \in Seq(Byte) /\ Len(c) = v /\ v \in Nat
            /\ b \in Nat /\ Ends(x, k) = b + v + 17 /\ b + v + 17 <= Len(w)
            /\ Marked(w, b, "C0") /\ Marked(w, b + v + 8, "C1")
            /\ \A i \in 1 .. v : w[(b + 8) + i] = c[i]
<1> DEFINE w == Wires[x]
           b == Begins(x, k)
           c == Load(x, k)
           v == VideoFrameBytes
           u == Streams[x][k].bytes
           n == u[5].n
           l == Len(u)
           sav == SubSeq(u, 6, 8)
           eav == SubSeq(u, l - 3, l)
           m == Sav(n, sav)
           e == Eav(n, eav)
<1>1. k \in DOMAIN Streams[x] /\ Streams[x][k].kind = "frame"
  BY DEF Frames, UnitsOf
<1>2. /\ b \in Nat /\ Ends(x, k) = b + Len(u) /\ Ends(x, k) <= Len(w)
      /\ \A y \in 1 .. Len(u) : w[b + y] = u[y]
      /\ Streams[x][k] \in Unit
  BY <1>1, UnitThere
<1>3. Streams[x][k] = Frame(n, c, sav, eav) /\ Len(c) = v
  BY <1>1, UnitsAssumption DEF Load
<1>4. c \in Seq(Byte) /\ v \in Nat
  BY <1>2, Sizes DEF Load, Unit
<1>5. u = (m \o c) \o e
  <2>1. Frame(n, c, sav, eav).bytes = (m \o c) \o e
    BY DEF Frame
  <2> HIDE DEF n, c
  <2> QED
    BY <1>3, <2>1
<1> DEFINE R == {u[i] : i \in Int}
           S == R \cup Byte \cup {Zero, Ones, Type("C0"), Type("C1"), Header(n)}
<1>6. {Zero, Ones, Type("C0"), Header(n)} \subseteq S /\ {Zero, Ones, Type("C1"), Header(n)} \subseteq S /\ c \in Seq(S)
      /\ sav \in Seq(S) /\ Len(sav) = 3 /\ eav \in Seq(S) /\ Len(eav) = 4
  <2>1. l \in Int /\ l - 3 \in Int /\ l - 3 <= l /\ l - (l - 3) + 1 = 4
    <3>1. l \in Nat
      BY <1>2, LenProperties DEF Unit
    <3> HIDE DEF l
    <3> QED
      BY <3>1
  <2>2. sav \in Seq(R) /\ Len(sav) = 3
    BY RestIs
  <2>3. eav \in Seq(R) /\ Len(eav) = 4
    <3> HIDE DEF u, l
    <3> QED
      BY <2>1, RestIs
  <2> HIDE DEF R, sav, eav
  <2> QED
    BY <1>4, <2>2, <2>3
<1>7. Header(n).v = "header" /\ Type("C0").v = "C0" /\ Type("C1").v = "C1"
  BY DEF Header, Type
<1> HIDE DEF S, n, sav, eav
<1>8. /\ m \in Seq(S) /\ Len(m) = 8
      /\ m[1] = Zero /\ m[2] = Ones /\ m[3] = Ones /\ m[4] = Type("C0") /\ m[5] = Header(n)
  <2> DEFINE h == Header(n)
  <2> HIDE DEF h
  <2>1. {Zero, Ones, Type("C0"), h} \subseteq S /\ sav \in Seq(S) /\ Len(sav) = 3
    BY <1>6 DEF h
  <2>2. \A r \in Seq(S) : LET p == Append(Marker("C0"), h) \o r IN
        /\ p \in Seq(S) /\ Len(p) = 5 + Len(r)
        /\ p[1] = Zero /\ p[2] = Ones /\ p[3] = Ones /\ p[4] = Type("C0") /\ p[5] = h
    BY ONLY <2>1, MarkerIs
  <2> DEFINE q == Append(Marker("C0"), h) \o sav
  <2>3. /\ q \in Seq(S) /\ Len(q) = 5 + Len(sav)
        /\ q[1] = Zero /\ q[2] = Ones /\ q[3] = Ones /\ q[4] = Type("C0") /\ q[5] = h
    BY ONLY <2>1, <2>2
  <2>4. m = q
    BY DEF h, Sav
  <2> HIDE DEF q, m
  <2> QED
    BY ONLY <2>1, <2>3, <2>4 DEF h
<1>9. /\ e \in Seq(S) /\ Len(e) = 9
      /\ e[1] = Zero /\ e[2] = Ones /\ e[3] = Ones /\ e[4] = Type("C1") /\ e[5] = Header(n)
  <2> DEFINE h == Header(n)
  <2> HIDE DEF h
  <2>1. {Zero, Ones, Type("C1"), h} \subseteq S /\ eav \in Seq(S) /\ Len(eav) = 4
    BY <1>6 DEF h
  <2>2. \A r \in Seq(S) : LET p == Append(Marker("C1"), h) \o r IN
        /\ p \in Seq(S) /\ Len(p) = 5 + Len(r)
        /\ p[1] = Zero /\ p[2] = Ones /\ p[3] = Ones /\ p[4] = Type("C1") /\ p[5] = h
    BY ONLY <2>1, MarkerIs
  <2> QED
    BY <2>1, <2>2 DEF h, Eav
<1> HIDE DEF u, m, e, c, b, w, v, l
<1> DEFINE h == m \o c
<1>10. /\ h \in Seq(S) /\ Len(h) = 8 + v
       /\ \A i \in 1 .. 8 + v : h[i] = IF i <= 8 THEN m[i] ELSE c[i - 8]
  <2>1. /\ m \o c \in Seq(S) /\ Len(m \o c) = Len(m) + Len(c)
        /\ \A i \in 1 .. Len(m) + Len(c) : (m \o c)[i] = IF i <= Len(m) THEN m[i] ELSE c[i - Len(m)]
    BY ONLY <1>6, <1>8, ConcatProperties
  <2> QED
    BY <1>3, <1>8, <2>1
<1> HIDE DEF h
<1>11. /\ Len(u) = (8 + v) + 9
       /\ \A i \in 1 .. (8 + v) + 9 : u[i] = IF i <= 8 + v THEN h[i] ELSE e[i - (8 + v)]
  <2>1. /\ Len(h \o e) = Len(h) + Len(e)
        /\ \A i \in 1 .. Len(h) + Len(e) : (h \o e)[i] = IF i <= Len(h) THEN h[i] ELSE e[i - Len(h)]
    BY ONLY <1>9, <1>10, ConcatProperties
  <2> QED
    BY <1>5, <1>9, <1>10, <2>1 DEF h
<1>12. \A i \in 1 .. (8 + v) + 9 : w[b + i] = u[i]
  BY <1>2, <1>11
<1>13. Ends(x, k) = b + v + 17 /\ b + v + 17 <= Len(w)
  BY <1>2, <1>4, <1>11
<1>14. Marked(w, b, "C0")
  <2>1. \A i \in 1 .. 5 : i \in 1 .. (8 + v) + 9 /\ i \in 1 .. 8 + v /\ i <= 8 /\ i <= 8 + v
    BY <1>4
  <2>2. \A i \in 1 .. 5 : w[b + i] = m[i]
    BY <1>10, <1>11, <1>12, <2>1
  <2>3. w[b + 1] = m[1] /\ w[b + 2] = m[2] /\ w[b + 3] = m[3] /\ w[b + 4] = m[4] /\ w[b + 5] = m[5]
    BY <2>2
  <2>4. b + 5 <= Len(w)
    <3>1. Len(w) \in Nat
      BY WireIs DEF w
    <3> QED
      BY <1>2, <1>4, <1>13, <3>1
  <2> QED
    BY <1>2, <1>7, <1>8, <2>3, <2>4 DEF Marked
<1>15. Marked(w, b + v + 8, "C1")
  <2> DEFINE a == b + v + 8
  <2>1. ASSUME NEW i \in 1 .. 5 PROVE w[a + i] = e[i]
    <3> DEFINE j == (8 + v) + i
    <3>1. j \in 1 .. (8 + v) + 9 /\ ~(j <= 8 + v) /\ j - (8 + v) = i /\ b + j = a + i
      BY <1>2, <1>4
    <3> HIDE DEF j, a
    <3>2. u[j] = e[i] /\ w[b + j] = u[j]
      BY <1>11, <1>12, <3>1
    <3> QED
      BY <3>1, <3>2
  <2>2. w[a + 1] = e[1] /\ w[a + 2] = e[2] /\ w[a + 3] = e[3] /\ w[a + 4] = e[4] /\ w[a + 5] = e[5]
    <3> HIDE DEF a
    <3> QED
      BY <2>1
  <2>3. a \in Nat /\ a + 5 <= Len(w)
    BY <1>2, <1>4, <1>13
  <2> HIDE DEF a
  <2>4. Marked(w, a, "C1")
    BY <1>7, <1>9, <2>2, <2>3 DEF Marked
  <2> QED
    BY <2>4 DEF a
<1>16. ASSUME NEW i \in 1 .. v PROVE w[(b + 8) + i] = c[i]
  <2> DEFINE j == 8 + i
  <2>1. j \in 1 .. (8 + v) + 9 /\ j \in 1 .. 8 + v /\ ~(j <= 8) /\ j <= 8 + v /\ j - 8 = i /\ b + j = (b + 8) + i
    BY <1>2, <1>4
  <2> HIDE DEF j
  <2>2. h[j] = c[i] /\ u[j] = h[j] /\ w[b + j] = u[j]
    BY <1>10, <1>11, <1>12, <2>1
  <2> QED
    BY <2>1, <2>2
<1> QED
  BY <1>2, <1>3, <1>4, <1>13, <1>14, <1>15, <1>16 DEF w, b, c, v

\* A frame's place is not another unit's.
LEMMA FrameApart ==
  ASSUME NEW x \in DOMAIN Streams, NEW k \in Frames(x), NEW j \in Packets(x)
  PROVE  \/ Ends(x, j) <= Begins(x, k)
         \/ Ends(x, k) <= Begins(x, j)
<1>1. /\ k \in DOMAIN Streams[x] /\ Streams[x][k].kind = "frame"
      /\ j \in DOMAIN Streams[x] /\ Streams[x][j].kind = "packet"
  BY DEF Frames, Packets, UnitsOf
<1>2. k \in Nat /\ j \in Nat /\ k # j
  BY <1>1, UnitThere
<1>3. (j < k => Ends(x, j) <= Begins(x, k)) /\ (k < j => Ends(x, k) <= Begins(x, j))
  BY <1>1, UnitThere
<1> QED
  BY <1>2, <1>3

(***************************************************************************)
(* The frames that are shown.                                              *)
(***************************************************************************)

\* A place where a frame seems to begin and to end is one where the card sent a frame.
LEMMA FrameThere ==
  ASSUME NEW x \in DOMAIN Streams, NEW a \in Openings(Wires[x]), NEW e \in 0 .. Len(Wires[x]),
         Plausible(Wires[x], a, e)
  PROVE  \E i \in Frames(x) :
           LET head == Begins(x, i) + 8 IN
           head \in Int /\ a \in Int /\ head - 3 <= a /\ a <= head /\ e = head + VideoFrameBytes
<1> DEFINE w == Wires[x]
<1>1. w \in Seq(Byte) /\ Len(w) \in Nat
  BY WireIs
<1>2. a \in Nat
  <2>1. \A i \in Heads(w) : i \in Nat
    BY <1>1 DEF Heads, Width
  <2>2. \A n \in 0 .. Len(w) : \A i \in Seams(w, n) : i \in Nat
    BY <1>1 DEF Seams
  <2> QED
    BY <2>1, <2>2 DEF Openings
<1>3. e \in a .. Len(w)
  <2>1. e - a \in VideoFrameBytes - FrameSizeTolerance .. VideoFrameBytes + FrameSizeTolerance
    BY DEF Plausible
  <2> DEFINE l == Len(w)
  <2>2. l \in Nat /\ e \in 0 .. l
    BY <1>1
  <2> HIDE DEF w, l
  <2>3. e \in a .. l
    BY <1>2, <2>1, <2>2, Sizes
  <2> QED
    BY <2>3 DEF l
<1>4. PICK i \in DOMAIN Streams[x] :
        LET head == Spans[x][i].first + Width("C0") IN
        /\ Streams[x][i].kind = "frame" /\ a \in head - 3 .. head /\ e = head + VideoFrameBytes
  BY <1>3, SpansAssumption
<1>5. i \in Frames(x)
  BY <1>4 DEF Frames, UnitsOf
<1>6. Begins(x, i) \in Nat
  BY <1>4, UnitThere
<1>7. Width("C0") = 8
  BY DEF Width
<1> QED
  BY <1>2, <1>4, <1>5, <1>6, <1>7 DEF Begins

\* No marker begins right behind the first byte of another.
LEMMA HeadsApart ==
  ASSUME NEW w \in Seq(Byte), NEW a \in Heads(w), NEW b \in Nat, w[b + 1] = Zero
  PROVE  (b + 8) - a \notin 1 .. 3
<1> DEFINE i == a - 8
<1>1. i \in Nat /\ i + 8 <= Len(w) /\ Len(w) \in Nat
  BY LenProperties DEF Heads, Width
<1>2. MarkerIn(w, i, "C0")
  BY DEF Heads, Width
<1>3. SubSeq(w, i + 1, i + 3) = <<w[i + 1], w[i + 2], w[i + 3]>>
  <2>1. i + 3 <= Len(w)
    BY <1>1
  <2> HIDE DEF i
  <2> QED
    BY <1>1, <2>1, Triple
<1>4. w[i + 2] = Ones /\ w[i + 3] = Ones /\ w[i + 4].v = "C0"
  BY <1>2, <1>3 DEF MarkerIn
<1>5. Zero # Ones /\ Zero.v # "C0"
  BY DEF Zero, Ones
<1>6. w[i + 2] # Zero /\ w[i + 3] # Zero /\ w[i + 4] # Zero
  BY <1>4, <1>5
<1>7. SUFFICES ASSUME NEW d \in 1 .. 3, (b + 8) - a = d PROVE FALSE
  OBVIOUS
<1>8. b + 1 = i + 2 \/ b + 1 = i + 3 \/ b + 1 = i + 4
  <2>1. a = i + 8 /\ a \in Int
    BY <1>1 DEF Heads
  <2> HIDE DEF i
  <2> QED
    BY <1>1, <1>7, <2>1
<1> QED
  BY <1>6, <1>8

\* A frame that is shown from there begins where the stream was cut to let it begin.
LEMMA StartThere ==
  ASSUME stream \in DOMAIN Streams, NEW i \in Frames(stream), NEW a \in Begun(Recorded),
         Begins(stream, i) + 8 - 3 <= a, a <= Begins(stream, i) + 8
  PROVE  a \in Starts(i)
<1> DEFINE b == Begins(stream, i)
<1>1. Span(i).first = b /\ b \in Nat /\ Wire \in Seq(Byte) /\ Wire[b + 1] = Zero
  BY WireType, FrameBytes DEF Span, Begins, Marked, Wire
<1>2. a \in Nat /\ (a \in Heads(Wire) \/ a \in seams)
  BY DEF Begun, Recorded
<1>3. Width("C0") = 8
  BY DEF Width
<1> HIDE DEF b
<1>4. b + 8 - 3 <= a /\ a <= b + 8
  BY DEF b
<1>5. a = b + 8 \/ (b + 8) - a \in 1 .. 3
  BY <1>1, <1>2, <1>4
<1>6. CASE a = b + 8
  BY <1>1, <1>3, <1>6 DEF Starts
<1>7. CASE (b + 8) - a \in 1 .. 3
  <2>1. a \in seams
    BY <1>1, <1>2, <1>7, HeadsApart
  <2>2. a < b + 8 /\ b + 8 <= a + 3
    BY <1>1, <1>2, <1>7
  <2> QED
    BY <1>1, <1>3, <2>1, <2>2 DEF Starts
<1> QED
  BY <1>5, <1>6, <1>7

\* What is shown between two markers of a frame is the frame.
LEMMA ShowingIs ==
  ASSUME stream \in DOMAIN Streams, NEW i \in Frames(stream), NEW a \in Begun(Recorded), NEW e \in Int,
         Begins(stream, i) + 8 - 3 <= a, a <= Begins(stream, i) + 8,
         e = Begins(stream, i) + 8 + VideoFrameBytes,
         NEW frame \in Seq(Kept), Showing(frame, a, e, Wire, Recorded)
  PROVE  ShownAs(frame, i)
<1> DEFINE b == Begins(stream, i)
           n == VideoFrameBytes
<1>1. a \in Starts(i)
  BY StartThere
<1>2. a \in Nat /\ b \in Nat /\ n \in Nat
  BY FrameBytes DEF Begun
<1>3. Len(frame) = n /\ DOMAIN frame = 1 .. n
  BY LenProperties DEF Showing
<1>4. n <= e - a
  BY <1>2
<1>5. \A p \in 1 .. n : p <= e - a
  BY <1>2, <1>4
<1>6. \A p \in 1 .. n : Agrees(frame[p], Wire[a + p], a + p \in marred)
  BY <1>5 DEF Showing, Recorded
<1>7. Shows(frame, a)
  BY <1>3, <1>6 DEF Shows, Agrees
<1> QED
  BY <1>1, <1>7 DEF ShownAs

\* Frames from different places, in their order, are different frames in that order.
LEMMA TracedWhole ==
  ASSUME NEW b \in Int, stream \in DOMAIN Streams, seams \subseteq Openings(Wire),
         shown \in Seq(Seq(Kept)), Traced(shown, Wire, Recorded, b)
  PROVE  FramesWhole
<1> DEFINE units == Frames(stream)
           n == VideoFrameBytes
           Is(i, k, x, y) ==
             LET head == Begins(stream, i) + 8 IN
             head \in Int /\ x <= head /\ y = head + n /\ ShownAs(shown[k], i)
<1>1. PICK at \in [DOMAIN shown -> Begun(Recorded)], to \in [DOMAIN shown -> 0 .. Len(Wire)] :
        /\ \A k \in DOMAIN shown : Plausible(Wire, at[k], to[k]) /\ Showing(shown[k], at[k], to[k], Wire, Recorded)
        /\ \A j, k \in DOMAIN shown : j < k => to[j] < at[k]
  BY DEF Traced
<1>2. \A k \in DOMAIN shown : at[k] \in Nat /\ at[k] \in Openings(Wire) /\ to[k] \in 0 .. Len(Wire)
  BY <1>1 DEF Begun, Recorded, Openings
<1>3. ASSUME NEW k \in DOMAIN shown
      PROVE  \E i \in units : Is(i, k, at[k], to[k])
  <2> DEFINE w == Wires[stream]
             x == at[k]
             y == to[k]
  <2>1. w = Wire
    BY DEF Wire
  <2>2. x \in Openings(w) /\ y \in 0 .. Len(w) /\ Plausible(w, x, y)
    BY <1>1, <1>2, <2>1
  <2>3. PICK i \in units :
          LET head == Begins(stream, i) + 8 IN
          head \in Int /\ x \in Int /\ head - 3 <= x /\ x <= head /\ y = head + n
    <3> HIDE DEF x, y
    <3> QED
      BY <2>2, FrameThere
  <2>4. /\ x \in Begun(Recorded) /\ y \in Int /\ shown[k] \in Seq(Kept) /\ Showing(shown[k], x, y, Wire, Recorded)
        /\ Begins(stream, i) + 8 - 3 <= x /\ x <= Begins(stream, i) + 8
        /\ y = Begins(stream, i) + 8 + n
    <3>1. x \in Begun(Recorded) /\ shown[k] \in Seq(Kept) /\ Showing(shown[k], x, y, Wire, Recorded)
      BY <1>1, ElementOfSeq, LenProperties
    <3>2. y \in Int
      BY <1>2
    <3> DEFINE c == Begins(stream, i)
    <3>3. c \in Nat /\ x \in Int /\ (c + 8) - 3 <= x /\ x <= c + 8 /\ y = (c + 8) + n
      BY <2>3, FrameBytes
    <3> HIDE DEF c, x, y
    <3>4. c + 8 - 3 <= x /\ x <= c + 8 /\ y = c + 8 + n
      BY ONLY <3>3
    <3> QED
      BY <3>1, <3>2, <3>4 DEF c
  <2> HIDE DEF x, y, w
  <2>5. ShownAs(shown[k], i)
    BY <2>4, ShowingIs
  <2> QED
    BY <2>3, <2>5 DEF x, y
<1> DEFINE place == [k \in DOMAIN shown |-> CHOOSE i \in units : Is(i, k, at[k], to[k])]
<1>4. \A k \in DOMAIN shown : place[k] \in units /\ Is(place[k], k, at[k], to[k])
  BY <1>3
<1>5. place \in [DOMAIN shown -> units]
  BY <1>4
<1> HIDE DEF place
<1>6. ASSUME NEW j \in DOMAIN shown, NEW k \in DOMAIN shown, j < k
      PROVE  place[j] < place[k]
  <2> DEFINE p == place[j]
             q == place[k]
             P == Begins(stream, p)
             Q == Begins(stream, q)
  <2>1. p \in DOMAIN Streams[stream] /\ q \in DOMAIN Streams[stream]
    BY <1>4 DEF Frames, UnitsOf
  <2>2. to[j] = P + 8 + n /\ at[k] <= Q + 8 /\ to[j] < at[k] /\ at[k] \in Nat
    BY <1>1, <1>2, <1>4, <1>6
  <2>3. p \in Nat /\ q \in Nat /\ P \in Nat /\ Q \in Nat /\ n \in Nat
    BY <2>1, UnitThere, Sizes
  <2>4. q < p => Q <= P
    <3>1. /\ Ends(stream, q) = Q + Len(Streams[stream][q].bytes) /\ Streams[stream][q] \in Unit
          /\ q < p => Ends(stream, q) <= P
      BY <2>1, UnitThere
    <3>2. Len(Streams[stream][q].bytes) \in Nat
      BY <3>1, LenProperties DEF Unit
    <3> DEFINE l == Len(Streams[stream][q].bytes)
               t == Ends(stream, q)
    <3>3. l \in Nat /\ t = Q + l /\ (q < p => t <= P) /\ P \in Nat /\ Q \in Nat
      BY <2>3, <3>1, <3>2
    <3> HIDE DEF l, t, P, Q
    <3>4. t <= P => Q <= P
      BY <3>3
    <3> QED
      BY <3>3, <3>4
  <2>5. p = q => P = Q
    OBVIOUS
  <2> HIDE DEF p, q, P, Q
  <2>6. P < Q
    BY <2>2, <2>3
  <2>7. p < q
    BY <2>3, <2>4, <2>5, <2>6
  <2> QED
    BY <2>7 DEF p, q
<1>7. \A k \in DOMAIN shown : ShownAs(shown[k], place[k])
  BY <1>4
<1>8. units = UnitsOf[stream]["frame"]
  BY DEF Frames
<1> QED
  BY <1>5, <1>6, <1>7, <1>8 DEF FramesWhole

\* A frame that is shown is one that the card sent, in its order and once, whatever was lost and
\* however the stream was cut: byte for byte, but for the tail of a SAV's header in front of it and
\* for what the constructor left in _carry (checkFrameCompletion, resetForGap, feed's carry).
THEOREM FramesAreWhole == Spec => []FramesWhole
<1>1. ParserInv => FramesWhole
  <2> SUFFICES ASSUME ParserInv PROVE FramesWhole
    OBVIOUS
  <2>1. /\ stream \in DOMAIN Streams /\ sent \in Nat /\ parser.carryLen \in Nat
        /\ shown \in Seq(Seq(Kept)) /\ seams \subseteq Openings(Wire)
        /\ Traced(shown, Wire, Recorded, (sent - parser.carryLen) + 5)
    BY DEF ParserInv, Behind, Parsers
  <2>2. (sent - parser.carryLen) + 5 \in Int
    BY <2>1
  <2> QED
    BY <2>1, <2>2, TracedWhole
<1> QED
  BY <1>1, ParserInvariant, PTL

(***************************************************************************)
(* The audio.  Of the packets that hold markers, and of those that began   *)
(* after the last loss, the parser misses none; then what it takes for the *)
(* beginning of a packet is one.                                           *)
(***************************************************************************)

\* The packets handed out are different ones of the stream in its order, none ending behind "b".
Heard(packets, x, b) ==
  \E place \in [DOMAIN packets -> Packets(x)] :
    /\ \A n \in DOMAIN packets : packets[n] = Load(x, place[n]) /\ Ends(x, place[n]) <= b
    /\ \A m, n \in DOMAIN packets : m < n => place[m] < place[n]

HandedOut(packets, x, k) == \E n \in DOMAIN packets : packets[n] = Load(x, k)

\* The parser, at a place of the stream, is taking the payload of packet k.
Taking(p, packets, x, at, k) ==
  /\ k \in Packets(x) /\ Heard(packets, x, Begins(x, k) + 3)
  /\ at = (Begins(x, k) + 8) + Len(p.audio) /\ Len(p.audio) + p.remaining = Len(Load(x, k))
  /\ \A i \in 1 .. Len(p.audio) : p.audio[i] = Load(x, k)[i]

\* Of these packets each is in front of the parser, being taken, or was passed, and then, if it
\* began no earlier than "from", handed out.  Behind a packet that ended a chunk up to three
\* bytes of it may be carried, and passed once more.
Spared(packets, x, G, from, at, stop) ==
  \A j \in G : \/ at <= Begins(x, j)
               \/ /\ Ends(x, j) - 3 <= at /\ Ends(x, j) <= stop
                  /\ from <= Begins(x, j) => HandedOut(packets, x, j)

AudioIn(p, packets, x, G, from, at, stop) ==
  /\ p.state = "AudioData" =>
       \E k \in Packets(x) :
         /\ Taking(p, packets, x, at, k)
         /\ \A j \in G : j # k /\ from <= Begins(x, j) /\ Begins(x, j) < at => HandedOut(packets, x, j)
  /\ p.state # "AudioData" =>
       Heard(packets, x, Least(at + 3, stop)) /\ Spared(packets, x, G, from, at, stop)

AudioScan(s, before, x, G, from, base, stop) ==
  AudioIn(s.parser, before \o s.packets, x, G, from, base + s.pos, stop)

\* The packets that must not be missed: those that hold a marker, and others with all of their own.
Warded(x, g, G) ==
  /\ G \subseteq Packets(x)
  /\ \A k \in G : g.marred \cap (Begins(x, k) + 1 .. Begins(x, k) + 3) = {}
  /\ \A k \in Packets(x) : HoldsMarker(Streams[x][k]) => k \in G

LEMMA HeardLater ==
  ASSUME NEW x \in DOMAIN Streams, NEW packets, NEW a \in Int, NEW b \in Int, a <= b,
         Heard(packets, x, a)
  PROVE  Heard(packets, x, b)
<1>1. PICK place \in [DOMAIN packets -> Packets(x)] :
        /\ \A n \in DOMAIN packets : packets[n] = Load(x, place[n]) /\ Ends(x, place[n]) <= a
        /\ \A m, n \in DOMAIN packets : m < n => place[m] < place[n]
  BY DEF Heard
<1>2. \A n \in DOMAIN packets : Ends(x, place[n]) \in Nat
  <2> SUFFICES ASSUME NEW n \in DOMAIN packets PROVE Ends(x, place[n]) \in Nat
    OBVIOUS
  <2>1. place[n] \in Packets(x)
    BY <1>1
  <2> QED
    BY <2>1, PacketsApart
<1>3. \A n \in DOMAIN packets : Ends(x, place[n]) <= b
  <2> SUFFICES ASSUME NEW n \in DOMAIN packets PROVE Ends(x, place[n]) <= b
    OBVIOUS
  <2> DEFINE e == Ends(x, place[n])
  <2>1. e \in Nat /\ e <= a
    BY <1>1, <1>2
  <2> HIDE DEF e
  <2>2. e <= b
    BY <2>1
  <2> QED
    BY <2>2 DEF e
<1> QED
  BY <1>1, <1>3 DEF Heard

\* A packet more.
LEMMA HeardMore ==
  ASSUME NEW x \in DOMAIN Streams, NEW packets \in Seq(Seq(Kept)), NEW k \in Packets(x),
         Heard(packets, x, Begins(x, k) + 3), NEW audio \in Seq(Kept), audio = Load(x, k)
  PROVE  Heard(Append(packets, audio), x, Ends(x, k))
<1> DEFINE all == Append(packets, audio)
           n == Len(packets)
<1>1. n \in Nat /\ DOMAIN packets = 1 .. n
  BY LenProperties
<1>2. /\ DOMAIN all = 1 .. n + 1 /\ all[n + 1] = audio
      /\ \A m \in 1 .. n : all[m] = packets[m]
  BY AppendProperties, LenProperties
<1> HIDE DEF n, all
<1>3. PICK place \in [1 .. n -> Packets(x)] :
        /\ \A m \in 1 .. n : packets[m] = Load(x, place[m]) /\ Ends(x, place[m]) <= Begins(x, k) + 3
        /\ \A l, m \in 1 .. n : l < m => place[l] < place[m]
  BY <1>1 DEF Heard
<1> DEFINE to == [m \in 1 .. n + 1 |-> IF m = n + 1 THEN k ELSE place[m]]
<1>4. /\ to[n + 1] = k /\ \A m \in 1 .. n : to[m] = place[m]
      /\ \A m \in 1 .. n + 1 : m = n + 1 \/ m \in 1 .. n
  BY <1>1
<1>5. to \in [1 .. n + 1 -> Packets(x)]
  BY <1>3, <1>4
<1> HIDE DEF to
<1>6. ASSUME NEW m \in 1 .. n PROVE place[m] < k /\ Ends(x, place[m]) <= Ends(x, k)
  <2> DEFINE j == place[m]
             e == Ends(x, j)
             b == Begins(x, k)
  <2>1. j \in Packets(x) /\ e <= b + 3
    BY <1>3
  <2> HIDE DEF j
  <2>2. /\ j \in Nat /\ k \in Nat /\ Begins(x, j) \in Nat /\ e \in Nat /\ Begins(x, j) + 8 <= e
        /\ b \in Nat /\ Ends(x, k) \in Nat /\ b + 8 <= Ends(x, k)
        /\ (j = k \/ j < k \/ k < j) /\ (k < j => Ends(x, k) <= Begins(x, j))
    BY <2>1, PacketsApart
  <2>3. j # k
    BY <2>1, <2>2
  <2> HIDE DEF e, b
  <2>4. ~(k < j)
    BY <2>1, <2>2
  <2>5. j < k /\ e <= Ends(x, k)
    BY <2>1, <2>2, <2>3, <2>4
  <2> QED
    BY <2>5 DEF j, e
<1>7. Ends(x, k) <= Ends(x, k)
  BY PacketsApart
<1>8. ASSUME NEW m \in 1 .. n + 1
      PROVE  all[m] = Load(x, to[m]) /\ Ends(x, to[m]) <= Ends(x, k)
  <2>1. CASE m = n + 1
    BY <1>2, <1>4, <1>7, <2>1
  <2>2. CASE m \in 1 .. n
    BY <1>2, <1>3, <1>4, <1>6, <2>2
  <2> QED
    BY <1>4, <2>1, <2>2
<1>9. ASSUME NEW l \in 1 .. n + 1, NEW m \in 1 .. n + 1, l < m
      PROVE  to[l] < to[m]
  <2>1. l \in 1 .. n
    BY <1>1, <1>9
  <2>2. CASE m = n + 1
    BY <1>4, <1>6, <2>1, <2>2
  <2>3. CASE m \in 1 .. n
    BY <1>3, <1>4, <1>9, <2>1, <2>3
  <2> QED
    BY <1>4, <2>2, <2>3
<1>10. Heard(all, x, Ends(x, k))
  BY <1>2, <1>5, <1>8, <1>9 DEF Heard
<1> QED
  BY <1>10 DEF all

\* What was handed out stays so.
LEMMA HandedOutMore ==
  ASSUME NEW packets \in Seq(Seq(Kept)), NEW audio \in Seq(Kept), NEW x, NEW k
  PROVE  /\ HandedOut(packets, x, k) => HandedOut(Append(packets, audio), x, k)
         /\ audio = Load(x, k) => HandedOut(Append(packets, audio), x, k)
<1> DEFINE all == Append(packets, audio)
           n == Len(packets)
<1>1. n \in Nat /\ DOMAIN packets = 1 .. n
  BY LenProperties
<1>2. /\ DOMAIN all = 1 .. n + 1 /\ all[n + 1] = audio
      /\ \A m \in 1 .. n : all[m] = packets[m]
  BY AppendProperties, LenProperties
<1> HIDE DEF n, all
<1>3. n + 1 \in 1 .. n + 1 /\ \A m \in 1 .. n : m \in 1 .. n + 1
  BY <1>1
<1>4. HandedOut(packets, x, k) => HandedOut(all, x, k)
  BY <1>1, <1>2, <1>3 DEF HandedOut
<1>5. audio = Load(x, k) => HandedOut(all, x, k)
  BY <1>2, <1>3 DEF HandedOut
<1> QED
  BY <1>4, <1>5 DEF all

\* A scan that moves on, and over the beginning of no such packet.
LEMMA AudioSkips ==
  ASSUME NEW x \in DOMAIN Streams, NEW before, NEW G, G \subseteq Packets(x), NEW from,
         NEW base \in Nat, NEW stop \in Int, NEW s, NEW q, s.pos \in Nat, q.pos \in Nat, s.pos <= q.pos,
         s.parser.state # "AudioData", q.parser.state # "AudioData", q.packets = s.packets,
         AudioScan(s, before, x, G, from, base, stop),
         \A j \in G : base + s.pos <= Begins(x, j) => base + q.pos <= Begins(x, j)
  PROVE  AudioScan(q, before, x, G, from, base, stop)
<1> DEFINE a == base + s.pos
           b == base + q.pos
           packets == before \o s.packets
<1>1. a \in Nat /\ b \in Nat /\ a <= b
  <2> DEFINE m == s.pos
             n == q.pos
  <2>1. m \in Nat /\ n \in Nat /\ m <= n
    OBVIOUS
  <2> HIDE DEF m, n
  <2>2. base + m \in Nat /\ base + n \in Nat /\ base + m <= base + n
    BY <2>1
  <2> QED
    BY <2>2 DEF m, n
<1>2. /\ Heard(packets, x, Least(a + 3, stop)) /\ Spared(packets, x, G, from, a, stop)
      /\ \A j \in G : a <= Begins(x, j) => b <= Begins(x, j)
  BY DEF AudioScan, AudioIn
<1> HIDE DEF a, b, packets
<1>3. Heard(packets, x, Least(b + 3, stop))
  <2>1. Least(a + 3, stop) \in Int /\ Least(b + 3, stop) \in Int /\ Least(a + 3, stop) <= Least(b + 3, stop)
    BY <1>1 DEF Least
  <2> QED
    BY <1>2, <2>1, HeardLater
<1>4. Spared(packets, x, G, from, b, stop)
  <2> SUFFICES ASSUME NEW j \in G
               PROVE  \/ b <= Begins(x, j)
                      \/ /\ Ends(x, j) - 3 <= b /\ Ends(x, j) <= stop
                         /\ from <= Begins(x, j) => HandedOut(packets, x, j)
    BY DEF Spared
  <2>1. \/ a <= Begins(x, j)
        \/ /\ Ends(x, j) - 3 <= a /\ Ends(x, j) <= stop
           /\ from <= Begins(x, j) => HandedOut(packets, x, j)
    BY <1>2 DEF Spared
  <2>2. Ends(x, j) \in Nat
    BY PacketsApart
  <2>3. Ends(x, j) - 3 <= a => Ends(x, j) - 3 <= b
    BY <1>1, <2>2
  <2> QED
    BY <1>2, <2>1, <2>3
<1> QED
  BY <1>3, <1>4 DEF AudioScan, AudioIn, a, b, packets

\* The work buffer where a packet begins, as far as it goes.
LEMMA PacketInWork ==
  ASSUME NEW x \in DOMAIN Streams, NEW s \in Scans, NEW base \in Nat, NEW g, NEW G, Warded(x, g, G),
         WorkAgrees(s, base, Wires[x], g), NEW k \in G, NEW i \in Nat, Begins(x, k) = base + i
  PROVE  /\ i + 1 <= Len(s.work) => s.work[i + 1] = Zero
         /\ i + 2 <= Len(s.work) => s.work[i + 2] = Ones
         /\ i + 3 <= Len(s.work) => s.work[i + 3] = Ones
         /\ i + 4 <= Len(s.work) => s.work[i + 4].v = "58"
         /\ i + 5 <= Len(s.work) => s.work[i + 5] = Header(Len(Load(x, k)))
<1> DEFINE w == Wires[x]
           l == Len(s.work)
           b == base + i
<1>0. k \in Packets(x) /\ g.marred \cap (b + 1 .. b + 3) = {}
  BY DEF Warded
<1>1. /\ w[b + 1] = Zero /\ w[b + 2] = Ones /\ w[b + 3] = Ones
      /\ w[b + 4] = Type("58") /\ w[b + 5] = Header(Len(Load(x, k)))
  BY ONLY <1>0, x \in DOMAIN Streams, Begins(x, k) = base + i, PacketBytes,
     ZenonT(60)
<1>2. /\ l \in Nat
      /\ \A y \in 1 .. l : s.work[y] = w[base + y] \/ (base + y \in g.marred /\ y <= 3)
  <2>1. \A y \in 1 .. l :
          Agrees(s.work[y], w[base + y], base + y \in g.marred /\ y <= 3 /\ y <= s.parser.carryLen)
    BY DEF WorkAgrees
  <2>2. l \in Nat
    BY LenProperties DEF Scans
  <2> QED
    BY <2>1, <2>2 DEF Agrees
<1> HIDE DEF w, l
<1>3. \A y \in 1 .. 5 : i + y <= l => s.work[i + y] = w[b + y]
  <2> SUFFICES ASSUME NEW y \in 1 .. 5, i + y <= l PROVE s.work[i + y] = w[b + y]
    OBVIOUS
  <2>1. i + y \in 1 .. l /\ base + (i + y) = b + y /\ (i + y <= 3 => b + y \in b + 1 .. b + 3)
    BY <1>2
  <2>2. \A z \in b + 1 .. b + 3 : z \notin g.marred
    BY <1>0
  <2> DEFINE z == i + y
  <2>3. z \in 1 .. l /\ base + z = b + y /\ (z <= 3 => base + z \notin g.marred)
    BY <2>1, <2>2
  <2> HIDE DEF z, b
  <2>4. s.work[z] = w[base + z]
    BY <1>2, <2>3
  <2> QED
    BY <2>3, <2>4 DEF z
<1> HIDE DEF b
<1>4. /\ i + 1 <= l => s.work[i + 1] = w[b + 1]
      /\ i + 2 <= l => s.work[i + 2] = w[b + 2]
      /\ i + 3 <= l => s.work[i + 3] = w[b + 3]
      /\ i + 4 <= l => s.work[i + 4] = w[b + 4]
      /\ i + 5 <= l => s.work[i + 5] = w[b + 5]
  BY <1>3
<1>5. Type("58").v = "58"
  BY DEF Type
<1> QED
  BY <1>1, <1>4, <1>5 DEF l

\* Where the scan passes a byte no packet begins that must not be missed.
LEMMA NoPacketHere ==
  ASSUME NEW x \in DOMAIN Streams, NEW s \in Scans, NEW base \in Nat, NEW g, NEW G, Warded(x, g, G),
         WorkAgrees(s, base, Wires[x], g), NEW k \in G, s.pos + 4 <= Len(s.work),
         \/ SubSeq(s.work, s.pos + 1, s.pos + 3) # <<Zero, Ones, Ones>>
         \/ s.work[s.pos + 4].v # "58"
         \/ s.pos + 5 <= Len(s.work) /\ s.work[s.pos + 5].n > AudioMaxPacketBytes
  PROVE  base + s.pos # Begins(x, k)
<1> SUFFICES ASSUME Begins(x, k) = base + s.pos PROVE FALSE
  OBVIOUS
<1> DEFINE m == s.pos
           l == Len(s.work)
           c == Len(Load(x, k))
<1>1. m \in Nat /\ l \in Nat /\ s.work \in Seq(Kept) /\ m + 4 <= l
  BY LenProperties DEF Scans
<1>2. k \in Packets(x)
  BY DEF Warded
<1>3. /\ m + 1 <= l => s.work[m + 1] = Zero
      /\ m + 2 <= l => s.work[m + 2] = Ones
      /\ m + 3 <= l => s.work[m + 3] = Ones
      /\ m + 4 <= l => s.work[m + 4].v = "58"
      /\ m + 5 <= l => s.work[m + 5] = Header(c)
  <2>1. m \in Nat /\ Begins(x, k) = base + m
    BY <1>1
  <2> HIDE DEF m
  <2> QED
    BY <2>1, PacketInWork
<1>4. c \in Nat /\ c <= AudioMaxPacketBytes
  BY <1>2, PacketBytes
<1>5. m + 1 <= l /\ m + 2 <= l /\ m + 3 <= l
  <2> HIDE DEF m, l
  <2> QED
    BY <1>1
<1>6. SubSeq(s.work, m + 1, m + 3) = <<Zero, Ones, Ones>>
  <2>1. m + 3 <= Len(s.work) /\ m \in Nat
    BY <1>1, <1>5
  <2> HIDE DEF m
  <2>2. SubSeq(s.work, m + 1, m + 3) = <<s.work[m + 1], s.work[m + 2], s.work[m + 3]>>
    BY <1>1, <2>1, Triple
  <2> QED
    BY <1>3, <1>5, <2>2
<1>7. s.work[m + 4].v = "58"
  BY <1>1, <1>3
<1>8. m + 5 <= l => ~(s.work[m + 5].n > AudioMaxPacketBytes)
  <2>1. Header(c).n = c
    BY DEF Header
  <2>2. ~(c > AudioMaxPacketBytes)
    BY <1>4, Sizes
  <2> QED
    BY <1>3, <2>1, <2>2
<1> QED
  BY <1>6, <1>7, <1>8

\* Nor does a unit begin inside a frame's marker, or its header.
LEMMA NoUnitInMarker ==
  ASSUME NEW x \in DOMAIN Streams, NEW i \in 0 .. Len(Wires[x]), NEW type \in {"C0", "C1"},
         Spelled(Wires[x], i, type), type = "C0" => Wires[x][i + 5].v = "header",
         NEW k \in Packets(x) \cup Frames(x)
  PROVE  /\ Begins(x, k) \in Nat /\ i \in Nat
         /\ i < Begins(x, k) => i + Width(type) <= Begins(x, k)
<1> DEFINE w == Wires[x]
           b == Begins(x, k)
<1>1. i \in Nat /\ i + 5 <= Len(w) /\ Len(w) \in Nat /\ i + 3 <= Len(w) /\ w \in Seq(Byte)
  <2>1. w \in Seq(Byte) /\ Len(w) \in Nat
    BY WireIs
  <2> QED
    BY <2>1 DEF Spelled
<1>2. w[i + 2] = Ones /\ w[i + 3] = Ones /\ w[i + 4].v = type
  <2>1. SubSeq(w, i + 1, i + 3) = <<w[i + 1], w[i + 2], w[i + 3]>>
    BY <1>1, Triple
  <2> QED
    BY <2>1 DEF Spelled
<1>3. b \in Nat /\ w[b + 1] = Zero
  <2>1. CASE k \in Packets(x)
    BY <2>1, PacketBytes
  <2>2. CASE k \in Frames(x)
    <3>1. b \in Nat /\ Marked(w, b, "C0")
      BY <2>2, FrameBytes
    <3> QED
      BY <3>1 DEF Marked
  <2> QED
    BY <2>1, <2>2
<1>4. Zero # Ones /\ Zero.v # type
  BY DEF Zero, Ones
<1>5. k \in DOMAIN Streams[x] /\ Streams[x][k].kind \in {"frame", "packet"}
  BY DEF Packets, Frames, UnitsOf
<1>6. /\ type = "C1" => b \notin i + 4 .. i + 8
      /\ type = "C0" => b \notin i + 4 .. i + 7
  BY <1>5, MarkersAssumption DEF Begins
<1>7. Width(type) = IF type = "C1" THEN 9 ELSE 8
  BY DEF Width
<1>8. b # i + 1 /\ b # i + 2 /\ b # i + 3
  <2>1. ASSUME b = i + 1 PROVE FALSE
    <3>1. b + 1 = i + 2
      BY <1>1, <2>1
    <3> QED
      BY <1>2, <1>3, <1>4, <3>1
  <2>2. ASSUME b = i + 2 PROVE FALSE
    <3>1. b + 1 = i + 3
      BY <1>1, <2>2
    <3> QED
      BY <1>2, <1>3, <1>4, <3>1
  <2>3. ASSUME b = i + 3 PROVE FALSE
    <3>1. b + 1 = i + 4
      BY <1>1, <2>3
    <3> QED
      BY <1>2, <1>3, <1>4, <3>1
  <2> QED
    BY <2>1, <2>2, <2>3
<1> HIDE DEF b, w
<1>9. CASE type = "C1"
  <2>1. i < b => i + 9 <= b
    BY ONLY <1>1, <1>3, <1>6, <1>8, <1>9
  <2> QED
    BY <1>1, <1>3, <1>7, <1>9, <2>1 DEF b
<1>10. CASE type = "C0"
  <2>1. i < b => i + 8 <= b
    BY ONLY <1>1, <1>3, <1>6, <1>8, <1>10
  <2> QED
    BY <1>1, <1>3, <1>7, <1>10, <2>1 DEF b
<1> QED
  BY <1>9, <1>10

\* Nor a packet at one.
LEMMA NoPacketInMarker ==
  ASSUME NEW x \in DOMAIN Streams, NEW i \in 0 .. Len(Wires[x]), NEW type \in {"C0", "C1"},
         Spelled(Wires[x], i, type), type = "C0" => Wires[x][i + 5].v = "header",
         NEW k \in Packets(x), i <= Begins(x, k)
  PROVE  i + Width(type) <= Begins(x, k)
<1> DEFINE b == Begins(x, k)
<1>1. k \in Packets(x) \cup Frames(x)
  OBVIOUS
<1>2. b \in Nat /\ i \in Nat /\ (i < b => i + Width(type) <= b)
  BY <1>1, NoUnitInMarker
<1>3. i # b
  <2>1. Wires[x][b + 4] = Type("58")
    BY PacketBytes
  <2>2. Wires[x][i + 4].v = type
    BY DEF Spelled
  <2>3. Type("58").v # type
    BY DEF Type
  <2> QED
    BY <2>1, <2>2, <2>3
<1> HIDE DEF b
<1>4. i <= b
  BY DEF b
<1>5. i < b
  BY <1>2, <1>3, <1>4
<1> QED
  BY <1>2, <1>5 DEF b

LEMMA PassedAudio ==
  ASSUME NEW x \in DOMAIN Streams, NEW s \in Scans, NEW base \in Nat, NEW g, NEW G, Warded(x, g, G),
         NEW before, NEW from, NEW stop \in Int, s.parser.state # "AudioData",
         AudioScan(s, before, x, G, from, base, stop),
         \A k \in G : base + s.pos # Begins(x, k)
  PROVE  LET q == Passed(s) IN
         /\ AudioScan(q, before, x, G, from, base, stop)
         /\ q.parser = s.parser /\ q.pos = s.pos + 1 /\ q.marker = s.marker
<1> DEFINE q == Passed(s)
<1>1. s.pos \in Nat /\ s.pos + 1 \in Nat /\ s.pos <= s.pos + 1
  BY DEF Scans
<1>2. q.pos = s.pos + 1 /\ q.parser = s.parser /\ q.packets = s.packets /\ q.marker = s.marker
  BY DEF Passed, Scans
<1> HIDE DEF q
<1>3. \A k \in G : base + s.pos <= Begins(x, k) => base + q.pos <= Begins(x, k)
  <2> SUFFICES ASSUME NEW k \in G, base + s.pos <= Begins(x, k) PROVE base + q.pos <= Begins(x, k)
    OBVIOUS
  <2>1. Begins(x, k) \in Nat /\ base + s.pos # Begins(x, k)
    BY PacketsApart DEF Warded
  <2> DEFINE m == s.pos
  <2>2. m \in Nat /\ q.pos = m + 1 /\ base + m # Begins(x, k) /\ base + m <= Begins(x, k)
    BY <1>1, <1>2, <2>1
  <2> HIDE DEF m
  <2> QED
    BY <2>1, <2>2
<1>4. AudioScan(q, before, x, G, from, base, stop)
  BY <1>1, <1>2, <1>3, AudioSkips DEF Warded
<1> QED
  BY <1>2, <1>4 DEF q

\* The marker that is found is spelled in the stream.
LEMMA SpelledThere ==
  ASSUME NEW s \in Scans, NEW base \in Nat, NEW w \in Seq(Byte), NEW g, WorkAgrees(s, base, w, g),
         Found(s), NEW type \in {"C0", "C1", "58"}, s.work[s.pos + 4].v = type
  PROVE  /\ Spelled(w, base + s.pos, type) /\ base + s.pos \in 0 .. Len(w)
         /\ s.work[s.pos + 5] = w[(base + s.pos) + 5]
<1> DEFINE work == s.work
           m == s.pos
           l == Len(work)
           i == base + m
<1>1. work \in Seq(Kept) /\ m \in Nat /\ l \in Nat /\ m + 5 <= l /\ Len(w) \in Nat /\ base + l <= Len(w)
  BY FoundThere, LenProperties DEF Scans, WorkAgrees
<1>2. \A y \in 1 .. l : Agrees(work[y], w[base + y], y <= 3)
  BY DEF WorkAgrees, Agrees
<1>3. work[m + 4].v = type /\ SubSeq(work, m + 1, m + 3) = <<Zero, Ones, Ones>>
  BY DEF Found
<1>4. s.pos = m /\ s.work = work
  OBVIOUS
<1> HIDE DEF m, work
<1>5. /\ i \in Nat /\ i + 5 <= Len(w) /\ i \in 0 .. Len(w) /\ i + 3 <= Len(w) /\ m + 3 <= Len(work)
      /\ \A y \in 1 .. 5 : m + y \in 1 .. l /\ base + (m + y) = i + y
  BY <1>1
<1> HIDE DEF i, l
<1>6. \A y \in 1 .. 5 : Agrees(work[m + y], w[i + y], m + y <= 3)
  <2> SUFFICES ASSUME NEW y \in 1 .. 5 PROVE Agrees(work[m + y], w[i + y], m + y <= 3)
    OBVIOUS
  <2> DEFINE z == m + y
  <2>1. z \in 1 .. l /\ base + z = i + y
    BY <1>5
  <2> HIDE DEF z
  <2>2. Agrees(work[z], w[base + z], z <= 3)
    BY <1>2, <2>1
  <2> QED
    BY <2>1, <2>2 DEF z
<1>7. work[m + 1] = Zero /\ work[m + 2] = Ones /\ work[m + 3] = Ones
  BY ONLY <1>1, <1>3, <1>5, TripleIs
<1>8. /\ Agrees(Zero, w[i + 1], TRUE) /\ Agrees(Ones, w[i + 2], TRUE) /\ Agrees(Ones, w[i + 3], TRUE)
      /\ work[m + 4] = w[i + 4] /\ work[m + 5] = w[i + 5]
  <2>1. 1 \in 1 .. 5 /\ 2 \in 1 .. 5 /\ 3 \in 1 .. 5 /\ 4 \in 1 .. 5 /\ 5 \in 1 .. 5
    OBVIOUS
  <2>2. ~(m + 4 <= 3) /\ ~(m + 5 <= 3)
    BY <1>1
  <2> QED
    BY <1>6, <1>7, <2>1, <2>2 DEF Agrees
<1>9. w[i + 1] = Zero /\ w[i + 2] = Ones /\ w[i + 3] = Ones /\ w[i + 4].v = type
  <2> QED
    BY <1>3, <1>8, Marks DEF Agrees
<1>10. SubSeq(w, i + 1, i + 3) = <<Zero, Ones, Ones>>
  <2>1. SubSeq(w, i + 1, i + 3) = <<w[i + 1], w[i + 2], w[i + 3]>>
    BY ONLY <1>5, w \in Seq(Byte), Triple
  <2> QED
    BY <1>9, <2>1
<1>11. Spelled(w, i, type)
  BY <1>5, <1>9, <1>10 DEF Spelled
<1> QED
  BY <1>4, <1>5, <1>8, <1>11 DEF i

\* An opening marker.
LEMMA OpenFrameAudio ==
  ASSUME NEW x \in DOMAIN Streams, NEW s \in Scans, NEW base \in Nat, NEW g, NEW G, Warded(x, g, G),
         NEW before, NEW from, NEW stop \in Int, WorkAgrees(s, base, Wires[x], g),
         AudioScan(s, before, x, G, from, base, stop), Found(s), s.work[s.pos + 4].v = "C0"
  PROVE  LET q == OpenFrame(s) IN
         /\ AudioScan(q, before, x, G, from, base, stop) /\ s.pos + 1 <= q.pos
         /\ q.parser.state # "AudioData"
<1>1. /\ s.pos \in Nat /\ Len(s.work) \in Nat /\ s.parser \in Parsers /\ s.pos + 5 <= Len(s.work)
      /\ s.parser.state # "AudioData" /\ s.pos + 4 <= Len(s.work) /\ s.pos + 1 <= s.pos + 1
  <2>1. s.pos \in Nat /\ Len(s.work) \in Nat /\ s.parser \in Parsers /\ s.parser.state # "AudioData"
    BY LenProperties DEF Scans, Found
  <2>2. s.pos + 5 <= Len(s.work)
    BY FoundThere
  <2> QED
    BY <2>1, <2>2
<1>2. HeaderAt(s) = s.work[s.pos + 5]
  BY <1>1, HeaderIs
<1>3. CASE HeaderAt(s).v # "header"
  <2>1. \A k \in G : base + s.pos # Begins(x, k)
    <3>1. s.work[s.pos + 4].v # "58"
      OBVIOUS
    <3> QED
      BY <1>1, <3>1, NoPacketHere
  <2>2. OpenFrame(s) = Passed(s)
    BY <1>3 DEF OpenFrame
  <2>3. /\ AudioScan(Passed(s), before, x, G, from, base, stop)
        /\ Passed(s).pos = s.pos + 1 /\ Passed(s).parser = s.parser
    BY <1>1, <2>1, PassedAudio
  <2> QED
    BY <1>1, <2>2, <2>3
<1>4. CASE HeaderAt(s).v = "header"
  <2> DEFINE n == s.pos + 8
             r == [s.parser EXCEPT !.state = "VideoData", !.offset = 0]
             q == OpenFrame(s)
  <2>1. n \in Nat /\ s.pos + Width("C0") = n /\ s.pos <= n /\ s.pos + 1 <= n
    BY <1>1, Widths
  <2>2. q = [s EXCEPT !.pos = n, !.start = n, !.parser = r]
    BY <1>1, <1>4, <2>1 DEF OpenFrame, AfterHeader, Scans, Parsers
  <2>3. r.state = "VideoData"
    BY <1>1 DEF Parsers
  <2> HIDE DEF n, r, q
  <2>4. q.pos = n /\ q.parser = r /\ q.packets = s.packets
    BY <2>2 DEF Scans
  <2>5. \A k \in G : base + s.pos <= Begins(x, k) => base + n <= Begins(x, k)
    <3> SUFFICES ASSUME NEW k \in G, base + s.pos <= Begins(x, k) PROVE base + n <= Begins(x, k)
      OBVIOUS
    <3> DEFINE w == Wires[x]
               i == base + s.pos
    <3>1. w \in Seq(Byte) /\ WorkAgrees(s, base, w, g) /\ k \in Packets(x)
      BY WireIs DEF Warded
    <3> HIDE DEF w, i
    <3>2. Spelled(w, i, "C0") /\ i \in 0 .. Len(w) /\ s.work[s.pos + 5] = w[i + 5]
      BY <3>1, SpelledThere DEF i
    <3>3. i + Width("C0") <= Begins(x, k)
      BY <1>2, <1>4, <3>1, <3>2, NoPacketInMarker DEF w, i
    <3>4. i + Width("C0") = base + n
      <4> DEFINE m == s.pos
      <4>1. m \in Nat /\ n = m + 8 /\ i = base + m /\ Width("C0") = 8
        BY <1>1, Widths DEF n, i
      <4> HIDE DEF m
      <4> QED
        BY <4>1
    <3> QED
      BY <3>3, <3>4
  <2>6. AudioScan(q, before, x, G, from, base, stop)
    BY <1>1, <2>1, <2>3, <2>4, <2>5, AudioSkips DEF Warded
  <2> QED
    BY <2>1, <2>3, <2>4, <2>6 DEF q
<1> QED
  BY <1>3, <1>4

\* A frame that is complete changes nothing of the audio.
LEMMA CompletionIs ==
  ASSUME NEW t \in Scans
  PROVE  LET d == CheckFrameCompletion(t) IN
         d \in Scans /\ d.packets = t.packets /\ d.pos = t.pos
<1> DEFINE p == t.parser
           r == [p EXCEPT !.offset = 0, !.index = 1 - @]
           frame == SubSeq(p.video[p.index], 1, VideoFrameBytes)
           all == Append(t.frames, frame)
           d == CheckFrameCompletion(t)
<1>1. /\ p \in Parsers /\ t.frames \in Seq(Seq(Kept)) /\ p.index \in {0, 1}
      /\ p.video[p.index] \in [1 .. VideoBufferCapacity -> Kept]
  BY DEF Scans, Parsers
<1>2. d = t \/ d = [t EXCEPT !.frames = all, !.parser = r]
  BY <1>1 DEF CheckFrameCompletion, Scans, Parsers
<1>3. r \in Parsers
  <2>1. 1 - p.index \in {0, 1} /\ 0 \in 0 .. VideoBufferCapacity
    BY <1>1, Sizes
  <2> QED
    BY <1>1, <2>1 DEF Parsers
<1>4. all \in Seq(Seq(Kept))
  <2> DEFINE v == p.video[p.index]
             n == VideoFrameBytes
  <2>1. n \in Nat /\ \A i \in 1 .. n : v[i] \in Kept
    <3>1. n \in Nat /\ n <= VideoBufferCapacity /\ VideoBufferCapacity \in Nat
      BY Sizes
    <3> HIDE DEF n
    <3> QED
      BY <1>1, <3>1
  <2> HIDE DEF v, n
  <2>2. SubSeq(v, 1, n) \in Seq(Kept)
    BY <2>1, SubSeqProperties
  <2>3. frame \in Seq(Kept)
    BY <2>2 DEF v, n
  <2> HIDE DEF frame
  <2> QED
    BY <1>1, <2>3, AppendProperties
<1> HIDE DEF r, all, d
<1>5. CASE d = [t EXCEPT !.frames = all, !.parser = r]
  BY <1>3, <1>4, <1>5 DEF d, Scans
<1>6. CASE d = t
  BY <1>6 DEF d
<1> QED
  BY <1>2, <1>5, <1>6

\* A closing one.
LEMMA CloseFrameAudio ==
  ASSUME NEW x \in DOMAIN Streams, NEW s \in Scans, NEW base \in Nat, NEW g, NEW G, Warded(x, g, G),
         NEW before, NEW from, NEW stop \in Int, WorkAgrees(s, base, Wires[x], g), InScan(s),
         AudioScan(s, before, x, G, from, base, stop), Found(s), s.work[s.pos + 4].v = "C1"
  PROVE  LET q == CloseFrame(s) IN
         /\ AudioScan(q, before, x, G, from, base, stop) /\ s.pos + 1 <= q.pos
         /\ q.parser.state # "AudioData"
<1> DEFINE f == FlushVideo(s, s.pos)
           t == [f EXCEPT !.parser.armed = TRUE]
           c == IF HeaderAt(s).v = "header" THEN CheckFrameCompletion(t) ELSE f
           n == s.pos + 9
           q == CloseFrame(s)
<1>1. /\ s.pos \in Nat /\ s.start <= s.pos /\ s.pos <= Len(s.work) /\ Len(s.work) \in Nat
      /\ s.pos + 5 <= Len(s.work) /\ s.parser.state # "AudioData"
  BY FoundThere, LenProperties DEF Scans, InScan, Found
<1>2. q = AfterHeader([c EXCEPT !.parser.state = "Idle"], "C1")
  BY DEF CloseFrame
<1>3. f \in Scans /\ f.pos = s.pos /\ f.packets = s.packets
  BY <1>1, FlushVideoIs DEF SameButVideo
<1> HIDE DEF f
<1>4. t \in Scans /\ t.pos = s.pos /\ t.packets = s.packets
  <2> DEFINE r == [f.parser EXCEPT !.armed = TRUE]
  <2>1. t = [f EXCEPT !.parser = r]
    BY <1>3 DEF Scans, Parsers
  <2>2. r \in Parsers
    BY <1>3 DEF Scans, Parsers
  <2> HIDE DEF r, t
  <2>3. t \in Scans /\ t.pos = f.pos /\ t.packets = f.packets
    BY <1>3, <2>1, <2>2 DEF Scans
  <2> QED
    BY <1>3, <2>3
<1> HIDE DEF t
<1> DEFINE d == CheckFrameCompletion(t)
<1>5. d \in Scans /\ d.pos = s.pos /\ d.packets = s.packets
  BY <1>4, CompletionIs
<1> HIDE DEF d
<1>6. c \in Scans /\ c.pos = s.pos /\ c.packets = s.packets
  <2>1. c = d \/ c = f
    BY DEF d
  <2> HIDE DEF c
  <2> QED
    BY <1>3, <1>5, <2>1
<1> HIDE DEF c
<1>7. /\ q.pos = n /\ q.packets = s.packets /\ q.parser.state # "AudioData"
      /\ n \in Nat /\ s.pos <= n /\ s.pos + 1 <= n
  <2> DEFINE r == [c.parser EXCEPT !.state = "Idle"]
  <2>1. n \in Nat /\ s.pos + Width("C1") = n /\ s.pos <= n /\ s.pos + 1 <= n
    BY <1>1, Widths
  <2>2. q = [c EXCEPT !.pos = n, !.parser = r]
    <3>1. c.pos + Width("C1") = n
      BY <1>6, <2>1
    <3> HIDE DEF q, n
    <3>2. c \in Scans /\ q = AfterHeader([c EXCEPT !.parser.state = "Idle"], "C1")
      BY <1>2, <1>6
    <3> QED
      BY ONLY <3>1, <3>2 DEF AfterHeader, Scans, Parsers
  <2>3. r.state = "Idle"
    BY <1>6 DEF Scans, Parsers
  <2> HIDE DEF n, r, q
  <2>4. q.pos = n /\ q.packets = s.packets /\ q.parser = r
    BY <1>6, <2>2 DEF Scans
  <2> QED
    BY <2>1, <2>3, <2>4
<1>9. \A k \in G : base + s.pos <= Begins(x, k) => base + n <= Begins(x, k)
  <2> SUFFICES ASSUME NEW k \in G, base + s.pos <= Begins(x, k) PROVE base + n <= Begins(x, k)
    OBVIOUS
  <2> DEFINE w == Wires[x]
             i == base + s.pos
  <2>1. w \in Seq(Byte) /\ WorkAgrees(s, base, w, g) /\ k \in Packets(x)
    BY WireIs DEF Warded
  <2> HIDE DEF w, i
  <2>2. Spelled(w, i, "C1") /\ i \in 0 .. Len(w)
    BY <2>1, SpelledThere DEF i
  <2>3. i + Width("C1") <= Begins(x, k)
    BY <2>1, <2>2, NoPacketInMarker DEF w, i
  <2>4. i + Width("C1") = base + n
    <3> DEFINE m == s.pos
    <3>1. m \in Nat /\ n = m + 9 /\ i = base + m /\ Width("C1") = 9
      BY <1>1, Widths DEF n, i
    <3> HIDE DEF m
    <3> QED
      BY <3>1
  <2> QED
    BY <2>3, <2>4
<1> QED
  <2> HIDE DEF n, q
  <2>1. AudioScan(q, before, x, G, from, base, stop)
    BY <1>1, <1>7, <1>9, AudioSkips DEF Warded
  <2> QED
    BY <1>7, <2>1 DEF q

\* What the parser takes for the beginning of a packet is one.
LEMMA PacketThere ==
  ASSUME NEW x \in DOMAIN Streams, NEW s \in Scans, NEW base \in Nat, NEW g, NEW G, Warded(x, g, G),
         NEW packets, NEW from, NEW stop \in Int, WorkAgrees(s, base, Wires[x], g), Found(s),
         Spared(packets, x, G, from, base + s.pos, stop),
         s.work[s.pos + 4].v = "58", ~(s.work[s.pos + 5].n > AudioMaxPacketBytes)
  PROVE  \E k \in Packets(x) : Begins(x, k) = base + s.pos /\ s.work[s.pos + 5].n = Len(Load(x, k))
<1> DEFINE w == Wires[x]
           i == base + s.pos
           h == s.work[s.pos + 5]
<1>1. w \in Seq(Byte)
  BY WireIs
<1>2. h \in Kept
  <2>1. s.pos \in Nat /\ Len(s.work) \in Nat /\ s.pos + 5 <= Len(s.work) /\ s.work \in Seq(Kept)
    BY FoundThere, LenProperties DEF Scans
  <2>2. s.pos + 5 \in 1 .. Len(s.work)
    BY <2>1
  <2> QED
    BY <2>1, <2>2
<1>3. s.pos \in Nat /\ i \in Nat
  BY DEF Scans
<1>4. Spelled(w, i, "58") /\ i \in 0 .. Len(w) /\ h = w[i + 5]
  <2> HIDE DEF w
  <2>1. WorkAgrees(s, base, w, g)
    BY DEF w
  <2> QED
    BY <1>1, <2>1, SpelledThere
<1>5. ~(h.n > AudioMaxPacketBytes)
  OBVIOUS
<1>6. Spared(packets, x, G, from, i, stop)
  OBVIOUS
<1> HIDE DEF h, i
<1>8. h.n \in Nat /\ h.n <= AudioMaxPacketBytes
  <2>1. h.n \in Nat
    BY <1>2 DEF Kept, Byte, Garbage, Implausible
  <2> QED
    BY <1>5, <2>1, Sizes
<1>9. PICK k \in DOMAIN Streams[x] :
        /\ Streams[x][k].kind = "packet"
        /\ \/ i = Spans[x][k].first
           \/ HoldsMarker(Streams[x][k]) /\ i \in Spans[x][k].first + 8 .. Spans[x][k].last - 4
  BY <1>4, <1>8, MarkersAssumption DEF w
<1>10. k \in Packets(x)
  BY <1>9 DEF Packets, UnitsOf
<1>11. Begins(x, k) \in Nat /\ Ends(x, k) \in Nat
  BY <1>10, PacketsApart
<1>12. i = Begins(x, k)
  <2> SUFFICES ASSUME i # Begins(x, k) PROVE FALSE
    OBVIOUS
  <2>1. HoldsMarker(Streams[x][k]) /\ i \in Begins(x, k) + 8 .. Ends(x, k) - 4
    BY <1>9 DEF Begins, Ends
  <2>2. k \in G
    BY <1>10, <2>1 DEF Warded
  <2>3. i <= Begins(x, k) \/ Ends(x, k) - 3 <= i
    BY <1>6, <2>2 DEF Spared
  <2> QED
    BY <1>3, <1>11, <2>1, <2>3
<1>13. w[i + 5] = Header(Len(Load(x, k)))
  BY <1>10, <1>12, PacketBytes
<1>14. h.n = Len(Load(x, k))
  BY <1>4, <1>13 DEF Header
<1> QED
  BY <1>10, <1>12, <1>14 DEF i, h

\* What is taken of a payload is behind all that the last chunk left.
Sure(s) == s.parser.state = "AudioData" => s.pos >= 3 \/ s.parser.carryLen = 0

LEMMA OpenPacketAudio ==
  ASSUME NEW x \in DOMAIN Streams, NEW s \in Scans, NEW base \in Nat, NEW g, NEW G, Warded(x, g, G),
         NEW before, NEW from \in Int, NEW stop \in Int, WorkAgrees(s, base, Wires[x], g), InScan(s),
         NEW frames, OpenSpan(s.parser, frames, Wires[x], g, base + s.start),
         AudioScan(s, before, x, G, from, base, stop), Found(s), s.work[s.pos + 4].v = "58"
  PROVE  LET q == OpenPacket(s) IN
         /\ AudioScan(q, before, x, G, from, base, stop) /\ s.pos + 1 <= q.pos
         /\ Sure(q)
<1> DEFINE f == FlushIfVideo(s, s.pos)
           r == [f.parser EXCEPT !.state = "AudioData", !.audio = << >>,
                                 !.remaining = HeaderAt(s).n]
           n == s.pos + 8
           q == OpenPacket(s)
           packets == before \o s.packets
           at == base + s.pos
<1>1. /\ s.pos \in Nat /\ s.start <= s.pos /\ s.pos <= Len(s.work)
      /\ s.pos + 5 <= Len(s.work) /\ Len(s.work) \in Nat /\ s.parser.state # "AudioData"
      /\ s.pos + 4 <= Len(s.work) /\ s.pos + 1 <= s.pos + 1 /\ HeaderAt(s) = s.work[s.pos + 5]
  <2>1. /\ s.pos \in Nat /\ s.start <= s.pos /\ s.pos <= Len(s.work)
        /\ s.pos + 5 <= Len(s.work) /\ Len(s.work) \in Nat /\ s.parser.state # "AudioData"
    BY FoundThere, LenProperties DEF InScan, Scans, Found
  <2>2. HeaderAt(s) = s.work[s.pos + 5]
    BY <2>1, HeaderIs
  <2> QED
    BY <2>1, <2>2
<1>2. CASE HeaderAt(s).n > AudioMaxPacketBytes
  <2>1. \A k \in G : base + s.pos # Begins(x, k)
    BY <1>1, <1>2, NoPacketHere
  <2>2. q = Passed(s)
    BY <1>2 DEF OpenPacket
  <2>3. /\ AudioScan(Passed(s), before, x, G, from, base, stop)
        /\ Passed(s).pos = s.pos + 1 /\ Passed(s).parser = s.parser
    BY <1>1, <2>1, PassedAudio
  <2> QED
    BY <1>1, <2>2, <2>3 DEF Sure
<1>3. CASE ~(HeaderAt(s).n > AudioMaxPacketBytes)
  <2>1. Heard(packets, x, Least(at + 3, stop)) /\ Spared(packets, x, G, from, at, stop)
    BY <1>1 DEF AudioScan, AudioIn
  <2>2. f \in Scans /\ SameButVideo(s, f)
    <3>1. Wires[x] \in Seq(Byte)
      BY WireIs
    <3> QED
      BY <1>1, <3>1, FlushIfVideoSpan
  <2> HIDE DEF f, packets
  <2>3. n \in Nat /\ f.pos + Width("58") = n /\ s.pos + 1 <= n /\ n >= 3
    BY <1>1, <2>2, Widths DEF SameButVideo
  <2>4. q = [f EXCEPT !.pos = n, !.parser = r]
    BY <1>3, <2>2, <2>3 DEF OpenPacket, f, AfterHeader, Scans, Parsers
  <2>5. PICK k \in Packets(x) : Begins(x, k) = at /\ HeaderAt(s).n = Len(Load(x, k))
    <3>1. ~(s.work[s.pos + 5].n > AudioMaxPacketBytes)
      BY <1>1, <1>3
    <3>2. \E k \in Packets(x) : Begins(x, k) = at /\ s.work[s.pos + 5].n = Len(Load(x, k))
      BY <2>1, <3>1, PacketThere
    <3> QED
      BY <1>1, <3>2
  <2>6. r.state = "AudioData" /\ r.audio = << >> /\ r.remaining = Len(Load(x, k))
    BY <2>2, <2>5 DEF Scans, Parsers
  <2> HIDE DEF q, r, n
  <2>7. q.pos = n /\ q.parser = r /\ q.packets = s.packets
    BY <2>2, <2>4 DEF Scans, SameButVideo
  <2>8. /\ at \in Nat /\ base + n = at + 8
        /\ Least(at + 3, stop) \in Int /\ Least(at + 3, stop) <= at + 3 /\ at + 3 \in Int
    <3> DEFINE m == s.pos
    <3>1. m \in Nat /\ n = m + 8
      BY <1>1 DEF n
    <3> HIDE DEF m
    <3>2. base + m \in Nat /\ base + n = (base + m) + 8
      BY <3>1
    <3>3. at \in Nat
      BY <3>2 DEF m
    <3> HIDE DEF at
    <3>4. Least(at + 3, stop) \in Int /\ Least(at + 3, stop) <= at + 3 /\ at + 3 \in Int
      BY <3>3 DEF Least
    <3> QED
      BY <3>2, <3>3, <3>4 DEF m, at
  <2> HIDE DEF at
  <2>9. Heard(packets, x, Begins(x, k) + 3)
    BY <2>1, <2>5, <2>8, HeardLater
  <2>10. Taking(r, packets, x, base + n, k)
    <3>1. Len(r.audio) = 0 /\ Len(Load(x, k)) \in Nat
      BY <2>6, PacketBytes
    <3>2. base + n = (Begins(x, k) + 8) + Len(r.audio) /\ Len(r.audio) + r.remaining = Len(Load(x, k))
      BY <2>5, <2>6, <2>8, <3>1
    <3>3. \A i \in 1 .. Len(r.audio) : r.audio[i] = Load(x, k)[i]
      BY <3>1
    <3> QED
      BY <2>9, <3>2, <3>3 DEF Taking
  <2>11. ASSUME NEW j \in G, j # k, from <= Begins(x, j), Begins(x, j) < base + n
         PROVE  HandedOut(packets, x, j)
    <3>1. j \in Packets(x)
      BY DEF Warded
    <3>2. /\ j = k \/ j < k \/ k < j
          /\ Begins(x, j) \in Nat /\ Ends(x, j) \in Nat /\ Begins(x, j) + 8 <= Ends(x, j)
          /\ j < k => Ends(x, j) <= Begins(x, k)
          /\ k < j => Ends(x, k) <= Begins(x, j)
      BY <3>1, PacketsApart
    <3>3. Begins(x, k) + 8 <= Ends(x, k) /\ Ends(x, k) \in Nat
      BY PacketsApart
    <3>4. ~(at <= Begins(x, j))
      BY <2>5, <2>8, <2>11, <3>2, <3>3
    <3> QED
      BY <2>1, <2>11, <3>4 DEF Spared
  <2>12. AudioIn(r, packets, x, G, from, base + n, stop)
    BY <2>6, <2>10, <2>11 DEF AudioIn
  <2>13. AudioScan(q, before, x, G, from, base, stop)
    BY <2>7, <2>12 DEF AudioScan, packets
  <2>14. Sure(q)
    BY <2>3, <2>7 DEF Sure
  <2> QED
    BY <2>3, <2>7, <2>13, <2>14 DEF q
<1> QED
  BY <1>2, <1>3

\* A payload of which something remains has taken the whole buffer.
Drained(s) == s.parser.state = "AudioData" => s.pos = Len(s.work) /\ s.parser.remaining # 0

\* What is taken of a payload.
LEMMA ConsumeAudioIs ==
  ASSUME NEW s \in Scans, s.pos <= Len(s.work), s.parser.state = "AudioData"
  PROVE  LET q == ConsumeAudio(s)
             p == s.parser
             take == Least(Len(s.work) - s.pos, p.remaining)
             audio == p.audio \o SubSeq(s.work, s.pos + 1, s.pos + take)
         IN /\ take \in Nat /\ s.pos + take <= Len(s.work) /\ take <= p.remaining
            /\ q.pos = s.pos + take /\ q.work = s.work /\ q.marker = s.marker
            /\ q.parser.audio = audio /\ q.parser.remaining = p.remaining - take
            /\ audio \in Seq(Kept) /\ Len(audio) = Len(p.audio) + take
            /\ \A i \in 1 .. Len(p.audio) : audio[i] = p.audio[i]
            /\ \A i \in 1 .. take : audio[Len(p.audio) + i] = s.work[s.pos + i]
            /\ take = p.remaining => q.parser.state = "Idle" /\ q.packets = Append(s.packets, audio)
            /\ take # p.remaining =>
                 /\ q.parser.state = "AudioData" /\ q.packets = s.packets
                 /\ s.pos + take = Len(s.work) /\ p.remaining - take # 0
<1> DEFINE q == ConsumeAudio(s)
           p == s.parser
           pos == s.pos
           l == Len(s.work)
           left == p.remaining
           take == Least(l - pos, left)
           piece == SubSeq(s.work, pos + 1, pos + take)
           audio == p.audio \o piece
           r == [p EXCEPT !.audio = audio, !.remaining = @ - take,
                          !.state = IF take = left THEN "Idle" ELSE @]
<1>1. /\ p \in Parsers /\ pos \in Nat /\ s.work \in Seq(Kept) /\ left \in Nat /\ p.audio \in Seq(Kept)
      /\ l \in Nat /\ pos <= l
  BY LenProperties DEF Scans, Parsers
<1>2. q = [s EXCEPT !.pos = @ + take, !.parser = r,
                    !.packets = IF take = left THEN Append(@, audio) ELSE @]
  <2> HIDE DEF take, audio
  <2> QED
    BY <1>1, ZenonT(30) DEF ConsumeAudio, take, audio, Scans, Parsers
<1>3. /\ r.audio = audio /\ r.remaining = left - take
      /\ r.state = IF take = left THEN "Idle" ELSE "AudioData"
  <2> HIDE DEF take, audio
  <2> QED
    BY <1>1 DEF Parsers
<1> HIDE DEF r, q
<1>4. /\ q.pos = pos + take /\ q.parser = r /\ q.work = s.work /\ q.marker = s.marker
      /\ q.packets = IF take = left THEN Append(s.packets, audio) ELSE s.packets
  <2> HIDE DEF take, audio
  <2> QED
    BY <1>2 DEF Scans
<1>5. /\ take \in Nat /\ pos + take <= l /\ take <= left
      /\ take # left => pos + take = l /\ left - take # 0
  <2> HIDE DEF pos, l, left
  <2> QED
    BY <1>1 DEF Least
<1> HIDE DEF take
<1>6. /\ piece \in Seq(Kept) /\ Len(piece) = take
      /\ \A i \in 1 .. take : piece[i] = s.work[pos + i]
  <2> DEFINE a == pos + 1
             b == pos + take
  <2>0. \A i \in 1 .. l : s.work[i] \in Kept
    BY <1>1, LenProperties
  <2> HIDE DEF pos, l
  <2>1. /\ a \in Int /\ b \in Int /\ a <= b + 1 /\ b - a + 1 = take
        /\ \A i \in 1 .. take : a + i - 1 = pos + i
        /\ \A i \in a .. b : s.work[i] \in Kept
        /\ (IF a <= b THEN b - a + 1 ELSE 0) = take
    BY <1>1, <1>5, <2>0
  <2>2. piece = SubSeq(s.work, a, b)
    BY DEF piece
  <2> HIDE DEF a, b, piece
  <2>3. /\ SubSeq(s.work, a, b) \in Seq(Kept)
        /\ Len(SubSeq(s.work, a, b)) = IF a <= b THEN b - a + 1 ELSE 0
        /\ \A i \in 1 .. b - a + 1 : SubSeq(s.work, a, b)[i] = s.work[a + i - 1]
    BY ONLY <2>1, SubSeqProperties
  <2> QED
    BY <2>1, <2>2, <2>3
<1> HIDE DEF piece
<1>7. /\ audio \in Seq(Kept) /\ Len(audio) = Len(p.audio) + take
      /\ \A i \in 1 .. Len(p.audio) : audio[i] = p.audio[i]
      /\ \A i \in 1 .. take : audio[Len(p.audio) + i] = s.work[pos + i]
  <2> DEFINE had == p.audio
             n == Len(had)
  <2>1. had \in Seq(Kept) /\ n \in Nat
    BY <1>1, LenProperties
  <2> HIDE DEF had, n
  <2>2. /\ had \o piece \in Seq(Kept) /\ Len(had \o piece) = Len(had) + Len(piece)
        /\ \A i \in 1 .. Len(had) + Len(piece) :
             (had \o piece)[i] = IF i <= Len(had) THEN had[i] ELSE piece[i - Len(had)]
    BY ONLY <1>6, <2>1, ConcatProperties
  <2>3. /\ Len(had \o piece) = n + take
        /\ \A i \in 1 .. n + take : (had \o piece)[i] = IF i <= n THEN had[i] ELSE piece[i - n]
    BY <1>6, <2>2 DEF n
  <2>4. ASSUME NEW i \in 1 .. n PROVE (had \o piece)[i] = had[i]
    <3>1. i \in 1 .. n + take /\ i <= n
      BY <1>5, <2>1
    <3> QED
      BY <2>3, <3>1
  <2>5. ASSUME NEW i \in 1 .. take PROVE (had \o piece)[n + i] = s.work[pos + i]
    <3>1. n + i \in 1 .. n + take /\ ~(n + i <= n) /\ (n + i) - n = i
      BY <1>5, <2>1
    <3> QED
      BY <1>6, <2>3, <3>1
  <2> QED
    BY <2>2, <2>3, <2>4, <2>5 DEF had, n
<1> HIDE DEF audio
<1> QED
  BY <1>3, <1>4, <1>5, <1>7 DEF q, take, audio, piece

LEMMA ConsumeAudioDrains ==
  ASSUME NEW s \in Scans, s.pos <= Len(s.work)
  PROVE  Drained(ConsumeAudio(s)) /\ s.pos <= ConsumeAudio(s).pos /\ ConsumeAudio(s).marker = s.marker
<1>0. s.pos \in Nat /\ s.pos <= s.pos
  BY DEF Scans
<1>1. CASE s.parser.state # "AudioData"
  BY <1>0, <1>1 DEF ConsumeAudio, Drained
<1>2. CASE s.parser.state = "AudioData"
  <2> DEFINE q == ConsumeAudio(s)
             take == Least(Len(s.work) - s.pos, s.parser.remaining)
  <2>1. /\ take \in Nat /\ q.pos = s.pos + take /\ q.work = s.work /\ q.marker = s.marker
        /\ q.parser.remaining = s.parser.remaining - take
        /\ take = s.parser.remaining => q.parser.state = "Idle"
        /\ take # s.parser.remaining => s.pos + take = Len(s.work) /\ s.parser.remaining - take # 0
    BY <1>2, ConsumeAudioIs
  <2> HIDE DEF q, take
  <2>2. s.pos <= q.pos
    BY <1>0, <2>1
  <2>3. Drained(q)
    BY <2>1 DEF Drained
  <2> QED
    BY <2>1, <2>2, <2>3 DEF q
<1> QED
  BY <1>1, <1>2

\* The bytes taken of a payload are the packet's.
LEMMA TakenAgrees ==
  ASSUME NEW x \in DOMAIN Streams, NEW s \in Scans, NEW base \in Nat, NEW g, NEW packets,
         s.pos <= Len(s.work), WorkAgrees(s, base, Wires[x], g), s.parser.state = "AudioData",
         Sure(s),
         NEW k \in Packets(x), Taking(s.parser, packets, x, base + s.pos, k)
  PROVE  LET q == ConsumeAudio(s)
             take == Least(Len(s.work) - s.pos, s.parser.remaining)
             audio == s.parser.audio \o SubSeq(s.work, s.pos + 1, s.pos + take)
         IN /\ base + q.pos = (Begins(x, k) + 8) + Len(audio)
            /\ Len(audio) + (s.parser.remaining - take) = Len(Load(x, k))
            /\ \A i \in 1 .. Len(audio) : audio[i] = Load(x, k)[i]
<1> DEFINE q == ConsumeAudio(s)
           take == Least(Len(s.work) - s.pos, s.parser.remaining)
           audio == s.parser.audio \o SubSeq(s.work, s.pos + 1, s.pos + take)
           old == s.parser.audio
           n == Len(old)
           pos == s.pos
           l == Len(s.work)
           left == s.parser.remaining
           b == Begins(x, k)
           c == Load(x, k)
           w == Wires[x]
<1>1. /\ take \in Nat /\ pos + take <= l /\ take <= left /\ q.pos = pos + take
      /\ audio \in Seq(Kept) /\ Len(audio) = n + take
      /\ \A i \in 1 .. n : audio[i] = old[i]
      /\ \A i \in 1 .. take : audio[n + i] = s.work[pos + i]
  BY ConsumeAudioIs
<1>2. /\ pos \in Nat /\ l \in Nat /\ n \in Nat /\ left \in Nat
  BY LenProperties DEF Scans, Parsers
<1>3. b \in Nat /\ Len(c) \in Nat /\ \A i \in 1 .. Len(c) : w[(b + 8) + i] = c[i]
  BY PacketBytes
<1>4. /\ base + pos = (b + 8) + n /\ n + left = Len(c)
      /\ \A i \in 1 .. n : old[i] = c[i]
  BY DEF Taking
<1>5. \A i \in 1 .. l : i > pos => s.work[i] = w[base + i]
  <2> DEFINE held == s.parser.carryLen
  <2>1. \A i \in 1 .. l : s.work[i] = w[base + i] \/ (i <= 3 /\ i <= held)
    BY DEF WorkAgrees, Agrees
  <2>2. held \in Nat /\ (pos >= 3 \/ held = 0) /\ pos \in Nat /\ l \in Nat
    BY <1>2, Sizes DEF Sure, Scans, Parsers
  <2> HIDE DEF held, pos, l, w
  <2>3. \A i \in 1 .. l : i > pos => ~(i <= 3 /\ i <= held)
    BY <2>2
  <2> QED
    BY <2>1, <2>3
<1> HIDE DEF q, take, audio, old, n, pos, l, left, b, c, w
<1>6. base + (pos + take) = (b + 8) + (n + take) /\ (n + take) + (left - take) = Len(c)
  <2> DEFINE m == Len(c)
  <2>1. /\ m \in Nat /\ take \in Nat /\ n \in Nat /\ pos \in Nat /\ left \in Nat /\ b \in Nat
        /\ base + pos = (b + 8) + n /\ n + left = m
    BY <1>1, <1>2, <1>3, <1>4
  <2> HIDE DEF m
  <2>2. base + (pos + take) = (b + 8) + (n + take) /\ (n + take) + (left - take) = m
    BY ONLY <2>1, base \in Nat
  <2> QED
    BY <2>2 DEF m
<1>7. ASSUME NEW i \in 1 .. take PROVE audio[n + i] = c[n + i]
  <2> DEFINE y == pos + i
             z == n + i
  <2>1. y \in 1 .. l /\ y > pos /\ z \in 1 .. Len(c) /\ base + y = (b + 8) + z
    <3> DEFINE m == Len(c)
    <3>1. /\ m \in Nat /\ take \in Nat /\ n \in Nat /\ pos \in Nat /\ left \in Nat /\ b \in Nat
          /\ l \in Nat /\ base + pos = (b + 8) + n /\ n + left = m /\ take <= left /\ pos + take <= l
      BY <1>1, <1>2, <1>3, <1>4
    <3> HIDE DEF m
    <3>2. pos + i \in 1 .. l /\ pos + i > pos /\ n + i \in 1 .. m /\ base + (pos + i) = (b + 8) + (n + i)
      BY ONLY <3>1, base \in Nat, i \in 1 .. take
    <3> QED
      BY <3>2 DEF m
  <2>2. audio[z] = s.work[y]
    BY <1>1
  <2> HIDE DEF y, z
  <2>3. s.work[y] = w[base + y] /\ w[(b + 8) + z] = c[z]
    BY <1>3, <1>5, <2>1
  <2>4. audio[z] = c[z]
    BY <2>1, <2>2, <2>3
  <2> QED
    BY <2>4 DEF z
<1>8. ASSUME NEW i \in 1 .. n + take PROVE audio[i] = c[i]
  <2>1. CASE i <= n
    <3>1. i \in 1 .. n
      BY <1>1, <1>2, <2>1
    <3> QED
      BY <1>1, <1>4, <3>1
  <2>2. CASE ~(i <= n)
    <3>1. i - n \in 1 .. take /\ n + (i - n) = i
      BY <1>1, <1>2, <2>2
    <3>2. audio[n + (i - n)] = c[n + (i - n)]
      BY <1>7, <3>1
    <3> QED
      BY <3>1, <3>2
  <2> QED
    BY <2>1, <2>2
<1> QED
  BY <1>1, <1>6, <1>8 DEF q, take, audio, left, pos, b, c

\* The payload is taken: the packet is handed out when it is whole.
LEMMA ConsumeAudioAudio ==
  ASSUME NEW x \in DOMAIN Streams, NEW s \in Scans, NEW base \in Nat, NEW g, NEW G, Warded(x, g, G),
         NEW before \in Seq(Seq(Kept)), NEW from \in Int, NEW stop \in Int,
         s.pos <= Len(s.work), base + Len(s.work) = stop, WorkAgrees(s, base, Wires[x], g), Sure(s),
         AudioScan(s, before, x, G, from, base, stop)
  PROVE  AudioScan(ConsumeAudio(s), before, x, G, from, base, stop)
<1>1. CASE s.parser.state # "AudioData"
  BY <1>1 DEF ConsumeAudio
<1>2. CASE s.parser.state = "AudioData"
  <2> DEFINE q == ConsumeAudio(s)
             p == s.parser
             take == Least(Len(s.work) - s.pos, p.remaining)
             audio == p.audio \o SubSeq(s.work, s.pos + 1, s.pos + take)
             packets == before \o s.packets
             at == base + s.pos
             to == base + q.pos
  <2>1. PICK k \in Packets(x) :
          /\ Taking(p, packets, x, at, k)
          /\ \A j \in G : j # k /\ from <= Begins(x, j) /\ Begins(x, j) < at => HandedOut(packets, x, j)
    BY <1>2 DEF AudioScan, AudioIn
  <2>2. /\ take \in Nat /\ s.pos + take <= Len(s.work) /\ take <= p.remaining /\ q.pos = s.pos + take
        /\ q.parser.audio = audio /\ q.parser.remaining = p.remaining - take /\ audio \in Seq(Kept)
        /\ take = p.remaining => q.parser.state = "Idle" /\ q.packets = Append(s.packets, audio)
        /\ take # p.remaining => q.parser.state = "AudioData" /\ q.packets = s.packets
    BY <1>2, ConsumeAudioIs
  <2>3. /\ to = (Begins(x, k) + 8) + Len(audio) /\ Len(audio) + (p.remaining - take) = Len(Load(x, k))
        /\ \A i \in 1 .. Len(audio) : audio[i] = Load(x, k)[i]
    BY <1>2, <2>1, TakenAgrees
  <2>4. Heard(packets, x, Begins(x, k) + 3) /\ at = (Begins(x, k) + 8) + Len(p.audio)
    BY <2>1 DEF Taking
  <2>5. /\ s.packets \in Seq(Seq(Kept)) /\ packets \in Seq(Seq(Kept))
        /\ p.remaining \in Nat /\ Len(p.audio) \in Nat /\ s.pos \in Nat /\ Len(s.work) \in Nat
    <3>1. s.packets \in Seq(Seq(Kept))
      BY DEF Scans
    <3>2. before \o s.packets \in Seq(Seq(Kept))
      BY ONLY <3>1, before \in Seq(Seq(Kept)), ConcatProperties
    <3> QED
      BY <3>1, <3>2, LenProperties DEF Scans, Parsers
  <2>6. to <= stop /\ to \in Nat
    <3> DEFINE m == s.pos
               l == Len(s.work)
    <3>1. m \in Nat /\ l \in Nat /\ m + take <= l /\ base + l = stop /\ to = base + (m + take)
      BY <2>2, <2>5
    <3> HIDE DEF m, l, take, to
    <3> QED
      BY ONLY <2>2, <3>1, base \in Nat
  <2> DEFINE b == Begins(x, k)
             e == Ends(x, k)
             n == Len(audio)
             left == p.remaining - take
  <2>7. /\ b \in Nat /\ e = b + 8 + Len(Load(x, k)) /\ Len(Load(x, k)) \in Nat /\ n \in Nat /\ left \in Nat
        /\ Len(p.audio) \in Nat /\ b \in Nat
    <3>1. n \in Nat
      BY <2>2, LenProperties
    <3>2. left \in Nat
      <4> DEFINE m == p.remaining
      <4>1. m \in Nat /\ take \in Nat /\ take <= m
        BY <2>2, <2>5
      <4> HIDE DEF m, take
      <4>2. m - take \in Nat
        BY ONLY <4>1
      <4> QED
        BY <4>2 DEF m
    <3> QED
      BY <2>5, <3>1, <3>2, PacketBytes
  <2>8. to <= e /\ b < at /\ (left = 0 => to = e /\ n = Len(Load(x, k)))
    <3> DEFINE h == Len(p.audio)
               c == Len(Load(x, k))
    <3>1. /\ h \in Nat /\ c \in Nat /\ to = (b + 8) + n /\ n + left = c /\ at = (b + 8) + h /\ e = b + 8 + c
      BY <2>3, <2>4, <2>7
    <3>0. n \in Nat /\ left \in Nat /\ b \in Nat
      BY <2>7
    <3>2. n = c <=> n = Len(Load(x, k))
      OBVIOUS
    <3> HIDE DEF h, c, to, at, b, e, n, left
    <3>3. to <= e /\ b < at /\ (left = 0 => to = e /\ n = c)
      BY ONLY <3>0, <3>1
    <3> QED
      BY <3>2, <3>3
  <2>9. left = 0 <=> take = p.remaining
    <3> DEFINE m == p.remaining
    <3>1. m \in Nat /\ take \in Nat
      BY <2>2, <2>5
    <3> HIDE DEF m, take
    <3>2. m - take = 0 <=> take = m
      BY ONLY <3>1
    <3> QED
      BY <3>2 DEF m
  <2>10. \A j \in G : /\ j \in Packets(x) /\ Begins(x, j) \in Nat /\ Ends(x, j) \in Nat
                      /\ Begins(x, j) + 8 <= Ends(x, j)
                      /\ j = k \/ j < k \/ k < j
                      /\ j < k => Ends(x, j) <= b
                      /\ k < j => e <= Begins(x, j)
    BY PacketsApart DEF Warded
  <2> HIDE DEF q, take, audio, packets, at, to, b, e, n, left
  <2>11. CASE left = 0
    <3> DEFINE all == Append(packets, audio)
    <3>1. q.parser.state = "Idle" /\ q.packets = Append(s.packets, audio)
      BY <2>2, <2>9, <2>11
    <3>2. before \o q.packets = all
      <4>1. before \o Append(s.packets, audio) = Append(before \o s.packets, audio)
        <5>1. audio \in Seq(Kept) /\ s.packets \in Seq(Seq(Kept))
          BY <2>2, <2>5
        <5> QED
          BY ONLY <5>1, before \in Seq(Seq(Kept)), AppendBehind
      <4> QED
        BY <3>1, <4>1 DEF packets
    <3>3. audio = Load(x, k)
      <4>1. audio \in Seq(Kept) /\ \A i \in 1 .. Len(audio) : audio[i] = Load(x, k)[i]
        BY <2>2, <2>3
      <4>2. Len(audio) = Len(Load(x, k))
        BY <2>8, <2>11 DEF n
      <4>3. Load(x, k) \in Seq(Byte)
        BY PacketBytes
      <4> QED
        BY ONLY <4>1, <4>2, <4>3
    <3>4. Heard(all, x, e)
      <4>1. Heard(packets, x, Begins(x, k) + 3)
        BY <2>4
      <4>2. Heard(Append(packets, audio), x, Ends(x, k))
        BY ONLY <2>2, <2>5, <3>3, <4>1, x \in DOMAIN Streams, k \in Packets(x), HeardMore
      <4> QED
        BY <4>2 DEF e
    <3>5. Heard(all, x, Least(to + 3, stop))
      <4>1. e \in Int /\ Least(to + 3, stop) \in Int /\ e <= Least(to + 3, stop)
        BY <2>6, <2>8, <2>11 DEF Least
      <4> QED
        BY <3>4, <4>1, HeardLater
    <3>6. HandedOut(all, x, k) /\ \A j : HandedOut(packets, x, j) => HandedOut(all, x, j)
      <4>1. \A j : /\ HandedOut(packets, x, j) => HandedOut(all, x, j)
                   /\ audio = Load(x, j) => HandedOut(all, x, j)
        BY <2>2, <2>5, HandedOutMore
      <4> QED
        BY <3>3, <4>1
    <3>7. Spared(all, x, G, from, to, stop)
      <4> SUFFICES ASSUME NEW j \in G
                   PROVE  \/ to <= Begins(x, j)
                          \/ /\ Ends(x, j) - 3 <= to /\ Ends(x, j) <= stop
                             /\ from <= Begins(x, j) => HandedOut(all, x, j)
        BY DEF Spared
      <4> DEFINE f == Begins(x, j)
                 h == Ends(x, j)
      <4>1. /\ j \in Packets(x) /\ f \in Nat /\ h \in Nat /\ f + 8 <= h
            /\ j = k \/ j < k \/ k < j
            /\ j < k => h <= b
            /\ k < j => e <= f
        BY <2>10
      <4>2. j = k => h = e
        BY DEF h, e
      <4> HIDE DEF f, h
      <4>3. CASE j = k
        <5>1. h - 3 <= to /\ h <= stop
          BY <2>6, <2>8, <2>11, <4>1, <4>2, <4>3
        <5> QED
          BY <3>6, <4>3, <5>1 DEF h
      <4>4. CASE k < j
        <5>1. to <= f
          BY <2>8, <2>11, <4>1, <4>4
        <5> QED
          BY <5>1 DEF f
      <4>5. CASE j < k
        <5>1. h - 3 <= to /\ h <= stop /\ f < at
          <6>1. b <= to /\ b < at /\ at \in Int /\ h <= b
            <7>1. to = (b + 8) + n /\ at = (b + 8) + Len(p.audio)
              BY <2>3, <2>4 DEF b, n
            <7> DEFINE m == Len(p.audio)
            <7>2. m \in Nat /\ at = (b + 8) + m /\ to = (b + 8) + n /\ b \in Nat /\ n \in Nat
              BY <2>7, <7>1
            <7> HIDE DEF m
            <7>3. b <= to /\ b < at /\ at \in Int
              BY ONLY <7>2
            <7> QED
              BY <4>1, <4>5, <7>3
          <6> QED
            BY <2>6, <2>7, <4>1, <6>1
        <5>2. j # k
          <6>1. \A i \in Packets(x) : i \in Nat
            BY PacketsApart
          <6> QED
            BY <4>1, <4>5, <6>1
        <5>3. from <= f => HandedOut(packets, x, j)
          BY <2>1, <5>1, <5>2 DEF f
        <5> QED
          BY <3>6, <5>1, <5>3 DEF f, h
      <4> QED
        BY <4>1, <4>3, <4>4, <4>5
    <3>8. AudioScan(q, before, x, G, from, base, stop)
      <4> HIDE DEF all
      <4> QED
        BY <3>1, <3>2, <3>5, <3>7 DEF AudioScan, AudioIn, to
    <3> QED
      BY <3>8 DEF q
  <2>12. CASE left # 0
    <3>1. q.parser.state = "AudioData" /\ q.packets = s.packets
      BY <2>2, <2>9, <2>12
    <3>2. Taking(q.parser, packets, x, to, k)
      <4>1. to = (Begins(x, k) + 8) + Len(q.parser.audio)
        BY <2>2, <2>3
      <4>2. Len(q.parser.audio) + q.parser.remaining = Len(Load(x, k))
        BY <2>2, <2>3
      <4>3. \A i \in 1 .. Len(q.parser.audio) : q.parser.audio[i] = Load(x, k)[i]
        BY <2>2, <2>3
      <4> QED
        BY <2>4, <4>1, <4>2, <4>3 DEF Taking
    <3>3. ASSUME NEW j \in G, j # k, from <= Begins(x, j), Begins(x, j) < to
          PROVE  HandedOut(packets, x, j)
      <4> DEFINE f == Begins(x, j)
                 h == Ends(x, j)
      <4>1. /\ f \in Nat /\ h \in Nat /\ f + 8 <= h /\ (j < k \/ k < j)
            /\ j < k => h <= b
            /\ k < j => e <= f
            /\ f < to
        BY <2>10, <3>3
      <4> HIDE DEF f, h
      <4>2. ~(k < j)
        BY <2>6, <2>7, <2>8, <4>1
      <4>3. f < at
        <5>1. at \in Int
          BY <2>4, <2>7 DEF b
        <5> QED
          BY <2>7, <2>8, <4>1, <4>2, <5>1
      <4> QED
        BY <2>1, <3>3, <4>3 DEF f
    <3>4. AudioScan(q, before, x, G, from, base, stop)
      BY <3>1, <3>2, <3>3 DEF AudioScan, AudioIn, to, packets
    <3> QED
      BY <3>4 DEF q
  <2> QED
    BY <2>11, <2>12
<1> QED
  BY <1>1, <1>2

LEMMA ProcessMarkerAudio ==
  ASSUME NEW x \in DOMAIN Streams, NEW s, NEW frames, NEW base \in Nat, NEW g, NEW G, Warded(x, g, G),
         NEW before, NEW from \in Int, NEW stop \in Int,
         ScanInv(s, frames, base, stop, Wires[x], g), s.marker = -1, Scanning(s),
         SubSeq(s.work, s.pos + 1, s.pos + 3) = <<Zero, Ones, Ones>>,
         AudioScan(s, before, x, G, from, base, stop)
  PROVE  LET q == ProcessMarker(s) IN
         /\ AudioScan(q, before, x, G, from, base, stop) /\ (q.marker >= 0 \/ s.pos + 1 <= q.pos)
         /\ Sure(q)
<1> DEFINE type == At(s, s.pos + MarkerBytes - 1).v
           complete == Len(s.work) - s.pos >= Width(type)
           candidate == type \in {"C0", "58"} \/ (type = "C1" /\ InVideo(s))
           Audio(q) == AudioScan(q, before, x, G, from, base, stop)
<1>1. /\ s \in Scans /\ s.pos \in Nat /\ Len(s.work) \in Nat /\ s.pos + 4 <= Len(s.work)
      /\ s.parser.state # "AudioData" /\ InScan(s) /\ WorkAgrees(s, base, Wires[x], g)
  <2>1. s \in Scans /\ s.pos \in Nat /\ Len(s.work) \in Nat /\ InScan(s) /\ WorkAgrees(s, base, Wires[x], g)
    BY LenProperties DEF ScanInv, Scans
  <2> QED
    BY <2>1 DEF Scanning, MarkerBytes
<1>2. type = s.work[s.pos + 4].v /\ (complete => Found(s))
  <2>1. type = s.work[s.pos + 4].v
    <3>1. (s.pos + MarkerBytes - 1) + 1 = s.pos + 4
      BY <1>1 DEF MarkerBytes
    <3> QED
      BY <3>1 DEF At
  <2>2. ASSUME complete PROVE s.pos + Width(s.work[s.pos + 4].v) <= Len(s.work)
    <3> DEFINE n == Width(type)
    <3>1. n \in {8, 9} /\ Len(s.work) - s.pos >= n
      BY <2>2, Widths
    <3> HIDE DEF n
    <3> DEFINE m == s.pos
               l == Len(s.work)
    <3>2. m \in Nat /\ l \in Nat /\ n \in {8, 9} /\ l - m >= n
      BY <1>1, <3>1
    <3> HIDE DEF m, l
    <3>3. m + n <= l
      BY ONLY <3>2
    <3> QED
      BY <2>1, <3>3 DEF n, m, l
  <2> QED
    BY <1>1, <2>1, <2>2 DEF Found
<1>3. ProcessMarker(s) =
        CASE ~candidate -> Passed(s)
          [] candidate /\ ~complete -> [s EXCEPT !.marker = s.pos]
          [] complete /\ type = "C0" -> OpenFrame(s)
          [] complete /\ type = "C1" /\ InVideo(s) -> CloseFrame(s)
          [] complete /\ type = "58" -> OpenPacket(s)
  BY DEF ProcessMarker
<1> HIDE DEF type, complete
<1>9. s.marker = -1
  OBVIOUS
<1>4. CASE ~candidate
  <2>1. type # "C0" /\ type # "58" /\ ~(type = "C1" /\ InVideo(s))
    BY <1>4
  <2>2. ProcessMarker(s) = Passed(s)
    BY <1>3, <1>4, <2>1
  <2>3. \A k \in G : base + s.pos # Begins(x, k)
    BY <1>1, <1>2, <2>1, NoPacketHere
  <2>4. Audio(Passed(s)) /\ Passed(s).pos = s.pos + 1 /\ Passed(s).parser = s.parser
    BY <1>1, <2>3, PassedAudio
  <2>5. s.pos + 1 <= s.pos + 1
    BY <1>1
  <2> QED
    BY <1>1, <2>2, <2>4, <2>5 DEF Sure
<1>5. CASE candidate /\ ~complete
  <2> DEFINE q == [s EXCEPT !.marker = s.pos]
  <2>1. ProcessMarker(s) = q
    BY <1>3, <1>5
  <2>2. /\ q.pos = s.pos /\ q.marker = s.pos /\ q.packets = s.packets /\ q.parser = s.parser
    BY <1>1 DEF Scans
  <2> HIDE DEF q
  <2>3. Audio(q)
    BY <2>2 DEF AudioScan
  <2>4. q.marker >= 0
    BY <1>1, <2>2
  <2>5. Sure(q)
    BY <1>1, <2>2 DEF Sure
  <2> QED
    BY <2>1, <2>3, <2>4, <2>5
<1>6. CASE complete /\ type = "C0"
  <2>1. ProcessMarker(s) = OpenFrame(s)
    BY <1>3, <1>6
  <2>2. /\ Audio(OpenFrame(s)) /\ s.pos + 1 <= OpenFrame(s).pos
        /\ OpenFrame(s).parser.state # "AudioData"
    BY <1>1, <1>2, <1>6, OpenFrameAudio
  <2> QED
    BY <2>1, <2>2 DEF Sure
<1>7. CASE complete /\ type = "C1" /\ InVideo(s)
  <2>1. ProcessMarker(s) = CloseFrame(s)
    BY <1>3, <1>7
  <2>2. /\ Audio(CloseFrame(s)) /\ s.pos + 1 <= CloseFrame(s).pos
        /\ CloseFrame(s).parser.state # "AudioData"
    BY <1>1, <1>2, <1>7, CloseFrameAudio
  <2> QED
    BY <2>1, <2>2 DEF Sure
<1>8. CASE complete /\ type = "58"
  <2>1. ProcessMarker(s) = OpenPacket(s)
    BY <1>3, <1>8
  <2>2. OpenSpan(s.parser, frames \o s.frames, Wires[x], g, base + s.start)
    BY DEF ScanInv
  <2>3. Audio(OpenPacket(s)) /\ s.pos + 1 <= OpenPacket(s).pos /\ Sure(OpenPacket(s))
    BY <1>1, <1>2, <1>8, <2>2, OpenPacketAudio
  <2> QED
    BY <2>1, <2>3
<1> QED
  BY <1>4, <1>5, <1>6, <1>7, <1>8

\* One step, and that it goes on.
LEMMA ScanStepAudio ==
  ASSUME NEW x \in DOMAIN Streams, NEW s, NEW frames \in Seq(Seq(Kept)), NEW base \in Nat,
         NEW g, NEW G, Warded(x, g, G),
         NEW before \in Seq(Seq(Kept)), NEW from \in Int, NEW stop \in Int,
         ScanInv(s, frames, base, stop, Wires[x], g), Scanning(s),
         AudioScan(s, before, x, G, from, base, stop)
  PROVE  LET q == ScanStep(s) IN
         /\ AudioScan(q, before, x, G, from, base, stop) /\ Drained(q)
         /\ q.marker >= 0 \/ s.pos + 1 <= q.pos
<1> DEFINE Audio(q) == AudioScan(q, before, x, G, from, base, stop)
<1>1. /\ s \in Scans /\ s.pos \in Nat /\ Len(s.work) \in Nat /\ s.marker \in Int
      /\ s.parser.state # "AudioData" /\ s.marker < 0 /\ s.pos + 4 <= Len(s.work)
      /\ WorkAgrees(s, base, Wires[x], g)
  BY LenProperties DEF ScanInv, Scans, Scanning, MarkerBytes
<1>2. s.marker = -1
  <2>1. s.marker # -1 => s.marker = s.pos
    BY DEF ScanInv, InScan
  <2> QED
    BY <1>1, <2>1
<1>3. CASE SubSeq(s.work, s.pos + 1, s.pos + 3) # <<Zero, Ones, Ones>>
  <2>1. \A k \in G : base + s.pos # Begins(x, k)
    BY <1>1, <1>3, NoPacketHere
  <2>2. Audio(Passed(s)) /\ Passed(s).parser = s.parser /\ Passed(s).pos = s.pos + 1
    BY <1>1, <2>1, PassedAudio
  <2>3. Drained(Passed(s))
    BY <1>1, <2>2 DEF Drained
  <2>4. s.pos + 1 <= Passed(s).pos
    BY <1>1, <2>2
  <2> QED
    BY <1>3, <2>2, <2>3, <2>4 DEF ScanStep
<1>4. CASE SubSeq(s.work, s.pos + 1, s.pos + 3) = <<Zero, Ones, Ones>>
  <2> DEFINE t == ProcessMarker(s)
             q == ConsumeAudio(t)
  <2>0. Wires[x] \in Seq(Byte)
    BY WireIs
  <2>1. ScanInv(t, frames, base, stop, Wires[x], g)
    BY <1>2, <1>4, <2>0, ProcessMarkerScan
  <2>2. Audio(t) /\ (t.marker >= 0 \/ s.pos + 1 <= t.pos) /\ Sure(t)
    BY <1>2, <1>4, ProcessMarkerAudio
  <2> HIDE DEF t
  <2>3. /\ t \in Scans /\ t.pos <= Len(t.work) /\ base + Len(t.work) = stop
        /\ WorkAgrees(t, base, Wires[x], g)
    BY <2>1 DEF ScanInv, InScan
  <2>4. Audio(q)
    BY <2>2, <2>3, ConsumeAudioAudio
  <2>5. Drained(q) /\ t.pos <= q.pos /\ q.marker = t.marker
    BY <2>3, ConsumeAudioDrains
  <2>6. ScanInv(q, frames, base, stop, Wires[x], g)
    BY <2>0, <2>1, ConsumeAudioScan
  <2>7. t.pos \in Nat /\ q.pos \in Nat
    BY <2>3, <2>6 DEF ScanInv, Scans
  <2> HIDE DEF q
  <2>8. q.marker >= 0 \/ s.pos + 1 <= q.pos
    BY <1>1, <2>2, <2>5, <2>7, SMTT(30)
  <2>9. ScanStep(s) = q
    BY <1>4 DEF ScanStep, q, t
  <2> QED
    BY <2>4, <2>5, <2>8, <2>9
<1> QED
  BY <1>3, <1>4

\* The whole scan: it ends where nothing is left to read but what may begin a marker.
LEMMA ScannedAudio ==
  ASSUME NEW x \in DOMAIN Streams, NEW s, NEW frames \in Seq(Seq(Kept)), NEW base \in Nat,
         NEW g, NEW G, Warded(x, g, G),
         NEW before \in Seq(Seq(Kept)), NEW from \in Int, NEW stop \in Int,
         ScanInv(s, frames, base, stop, Wires[x], g), Drained(s),
         AudioScan(s, before, x, G, from, base, stop)
  PROVE  LET q == Scanned(s) IN
         AudioScan(q, before, x, G, from, base, stop) /\ Drained(q) /\ ~Scanning(q)
<1> DEFINE steps == Len(s.work)
           after[k \in 0 .. steps] ==
             IF k = 0 THEN s ELSE LET t == after[k - 1] IN IF Scanning(t) THEN ScanStep(t) ELSE t
           Good(q) == /\ ScanInv(q, frames, base, stop, Wires[x], g)
                      /\ AudioScan(q, before, x, G, from, base, stop) /\ Drained(q)
<1>1. steps \in Nat /\ s.pos \in Nat /\ base + steps = stop
  BY LenProperties DEF ScanInv, Scans
<1>2. Scanned(s) = after[steps]
  BY DEF Scanned
<1>3. ScanRun(after, s, steps)
  <2> HIDE DEF steps
  <2>1. \E f : ScanRun(f, s, steps)
    BY <1>1, ScanRecursion
  <2> QED
    BY ONLY <2>1 DEF ScanRun
<1> HIDE DEF steps, after
<1>4. /\ after[0] = s
      /\ \A k \in 0 .. steps - 1 :
           after[k + 1] = IF Scanning(after[k]) THEN ScanStep(after[k]) ELSE after[k]
  <2>1. 0 \in 0 .. steps
    BY <1>1
  <2>2. \A k \in 0 .. steps - 1 : k + 1 \in 0 .. steps /\ k + 1 # 0 /\ (k + 1) - 1 = k
    BY <1>1
  <2> QED
    BY <1>3, <2>1, <2>2 DEF ScanRun
<1> DEFINE Reads(k) == Good(after[k]) /\ (Scanning(after[k]) => k <= after[k].pos)
           T == {k \in Nat : Reads(k)}
<1>5. 0 \in T
  <2>1. 0 <= s.pos
    BY <1>1
  <2> QED
    BY <1>4, <2>1
<1>6. \A k \in 0 .. steps - 1 : k \in T => k + 1 \in T
  <2> HIDE DEF Reads
  <2> SUFFICES ASSUME NEW k \in 0 .. steps - 1, Reads(k) PROVE Reads(k + 1)
    BY <1>1
  <2> USE DEF Reads
  <2> HIDE DEF Good
  <2> DEFINE t == after[k]
             q == ScanStep(t)
  <2>1. CASE ~Scanning(t)
    BY <1>4, <2>1
  <2>2. CASE Scanning(t)
    <3>1. after[k + 1] = q
      BY <1>4, <2>2
    <3> HIDE DEF t
    <3>2. Good(t) /\ k <= t.pos
      BY <2>2 DEF t
    <3>3. ScanInv(q, frames, base, stop, Wires[x], g)
      <4>1. Wires[x] \in Seq(Byte)
        BY WireIs
      <4> QED
        BY <2>2, <3>2, <4>1, ScanStepScan DEF Good
    <3>4. /\ AudioScan(q, before, x, G, from, base, stop) /\ Drained(q)
          /\ q.marker >= 0 \/ t.pos + 1 <= q.pos
      BY <2>2, <3>2, ScanStepAudio DEF Good
    <3> HIDE DEF q
    <3>5. t.pos \in Nat /\ q.pos \in Nat /\ q.marker \in Int
      BY <3>2, <3>3 DEF Good, ScanInv, Scans
    <3>6. Scanning(q) => k + 1 <= q.pos
      <4>1. Scanning(q) => q.marker < 0
        BY DEF Scanning
      <4> QED
        BY <3>2, <3>4, <3>5, <4>1
    <3>7. Good(q)
      BY <3>3, <3>4 DEF Good
    <3> QED
      BY <3>1, <3>6, <3>7
  <2> QED
    BY <2>1, <2>2
<1>7. steps \in T
  <2> HIDE DEF T
  <2>1. steps \in 0 .. steps
    BY <1>1
  <2> QED
    BY <1>1, <1>5, <1>6, <2>1, UpToBound
<1> DEFINE q == after[steps]
<1>8. Good(q) /\ (Scanning(q) => steps <= q.pos)
  BY <1>7
<1> HIDE DEF q
<1>9. ~Scanning(q)
  <2>1. base + Len(q.work) = stop /\ q.pos \in Nat /\ Len(q.work) \in Nat
    BY <1>8, LenProperties DEF ScanInv, Scans
  <2>2. Len(q.work) = steps
    BY <1>1, <2>1
  <2>3. Scanning(q) => q.pos + 4 <= Len(q.work)
    BY DEF Scanning, MarkerBytes
  <2> QED
    BY <1>1, <1>8, <2>1, <2>2, <2>3
<1> QED
  BY <1>2, <1>8, <1>9 DEF q

LEMMA ZeroIsNotOnes == Zero # Ones
<1>1. Zero.v = "00" /\ Ones.v = "FF"
  BY DEF Zero, Ones
<1> QED
  BY <1>1

LEMMA SuffixThere ==
  ASSUME NEW R, NEW S, NEW m \in Seq(R), NEW t \in Seq(S), Len(m) <= Len(t),
         \A i \in 1 .. Len(m) : t[(Len(t) - Len(m)) + i] = m[i]
  PROVE  IsSuffix(m, t)
<1> DEFINE k == Len(m)
           n == Len(t)
           a == Reverse(m)
           b == Reverse(t)
           U == R \cup S
           aa == SubSeq(a, 1, k)
           bb == SubSeq(b, 1, k)
<1>1. k \in Nat /\ n \in Nat /\ k <= n /\ \A i \in 1 .. k : t[(n - k) + i] = m[i]
  BY LenProperties
<1>2. /\ a \in Seq(R) /\ Len(a) = k /\ \A j \in 1 .. k : a[j] = m[(k - j) + 1]
      /\ b \in Seq(S) /\ Len(b) = n /\ \A j \in 1 .. n : b[j] = t[(n - j) + 1]
  BY ReverseIs
<1>3. (\A j \in 1 .. k : a[j] \in U) /\ (\A j \in 1 .. n : b[j] \in U)
  <2>1. \A j \in 1 .. Len(a) : a[j] \in R
    BY ONLY <1>2, LenProperties
  <2>2. \A j \in 1 .. Len(b) : b[j] \in S
    BY ONLY <1>2, LenProperties
  <2> QED
    BY <1>2, <2>1, <2>2
<1>4. IsSuffix(m, t) <=> k <= n /\ aa = bb
  BY <1>2 DEF IsSuffix, IsPrefix
<1> HIDE DEF k, n, a, b, U
<1>5. /\ 1 \in Int /\ k \in Int /\ k - 1 + 1 = k /\ \A j \in 1 .. k : 1 + j - 1 = j
      /\ (IF 1 <= k THEN k - 1 + 1 ELSE 0) = k
      /\ (\A j \in 1 .. k : a[j] \in U) /\ (\A j \in 1 .. k : b[j] \in U)
  BY <1>1, <1>3
<1>6. aa \in Seq(U) /\ Len(aa) = k /\ \A j \in 1 .. k : aa[j] = a[j]
  <2>1. /\ SubSeq(a, 1, k) \in Seq(U)
        /\ Len(SubSeq(a, 1, k)) = IF 1 <= k THEN k - 1 + 1 ELSE 0
        /\ \A j \in 1 .. k - 1 + 1 : SubSeq(a, 1, k)[j] = a[1 + j - 1]
    BY ONLY <1>5, SubSeqProperties
  <2> QED
    BY <1>5, <2>1
<1>7. bb \in Seq(U) /\ Len(bb) = k /\ \A j \in 1 .. k : bb[j] = b[j]
  <2>1. /\ SubSeq(b, 1, k) \in Seq(U)
        /\ Len(SubSeq(b, 1, k)) = IF 1 <= k THEN k - 1 + 1 ELSE 0
        /\ \A j \in 1 .. k - 1 + 1 : SubSeq(b, 1, k)[j] = b[1 + j - 1]
    BY ONLY <1>5, SubSeqProperties
  <2> QED
    BY <1>5, <2>1
<1> HIDE DEF aa, bb
<1>8. \A j \in 1 .. Len(aa) : aa[j] = bb[j]
  <2> SUFFICES ASSUME NEW j \in 1 .. k PROVE aa[j] = bb[j]
    BY <1>6
  <2> DEFINE i == (k - j) + 1
  <2>1. i \in 1 .. k /\ (n - k) + i = (n - j) + 1 /\ j \in 1 .. n
    BY <1>1
  <2>2. a[j] = m[i] /\ b[j] = t[(n - j) + 1]
    BY <1>2, <2>1
  <2> HIDE DEF i
  <2>3. t[(n - k) + i] = m[i]
    BY <1>1, <2>1
  <2> QED
    BY <1>6, <1>7, <2>1, <2>2, <2>3
<1>9. aa = bb
  <2>1. aa \in Seq(U) /\ bb \in Seq(U) /\ Len(aa) = Len(bb)
    BY <1>6, <1>7
  <2> QED
    BY ONLY <1>8, <2>1, SeqEqual
<1> QED
  BY <1>1, <1>4, <1>9

LEMMA EndsWithThere ==
  ASSUME NEW s \in Scans, NEW k \in 1 .. 3, k <= Len(s.work),
         \A i \in 1 .. k : s.work[(Len(s.work) - k) + i] = <<Zero, Ones, Ones>>[i]
  PROVE  EndsWith(s, k)
<1> DEFINE m == Beginning(k)
           t == s.work
<1>1. t \in Seq(Kept)
  BY DEF Scans
<1>2. m \in Seq({Zero, Ones}) /\ Len(m) = k /\ \A i \in 1 .. k : m[i] = <<Zero, Ones, Ones>>[i]
  BY BeginningIs
<1>3. EndsWith(s, k) <=> IsSuffix(m, t)
  BY DEF EndsWith
<1>4. k <= Len(t) /\ \A i \in 1 .. k : t[(Len(t) - k) + i] = <<Zero, Ones, Ones>>[i]
  OBVIOUS
<1> HIDE DEF m, t
<1>5. Len(m) <= Len(t) /\ \A i \in 1 .. Len(m) : t[(Len(t) - Len(m)) + i] = m[i]
  BY <1>2, <1>4
<1>6. IsSuffix(m, t)
  BY ONLY <1>1, <1>2, <1>5, SuffixThere
<1> QED
  BY <1>3, <1>6

\* What PrefixLength finds, of which there is only one.
LEMMA PrefixIs ==
  ASSUME NEW s \in Scans
  PROVE  LET k == PrefixLength(s)
             l == Len(s.work)
         IN /\ k \in 0 .. 3 /\ k <= l
            /\ \A i \in 1 .. k : s.work[(l - k) + i] = <<Zero, Ones, Ones>>[i]
            /\ \A d \in 1 .. 3 : EndsWith(s, d) => k = d
<1> DEFINE k == PrefixLength(s)
           l == Len(s.work)
<1>0. l \in Nat
  BY LenProperties DEF Scans
<1>1. CASE \E j \in 1 .. 3 : EndsWith(s, j)
  <2>1. k \in 1 .. 3 /\ EndsWith(s, k)
    BY <1>1 DEF PrefixLength
  <2> HIDE DEF k
  <2>2. k <= l /\ \A i \in 1 .. k : s.work[(l - k) + i] = <<Zero, Ones, Ones>>[i]
    BY <2>1, EndsWithIs
  <2>3. ASSUME NEW d \in 1 .. 3, EndsWith(s, d) PROVE k = d
    <3>1. d <= l /\ \A i \in 1 .. d : s.work[(l - d) + i] = <<Zero, Ones, Ones>>[i]
      BY <2>3, EndsWithIs
    <3>2. s.work[(l - k) + 1] = Zero /\ s.work[(l - d) + 1] = Zero
      BY <2>1, <2>2, <3>1
    <3>0. k \in Nat /\ d \in Nat /\ k <= 3 /\ d <= 3 /\ 1 <= k /\ 1 <= d
      BY <2>1
    <3>3. ASSUME k < d PROVE FALSE
      <4> DEFINE i == (d - k) + 1
      <4>1. i \in 1 .. d /\ (i = 2 \/ i = 3) /\ (l - d) + i = (l - k) + 1
        <5> HIDE DEF l
        <5> QED
          BY ONLY <1>0, <3>0, <3>3
      <4> HIDE DEF i
      <4>2. s.work[(l - k) + 1] = <<Zero, Ones, Ones>>[i]
        BY <3>1, <4>1
      <4>3. <<Zero, Ones, Ones>>[i] = Ones
        BY <4>1
      <4> QED
        BY <3>2, <4>2, <4>3, ZeroIsNotOnes
    <3>4. ASSUME d < k PROVE FALSE
      <4> DEFINE i == (k - d) + 1
      <4>1. i \in 1 .. k /\ (i = 2 \/ i = 3) /\ (l - k) + i = (l - d) + 1
        <5> HIDE DEF l
        <5> QED
          BY ONLY <1>0, <3>0, <3>4
      <4> HIDE DEF i
      <4>2. s.work[(l - d) + 1] = <<Zero, Ones, Ones>>[i]
        BY <2>2, <4>1
      <4>3. <<Zero, Ones, Ones>>[i] = Ones
        BY <4>1
      <4> QED
        BY <3>2, <4>2, <4>3, ZeroIsNotOnes
    <3> QED
      BY <2>1, <3>3, <3>4
  <2> QED
    BY <2>1, <2>2, <2>3 DEF k
<1>2. CASE ~ \E j \in 1 .. 3 : EndsWith(s, j)
  <2>1. k = 0
    BY <1>2 DEF PrefixLength
  <2> HIDE DEF k
  <2>2. k \in 0 .. 3 /\ k <= l /\ \A i \in 1 .. k : s.work[(l - k) + i] = <<Zero, Ones, Ones>>[i]
    BY <1>0, <2>1
  <2>3. \A d \in 1 .. 3 : EndsWith(s, d) => k = d
    BY <1>2
  <2> QED
    BY <2>2, <2>3 DEF k
<1> QED
  BY <1>1, <1>2

\* What carrying leaves of the audio as it is.
LEMMA CarriedMarkerIs ==
  ASSUME NEW s, NEW frames, NEW base \in Nat, NEW stop, NEW w \in Seq(Byte), NEW g,
         ScanInv(s, frames, base, stop, w, g), s.marker >= 0
  PROVE  LET q == Carried(s) IN
         /\ q.packets = s.packets /\ q.parser.state = s.parser.state
         /\ q.parser.audio = s.parser.audio /\ q.parser.remaining = s.parser.remaining
         /\ q.parser.carryLen = Len(s.work) - s.pos /\ s.parser.state # "AudioData"
<1> DEFINE q == Carried(s)
           all == frames \o s.frames
           pos == s.pos
           work == s.work
           l == Len(work)
           tail == SubSeq(work, s.marker + 1, l)
           f == FlushIfVideo(s, s.marker)
           r == [f.parser EXCEPT !.memory = tail, !.carryLen = Len(tail)]
<1>1. /\ s \in Scans /\ pos \in Nat /\ s.start \in Nat /\ s.start <= pos /\ work \in Seq(Kept)
      /\ l \in Nat /\ s.marker = pos /\ pos + 4 <= l /\ WorkAgrees(s, base, w, g)
      /\ s.parser.state # "AudioData"
  <2>1. s \in Scans /\ pos \in Nat /\ s.start \in Nat /\ work \in Seq(Kept) /\ l \in Nat
    BY LenProperties DEF ScanInv, Scans
  <2>2. s.marker # -1
    OBVIOUS
  <2> QED
    BY <2>1, <2>2 DEF ScanInv, InScan
<1>2. f \in Scans /\ SameButVideo(s, f)
  <2>1. OpenSpan(s.parser, all, w, g, base + s.start)
    BY DEF ScanInv
  <2>2. pos <= l
    BY <1>1
  <2> HIDE DEF all
  <2> QED
    BY <1>1, <2>1, <2>2, FlushIfVideoSpan
<1>3. q = [f EXCEPT !.parser = r]
  <2>1. s.marker \in Int /\ ~(s.marker < 0)
    BY <1>1
  <2>2. q = [f EXCEPT !.parser.memory = tail, !.parser.carryLen = Len(tail)]
    BY <2>1 DEF Carried
  <2> HIDE DEF f, q, tail
  <2> QED
    BY <1>2, <2>2 DEF Scans, Parsers
<1> HIDE DEF f, q
<1> DEFINE c == l - pos
<1>4. Len(tail) = c
  <2> DEFINE m == pos + 1
  <2>1. m \in Int /\ l \in Int /\ (IF m <= l THEN l - m + 1 ELSE 0) = c
    <3> HIDE DEF l
    <3> QED
      BY ONLY <1>1
  <2>2. \A i \in m .. l : work[i] \in Kept
    <3>1. \A i \in 1 .. l : work[i] \in Kept
      BY <1>1, LenProperties
    <3> HIDE DEF l
    <3> QED
      BY <1>1, <3>1
  <2>3. tail = SubSeq(work, m, l)
    BY <1>1
  <2> HIDE DEF l, work, m, tail, c
  <2>4. Len(SubSeq(work, m, l)) = IF m <= l THEN l - m + 1 ELSE 0
    BY ONLY <2>1, <2>2, SubSeqProperties
  <2> QED
    BY <2>1, <2>3, <2>4
<1> HIDE DEF tail, c
<1>5. /\ r.carryLen = c /\ r.state = f.parser.state /\ r.audio = f.parser.audio
      /\ r.remaining = f.parser.remaining
  <2>1. f.parser \in Parsers
    BY <1>2 DEF Scans
  <2> QED
    BY <1>4, <2>1 DEF Parsers
<1> HIDE DEF r
<1>6. q.parser = r /\ q.packets = s.packets
  BY <1>2, <1>3 DEF Scans, SameButVideo
<1> QED
  BY <1>1, <1>2, <1>5, <1>6 DEF q, SameButVideo, c

LEMMA CarriedPrefixIs ==
  ASSUME NEW s, NEW frames, NEW base \in Nat, NEW stop, NEW w \in Seq(Byte), NEW g,
         ScanInv(s, frames, base, stop, w, g), s.marker = -1, s.parser.state # "AudioData"
  PROVE  LET q == Carried(s) IN
         /\ q.packets = s.packets /\ q.parser.state = s.parser.state
         /\ q.parser.carryLen = PrefixLength(s)
<1> DEFINE q == Carried(s)
           all == frames \o s.frames
           start == s.start
           work == s.work
           l == Len(work)
           k == PrefixLength(s)
           f == FlushIfVideo(s, l - k)
           kept == SubSeq(s.parser.memory, 1, 3)
           r == [f.parser EXCEPT !.memory = kept, !.carryLen = k]
<1>1. /\ s \in Scans /\ s.pos \in Nat /\ start \in Nat /\ start <= s.pos /\ work \in Seq(Kept)
      /\ l \in Nat /\ s.pos <= l /\ WorkAgrees(s, base, w, g)
  BY LenProperties DEF ScanInv, InScan, Scans
<1>2. /\ k \in 0 .. 3 /\ k <= l
      /\ \A i \in 1 .. k : work[(l - k) + i] = <<Zero, Ones, Ones>>[i]
  BY <1>1, PrefixIs
<1> HIDE DEF k
<1> HIDE DEF kept
<1>5. f \in Scans /\ SameButVideo(s, f)
  <2> DEFINE end == l - k
  <2>1. end \in Nat /\ end <= l
    <3> HIDE DEF l
    <3> QED
      BY <1>1, <1>2
  <2>2. CASE start <= end
    <3>1. OpenSpan(s.parser, all, w, g, base + start)
      BY DEF ScanInv
    <3>2. end \in Nat /\ start <= end /\ end <= Len(work)
      BY <2>1, <2>2
    <3> HIDE DEF all, end
    <3>3. FlushIfVideo(s, end) \in Scans /\ SameButVideo(s, FlushIfVideo(s, end))
      BY <1>1, <3>1, <3>2, FlushIfVideoSpan
    <3> QED
      BY <3>3 DEF end
  <2>3. CASE ~(start <= end)
    <3>1. end < start
      BY <1>1, <2>1, <2>3
    <3>2. FlushIfVideo(s, end) = s
      <4> HIDE DEF end
      <4> QED
        BY <1>1, <2>1, <3>1, FlushNothing
    <3> QED
      BY <1>1, <3>2 DEF SameButVideo
  <2> QED
    BY <2>2, <2>3
<1>6. q = [f EXCEPT !.parser = r]
  <2>1. ~(s.marker >= 0) /\ s.marker < 0
    OBVIOUS
  <2>2. q = [f EXCEPT !.parser.memory = kept, !.parser.carryLen = k]
    BY <2>1 DEF Carried, k, kept
  <2> HIDE DEF f, q
  <2> QED
    BY <1>5, <2>2 DEF Scans, Parsers
<1> HIDE DEF f, q
<1>7. r.carryLen = k /\ r.state = f.parser.state
  <2>1. f.parser \in Parsers
    BY <1>5 DEF Scans
  <2> QED
    BY <2>1 DEF Parsers
<1> HIDE DEF r
<1>8. q.parser = r /\ q.packets = s.packets
  BY <1>5, <1>6 DEF Scans, SameButVideo
<1> QED
  BY <1>5, <1>7, <1>8 DEF q, k, SameButVideo

LEMMA CarriedAudioIs ==
  ASSUME NEW s \in Scans, s.marker = -1, s.parser.state = "AudioData"
  PROVE  LET q == Carried(s) IN
         /\ q.packets = s.packets /\ q.parser.state = "AudioData"
         /\ q.parser.audio = s.parser.audio /\ q.parser.remaining = s.parser.remaining
         /\ q.parser.carryLen = 0
<1> DEFINE q == Carried(s)
           p == s.parser
           kept == SubSeq(p.memory, 1, 3)
           r == [p EXCEPT !.memory = kept, !.carryLen = 0]
<1> HIDE DEF kept
<1>1. q = [s EXCEPT !.parser = r]
  <2>1. ~(s.marker >= 0) /\ s.marker < 0
    OBVIOUS
  <2>2. q = [s EXCEPT !.parser.memory = kept, !.parser.carryLen = 0]
    BY <2>1 DEF Carried, kept
  <2> HIDE DEF q
  <2> QED
    BY <2>2 DEF Scans, Parsers
<1> HIDE DEF q
<1>2. r.carryLen = 0 /\ r.state = p.state /\ r.audio = p.audio /\ r.remaining = p.remaining
  <2>1. p \in Parsers
    BY DEF Scans
  <2> HIDE DEF p
  <2> QED
    BY <2>1 DEF Parsers
<1> HIDE DEF r
<1>3. q.parser = r /\ q.packets = s.packets
  BY <1>1 DEF Scans
<1> QED
  BY <1>2, <1>3 DEF q

\* Between two chunks something remains of a payload that is being taken, and nothing is carried.
Settled(p) == p.state = "AudioData" => p.remaining # 0 /\ p.carryLen = 0

LEMMA AudioInSame ==
  ASSUME NEW p, NEW r, r.state = p.state, r.audio = p.audio, r.remaining = p.remaining,
         NEW packets, NEW x, NEW G, NEW from, NEW at, NEW stop,
         AudioIn(p, packets, x, G, from, at, stop)
  PROVE  AudioIn(r, packets, x, G, from, at, stop)
  BY DEF AudioIn, Taking

\* The beginning of a packet at the end of the work buffer is what is carried.
LEMMA PacketCarried ==
  ASSUME NEW x \in DOMAIN Streams, NEW s \in Scans, NEW base \in Nat, NEW g, NEW G, Warded(x, g, G),
         WorkAgrees(s, base, Wires[x], g), NEW k \in G, s.pos <= Len(s.work),
         ~(s.pos + 4 <= Len(s.work)), base + s.pos <= Begins(x, k), Begins(x, k) < base + Len(s.work)
  PROVE  Begins(x, k) = (base + Len(s.work)) - PrefixLength(s)
<1> DEFINE l == Len(s.work)
           b == Begins(x, k)
           pos == s.pos
           i == b - base
           d == l - i
<1>1. pos \in Nat /\ l \in Nat /\ b \in Nat /\ l < pos + 4 /\ base + pos <= b /\ b < base + l
  <2>1. pos \in Nat /\ l \in Nat
    BY LenProperties DEF Scans
  <2>2. b \in Nat
    BY PacketsApart DEF Warded
  <2> QED
    BY <2>1, <2>2
<1> HIDE DEF l, b, pos
<1>2. i \in Nat /\ b = base + i /\ d \in 1 .. 3 /\ l - d = i /\ d <= l /\ i + d = l
  BY ONLY <1>1, base \in Nat
<1> HIDE DEF i, d
<1>3. /\ i + 1 <= l => s.work[i + 1] = Zero
      /\ i + 2 <= l => s.work[i + 2] = Ones
      /\ i + 3 <= l => s.work[i + 3] = Ones
  BY <1>2, PacketInWork DEF l, b
<1>4. ASSUME NEW y \in 1 .. d
      PROVE  s.work[i + y] = <<Zero, Ones, Ones>>[y]
  <2>1. (y = 1 \/ y = 2 \/ y = 3) /\ i + y <= l
    BY <1>1, <1>2
  <2>2. CASE y = 1
    BY <1>3, <2>1, <2>2
  <2>3. CASE y = 2
    BY <1>3, <2>1, <2>3
  <2>4. CASE y = 3
    BY <1>3, <2>1, <2>4
  <2> QED
    BY <2>1, <2>2, <2>3, <2>4
<1>5. EndsWith(s, d)
  <2>1. d <= Len(s.work) /\ \A y \in 1 .. d : s.work[(Len(s.work) - d) + y] = <<Zero, Ones, Ones>>[y]
    BY <1>2, <1>4 DEF l
  <2> QED
    BY <1>2, <2>1, EndsWithThere
<1>6. PrefixLength(s) = d
  BY <1>2, <1>5, PrefixIs
<1>7. b = (base + l) - d
  BY <1>1, <1>2
<1> QED
  BY <1>6, <1>7 DEF b, l

\* What is carried: the parser is where it begins.
LEMMA CarriedAudioIn ==
  ASSUME NEW x \in DOMAIN Streams, NEW s, NEW frames, NEW base \in Nat, NEW g, NEW G, Warded(x, g, G),
         NEW before, NEW from \in Int, NEW stop \in Int,
         ScanInv(s, frames, base, stop, Wires[x], g), Drained(s), ~Scanning(s),
         AudioScan(s, before, x, G, from, base, stop)
  PROVE  LET q == Carried(s) IN
         /\ q.packets = s.packets /\ Settled(q.parser)
         /\ AudioIn(q.parser, before \o s.packets, x, G, from, stop - q.parser.carryLen, stop)
<1> DEFINE q == Carried(s)
           packets == before \o s.packets
           l == Len(s.work)
           pos == s.pos
           k == PrefixLength(s)
<1>0. Wires[x] \in Seq(Byte)
  BY WireIs
<1>1. /\ s \in Scans /\ pos \in Nat /\ l \in Nat /\ pos <= l /\ base + l = stop
      /\ WorkAgrees(s, base, Wires[x], g) /\ s.marker \in Int
      /\ s.marker = -1 \/ s.marker = pos
  BY LenProperties DEF ScanInv, InScan, Scans
<1>2. AudioIn(s.parser, packets, x, G, from, base + pos, stop)
  BY DEF AudioScan
<1>3. CASE s.marker >= 0
  <2>1. /\ q.packets = s.packets /\ q.parser.state = s.parser.state
        /\ q.parser.audio = s.parser.audio /\ q.parser.remaining = s.parser.remaining
        /\ q.parser.carryLen = l - pos /\ s.parser.state # "AudioData"
    BY <1>0, <1>3, CarriedMarkerIs
  <2> HIDE DEF q, packets, l, pos
  <2>2. stop - q.parser.carryLen = base + pos
    BY <1>1, <2>1
  <2>3. AudioIn(q.parser, packets, x, G, from, base + pos, stop)
    BY <1>2, <2>1, AudioInSame
  <2>4. Settled(q.parser)
    BY <2>1 DEF Settled
  <2> QED
    BY <2>1, <2>2, <2>3, <2>4 DEF q, packets
<1>4. CASE s.marker = -1 /\ s.parser.state = "AudioData"
  <2>1. /\ q.packets = s.packets /\ q.parser.state = s.parser.state
        /\ q.parser.audio = s.parser.audio /\ q.parser.remaining = s.parser.remaining
        /\ q.parser.carryLen = 0
    BY <1>1, <1>4, CarriedAudioIs
  <2>2. pos = l /\ s.parser.remaining # 0
    BY <1>4 DEF Drained
  <2> HIDE DEF q, packets, l, pos
  <2>3. stop - q.parser.carryLen = base + pos
    BY <1>1, <2>1, <2>2
  <2>4. AudioIn(q.parser, packets, x, G, from, base + pos, stop)
    BY <1>2, <2>1, AudioInSame
  <2>5. Settled(q.parser)
    BY <2>1, <2>2 DEF Settled
  <2> QED
    BY <2>1, <2>3, <2>4, <2>5 DEF q, packets
<1>5. CASE s.marker = -1 /\ s.parser.state # "AudioData"
  <2>1. /\ q.packets = s.packets /\ q.parser.state = s.parser.state /\ q.parser.carryLen = k
    BY <1>0, <1>5, CarriedPrefixIs
  <2>2. k \in 0 .. 3
    BY <1>1, PrefixIs
  <2>3. ~(pos + 4 <= l)
    BY <1>5 DEF Scanning, MarkerBytes
  <2> DEFINE at == base + pos
             to == stop - k
  <2>4. Heard(packets, x, Least(at + 3, stop)) /\ Spared(packets, x, G, from, at, stop)
    BY <1>2, <1>5 DEF AudioIn
  <2>5. \A j \in G : at <= Begins(x, j) /\ Begins(x, j) < stop => Begins(x, j) = to
    <3> SUFFICES ASSUME NEW j \in G, at <= Begins(x, j), Begins(x, j) < stop
                 PROVE  Begins(x, j) = to
      OBVIOUS
    <3>2. Begins(x, j) = (base + Len(s.work)) - PrefixLength(s)
      BY <1>1, <2>3, PacketCarried
    <3> QED
      BY <1>1, <3>2
  <2>6. \A j \in G : Begins(x, j) \in Nat /\ Ends(x, j) \in Nat
    BY PacketsApart DEF Warded
  <2> HIDE DEF q, packets, l, pos, k
  <2>7. Least(at + 3, stop) = stop /\ Least(to + 3, stop) = stop /\ to \in Int /\ at \in Int /\ to <= stop
        /\ stop - 3 <= to
    BY ONLY <1>1, <2>2, <2>3, base \in Nat, stop \in Int DEF Least
  <2>8. Spared(packets, x, G, from, to, stop)
    <3> SUFFICES ASSUME NEW j \in G
                 PROVE  \/ to <= Begins(x, j)
                        \/ /\ Ends(x, j) - 3 <= to /\ Ends(x, j) <= stop
                           /\ from <= Begins(x, j) => HandedOut(packets, x, j)
      BY DEF Spared
    <3> DEFINE b == Begins(x, j)
               e == Ends(x, j)
    <3>1. b \in Nat /\ e \in Nat /\ (at <= b /\ b < stop => b = to)
      BY <2>5, <2>6
    <3>2. \/ at <= b
          \/ /\ e - 3 <= at /\ e <= stop
             /\ from <= b => HandedOut(packets, x, j)
      BY <2>4 DEF Spared
    <3> HIDE DEF b, e, at, to
    <3>3. at <= b => to <= b
      BY ONLY <2>7, <3>1, stop \in Int
    <3>4. e <= stop => e - 3 <= to
      BY ONLY <2>7, <3>1, stop \in Int
    <3> QED
      BY <3>2, <3>3, <3>4 DEF b, e
  <2>9. AudioIn(q.parser, packets, x, G, from, to, stop)
    BY <1>5, <2>1, <2>4, <2>7, <2>8 DEF AudioIn
  <2>10. Settled(q.parser)
    BY <1>5, <2>1 DEF Settled
  <2> QED
    BY <2>1, <2>9, <2>10 DEF q, packets
<1>6. s.marker = -1 \/ s.marker >= 0
  BY <1>1
<1> QED
  BY <1>3, <1>4, <1>5, <1>6

LEMMA AudioInGrows ==
  ASSUME NEW x \in DOMAIN Streams, NEW p, NEW packets, NEW G, G \subseteq Packets(x), NEW from,
         NEW at \in Int, NEW a \in Int, NEW b \in Int, a <= b,
         AudioIn(p, packets, x, G, from, at, a)
  PROVE  AudioIn(p, packets, x, G, from, at, b)
<1>1. CASE p.state = "AudioData"
  BY <1>1 DEF AudioIn
<1>2. CASE p.state # "AudioData"
  <2>1. Heard(packets, x, Least(at + 3, a)) /\ Spared(packets, x, G, from, at, a)
    BY <1>2 DEF AudioIn
  <2>2. Heard(packets, x, Least(at + 3, b))
    <3>1. Least(at + 3, a) \in Int /\ Least(at + 3, b) \in Int /\ Least(at + 3, a) <= Least(at + 3, b)
      BY DEF Least
    <3> QED
      BY <2>1, <3>1, HeardLater
  <2>3. \A j \in G : Ends(x, j) <= a => Ends(x, j) <= b
    <3> SUFFICES ASSUME NEW j \in G PROVE Ends(x, j) <= a => Ends(x, j) <= b
      OBVIOUS
    <3> DEFINE e == Ends(x, j)
    <3>1. e \in Nat
      BY PacketsApart
    <3> HIDE DEF e
    <3>2. e <= a => e <= b
      BY <3>1
    <3> QED
      BY <3>2 DEF e
  <2>4. Spared(packets, x, G, from, at, b)
    BY <2>1, <2>3 DEF Spared
  <2> QED
    BY <1>2, <2>2, <2>4 DEF AudioIn
<1> QED
  BY <1>1, <1>2

\* A chunk that follows what came, and the packets that it completes.
LEMMA FedAudio ==
  ASSUME NEW x \in DOMAIN Streams, NEW p, NEW frames \in Seq(Seq(Kept)), NEW g, NEW G, Warded(x, g, G),
         NEW before \in Seq(Seq(Kept)), NEW from \in Int, NEW n \in Nat, NEW m \in Nat,
         n + m <= Len(Wires[x]), Behind(p, frames, Wires[x], g, n), Aligned(p, frames, Wires[x], g, n),
         Covers(g, Wires[x], n + m),
         \A i \in 1 .. p.carryLen : p.memory[i] = Garbage => (n - p.carryLen) + i \in g.marred,
         Settled(p), AudioIn(p, before, x, G, from, n - p.carryLen, n)
  PROVE  LET fed == Fed(p, SubSeq(Wires[x], n + 1, n + m), FALSE)
         IN /\ fed.packets \in Seq(Seq(Kept)) /\ Settled(fed.parser)
            /\ AudioIn(fed.parser, before \o fed.packets, x, G, from,
                       (n + m) - fed.parser.carryLen, n + m)
<1> DEFINE w == Wires[x]
           chunk == SubSeq(w, n + 1, n + m)
           stop == n + m
           base == n - p.carryLen
           first == ScanOf(p, chunk)
           next == ConsumeAudio(first)
           last == Scanned(next)
           end == Carried(last)
           fed == Fed(p, chunk, FALSE)
<1>0. w \in Seq(Byte) /\ Len(w) \in Nat
  BY WireIs
<1>1. base \in Nat /\ stop \in Int /\ n <= stop
  <2>1. p.carryLen \in Nat /\ p.carryLen <= n
    BY DEF Behind, Parsers
  <2> QED
    BY <2>1
<1>2. ScanInv(first, frames, base, n + m, w, g)
  BY <1>0, ScanOfScan
<1>3. first.parser = p /\ first.pos = 0 /\ first.packets = << >>
  BY DEF ScanOf
<1>4. before \o << >> = before /\ << >> \in Seq(Seq(Kept))
  BY ConcatEmptySeq, EmptySeq
<1>5. AudioIn(p, before, x, G, from, base, stop)
  <2>1. G \subseteq Packets(x)
    BY DEF Warded
  <2>2. base \in Int
    BY <1>1
  <2> HIDE DEF stop
  <2>3. AudioIn(p, before, x, G, from, base, n)
    OBVIOUS
  <2> HIDE DEF base
  <2> QED
    BY <1>1, <2>1, <2>2, <2>3, AudioInGrows
<1>6. CASE chunk = << >>
  <2>1. fed.parser = p /\ fed.packets = << >>
    BY <1>3, <1>6 DEF Fed, ScanOf
  <2>2. n + m = n
    <3> DEFINE i == n + 1
               j == n + m
    <3>1. \A k \in i .. j : w[k] \in {w[y] : y \in i .. j}
      OBVIOUS
    <3>2. i \in Int /\ j \in Int
      OBVIOUS
    <3>3. SubSeq(w, i, j) = << >>
      BY <1>6
    <3> HIDE DEF i, j, w
    <3>4. Len(SubSeq(w, i, j)) = IF i <= j THEN j - i + 1 ELSE 0
      BY ONLY <3>1, <3>2, SubSeqProperties
    <3>5. (IF i <= j THEN j - i + 1 ELSE 0) = 0
      BY ONLY <3>3, <3>4
    <3> QED
      BY <3>5 DEF i, j
  <2>3. (n + m) - p.carryLen = base
    BY <2>2
  <2> HIDE DEF fed, base
  <2> QED
    BY <1>4, <1>5, <2>1, <2>3 DEF fed
<1>7. CASE chunk # << >>
  <2>1. fed.parser = end.parser /\ fed.packets = end.packets
    BY <1>7 DEF Fed
  <2>11. Sure(first)
    BY <1>3 DEF Sure, Settled
  <2> HIDE DEF fed, first, base
  <2>2. /\ first \in Scans /\ first.pos <= Len(first.work) /\ base + Len(first.work) = stop
        /\ WorkAgrees(first, base, Wires[x], g) /\ Sure(first)
    BY <1>2, <2>11 DEF ScanInv, InScan
  <2>3. AudioScan(first, before, x, G, from, base, stop)
    <3>1. base + first.pos = base
      BY <1>1, <1>3
    <3> QED
      BY <1>3, <1>4, <1>5, <3>1 DEF AudioScan
  <2> HIDE DEF stop
  <2>4. AudioScan(next, before, x, G, from, base, stop)
    BY <1>1, <2>2, <2>3, ConsumeAudioAudio
  <2>5. Drained(next)
    BY <2>2, ConsumeAudioDrains
  <2>6. ScanInv(next, frames, base, stop, Wires[x], g)
    BY <1>0, <1>1, <1>2, ConsumeAudioScan DEF stop
  <2> HIDE DEF next
  <2>7. ScanInv(last, frames, base, stop, Wires[x], g)
    BY <1>0, <1>1, <2>6, ScannedScan
  <2>8. AudioScan(last, before, x, G, from, base, stop) /\ Drained(last) /\ ~Scanning(last)
    BY <1>1, <2>4, <2>5, <2>6, ScannedAudio
  <2> HIDE DEF last
  <2>9. /\ end.packets = last.packets /\ Settled(end.parser)
        /\ AudioIn(end.parser, before \o last.packets, x, G, from, stop - end.parser.carryLen, stop)
    BY <1>1, <2>7, <2>8, CarriedAudioIn
  <2>10. last.packets \in Seq(Seq(Kept))
    BY <2>7 DEF ScanInv, Scans
  <2> HIDE DEF end
  <2> QED
    BY <2>1, <2>9, <2>10 DEF fed, stop
<1> QED
  BY <1>6, <1>7

(***************************************************************************)
(* The stream and its audio.                                               *)
(***************************************************************************)

\* The packets that must not be missed: all of their own bytes came, and all the other bytes since
\* the last loss, or nothing else tells their payload from markers.
Guards(x, from, unwritten) ==
  {k \in Packets(x) : /\ unwritten \cap (Begins(x, k) + 1 .. Begins(x, k) + 3) = {}
                      /\ HoldsMarker(Streams[x][k]) \/ from <= Begins(x, k)}

Guarded == Guards(stream, since, marred)

\* No run of bytes began inside a packet that holds a marker, and its own marker came whole.
Safe(x, from, unwritten) ==
  \A k \in Packets(x) : HoldsMarker(Streams[x][k]) =>
    /\ from <= Begins(x, k) \/ Ends(x, k) <= from
    /\ unwritten \cap (Begins(x, k) + 1 .. Begins(x, k) + 3) = {}

\* What was heard is from the stream, and so is what is being taken.
Listening ==
  /\ heard \in Seq(Seq(Kept))
  /\ gapped => Heard(heard, stream, sent)
  /\ ~gapped => /\ AudioIn(parser, heard, stream, Guarded, since, sent - parser.carryLen, sent)
                /\ Settled(parser)

HeardInv ==
  /\ since \in Nat /\ since <= sent /\ (gapped => since = sent)
  /\ ~fooled => Safe(stream, since, marred) /\ Listening

LEMMA GuardsWarded ==
  ASSUME NEW x, NEW from, NEW g, Safe(x, from, g.marred)
  PROVE  Warded(x, g, Guards(x, from, g.marred))
  BY DEF Safe, Guards, Warded

\* Where fewer packets are guarded, no less is known of each.
LEMMA AudioInFewer ==
  ASSUME NEW p, NEW packets, NEW x, NEW G, NEW H, H \subseteq G, NEW from, NEW at, NEW stop,
         AudioIn(p, packets, x, G, from, at, stop)
  PROVE  AudioIn(p, packets, x, H, from, at, stop)
  BY DEF AudioIn, Spared

LEMMA HeardNothing ==
  ASSUME NEW x, NEW b
  PROVE  Heard(<< >>, x, b)
<1> DEFINE place == [k \in DOMAIN << >> |-> 0]
<1>1. DOMAIN << >> = {}
  OBVIOUS
<1>2. place \in [DOMAIN << >> -> Packets(x)]
  BY <1>1
<1> HIDE DEF place
<1> QED
  BY <1>1, <1>2 DEF Heard

LEMMA HeardInit ==
  ASSUME Init
  PROVE  HeardInv
<1>1. /\ stream \in DOMAIN Streams /\ parser = NewParser(memory) /\ sent = 0 /\ since = 0
      /\ gapped = FALSE /\ heard = << >> /\ marred = {}
  BY DEF Init
<1>2. heard \in Seq(Seq(Kept))
  BY <1>1, EmptySeq
<1>3. parser.state = "Idle" /\ parser.carryLen = 0
  BY <1>1 DEF NewParser
<1>4. \A k \in Packets(stream) : since <= Begins(stream, k)
  <2> SUFFICES ASSUME NEW k \in Packets(stream) PROVE since <= Begins(stream, k)
    OBVIOUS
  <2>1. Begins(stream, k) \in Nat
    BY <1>1, PacketsApart
  <2> QED
    BY <1>1, <2>1
<1>5. sent - parser.carryLen = since /\ since \in Nat /\ since <= sent
  BY <1>1, <1>3
<1>6. Spared(heard, stream, Guarded, since, since, sent)
  BY <1>4 DEF Spared, Guarded, Guards
<1>7. Heard(heard, stream, Least(since + 3, sent))
  BY <1>1, HeardNothing
<1>8. Listening
  BY <1>1, <1>2, <1>3, <1>5, <1>6, <1>7 DEF Listening, AudioIn, Settled
<1>9. Safe(stream, since, marred)
  BY <1>1, <1>4 DEF Safe
<1> QED
  BY <1>1, <1>5, <1>8, <1>9 DEF HeardInv

\* After a loss parsing begins anew, at the beginning of no packet but those that follow.
LEMMA GapAudio ==
  ASSUME NEW x \in DOMAIN Streams, parser \in Parsers, NEW at \in Nat, NEW m, Safe(x, at, m),
         NEW packets, Heard(packets, x, at)
  PROVE  LET p == AfterGap(parser) IN
         /\ AudioIn(p, packets, x, Guards(x, at, m), at, at - p.carryLen, at)
         /\ Settled(p)
<1> DEFINE p == AfterGap(parser)
           G == Guards(x, at, m)
<1>1. p.state = "Idle" /\ p.carryLen = 0
  BY DEF AfterGap, Parsers
<1> HIDE DEF p
<1>2. at - p.carryLen = at /\ Least(at + 3, at) = at
  BY <1>1 DEF Least
<1>3. Spared(packets, x, G, at, at, at)
  <2> SUFFICES ASSUME NEW j \in G
               PROVE  \/ at <= Begins(x, j)
                      \/ /\ Ends(x, j) - 3 <= at /\ Ends(x, j) <= at
                         /\ at <= Begins(x, j) => HandedOut(packets, x, j)
    BY DEF Spared
  <2> DEFINE b == Begins(x, j)
             e == Ends(x, j)
  <2>1. j \in Packets(x) /\ (at <= b \/ e <= at)
    BY DEF Guards, Safe
  <2>2. b \in Nat /\ e \in Nat /\ b + 8 <= e
    BY <2>1, PacketsApart
  <2> HIDE DEF b, e
  <2>3. at <= b \/ (e - 3 <= at /\ e <= at /\ ~(at <= b))
    BY <2>1, <2>2
  <2> QED
    BY <2>3 DEF b, e
<1> QED
  BY <1>1, <1>2, <1>3 DEF AudioIn, Settled, p

LEMMA HeardFeed ==
  ASSUME ParserInv, HeardInv, Feed
  PROVE  HeardInv'
<1> DEFINE w == Wire
           h == Recorded'
           x == stream
           G == Guards(stream, since, marred')
           p == IF gapped THEN AfterGap(parser) ELSE parser
<1>1. /\ x \in DOMAIN Streams /\ gapped \in BOOLEAN /\ sent \in Nat /\ shown \in Seq(Seq(Kept))
      /\ Behind(parser, shown, w, Recorded, sent)
  BY DEF ParserInv
<1>2. w = Wires[x]
  BY DEF Wire
<1>3. /\ since \in Nat /\ since <= sent /\ (gapped => since = sent)
      /\ ~fooled => Safe(x, since, marred) /\ Listening
  BY DEF HeardInv
<1>4. PICK m \in Nat :
        LET fed == Fed(p, SubSeq(w, sent + 1, sent + m), FALSE)
        IN /\ sent + m <= Len(w) /\ sent' = sent + m /\ gapped' = FALSE
           /\ parser' = fed.parser /\ heard' = heard \o fed.packets
           /\ UNCHANGED <<stream, memory, since>>
           /\ Covers(h, w, sent + m)
           /\ \A i \in 1 .. p.carryLen : p.memory[i] = Garbage => (sent - p.carryLen) + i \in h.marred
           /\ Behind(p, shown, w, h, sent) /\ Aligned(p, shown, w, h, sent)
  BY FeedIs
<1>5. \E missing :
        /\ marred' = marred \cup missing
        /\ ~fooled' => ~fooled /\ \A i \in DOMAIN Units :
              Misleading(i) => missing \cap (Span(i).first + 1 .. Span(i).first + 3) = {}
  BY DEF Feed
<1>6. h.marred = marred' /\ marred \subseteq marred'
  BY <1>5 DEF Recorded
<1>7. ~fooled' => ~fooled /\ Safe(x, since, marred')
  <2> SUFFICES ASSUME ~fooled' PROVE ~fooled /\ Safe(x, since, marred')
    OBVIOUS
  <2>1. PICK missing :
          /\ marred' = marred \cup missing /\ ~fooled
          /\ \A i \in DOMAIN Units :
               Misleading(i) => missing \cap (Span(i).first + 1 .. Span(i).first + 3) = {}
    BY <1>5
  <2>2. ASSUME NEW k \in Packets(x), HoldsMarker(Streams[x][k])
        PROVE  /\ since <= Begins(x, k) \/ Ends(x, k) <= since
               /\ marred' \cap (Begins(x, k) + 1 .. Begins(x, k) + 3) = {}
    <3>1. k \in DOMAIN Units /\ Misleading(k) /\ Span(k).first = Begins(x, k)
      BY <1>1, <2>2 DEF Packets, UnitsOf, Units, Misleading, Span, Begins
    <3>2. missing \cap (Begins(x, k) + 1 .. Begins(x, k) + 3) = {}
      BY <2>1, <3>1
    <3>3. /\ since <= Begins(x, k) \/ Ends(x, k) <= since
          /\ marred \cap (Begins(x, k) + 1 .. Begins(x, k) + 3) = {}
      BY <1>3, <2>1, <2>2 DEF Safe
    <3> DEFINE r == Begins(x, k) + 1 .. Begins(x, k) + 3
    <3>4. missing \cap r = {} /\ marred \cap r = {}
      BY <3>2, <3>3
    <3> HIDE DEF r
    <3>5. marred' \cap r = {}
      BY <2>1, <3>4
    <3> QED
      BY <3>3, <3>5 DEF r
  <2> QED
    BY <2>1, <2>2 DEF Safe
<1>8. G \subseteq Guarded
  BY <1>6 DEF Guarded, Guards
<1> DEFINE fed == Fed(p, SubSeq(w, sent + 1, sent + m), FALSE)
<1>9. since' \in Nat /\ since' <= sent' /\ (gapped' => since' = sent')
  BY <1>1, <1>3, <1>4
<1>11. parser' = fed.parser /\ heard' = heard \o fed.packets
  BY <1>4
<1> HIDE DEF w, h
<1>10. ~fooled' => Listening'
  <2> SUFFICES ASSUME ~fooled' PROVE Listening'
    OBVIOUS
  <2>0. heard \in Seq(Seq(Kept)) /\ Listening /\ Safe(x, since, marred')
    BY <1>3, <1>7 DEF Listening
  <2>1. AudioIn(p, heard, x, G, since, sent - p.carryLen, sent) /\ Settled(p)
    <3>1. CASE gapped
      <4>1. Heard(heard, x, sent) /\ parser \in Parsers /\ since = sent
        BY <1>1, <1>3, <2>0, <3>1 DEF Listening, Behind
      <4>2. Safe(x, sent, marred') /\ G = Guards(x, sent, marred')
        BY <2>0, <4>1
      <4>3. /\ AudioIn(AfterGap(parser), heard, x, Guards(x, sent, marred'), sent,
                       sent - AfterGap(parser).carryLen, sent)
            /\ Settled(AfterGap(parser))
        <5> DEFINE mm == marred'
        <5>1. Safe(x, sent, mm)
          BY <4>2
        <5> HIDE DEF mm, x
        <5>2. /\ AudioIn(AfterGap(parser), heard, x, Guards(x, sent, mm), sent,
                         sent - AfterGap(parser).carryLen, sent)
              /\ Settled(AfterGap(parser))
          BY <1>1, <4>1, <5>1, GapAudio
        <5> QED
          BY <5>2 DEF mm, x
      <4>4. p = AfterGap(parser)
        BY <3>1
      <4> HIDE DEF p
      <4> QED
        BY <4>1, <4>2, <4>3, <4>4
    <3>2. CASE ~gapped
      <4>1. AudioIn(parser, heard, x, Guarded, since, sent - parser.carryLen, sent) /\ Settled(parser)
        BY <2>0, <3>2 DEF Listening
      <4>2. p = parser
        BY <3>2
      <4> HIDE DEF G, p
      <4> QED
        BY <1>8, <4>1, <4>2, AudioInFewer
    <3> QED
      BY <3>1, <3>2
  <2>2. Warded(x, h, G)
    <3> DEFINE mm == marred'
    <3>1. Safe(x, since, mm) /\ h.marred = mm /\ G = Guards(x, since, mm)
      BY <1>6, <2>0
    <3> HIDE DEF mm, G, x
    <3>2. Warded(x, h, Guards(x, since, h.marred))
      BY <3>1, GuardsWarded
    <3> QED
      BY <3>1, <3>2
  <2> HIDE DEF p, G, x
  <2>3. /\ fed.packets \in Seq(Seq(Kept)) /\ Settled(fed.parser)
        /\ AudioIn(fed.parser, heard \o fed.packets, x, G, since,
                   (sent + m) - fed.parser.carryLen, sent + m)
    <3>1. since \in Int
      BY <1>3
    <3>2. /\ sent + m <= Len(Wires[x])
          /\ Behind(p, shown, Wires[x], h, sent) /\ Aligned(p, shown, Wires[x], h, sent)
          /\ Covers(h, Wires[x], sent + m)
          /\ \A i \in 1 .. p.carryLen : p.memory[i] = Garbage => (sent - p.carryLen) + i \in h.marred
      BY <1>2, <1>4
    <3> DEFINE out == Fed(p, SubSeq(Wires[x], sent + 1, sent + m), FALSE)
    <3>3. out = fed
      BY <1>2
    <3>4. /\ out.packets \in Seq(Seq(Kept)) /\ Settled(out.parser)
          /\ AudioIn(out.parser, heard \o out.packets, x, G, since,
                     (sent + m) - out.parser.carryLen, sent + m)
      <4> HIDE DEF fed
      <4> QED
        BY ONLY <1>1, <2>0, <2>1, <2>2, <3>1, <3>2, m \in Nat, FedAudio
    <3> HIDE DEF out, fed
    <3> QED
      BY <3>3, <3>4
  <2> HIDE DEF fed
  <2>4. heard' \in Seq(Seq(Kept))
    BY <1>11, <2>0, <2>3, ConcatProperties
  <2>5. stream' = x /\ Guarded' = G /\ since' = since /\ sent' = sent + m /\ gapped' = FALSE
    BY <1>4 DEF Guarded, G, x
  <2>6. AudioIn(parser', heard', stream', Guarded', since', sent' - parser'.carryLen, sent')
    BY <1>11, <2>3, <2>5
  <2> QED
    BY <1>11, <2>3, <2>4, <2>5, <2>6 DEF Listening
<1>12. ~fooled' => Safe(stream', since', marred')
  BY <1>4, <1>7
<1> QED
  BY <1>9, <1>10, <1>12 DEF HeardInv

LEMMA HeardLose ==
  ASSUME ParserInv, HeardInv, Lose
  PROVE  HeardInv'
<1>1. /\ stream \in DOMAIN Streams /\ sent \in Nat
      /\ parser.carryLen \in Nat /\ parser.carryLen <= sent /\ parser \in Parsers
  BY DEF ParserInv, Behind, Parsers
<1>2. /\ since \in Nat /\ since <= sent /\ (gapped => since = sent)
      /\ ~fooled => Safe(stream, since, marred) /\ Listening
  BY DEF HeardInv
<1>3. PICK m \in Losses :
        /\ sent' = sent + m /\ since' = sent + m /\ gapped' = TRUE
        /\ UNCHANGED <<stream, memory, parser, heard, marred>>
  BY DEF Lose
<1>4. fooled' = (fooled \/ \E i \in DOMAIN Units :
                             /\ Misleading(i)
                             /\ since' \in Span(i).first + 1 .. Span(i).last - 1)
  BY DEF Lose
<1>5. m \in Nat
  BY StreamsAssumption
<1>6. Units' = Units
  BY <1>3 DEF Units
<1>7. since' \in Nat /\ since' <= sent' /\ (gapped' => since' = sent')
  BY <1>1, <1>3, <1>5
<1>8. ~fooled' => ~fooled /\ Safe(stream', since', marred')
  <2> SUFFICES ASSUME ~fooled' PROVE ~fooled /\ Safe(stream', since', marred')
    OBVIOUS
  <2>1. ~fooled
    BY <1>4
  <2>4. ~fooled'
    OBVIOUS
  <2>2. ASSUME NEW k \in Packets(stream), HoldsMarker(Streams[stream][k])
        PROVE  /\ since' <= Begins(stream, k) \/ Ends(stream, k) <= since'
               /\ marred \cap (Begins(stream, k) + 1 .. Begins(stream, k) + 3) = {}
    <3> DEFINE b == Begins(stream, k)
               e == Ends(stream, k)
    <3>1. k \in DOMAIN Units /\ Misleading(k) /\ Span(k).first = b /\ Span(k).last = e
      BY <1>1, <2>2 DEF Packets, UnitsOf, Units, Misleading, Span, Begins, Ends
    <3>5. marred \cap (b + 1 .. b + 3) = {}
      BY <1>2, <2>1, <2>2 DEF Safe
    <3>2. ~(since' \in b + 1 .. e - 1)
      BY <1>4, <3>1, <2>4
    <3>3. b \in Nat /\ e \in Nat
      BY <1>1, PacketsApart
    <3> HIDE DEF b, e
    <3>4. since' <= b \/ e <= since'
      BY <1>7, <3>2, <3>3
    <3> QED
      BY <3>4, <3>5 DEF b, e
  <2>3. Safe(stream', since', marred')
    BY <1>3, <2>2 DEF Safe
  <2> QED
    BY <2>1, <2>3
<1>9. ~fooled => Listening'
  <2> SUFFICES ASSUME ~fooled PROVE Listening'
    OBVIOUS
  <2> DEFINE to == sent + m
             at == sent - parser.carryLen
  <2>1. to \in Int /\ sent <= to /\ at \in Int /\ at <= sent
    BY <1>1, <1>5
  <2>2. \E b \in Int : b <= to /\ Heard(heard, stream, b)
    <3>1. CASE gapped
      <4>1. Heard(heard, stream, sent) /\ sent \in Int
        BY <1>1, <1>2, <3>1 DEF Listening
      <4> QED
        BY <2>1, <4>1
    <3>2. CASE ~gapped
      <4>1. AudioIn(parser, heard, stream, Guarded, since, at, sent)
        BY <1>2, <3>2 DEF Listening
      <4>2. CASE parser.state = "AudioData"
        <5>1. PICK k \in Packets(stream) : Taking(parser, heard, stream, at, k)
          BY <4>1, <4>2 DEF AudioIn
        <5> DEFINE b == Begins(stream, k)
                   n == Len(parser.audio)
        <5>2. Heard(heard, stream, b + 3) /\ at = (b + 8) + n
          BY <5>1 DEF Taking
        <5>3. b \in Nat /\ n \in Nat
          BY <1>1, PacketsApart, LenProperties DEF Parsers
        <5> HIDE DEF b, n, at, to
        <5>4. b + 3 \in Int /\ b + 3 <= to
          BY <1>1, <2>1, <5>2, <5>3
        <5> QED
          BY <5>2, <5>4
      <4>3. CASE parser.state # "AudioData"
        <5>1. Heard(heard, stream, Least(at + 3, sent))
          BY <4>1, <4>3 DEF AudioIn
        <5> HIDE DEF at, to
        <5>2. Least(at + 3, sent) \in Int /\ Least(at + 3, sent) <= to
          BY <1>1, <2>1 DEF Least
        <5> QED
          BY <5>1, <5>2
      <4> QED
        BY <4>2, <4>3
    <3> QED
      BY <3>1, <3>2
  <2>3. Heard(heard, stream, to)
    BY <1>1, <2>1, <2>2, HeardLater
  <2>4. heard \in Seq(Seq(Kept))
    BY <1>2 DEF Listening
  <2> QED
    BY <1>3, <1>6, <2>3, <2>4 DEF Listening
<1> QED
  BY <1>6, <1>7, <1>8, <1>9 DEF HeardInv

\* Until the parser began to read inside a packet that holds a marker, what it is taking is the
\* payload of a packet of the stream, behind all that was handed out; and otherwise it stands
\* inside no packet that began whole, so that it misses none (processMarker, consumeAudio, feed).
THEOREM HeardInvariant == Spec => []HeardInv
<1>1. Init => HeardInv
  BY HeardInit
<1>2. ParserInv /\ HeardInv /\ [Next]_vars => HeardInv'
  <2> SUFFICES ASSUME ParserInv, HeardInv, [Next]_vars PROVE HeardInv'
    OBVIOUS
  <2>1. CASE Feed
    BY <2>1, HeardFeed
  <2>2. CASE Lose
    BY <2>2, HeardLose
  <2>3. CASE UNCHANGED vars
    BY <2>3 DEF vars, HeardInv, Listening, Guarded
  <2> QED
    BY <2>1, <2>2, <2>3 DEF Next
<1> QED
  BY <1>1, <1>2, ParserInvariant, PTL DEF Spec

LEMMA ListeningHeard ==
  ASSUME stream \in DOMAIN Streams, Listening
  PROVE  \E b : Heard(heard, stream, b)
<1>1. CASE gapped
  BY <1>1 DEF Listening
<1>2. CASE ~gapped
  BY <1>2 DEF Listening, AudioIn, Taking
<1> QED
  BY <1>1, <1>2

\* An audio packet that is played is one that the card sent, byte for byte, in its order and once,
\* whatever was lost and however the stream was cut, as long as the parser did not begin to read
\* inside a packet that holds a marker (consumeAudio, resetForGap).
THEOREM PacketsAreWhole == Spec => []PacketsWhole
<1>1. ParserInv /\ HeardInv => PacketsWhole
  <2> DEFINE Whole == \E place \in [DOMAIN heard -> UnitsOf[stream]["packet"]] :
                         /\ \A k \in DOMAIN heard : heard[k] = Units[place[k]].content
                         /\ \A j, k \in DOMAIN heard : j < k => place[j] < place[k]
  <2> SUFFICES ASSUME ParserInv, HeardInv, ~fooled PROVE Whole
    BY DEF PacketsWhole
  <2>1. stream \in DOMAIN Streams
    BY DEF ParserInv
  <2>2. Listening
    BY DEF HeardInv
  <2>3. PICK b : Heard(heard, stream, b)
    BY <2>1, <2>2, ListeningHeard
  <2>4. PICK place \in [DOMAIN heard -> Packets(stream)] :
          /\ \A n \in DOMAIN heard : heard[n] = Load(stream, place[n])
          /\ \A m, n \in DOMAIN heard : m < n => place[m] < place[n]
    BY <2>3 DEF Heard
  <2> QED
    BY <2>4 DEF Packets, Load, Units
<1> QED
  BY <1>1, ParserInvariant, HeardInvariant, PTL

=============================================================================
