----------------------- MODULE ReorderedFramesProofs -----------------------
(***************************************************************************)
(* Proofs about BufferReorderer, as ReorderedFrames uses it, for every     *)
(* buffer size, every stream and every cut into chunks.                    *)
(***************************************************************************)
EXTENDS ReorderedFrames, SequenceTheorems, FiniteSetTheorems, WellFoundedInduction,
        NaturalsInduction, TLAPS

(***************************************************************************)
(* Induction over the naturals for a set in place of a predicate: what the *)
(* recursive functions compute is proved with it.                          *)
(***************************************************************************)

LEMMA LeastNumber ==
  ASSUME NEW T, T \subseteq Nat, T # {}
  PROVE  \E m \in T : \A n \in T : m <= n
<1> DEFINE R == {ss \in Nat \X Nat : ss[1] < ss[2]}
<1>1. IsWellFoundedOn(R, Nat)
  BY NatLessThanWellFounded DEF OpToRel
<1>2. PICK m \in T : \A n \in T : ~(<<n, m>> \in R)
  <2> HIDE DEF R
  <2> QED BY <1>1, WFMin
<1>3. \A n \in T : ~(n < m)
  BY <1>2
<1> QED
  BY <1>3

\* A set that holds 0, and n + 1 with every n up to a bound, holds every number up to it.
LEMMA UpToBound ==
  ASSUME NEW S, NEW N \in Nat, 0 \in S,
         \A n \in 0 .. N - 1 : n \in S => n + 1 \in S
  PROVE  \A n \in 0 .. N : n \in S
<1> SUFFICES ASSUME (0 .. N) \ S # {} PROVE FALSE
  OBVIOUS
<1>1. PICK m \in (0 .. N) \ S : \A n \in (0 .. N) \ S : m <= n
  <2>1. (0 .. N) \ S \subseteq Nat
    OBVIOUS
  <2> QED
    BY <2>1, LeastNumber
<1>2. m # 0 /\ m - 1 \in 0 .. N - 1 /\ m - 1 \in 0 .. N /\ (m - 1) + 1 = m
  BY <1>1
<1>3. m - 1 \in S
  BY <1>1, <1>2
<1> QED
  BY <1>1, <1>2, <1>3

\* The pieces of a sequence of sequences, put together.
FlattenRun(f, seqs, n) ==
  f = [i \in 1 .. n |-> IF i = 1 THEN seqs[i] ELSE f[i - 1] \o seqs[i]]

LEMMA FlattenRecursion ==
  ASSUME NEW seqs, NEW n \in Nat \ {0}
  PROVE  \E f : FlattenRun(f, seqs, n)
<1> DEFINE S == {k \in Nat : \E f : FlattenRun(f, seqs, k + 1)}
<1>1. 0 \in S
  <2>1. FlattenRun([i \in 1 .. 1 |-> seqs[i]], seqs, 0 + 1)
    BY DEF FlattenRun
  <2> QED
    BY <2>1
<1>2. \A k \in 0 .. (n - 1) - 1 : k \in S => k + 1 \in S
  <2> SUFFICES ASSUME NEW k \in Nat, NEW f, FlattenRun(f, seqs, k + 1)
               PROVE  \E g : FlattenRun(g, seqs, (k + 1) + 1)
    OBVIOUS
  <2> DEFINE g == [i \in 1 .. k + 2 |-> IF i = k + 2 THEN f[k + 1] \o seqs[i] ELSE f[i]]
  <2>1. \A i \in 1 .. k + 1 : f[i] = IF i = 1 THEN seqs[i] ELSE f[i - 1] \o seqs[i]
    BY DEF FlattenRun
  <2>2. \A i \in 1 .. k + 2 : g[i] = IF i = 1 THEN seqs[i] ELSE g[i - 1] \o seqs[i]
    BY <2>1
  <2>3. (k + 1) + 1 = k + 2
    OBVIOUS
  <2>4. FlattenRun(g, seqs, k + 2)
    BY <2>2 DEF FlattenRun
  <2> QED
    BY <2>3, <2>4
<1>3. n - 1 \in S
  <2> HIDE DEF S
  <2>1. n - 1 \in Nat /\ n - 1 \in 0 .. n - 1
    OBVIOUS
  <2> QED
    BY <1>1, <1>2, <2>1, UpToBound
<1>4. (n - 1) + 1 = n
  OBVIOUS
<1> QED
  BY <1>3, <1>4

LEMMA FlattenSeqType ==
  ASSUME NEW S, NEW seqs \in Seq(Seq(S))
  PROVE  FlattenSeq(seqs) \in Seq(S)
<1> DEFINE n == Len(seqs)
           flatten[i \in 1 .. n] == IF i = 1 THEN seqs[i] ELSE flatten[i - 1] \o seqs[i]
<1>0. n \in Nat /\ \A i \in 1 .. n : seqs[i] \in Seq(S)
  BY LenProperties
<1>1. CASE n = 0
  <2>1. FlattenSeq(seqs) = seqs /\ seqs = << >>
    BY <1>1, EmptySeq DEF FlattenSeq
  <2> QED
    BY <2>1, EmptySeq
<1>2. CASE n # 0
  <2>1. FlattenSeq(seqs) = flatten[n]
    BY <1>2 DEF FlattenSeq
  <2>2. FlattenRun(flatten, seqs, n)
    <3> HIDE DEF n
    <3>1. \E f : FlattenRun(f, seqs, n)
      BY <1>0, <1>2, FlattenRecursion
    <3> QED
      BY ONLY <3>1 DEF FlattenRun
  <2> HIDE DEF flatten, n
  <2> DEFINE T == {k \in Nat : k + 1 <= n => flatten[k + 1] \in Seq(S)}
  <2>3. 0 \in T
    BY <1>0, <1>2, <2>2 DEF FlattenRun
  <2>4. \A k \in 0 .. (n - 1) - 1 : k \in T => k + 1 \in T
    <3> SUFFICES ASSUME NEW k \in 0 .. (n - 1) - 1, flatten[k + 1] \in Seq(S)
                 PROVE  flatten[(k + 1) + 1] \in Seq(S)
      BY <1>0
    <3>1. (k + 1) + 1 \in 1 .. n /\ (k + 1) + 1 # 1 /\ ((k + 1) + 1) - 1 = k + 1
      BY <1>0
    <3>2. flatten[(k + 1) + 1] = flatten[k + 1] \o seqs[(k + 1) + 1]
      BY <2>2, <3>1 DEF FlattenRun
    <3> QED
      BY <1>0, <3>1, <3>2, ConcatProperties
  <2>5. n - 1 \in T
    <3> HIDE DEF T
    <3>1. n - 1 \in Nat /\ n - 1 \in 0 .. n - 1
      BY <1>0, <1>2
    <3> QED
      BY <2>3, <2>4, <3>1, UpToBound
  <2>6. flatten[n] \in Seq(S)
    BY <1>0, <1>2, <2>5
  <2> QED
    BY <2>1, <2>6 DEF flatten, n
<1> QED
  BY <1>1, <1>2

\* What lies between two places of a sequence.
LEMMA SliceType ==
  ASSUME NEW S, NEW s \in Seq(S), NEW m \in Nat, NEW n \in Nat, m >= 1, n <= Len(s)
  PROVE  SubSeq(s, m, n) \in Seq(S)
<1>1. \A i \in m .. n : s[i] \in S
  BY LenProperties
<1> QED
  BY <1>1, SubSeqProperties

USE ReordererAssumption

(***************************************************************************)
(* What the reorderer's fields hold.                                       *)
(***************************************************************************)

Orders == {"Unknown", "Normal", "Swapped"}
Observations == [savOffset : Nat, order : {"Normal", "Swapped"}]
Reorderers ==
  [pipe : Seq(Byte), pipeStart : Nat, out : Seq(Byte), outOffset : Nat, inOffset : Nat,
   scanOffset : Nat, pendingSav : Nat \cup {-1}, pendingB0 : Int,
   observations : Seq(Observations), order : Orders, pairOrigin : Nat,
   candidate : [order : Orders, origin : Nat, count : Nat],
   gapPending : BOOLEAN, sunk : Seq([bytes : Seq(Byte), gapped : BOOLEAN])]

Window == 2 * DmaBufferBytes

LEMMA Widths ==
  /\ Window \in Nat /\ Window >= 2
  /\ PairBytes = Window /\ Reorderer!PairBytes = Window /\ Reorderer!SwapWindow = Window
  /\ Reorderer!MarkerSpan = 9 /\ Reorderer!MarkerBytes = 4 /\ Reorderer!Never = -1
  /\ \A r : Reorderer!HoldBack(r) = Window + 9
<1>1. Window \in Nat /\ Window >= 2
  BY DEF Window
<1>2. Reorderer!MarkerSpan = 9
  BY DEF Reorderer!MarkerSpan, Reorderer!MarkerBytes
<1> QED
  BY <1>1, <1>2 DEF Window, PairBytes, Reorderer!PairBytes, Reorderer!SwapWindow, Reorderer!Never,
       Reorderer!MarkerBytes, Reorderer!HoldBack

\* The pipe holds the bytes from pipeStart up to inOffset.
PipeWhole(r) ==
  /\ Len(r.pipe) = r.inOffset - r.pipeStart
  /\ r.pipeStart <= r.outOffset /\ r.outOffset <= r.inOffset

\* Every SAV found is behind what was passed on and in front of "upTo", in the stream's order:
\* first the ones with a verdict, then the pending one.
SavsInOrder(r, upTo) ==
  /\ \A i \in 1 .. Len(r.observations) :
       r.outOffset <= r.observations[i].savOffset /\ r.observations[i].savOffset < upTo
  /\ \A i, j \in 1 .. Len(r.observations) :
       i < j => r.observations[i].savOffset < r.observations[j].savOffset
  /\ r.pendingSav # -1 =>
       /\ r.outOffset <= r.pendingSav /\ r.pendingSav < upTo
       /\ \A i \in 1 .. Len(r.observations) : r.observations[i].savOffset < r.pendingSav

\* A piece of the pipe is a sequence of bytes.
LEMMA PipedType ==
  ASSUME NEW r \in Reorderers, PipeWhole(r),
         NEW from \in Nat, NEW to \in Nat, r.pipeStart <= from, from <= to, to <= r.inOffset
  PROVE  /\ Reorderer!Piped(r, from, to) \in Seq(Byte)
         /\ Len(Reorderer!Piped(r, from, to)) = to - from
<1> DEFINE m == from - r.pipeStart + 1
           n == to - r.pipeStart
<1>1. r.pipe \in Seq(Byte) /\ r.pipeStart \in Nat /\ r.inOffset \in Nat
  BY DEF Reorderers
<1>2. m \in Int /\ n \in Int /\ n - m + 1 = to - from /\ m >= 1 /\ n <= Len(r.pipe)
  BY <1>1 DEF PipeWhole
<1>3. \A i \in m .. n : r.pipe[i] \in Byte
  <2> HIDE DEF m, n
  <2>1. Len(r.pipe) \in Nat /\ \A i \in 1 .. Len(r.pipe) : r.pipe[i] \in Byte
    BY <1>1, LenProperties
  <2>2. \A i \in m .. n : i \in 1 .. Len(r.pipe)
    BY <1>2, <2>1
  <2> QED
    BY <2>1, <2>2
<1>4. Reorderer!Piped(r, from, to) = SubSeq(r.pipe, m, n)
  BY DEF Reorderer!Piped
<1> HIDE DEF m, n
<1>5. SubSeq(r.pipe, m, n) \in Seq(Byte) /\ Len(SubSeq(r.pipe, m, n)) = IF m <= n THEN n - m + 1 ELSE 0
  BY <1>2, <1>3, SubSeqProperties
<1>6. (IF m <= n THEN n - m + 1 ELSE 0) = to - from
  BY <1>2
<1> QED
  BY <1>4, <1>5, <1>6

(***************************************************************************)
(* scan: every step keeps the SAVs in order.                               *)
(***************************************************************************)

\* What scanning leaves alone.
SameButSavs(r, q) ==
  /\ q.pipe = r.pipe /\ q.pipeStart = r.pipeStart
  /\ q.inOffset = r.inOffset /\ q.outOffset = r.outOffset

LEMMA ObserveInOrder ==
  ASSUME NEW r \in Reorderers, NEW upTo \in Nat, SavsInOrder(r, upTo), r.pendingSav # -1,
         NEW order \in {"Normal", "Swapped"}
  PROVE  LET q == Reorderer!Observe(r, order) IN
         /\ q \in Reorderers /\ SavsInOrder(q, upTo) /\ SameButSavs(r, q)
         /\ q.pendingSav = -1 /\ q.scanOffset = r.scanOffset
<1> DEFINE o == [savOffset |-> r.pendingSav, order |-> order]
           q == Reorderer!Observe(r, order)
           n == Len(r.observations)
<1>1. o \in Observations /\ r.observations \in Seq(Observations)
  BY DEF Observations, Reorderers
<1>2. /\ Append(r.observations, o) \in Seq(Observations)
      /\ Len(Append(r.observations, o)) = n + 1
      /\ \A i \in 1 .. n : Append(r.observations, o)[i] = r.observations[i]
      /\ Append(r.observations, o)[n + 1] = o
      /\ n \in Nat
  BY <1>1, AppendProperties, LenProperties
<1>3. q = [r EXCEPT !.observations = Append(@, o), !.pendingSav = -1]
  BY Widths DEF Reorderer!Observe
<1>4. q \in Reorderers
  BY <1>2, <1>3 DEF Reorderers
<1>5. /\ q.observations = Append(r.observations, o) /\ q.pendingSav = -1
      /\ q.outOffset = r.outOffset /\ q.scanOffset = r.scanOffset /\ SameButSavs(r, q)
  BY <1>3 DEF Reorderers, SameButSavs
<1>6. \A i \in 1 .. n : r.observations[i].savOffset < o.savOffset
  BY DEF SavsInOrder
<1>7. \A i \in 1 .. n + 1 : i # n + 1 => i \in 1 .. n
  BY <1>2
<1> HIDE DEF o, q
<1>8. /\ \A i \in 1 .. n + 1 : q.outOffset <= q.observations[i].savOffset
                               /\ q.observations[i].savOffset < upTo
  <2> SUFFICES ASSUME NEW i \in 1 .. n + 1
               PROVE  q.outOffset <= q.observations[i].savOffset /\ q.observations[i].savOffset < upTo
    OBVIOUS
  <2>1. CASE i = n + 1
    BY <1>2, <1>5, <2>1 DEF SavsInOrder, o
  <2>2. CASE i # n + 1
    BY <1>2, <1>5, <1>7, <2>2 DEF SavsInOrder
  <2> QED
    BY <2>1, <2>2
<1>9. \A i, j \in 1 .. n + 1 : i < j => q.observations[i].savOffset < q.observations[j].savOffset
  <2> SUFFICES ASSUME NEW i \in 1 .. n + 1, NEW j \in 1 .. n + 1, i < j
               PROVE  q.observations[i].savOffset < q.observations[j].savOffset
    OBVIOUS
  <2>1. i \in 1 .. n
    BY <1>2
  <2>2. CASE j = n + 1
    BY <1>2, <1>5, <1>6, <2>1, <2>2
  <2>3. CASE j # n + 1
    BY <1>2, <1>5, <1>7, <2>1, <2>3 DEF SavsInOrder
  <2> QED
    BY <2>2, <2>3
<1>10. Len(q.observations) = n + 1
  BY <1>2, <1>5
<1>11. SavsInOrder(q, upTo)
  BY <1>5, <1>8, <1>9, <1>10 DEF SavsInOrder
<1> QED
  BY <1>4, <1>5, <1>11 DEF q

LEMMA SavTypes ==
  ASSUME NEW r \in Reorderers
  PROVE  /\ r.pendingSav \in Int /\ r.observations \in Seq(Observations)
         /\ Len(r.observations) \in Nat
         /\ \A i \in 1 .. Len(r.observations) :
              r.observations[i] \in Observations /\ r.observations[i].savOffset \in Nat
<1>1. r.pendingSav \in Int /\ r.observations \in Seq(Observations)
  BY DEF Reorderers
<1>2. Len(r.observations) \in Nat
      /\ \A i \in 1 .. Len(r.observations) : r.observations[i] \in Observations
  BY <1>1, LenProperties
<1> QED
  BY <1>1, <1>2 DEF Observations

\* A later bound holds as well.
LEMMA BoundLater ==
  ASSUME NEW r \in Reorderers, NEW upTo \in Nat, NEW later \in Nat, upTo <= later,
         SavsInOrder(r, upTo)
  PROVE  SavsInOrder(r, later)
<1> DEFINE n == Len(r.observations)
           at(i) == r.observations[i].savOffset
<1>1. r.pendingSav \in Int /\ \A i \in 1 .. n : at(i) \in Int
  BY SavTypes
<1>2. /\ \A i \in 1 .. n : r.outOffset <= at(i) /\ at(i) < upTo
      /\ \A i, j \in 1 .. n : i < j => at(i) < at(j)
      /\ r.pendingSav # -1 => r.outOffset <= r.pendingSav /\ r.pendingSav < upTo
      /\ r.pendingSav # -1 => \A i \in 1 .. n : at(i) < r.pendingSav
  BY DEF SavsInOrder
<1> HIDE DEF n, at
<1>3. \A i \in 1 .. n : at(i) < later
  BY <1>1, <1>2
<1>4. r.pendingSav # -1 => r.pendingSav < later
  BY <1>1, <1>2
<1> QED
  BY <1>2, <1>3, <1>4 DEF SavsInOrder, n, at

LEMMA ExpireInOrder ==
  ASSUME NEW r \in Reorderers, NEW upTo \in Nat, SavsInOrder(r, upTo), NEW offset \in Nat
  PROVE  LET q == Reorderer!Expire(r, offset) IN
         /\ q \in Reorderers /\ SavsInOrder(q, upTo) /\ SameButSavs(r, q)
         /\ q.scanOffset = r.scanOffset
         /\ q.pendingSav # -1 => offset < q.pendingSav + Window
<1>1. CASE r.pendingSav # -1 /\ offset >= r.pendingSav + Window
  BY <1>1, Widths, ObserveInOrder DEF Reorderer!Expire
<1>2. CASE ~(r.pendingSav # -1 /\ offset >= r.pendingSav + Window)
  <2>1. Reorderer!Expire(r, offset) = r
    BY <1>2, Widths DEF Reorderer!Expire
  <2>2. r.pendingSav # -1 => offset < r.pendingSav + Window
    BY <1>2, Widths, SMTT(30) DEF Reorderers
  <2> QED
    BY <2>1, <2>2 DEF SameButSavs
<1> QED
  BY <1>1, <1>2

\* A SAV that is seen becomes the pending one, behind all that were seen before.
LEMMA SeeMarkerInOrder ==
  ASSUME NEW r \in Reorderers, PipeWhole(r), NEW offset \in Nat, SavsInOrder(r, offset),
         r.outOffset <= offset, offset + 9 <= r.inOffset
  PROVE  LET q == Reorderer!SeeMarker(r, offset) IN
         /\ q \in Reorderers /\ SavsInOrder(q, offset + 1) /\ SameButSavs(r, q)
<1> DEFINE e == Reorderer!Expire(r, offset)
           m == Reorderer!Piped(e, offset, offset + Reorderer!MarkerSpan)
           n == m[Reorderer!MarkerBytes + 1].n
           f == IF e.pendingSav # Reorderer!Never THEN Reorderer!Observe(e, "Normal") ELSE e
           g == [f EXCEPT !.pendingSav = offset, !.pendingB0 = n]
           h == Reorderer!Observe(e, IF Reorderer!Late(e, n) THEN "Swapped" ELSE "Normal")
           q == Reorderer!SeeMarker(r, offset)
<1>1. e \in Reorderers /\ SavsInOrder(e, offset) /\ SameButSavs(r, e)
  <2> HIDE DEF e
  <2> QED
    BY ExpireInOrder DEF e
<1>2. (e.pendingSav # -1 /\ q = h) \/ q = g \/ q = e
  BY Widths DEF Reorderer!SeeMarker
<1> HIDE DEF e, q
<1>3. n \in Int
  <2>1. PipeWhole(e) /\ e.pipeStart <= offset /\ offset + 9 <= e.inOffset
    <3>1. r.pipeStart \in Nat /\ r.outOffset \in Nat
      BY DEF Reorderers
    <3> QED
      BY <1>1, <3>1 DEF PipeWhole, SameButSavs
  <2>2. Reorderer!Piped(e, offset, offset + 9) \in Seq(Byte)
        /\ Len(Reorderer!Piped(e, offset, offset + 9)) = 9
    <3> DEFINE to == offset + 9
    <3>1. to \in Nat /\ offset <= to /\ to - offset = 9
      OBVIOUS
    <3>2. to <= e.inOffset
      BY <2>1
    <3> HIDE DEF to
    <3>3. Reorderer!Piped(e, offset, to) \in Seq(Byte) /\ Len(Reorderer!Piped(e, offset, to)) = to - offset
      BY <1>1, <2>1, <3>1, <3>2, PipedType
    <3> QED
      BY <3>1, <3>3 DEF to
  <2>3. Reorderer!Piped(e, offset, offset + 9)[5] \in Byte
    BY <2>2
  <2> QED
    BY <2>3, Widths DEF Byte
<1> HIDE DEF n, m
<1>4. CASE q = e
  <2>1. offset <= offset + 1 /\ offset + 1 \in Nat
    OBVIOUS
  <2> QED
    BY <1>1, <1>4, <2>1, BoundLater DEF q
<1>5. CASE e.pendingSav # -1 /\ q = h
  <2>1. h \in Reorderers /\ SavsInOrder(h, offset) /\ SameButSavs(e, h)
    <3>1. (IF Reorderer!Late(e, n) THEN "Swapped" ELSE "Normal") \in {"Normal", "Swapped"}
      OBVIOUS
    <3> QED
      BY <1>1, <1>5, <3>1, ObserveInOrder
  <2> HIDE DEF h
  <2>2. offset <= offset + 1 /\ offset + 1 \in Nat
    OBVIOUS
  <2>3. SavsInOrder(h, offset + 1)
    BY <2>1, <2>2, BoundLater
  <2> QED
    BY <1>1, <1>5, <2>1, <2>3 DEF q, SameButSavs
<1>6. CASE q = g
  <2>1. f \in Reorderers /\ SavsInOrder(f, offset) /\ SameButSavs(e, f)
    <3>1. CASE e.pendingSav # -1
      BY <1>1, <3>1, Widths, ObserveInOrder
    <3>2. CASE e.pendingSav = -1
      BY <1>1, <3>2, Widths DEF SameButSavs
    <3> QED
      BY <3>1, <3>2
  <2> HIDE DEF f
  <2>2. /\ g \in Reorderers /\ SameButSavs(f, g) /\ g.pendingSav = offset
        /\ g.observations = f.observations /\ g.outOffset = f.outOffset
    BY <1>3, <2>1 DEF Reorderers, SameButSavs
  <2>3. f.outOffset <= offset /\ offset + 1 \in Nat /\ offset < offset + 1
    BY <1>1, <2>1 DEF SameButSavs
  <2>4. SavsInOrder(f, offset + 1)
    <3>1. offset <= offset + 1 /\ offset + 1 \in Nat
      OBVIOUS
    <3> QED
      BY <2>1, <3>1, BoundLater
  <2>5. SavsInOrder(g, offset + 1)
    <3>1. \A i \in 1 .. Len(f.observations) : f.observations[i].savOffset < offset
      BY <2>1 DEF SavsInOrder
    <3> HIDE DEF g
    <3> QED
      BY <2>2, <2>3, <2>4, <3>1 DEF SavsInOrder
  <2> QED
    BY <1>1, <1>6, <2>1, <2>2, <2>5 DEF q, SameButSavs
<1> QED
  BY <1>2, <1>4, <1>5, <1>6

LEMMA MinIsLeast ==
  ASSUME NEW S, S \subseteq Nat, S # {}
  PROVE  Reorderer!Min(S) \in S /\ \A k \in S : Reorderer!Min(S) <= k
  BY LeastNumber DEF Reorderer!Min

LEMMA MaxOfTwo ==
  ASSUME NEW a \in Int, NEW b \in Int
  PROVE  Reorderer!Max({a, b}) = IF a >= b THEN a ELSE b
<1>1. \E x \in {a, b} : \A y \in {a, b} : x >= y
  OBVIOUS
<1>2. Reorderer!Max({a, b}) \in {a, b} /\ \A y \in {a, b} : Reorderer!Max({a, b}) >= y
  BY <1>1 DEF Reorderer!Max
<1> QED
  BY <1>2

LEMMA MinOfTwo ==
  ASSUME NEW a \in Int, NEW b \in Int
  PROVE  Reorderer!Min({a, b}) = IF a <= b THEN a ELSE b
<1>1. \E x \in {a, b} : \A y \in {a, b} : x <= y
  OBVIOUS
<1>2. Reorderer!Min({a, b}) \in {a, b} /\ \A y \in {a, b} : Reorderer!Min({a, b}) <= y
  BY <1>1 DEF Reorderer!Min
<1> QED
  BY <1>2

\* A reorderer whose scan has come to scanOffset.
ScanOrdered(r) ==
  /\ r \in Reorderers /\ PipeWhole(r) /\ SavsInOrder(r, r.scanOffset)
  /\ r.outOffset <= r.scanOffset /\ r.scanOffset <= r.inOffset

LEMMA SeeNextInOrder ==
  ASSUME NEW r, ScanOrdered(r), NEW limit \in Nat, r.scanOffset <= limit,
         limit = r.scanOffset \/ limit + 8 <= r.inOffset
  PROVE  LET q == Reorderer!SeeNext(r, limit) IN
         /\ ScanOrdered(q) /\ SameButSavs(r, q)
         /\ r.scanOffset <= q.scanOffset /\ q.scanOffset <= limit
         /\ limit = q.scanOffset \/ limit + 8 <= q.inOffset
<1> DEFINE ahead == Reorderer!Markers(r, limit)
           o == Reorderer!Min(ahead)
           p == Reorderer!SeeMarker(r, o)
           q == Reorderer!SeeNext(r, limit)
<1>0. /\ r \in Reorderers /\ PipeWhole(r) /\ SavsInOrder(r, r.scanOffset)
      /\ r.scanOffset \in Nat /\ r.outOffset \in Nat /\ r.inOffset \in Nat
      /\ r.outOffset <= r.scanOffset
  BY DEF ScanOrdered, Reorderers
<1>1. CASE ahead = {}
  BY <1>0, <1>1 DEF Reorderer!SeeNext, SameButSavs, ScanOrdered
<1>2. CASE ahead # {}
  <2>1. \A k \in ahead : k \in Nat /\ r.scanOffset <= k /\ k <= limit - 1
    BY <1>0 DEF Reorderer!Markers
  <2>2. ahead \subseteq Nat
    BY <2>1
  <2> HIDE DEF ahead
  <2>3. o \in ahead
    BY <1>2, <2>2, MinIsLeast
  <2>4. o \in Nat /\ r.scanOffset <= o /\ o <= limit - 1
    BY <2>1, <2>3
  <2> HIDE DEF o
  <2>5. limit + 8 <= r.inOffset /\ o + 9 <= r.inOffset /\ r.outOffset <= o
    BY <1>0, <2>4
  <2>6. SavsInOrder(r, o)
    BY <1>0, <2>4, BoundLater
  <2>7. p \in Reorderers /\ SavsInOrder(p, o + 1) /\ SameButSavs(r, p)
    BY <1>0, <2>4, <2>5, <2>6, SeeMarkerInOrder
  <2>8. q = [p EXCEPT !.scanOffset = o + 1]
    BY <1>2 DEF Reorderer!SeeNext, ahead, o
  <2> HIDE DEF p, q
  <2>9. /\ q \in Reorderers /\ q.scanOffset = o + 1 /\ SameButSavs(p, q)
        /\ q.observations = p.observations /\ q.pendingSav = p.pendingSav
    <3>1. p \in Reorderers /\ o + 1 \in Nat
      BY <2>4, <2>7
    <3>2. q \in Reorderers
      BY ONLY <2>8, <3>1 DEF Reorderers
    <3> QED
      BY <2>8, <3>1, <3>2 DEF Reorderers, SameButSavs
  <2>10. SavsInOrder(q, o + 1)
    BY <2>7, <2>9 DEF SavsInOrder, SameButSavs
  <2>11. PipeWhole(q) /\ SameButSavs(r, q)
    BY <1>0, <2>7, <2>9 DEF PipeWhole, SameButSavs
  <2>12. q.outOffset <= o + 1 /\ o + 1 <= q.inOffset /\ r.scanOffset <= o + 1 /\ o + 1 <= limit
         /\ limit + 8 <= q.inOffset
    BY <1>0, <2>4, <2>5, <2>11 DEF SameButSavs
  <2> QED
    BY <2>9, <2>10, <2>11, <2>12 DEF q, ScanOrdered
<1> QED
  BY <1>1, <1>2

\* The recursive function that scans is well defined.
LEMMA ScanRecursion ==
  ASSUME NEW r, NEW limit, NEW steps \in Nat
  PROVE  \E f : f = [k \in 0 .. steps |-> IF k = 0 THEN r ELSE Reorderer!SeeNext(f[k - 1], limit)]
<1> DEFINE Is(f, n) == f = [k \in 0 .. n |-> IF k = 0 THEN r ELSE Reorderer!SeeNext(f[k - 1], limit)]
           S == {n \in Nat : \E f : Is(f, n)}
<1>1. 0 \in S
  <2>1. Is([k \in 0 .. 0 |-> r], 0)
    OBVIOUS
  <2> QED
    BY <2>1
<1>2. \A n \in 0 .. steps - 1 : n \in S => n + 1 \in S
  <2> SUFFICES ASSUME NEW n \in Nat, NEW f, Is(f, n)
               PROVE  \E g : Is(g, n + 1)
    OBVIOUS
  <2> DEFINE g == [k \in 0 .. n + 1 |->
                     IF k = n + 1 THEN Reorderer!SeeNext(f[n], limit) ELSE f[k]]
  <2>1. \A k \in 0 .. n + 1 :
          g[k] = IF k = 0 THEN r ELSE Reorderer!SeeNext(g[k - 1], limit)
    OBVIOUS
  <2>2. Is(g, n + 1)
    BY <2>1
  <2> QED
    BY <2>2
<1>3. steps \in S
  <2> HIDE DEF S
  <2> QED
    BY <1>1, <1>2, UpToBound
<1> QED
  BY <1>3

LEMMA SameCardinality == \A S : Reorderer!Cardinality(S) = Cardinality(S)
  BY DEF Reorderer!Cardinality, Cardinality

\* scan finds the SAVs in order; behind it, the pending SAV is younger than the window.
LEMMA ScannedInOrder ==
  ASSUME NEW r, ScanOrdered(r)
  PROVE  LET q == Reorderer!Scanned(r) IN
         /\ ScanOrdered(q) /\ SameButSavs(r, q)
         /\ r.inOffset >= 9 =>
              /\ r.inOffset - 8 <= q.scanOffset
              /\ q.pendingSav # -1 => q.scanOffset < q.pendingSav + Window
<1> DEFINE limit == Reorderer!Max({r.scanOffset, r.inOffset - Reorderer!MarkerSpan + 1})
           steps == Reorderer!Cardinality(Reorderer!Markers(r, limit))
           after[k \in 0 .. steps] ==
             IF k = 0 THEN r ELSE Reorderer!SeeNext(after[k - 1], limit)
           last == [after[steps] EXCEPT !.scanOffset = limit]
           q == Reorderer!Scanned(r)
<1>0. r \in Reorderers /\ r.scanOffset \in Nat /\ r.inOffset \in Nat /\ r.scanOffset <= r.inOffset
  BY DEF ScanOrdered, Reorderers
<1>1. CASE r.inOffset < 9
  <2>1. q = r
    BY <1>1, Widths DEF Reorderer!Scanned
  <2>2. SameButSavs(r, r) /\ ~(r.inOffset >= 9)
    BY <1>0, <1>1 DEF SameButSavs
  <2> QED
    BY <2>1, <2>2
<1>2. CASE r.inOffset >= 9
  <2>1. q = Reorderer!Expire(last, limit)
    <3>1. ~(r.inOffset < Reorderer!MarkerSpan)
      BY <1>0, <1>2, Widths
    <3> QED
      BY ONLY <3>1 DEF Reorderer!Scanned
  <2>2. /\ limit \in Nat /\ r.scanOffset <= limit /\ limit <= r.inOffset
        /\ limit = r.scanOffset \/ limit + 8 <= r.inOffset
        /\ r.inOffset - 8 <= limit
    <3>1. limit = IF r.scanOffset >= r.inOffset - 8 THEN r.scanOffset ELSE r.inOffset - 8
      <4>1. r.inOffset - Reorderer!MarkerSpan + 1 = r.inOffset - 8
        BY <1>0, Widths
      <4> QED
        BY <1>0, <4>1, MaxOfTwo
    <3> HIDE DEF limit
    <3> QED
      BY <1>0, <1>2, <3>1
  <2> HIDE DEF limit, q
  <2>3. steps \in Nat
    <3>1. Reorderer!Markers(r, limit) \subseteq 0 .. limit
      BY <1>0, <2>2 DEF Reorderer!Markers
    <3>2. IsFiniteSet(0 .. limit)
      BY <2>2, FS_Interval
    <3> QED
      BY <3>1, <3>2, FS_Subset, FS_CardinalityType, SameCardinality
  <2> HIDE DEF steps
  <2>4. after = [k \in 0 .. steps |-> IF k = 0 THEN r ELSE Reorderer!SeeNext(after[k - 1], limit)]
    BY <2>3, ScanRecursion
  <2> HIDE DEF after
  <2> DEFINE Kept(p) == /\ ScanOrdered(p) /\ SameButSavs(r, p)
                        /\ r.scanOffset <= p.scanOffset /\ p.scanOffset <= limit
                        /\ limit = p.scanOffset \/ limit + 8 <= p.inOffset
             S == {k \in 0 .. steps : Kept(after[k])}
  <2>5. 0 \in S
    <3>1. after[0] = r
      BY <2>3, <2>4
    <3> QED
      BY <1>0, <2>2, <2>3, <3>1 DEF SameButSavs
  <2>6. \A k \in 0 .. steps - 1 : k \in S => k + 1 \in S
    <3> SUFFICES ASSUME NEW k \in 0 .. steps - 1, Kept(after[k]) PROVE k + 1 \in S
      OBVIOUS
    <3>1. k + 1 \in 0 .. steps /\ k + 1 # 0 /\ (k + 1) - 1 = k
      BY <2>3
    <3>2. after[k + 1] = Reorderer!SeeNext(after[k], limit)
      BY <2>4, <3>1
    <3> DEFINE a == after[k]
               b == after[k + 1]
    <3>3. Kept(a) /\ b = Reorderer!SeeNext(a, limit)
      BY <3>2
    <3> HIDE DEF a, b
    <3>4. /\ ScanOrdered(b) /\ SameButSavs(a, b)
          /\ a.scanOffset <= b.scanOffset /\ b.scanOffset <= limit
          /\ limit = b.scanOffset \/ limit + 8 <= b.inOffset
      BY <2>2, <3>3, SeeNextInOrder
    <3>5. a.scanOffset \in Nat /\ b.scanOffset \in Nat
      BY <3>3, <3>4 DEF ScanOrdered, Reorderers
    <3>6. Kept(b)
      BY <1>0, <3>3, <3>4, <3>5 DEF SameButSavs
    <3> QED
      BY <3>1, <3>6 DEF b
  <2>7. Kept(after[steps])
    <3> HIDE DEF S
    <3>1. \A k \in 0 .. steps : k \in S
      BY <2>3, <2>5, <2>6, UpToBound
    <3> USE DEF S
    <3> QED
      BY <2>3, <3>1
  <2> DEFINE p == after[steps]
  <2>8. Kept(p) /\ last = [p EXCEPT !.scanOffset = limit]
    BY <2>7
  <2> HIDE DEF p, last
  <2>9. p \in Reorderers /\ SavsInOrder(p, p.scanOffset) /\ p.scanOffset \in Nat /\ PipeWhole(p)
        /\ p.outOffset <= p.scanOffset /\ p.outOffset \in Nat /\ p.inOffset = r.inOffset
    BY <2>8 DEF ScanOrdered, Reorderers, SameButSavs
  <2>10. /\ last \in Reorderers /\ last.scanOffset = limit /\ SameButSavs(p, last)
         /\ last.observations = p.observations /\ last.pendingSav = p.pendingSav
    BY <2>2, <2>8, <2>9 DEF Reorderers, SameButSavs
  <2>11. SavsInOrder(p, limit)
    BY <2>2, <2>8, <2>9, BoundLater
  <2>12. SavsInOrder(last, limit)
    BY <2>10, <2>11 DEF SavsInOrder, SameButSavs
  <2>13. /\ q \in Reorderers /\ SavsInOrder(q, limit) /\ SameButSavs(last, q)
         /\ q.scanOffset = limit
         /\ q.pendingSav # -1 => limit < q.pendingSav + Window
    BY <2>1, <2>2, <2>10, <2>12, ExpireInOrder
  <2>14. SameButSavs(r, q) /\ PipeWhole(q)
    BY <2>8, <2>9, <2>10, <2>13 DEF SameButSavs, PipeWhole
  <2>15. q.outOffset <= limit /\ limit <= q.inOffset
    BY <2>2, <2>8, <2>9, <2>10, <2>13 DEF SameButSavs
  <2>16. ScanOrdered(q)
    BY <2>13, <2>14, <2>15 DEF ScanOrdered
  <2> QED
    BY <2>2, <2>13, <2>14, <2>16 DEF q
<1> QED
  BY <1>0, <1>1, <1>2

(***************************************************************************)
(* emit: every step goes on, never past the limit, and the steps come to   *)
(* an end.                                                                 *)
(***************************************************************************)

\* What passing bytes on leaves alone.
SameInput(r, q) ==
  /\ q.pipe = r.pipe /\ q.pipeStart = r.pipeStart /\ q.inOffset = r.inOffset
  /\ q.scanOffset = r.scanOffset /\ q.pendingSav = r.pendingSav

LEMMA FlushOutSame ==
  ASSUME NEW r \in Reorderers
  PROVE  LET q == Reorderer!FlushOut(r) IN
         /\ q \in Reorderers /\ SameInput(r, q)
         /\ q.outOffset = r.outOffset /\ q.observations = r.observations
<1> DEFINE piece == [bytes |-> r.out, gapped |-> r.gapPending]
           q == Reorderer!FlushOut(r)
<1>1. CASE r.out = << >>
  BY <1>1 DEF Reorderer!FlushOut, SameInput
<1>2. CASE r.out # << >>
  <2>1. q = [r EXCEPT !.sunk = Append(@, piece), !.gapPending = FALSE, !.out = << >>]
    BY <1>2 DEF Reorderer!FlushOut
  <2>2. piece \in [bytes : Seq(Byte), gapped : BOOLEAN]
    BY DEF Reorderers
  <2> HIDE DEF piece, q
  <2>3. Append(r.sunk, piece) \in Seq([bytes : Seq(Byte), gapped : BOOLEAN]) /\ << >> \in Seq(Byte)
    BY <2>2, EmptySeq DEF Reorderers
  <2>4. q \in Reorderers
    BY <2>1, <2>3 DEF Reorderers
  <2> QED
    BY <2>1, <2>4 DEF Reorderers, SameInput, q
<1> QED
  BY <1>1, <1>2

LEMMA ApplyObservationSame ==
  ASSUME NEW r \in Reorderers, NEW o \in Observations
  PROVE  LET q == Reorderer!ApplyObservation(r, o) IN
         /\ q \in Reorderers /\ SameInput(r, q)
         /\ q.outOffset = r.outOffset /\ q.observations = r.observations
<1> DEFINE q == Reorderer!ApplyObservation(r, o)
           f == Reorderer!FlushOut(r)
<1>0. o.order \in Orders /\ o.savOffset \in Nat
  BY DEF Observations, Orders
<1>1. CASE Reorderer!Adopts(r, o)
  <2>1. q = [f EXCEPT !.order = o.order, !.pairOrigin = o.savOffset,
                      !.candidate.count = 0, !.gapPending = TRUE]
    BY <1>1 DEF Reorderer!ApplyObservation, Reorderer!Adopt
  <2>2. f \in Reorderers /\ SameInput(r, f)
        /\ f.outOffset = r.outOffset /\ f.observations = r.observations
    BY FlushOutSame
  <2> HIDE DEF f, q
  <2>3. q \in Reorderers
    BY <1>0, <2>1, <2>2 DEF Reorderers
  <2> QED
    BY <2>1, <2>2, <2>3 DEF Reorderers, SameInput, q
<1>2. CASE ~Reorderer!Adopts(r, o)
  <2>1. q = [r EXCEPT !.candidate.count = 0]
        \/ q = [r EXCEPT !.candidate = [order |-> o.order, origin |-> o.savOffset, count |-> 1]]
    BY <1>2 DEF Reorderer!ApplyObservation
  <2>2. PICK c \in [order : Orders, origin : Nat, count : Nat] : q = [r EXCEPT !.candidate = c]
    <3>1. [r.candidate EXCEPT !.count = 0] \in [order : Orders, origin : Nat, count : Nat]
      BY DEF Reorderers
    <3>2. [order |-> o.order, origin |-> o.savOffset, count |-> 1]
            \in [order : Orders, origin : Nat, count : Nat]
      BY <1>0
    <3> QED
      BY <2>1, <3>1, <3>2
  <2> HIDE DEF q
  <2>3. q \in Reorderers
    BY <2>2 DEF Reorderers
  <2> QED
    BY <2>2, <2>3 DEF Reorderers, SameInput, q
<1> QED
  BY <1>1, <1>2

LEMMA ApplyFirstSame ==
  ASSUME NEW r \in Reorderers, r.observations # << >>
  PROVE  LET q == Reorderer!ApplyFirst(r) IN
         /\ q \in Reorderers /\ SameInput(r, q)
         /\ q.outOffset = r.outOffset /\ q.observations = Tail(r.observations)
<1> DEFINE t == [r EXCEPT !.observations = Tail(@)]
<1>1. r.observations \in Seq(Observations) /\ Tail(r.observations) \in Seq(Observations)
      /\ Head(r.observations) \in Observations /\ Head(r.observations) = r.observations[1]
  BY HeadTailProperties DEF Reorderers
<1>2. t \in Reorderers /\ SameInput(r, t) /\ t.outOffset = r.outOffset
      /\ t.observations = Tail(r.observations)
  BY <1>1 DEF Reorderers, SameInput
<1>3. Reorderer!ApplyFirst(r) = Reorderer!ApplyObservation(t, r.observations[1])
  BY DEF Reorderer!ApplyFirst
<1> HIDE DEF t
<1> QED
  BY <1>1, <1>2, <1>3, ApplyObservationSame, SMTT(30) DEF SameInput

\* A reorderer that passes on what is in front of the limit: no SAV in front of it is pending.
EmitOrdered(r, limit) ==
  /\ ScanOrdered(r)
  /\ limit <= r.scanOffset
  /\ r.pendingSav # -1 => limit < r.pendingSav

\* The SAVs not yet applied, less one that is next in line, counted twice.
SavsLeft(r) ==
  2 * Len(r.observations)
  - (IF Len(r.observations) > 0 /\ r.observations[1].savOffset = r.outOffset THEN 1 ELSE 0)

\* Dropping the first SAV keeps the others in order; if the first is next in line, no other is.
LEMMA FirstDropped ==
  ASSUME NEW r \in Reorderers, SavsInOrder(r, r.scanOffset), r.observations # << >>,
         NEW q \in Reorderers, SameInput(r, q), q.observations = Tail(r.observations),
         q.outOffset = r.outOffset \/ q.outOffset = r.observations[1].savOffset
  PROVE  /\ SavsInOrder(q, q.scanOffset)
         /\ Len(q.observations) = Len(r.observations) - 1 /\ Len(r.observations) \in Nat
         /\ Len(r.observations) >= 1
         /\ q.outOffset = r.observations[1].savOffset => SavsLeft(q) = 2 * Len(r.observations) - 2
         /\ SavsLeft(q) <= 2 * Len(r.observations) - 2
<1> DEFINE n == Len(r.observations)
           at(i) == r.observations[i].savOffset
<1>1. /\ r.observations \in Seq(Observations) /\ n \in Nat /\ r.pendingSav \in Int
      /\ \A i \in 1 .. n : at(i) \in Nat
  BY SavTypes
<1>2. /\ Len(q.observations) = n - 1 /\ n >= 1
      /\ \A i \in 1 .. n - 1 : q.observations[i] = r.observations[i + 1]
  <2>1. Len(r.observations) # 0
    BY <1>1, EmptySeq
  <2> QED
    BY <1>1, <2>1, HeadTailProperties
<1>3. /\ \A i \in 1 .. n : r.outOffset <= at(i) /\ at(i) < r.scanOffset
      /\ \A i, j \in 1 .. n : i < j => at(i) < at(j)
      /\ r.pendingSav # -1 =>
           /\ r.outOffset <= r.pendingSav /\ r.pendingSav < r.scanOffset
           /\ \A i \in 1 .. n : at(i) < r.pendingSav
  BY DEF SavsInOrder
<1>4. \A i \in 1 .. n - 1 : i + 1 \in 1 .. n /\ 1 < i + 1 /\ 1 \in 1 .. n
                            /\ q.observations[i].savOffset = at(i + 1)
  BY <1>1, <1>2
<1>5. 1 \in 1 .. n /\ r.outOffset \in Nat /\ q.outOffset \in Nat
  BY <1>1, <1>2 DEF Reorderers
<1>6. q.scanOffset = r.scanOffset /\ q.pendingSav = r.pendingSav
      /\ (q.outOffset = r.outOffset \/ q.outOffset = at(1))
  BY DEF SameInput
<1> HIDE DEF n, at
<1>7. \A i \in 1 .. n - 1 : at(1) < at(i + 1) /\ q.outOffset <= at(i + 1)
  <2> SUFFICES ASSUME NEW i \in 1 .. n - 1
               PROVE  at(1) < at(i + 1) /\ q.outOffset <= at(i + 1)
    OBVIOUS
  <2>1. i + 1 \in 1 .. n /\ 1 < i + 1 /\ 1 \in 1 .. n
    BY <1>4
  <2>2. at(1) < at(i + 1) /\ r.outOffset <= at(i + 1) /\ at(1) \in Nat /\ at(i + 1) \in Nat
    BY <1>1, <1>3, <2>1
  <2> QED
    BY <1>5, <1>6, <2>2
<1>8. \A i \in 1 .. n - 1 : q.outOffset <= q.observations[i].savOffset
                           /\ q.observations[i].savOffset < q.scanOffset
  BY <1>3, <1>4, <1>6, <1>7
<1>9. \A i, j \in 1 .. n - 1 : i < j => q.observations[i].savOffset < q.observations[j].savOffset
  <2> SUFFICES ASSUME NEW i \in 1 .. n - 1, NEW j \in 1 .. n - 1, i < j
               PROVE  at(i + 1) < at(j + 1)
    BY <1>4
  <2>1. i + 1 \in 1 .. n /\ j + 1 \in 1 .. n /\ i + 1 < j + 1
    BY <1>1
  <2> QED
    BY <1>3, <2>1
<1>10. q.pendingSav # -1 =>
         /\ q.outOffset <= q.pendingSav /\ q.pendingSav < q.scanOffset
         /\ \A i \in 1 .. n - 1 : q.observations[i].savOffset < q.pendingSav
  <2> SUFFICES ASSUME r.pendingSav # -1
               PROVE  /\ q.outOffset <= r.pendingSav /\ r.pendingSav < r.scanOffset
                      /\ \A i \in 1 .. n - 1 : q.observations[i].savOffset < r.pendingSav
    BY <1>6
  <2>1. \A i \in 1 .. n - 1 : q.observations[i].savOffset < r.pendingSav
    BY <1>3, <1>4
  <2>2. at(1) < r.pendingSav /\ r.outOffset <= r.pendingSav /\ at(1) \in Nat
    BY <1>1, <1>3, <1>5
  <2>3. q.outOffset <= r.pendingSav
    BY <1>1, <1>6, <2>2
  <2> QED
    BY <1>3, <2>1, <2>3
<1>11. SavsInOrder(q, q.scanOffset)
  BY <1>2, <1>8, <1>9, <1>10 DEF SavsInOrder
<1>12. SavsLeft(q) <= 2 * n - 2
  <2> DEFINE c == Len(q.observations) > 0 /\ q.observations[1].savOffset = q.outOffset
  <2>1. SavsLeft(q) = 2 * Len(q.observations) - (IF c THEN 1 ELSE 0)
    BY DEF SavsLeft
  <2> HIDE DEF c
  <2>2. SavsLeft(q) = 2 * (n - 1) - (IF c THEN 1 ELSE 0)
    BY <1>2, <2>1
  <2> QED
    BY <1>1, <2>2
<1>13. q.outOffset = at(1) => SavsLeft(q) = 2 * n - 2
  <2> SUFFICES ASSUME q.outOffset = at(1), Len(q.observations) > 0
               PROVE  q.observations[1].savOffset # q.outOffset
    BY <1>1, <1>2, SMTT(30) DEF SavsLeft
  <2>1. 1 \in 1 .. n - 1
    BY <1>1, <1>2
  <2>2. at(1) < at(1 + 1) /\ q.observations[1].savOffset = at(1 + 1) /\ 1 + 1 \in 1 .. n
    BY <1>4, <1>7, <2>1
  <2> QED
    BY <1>1, <1>5, <2>2
<1> QED
  BY <1>1, <1>2, <1>11, <1>12, <1>13 DEF n, at

\* Moving on to an offset before which there is no SAV keeps them in order.
LEMMA MovedOn ==
  ASSUME NEW r, NEW limit \in Nat, EmitOrdered(r, limit),
         NEW q \in Reorderers, SameInput(r, q), q.observations = r.observations,
         r.outOffset <= q.outOffset, q.outOffset <= limit,
         r.observations # << >> => q.outOffset <= r.observations[1].savOffset
  PROVE  EmitOrdered(q, limit)
<1> DEFINE n == Len(r.observations)
           at(i) == r.observations[i].savOffset
<1>0. /\ r \in Reorderers /\ PipeWhole(r) /\ SavsInOrder(r, r.scanOffset)
      /\ r.scanOffset <= r.inOffset /\ limit <= r.scanOffset
      /\ r.pendingSav # -1 => limit < r.pendingSav
  BY DEF EmitOrdered, ScanOrdered
<1>1. /\ n \in Nat /\ r.pendingSav \in Int /\ \A i \in 1 .. n : at(i) \in Nat
      /\ r.observations \in Seq(Observations)
  BY <1>0, SavTypes
<1>2. /\ q.scanOffset = r.scanOffset /\ q.pendingSav = r.pendingSav /\ q.pipe = r.pipe
      /\ q.pipeStart = r.pipeStart /\ q.inOffset = r.inOffset
  BY DEF SameInput
<1>3. q.outOffset \in Nat /\ r.outOffset \in Nat /\ r.scanOffset \in Nat /\ r.inOffset \in Nat
      /\ r.pipeStart \in Nat
  BY <1>0 DEF Reorderers
<1>4. \A i \in 1 .. n : q.outOffset <= at(i)
  <2> SUFFICES ASSUME NEW i \in 1 .. n PROVE q.outOffset <= at(i)
    OBVIOUS
  <2>1. 1 \in 1 .. n /\ i \in Nat /\ n # 0 /\ i >= 1
    BY <1>1
  <2>2. r.observations # << >>
    BY <2>1
  <2>3. i # 1 => at(1) < at(i)
    <3>1. \A k, j \in 1 .. n : k < j => at(k) < at(j)
      BY <1>0 DEF SavsInOrder
    <3> HIDE DEF at, n
    <3> QED
      BY <2>1, <3>1
  <2>4. q.outOffset <= at(1)
    BY <2>2
  <2>5. at(1) \in Nat /\ at(i) \in Nat
    BY <1>1, <2>1
  <2> HIDE DEF at
  <2> QED
    BY <1>3, <2>3, <2>4, <2>5
<1>5. q.pendingSav # -1 => q.outOffset <= q.pendingSav
  BY <1>0, <1>1, <1>2, <1>3
<1>6. SavsInOrder(q, q.scanOffset)
  BY <1>0, <1>2, <1>4, <1>5 DEF SavsInOrder
<1>7. PipeWhole(q) /\ q.outOffset <= q.scanOffset /\ q.scanOffset <= q.inOffset
  BY <1>0, <1>2, <1>3 DEF PipeWhole
<1> QED
  BY <1>0, <1>2, <1>6, <1>7 DEF EmitOrdered, ScanOrdered

\* The fields that a step of emit changes.
Advanced(r, q, limit) ==
  \/ ~Reorderer!Emitting(q, limit) /\ q.outOffset >= r.outOffset
  \/ SavsLeft(q) <= SavsLeft(r) - 1 /\ q.outOffset >= r.outOffset
  \/ SavsLeft(q) <= SavsLeft(r) /\ q.outOffset = r.outOffset + Window

LEMMA SavsLeftType ==
  ASSUME NEW r \in Reorderers
  PROVE  SavsLeft(r) \in Nat
<1> DEFINE c == Len(r.observations) > 0 /\ r.observations[1].savOffset = r.outOffset
<1>1. SavsLeft(r) = 2 * Len(r.observations) - (IF c THEN 1 ELSE 0)
      /\ (c => Len(r.observations) > 0)
  BY DEF SavsLeft
<1>2. Len(r.observations) \in Nat
  BY SavTypes
<1> HIDE DEF c
<1> QED
  BY <1>1, <1>2

LEMMA EmitStepAdvances ==
  ASSUME NEW r, NEW limit \in Nat, EmitOrdered(r, limit), Reorderer!Emitting(r, limit)
  PROVE  LET q == Reorderer!EmitStep(r, limit) IN
         /\ EmitOrdered(q, limit) /\ SameInput(r, q)
         /\ q.outOffset <= limit
         /\ Advanced(r, q, limit)
<1> DEFINE q == Reorderer!EmitStep(r, limit)
           n == Len(r.observations)
           next == Reorderer!NextSav(r, limit)
           first == r.observations[1]
           out == r.outOffset
           end == Reorderer!Min({next, limit})
<1>0. /\ r \in Reorderers /\ PipeWhole(r) /\ SavsInOrder(r, r.scanOffset)
      /\ r.scanOffset <= r.inOffset /\ limit <= r.scanOffset /\ ScanOrdered(r)
  BY DEF EmitOrdered, ScanOrdered
<1>1. /\ n \in Nat /\ r.observations \in Seq(Observations)
      /\ \A i \in 1 .. n : r.observations[i] \in Observations /\ r.observations[i].savOffset \in Nat
  BY <1>0, SavTypes
<1>2. /\ out \in Nat /\ r.scanOffset \in Nat /\ r.inOffset \in Nat /\ r.pipeStart \in Nat
      /\ r.order \in Orders /\ r.out \in Seq(Byte) /\ r.pipeStart <= out
  BY <1>0 DEF Reorderers, PipeWhole
<1>3. /\ out < limit
      /\ r.order # "Swapped" \/ next = out \/ out + Window <= limit
  BY Widths DEF Reorderer!Emitting
<1>4. r.observations = << >> => next = limit + Window
  BY Widths DEF Reorderer!NextSav
<1>5. r.observations # << >> =>
        /\ n >= 1 /\ next = first.savOffset /\ first.savOffset \in Nat /\ out <= next
        /\ first \in Observations
  <2> SUFFICES ASSUME r.observations # << >>
               PROVE  /\ n >= 1 /\ next = first.savOffset /\ first.savOffset \in Nat /\ out <= next
                      /\ first \in Observations
    OBVIOUS
  <2>1. n # 0
    BY <1>1, EmptySeq
  <2>2. 1 \in 1 .. n
    BY <1>1, <2>1
  <2> QED
    BY <1>0, <1>1, <2>1, <2>2 DEF Reorderer!NextSav, SavsInOrder
<1>6. next \in Nat /\ out <= next
  BY <1>2, <1>3, <1>4, <1>5, Widths
<1>7. SavsLeft(r) = IF next = out THEN 2 * n - 1 ELSE 2 * n
  <2>1. CASE r.observations = << >>
    <3>1. next # out
      BY <1>2, <1>3, <1>4, <2>1, Widths
    <3> QED
      BY <2>1, <3>1 DEF SavsLeft
  <2>2. CASE r.observations # << >>
    <3>1. n > 0 /\ next = first.savOffset
      BY <1>1, <1>5, <2>2
    <3> HIDE DEF next
    <3>2. SavsLeft(r) = 2 * n - (IF first.savOffset = out THEN 1 ELSE 0)
      BY <3>1 DEF SavsLeft
    <3> HIDE DEF n, first, out
    <3> QED
      BY <1>1, <3>1, <3>2
  <2> QED
    BY <2>1, <2>2
<1>8. CASE next = out
  <2>1. r.observations # << >>
    BY <1>2, <1>3, <1>4, <1>8, Widths
  <2>2. q = Reorderer!ApplyFirst(r)
    BY <1>8 DEF Reorderer!EmitStep
  <2> HIDE DEF q, next
  <2>3. q \in Reorderers /\ SameInput(r, q) /\ q.outOffset = out
        /\ q.observations = Tail(r.observations)
    BY <1>0, <2>1, <2>2, ApplyFirstSame
  <2>4. SavsInOrder(q, q.scanOffset) /\ SavsLeft(q) <= 2 * n - 2
    BY <1>0, <2>1, <2>3, FirstDropped
  <2>5. EmitOrdered(q, limit)
    BY <1>0, <2>3, <2>4 DEF EmitOrdered, ScanOrdered, SameInput, PipeWhole
  <2>6. SavsLeft(q) \in Nat
    BY <2>3, SavsLeftType
  <2>7. SavsLeft(q) <= SavsLeft(r) - 1 /\ q.outOffset >= out /\ q.outOffset <= limit
    BY <1>1, <1>2, <1>3, <1>7, <1>8, <2>3, <2>4, <2>6
  <2> QED
    BY <2>3, <2>5, <2>7 DEF q, Advanced
<1>9. CASE next # out /\ r.order # "Swapped"
  <2>1. end \in Nat /\ out < end /\ end <= limit /\ (end = limit \/ end = next) /\ end <= next
    <3> HIDE DEF next
    <3>1. end = IF next <= limit THEN next ELSE limit
      BY <1>6, MinOfTwo
    <3> HIDE DEF end
    <3> QED
      BY <1>2, <1>3, <1>6, <1>9, <3>1
  <2>2. PICK bytes \in Seq(Byte) : q = [r EXCEPT !.out = bytes, !.outOffset = end]
    <3>1. CASE r.order = "Unknown"
      <4>1. q = [r EXCEPT !.outOffset = end]
        BY <1>9, <3>1 DEF Reorderer!EmitStep
      <4>2. [r EXCEPT !.outOffset = end] = [r EXCEPT !.out = r.out, !.outOffset = end]
        BY <1>0 DEF Reorderers
      <4> QED
        BY <1>2, <4>1, <4>2
    <3>2. CASE r.order = "Normal"
      <4>1. q = [r EXCEPT !.out = @ \o Reorderer!Piped(r, out, end), !.outOffset = end]
        BY <1>9, <3>2 DEF Reorderer!EmitStep
      <4> HIDE DEF q, end
      <4>2. out <= end /\ end <= r.inOffset
        BY <1>0, <1>2, <2>1
      <4>3. Reorderer!Piped(r, out, end) \in Seq(Byte)
        BY <1>0, <1>2, <2>1, <4>2, PipedType
      <4>4. r.out \o Reorderer!Piped(r, out, end) \in Seq(Byte)
        BY <1>2, <4>3, ConcatProperties
      <4>5. q = [r EXCEPT !.out = r.out \o Reorderer!Piped(r, out, end), !.outOffset = end]
        BY <4>1
      <4> QED
        BY <4>4, <4>5
    <3> QED
      BY <1>2, <1>9, <3>1, <3>2 DEF Orders
  <2> HIDE DEF q, end, next
  <2>3. q \in Reorderers
    BY <1>0, <2>1, <2>2 DEF Reorderers
  <2>4. SameInput(r, q) /\ q.outOffset = end /\ q.observations = r.observations
    BY <1>0, <2>2 DEF Reorderers, SameInput
  <2>5. r.observations # << >> => q.outOffset <= r.observations[1].savOffset
    BY <1>5, <2>1, <2>4
  <2>6. EmitOrdered(q, limit)
    <3>1. r.outOffset <= q.outOffset /\ q.outOffset <= limit
      BY <1>2, <2>1, <2>4
    <3> QED
      BY <2>3, <2>4, <2>5, <3>1, MovedOn
  <2>7. Advanced(r, q, limit)
    <3>1. q.outOffset >= out
      BY <1>2, <2>1, <2>4
    <3>2. CASE end = limit
      <4>1. ~(q.outOffset < limit)
        BY <2>4, <3>2
      <4> QED
        BY <3>1, <4>1 DEF Advanced, Reorderer!Emitting
    <3>3. CASE end # limit
      <4>1. r.observations # << >> /\ end = next
        BY <1>4, <2>1, <3>3, Widths
      <4>2. Len(q.observations) = n /\ q.observations[1].savOffset = q.outOffset /\ n >= 1
        BY <1>5, <2>4, <4>1
      <4> HIDE DEF n
      <4>3. SavsLeft(q) = 2 * n - 1
        BY <1>1, <4>2 DEF SavsLeft
      <4>4. SavsLeft(q) <= SavsLeft(r) - 1
        BY <1>1, <1>7, <1>9, <4>3
      <4> QED
        BY <3>1, <4>4 DEF Advanced
    <3> QED
      BY <3>2, <3>3
  <2> QED
    BY <2>1, <2>4, <2>6, <2>7 DEF q
<1>10. CASE next # out /\ r.order = "Swapped"
  <2>1. q = Reorderer!EmitPair(r, limit)
    BY <1>10 DEF Reorderer!EmitStep
  <2>2. out + Window <= limit
    BY <1>3, <1>10
  <2>3. CASE next < out + Window
    <3> DEFINE a == Reorderer!ApplyFirst(r)
    <3>1. r.observations # << >>
      BY <1>2, <1>4, <2>2, <2>3, Widths
    <3>2. q = a \/ q = [a EXCEPT !.outOffset = first.savOffset]
      BY <2>1, <2>3, Widths DEF Reorderer!EmitPair
    <3>3. a \in Reorderers /\ SameInput(r, a) /\ a.outOffset = out
          /\ a.observations = Tail(r.observations)
      BY <1>0, <3>1, ApplyFirstSame
    <3> HIDE DEF a, q
    <3>4. q \in Reorderers /\ SameInput(a, q) /\ q.observations = a.observations
          /\ (q.outOffset = out \/ q.outOffset = first.savOffset)
      BY <1>5, <3>1, <3>2, <3>3, ZenonT(30) DEF Reorderers, SameInput
    <3>5. SameInput(r, q)
      BY <3>3, <3>4 DEF SameInput
    <3>6. SavsInOrder(q, q.scanOffset) /\ SavsLeft(q) <= 2 * n - 2
      BY <1>0, <3>1, <3>3, <3>4, <3>5, FirstDropped
    <3>7. out <= q.outOffset /\ q.outOffset <= limit
      <4>1. first.savOffset = next
        BY <1>5, <3>1
      <4> HIDE DEF next, first
      <4> QED
        BY <1>2, <1>6, <2>2, <2>3, <3>4, <4>1, Widths
    <3>8. q.outOffset \in Nat /\ PipeWhole(q) /\ q.outOffset <= q.scanOffset
          /\ q.scanOffset <= q.inOffset
      <4>1. /\ q.pipe = r.pipe /\ q.pipeStart = r.pipeStart /\ q.inOffset = r.inOffset
            /\ q.scanOffset = r.scanOffset
        BY <3>5 DEF SameInput
      <4>2. q.outOffset \in Nat
        BY <3>4 DEF Reorderers
      <4> QED
        BY <1>0, <1>2, <3>7, <4>1, <4>2 DEF PipeWhole
    <3>9. EmitOrdered(q, limit)
      BY <3>4, <3>5, <3>6, <3>8 DEF EmitOrdered, ScanOrdered, SameInput
    <3>10. SavsLeft(q) <= SavsLeft(r) - 1
      <4>1. SavsLeft(r) = 2 * n /\ SavsLeft(q) \in Nat
        BY <1>7, <1>10, <3>4, SavsLeftType
      <4> QED
        BY <1>1, <3>6, <4>1
    <3> QED
      BY <1>2, <3>5, <3>7, <3>8, <3>9, <3>10 DEF q, Advanced
  <2>4. CASE ~(next < out + Window)
    <3> DEFINE middle == out + DmaBufferBytes
               stop == out + Window
               bytes == r.out \o Reorderer!Piped(r, middle, stop) \o Reorderer!Piped(r, out, middle)
    <3>1. q = [r EXCEPT !.out = bytes, !.outOffset = stop]
      <4>1. out + Reorderer!PairBytes = stop
        BY Widths
      <4> QED
        BY <2>1, <2>4, <4>1 DEF Reorderer!EmitPair
    <3>2. middle \in Nat /\ stop \in Nat /\ out <= middle /\ middle <= stop /\ stop <= limit
          /\ stop <= r.inOffset /\ middle <= r.inOffset /\ r.pipeStart <= middle
      <4>1. stop = middle + DmaBufferBytes /\ DmaBufferBytes \in Nat
        BY <1>2 DEF Window
      <4> QED
        BY <1>0, <1>2, <2>2, <4>1, SMTT(30)
    <3> HIDE DEF middle, stop, q
    <3>3. bytes \in Seq(Byte)
      <4>1. Reorderer!Piped(r, middle, stop) \in Seq(Byte)
        BY <1>0, <1>2, <3>2, PipedType
      <4>2. Reorderer!Piped(r, out, middle) \in Seq(Byte)
        BY <1>0, <1>2, <3>2, PipedType
      <4> QED
        BY <1>2, <4>1, <4>2, ConcatProperties
    <3> HIDE DEF bytes
    <3>4. q \in Reorderers
      BY <1>0, <3>1, <3>2, <3>3 DEF Reorderers
    <3>5. SameInput(r, q) /\ q.outOffset = stop /\ q.observations = r.observations
      BY <1>0, <3>1 DEF Reorderers, SameInput
    <3>6. r.observations # << >> => stop <= r.observations[1].savOffset
      BY <1>2, <1>5, <2>4, Widths DEF stop
    <3>7. EmitOrdered(q, limit)
      <4>1. out <= q.outOffset /\ q.outOffset <= limit
        BY <1>2, <3>2, <3>5
      <4> QED
        BY <3>4, <3>5, <3>6, <4>1, MovedOn
    <3>8. SavsLeft(q) <= 2 * Len(q.observations)
      <4> DEFINE c == Len(q.observations) > 0 /\ q.observations[1].savOffset = q.outOffset
      <4>1. SavsLeft(q) = 2 * Len(q.observations) - (IF c THEN 1 ELSE 0)
        BY DEF SavsLeft
      <4>2. Len(q.observations) \in Nat
        BY <3>4, SavTypes
      <4> DEFINE m == Len(q.observations)
      <4>3. m \in Nat /\ SavsLeft(q) = 2 * m - (IF c THEN 1 ELSE 0)
        BY <4>1, <4>2
      <4> HIDE DEF c, m
      <4>4. SavsLeft(q) <= 2 * m
        BY ONLY <4>3
      <4> QED
        BY <4>4 DEF m
    <3>9. SavsLeft(q) <= SavsLeft(r)
      BY <1>7, <1>10, <3>5, <3>8
    <3> QED
      BY <3>2, <3>5, <3>7, <3>9 DEF q, stop, Advanced
  <2> QED
    BY <2>3, <2>4
<1> QED
  BY <1>8, <1>9, <1>10

\* The reorderer after each step of emit.
EmitRun(f, r, limit, steps) ==
  f = [k \in 0 .. steps |->
        IF k = 0 THEN r
        ELSE LET q == f[k - 1]
             IN IF Reorderer!Emitting(q, limit) THEN Reorderer!EmitStep(q, limit) ELSE q]

LEMMA EmitRecursion ==
  ASSUME NEW r, NEW limit, NEW steps \in Nat
  PROVE  \E f : EmitRun(f, r, limit, steps)
<1> DEFINE Step(q) == IF Reorderer!Emitting(q, limit) THEN Reorderer!EmitStep(q, limit) ELSE q
           Is(f, n) == f = [k \in 0 .. n |-> IF k = 0 THEN r ELSE Step(f[k - 1])]
           S == {n \in Nat : \E f : Is(f, n)}
<1>1. 0 \in S
  <2>1. Is([k \in 0 .. 0 |-> r], 0)
    OBVIOUS
  <2> QED
    BY <2>1
<1>2. \A n \in 0 .. steps - 1 : n \in S => n + 1 \in S
  <2> SUFFICES ASSUME NEW n \in Nat, NEW f, Is(f, n)
               PROVE  \E g : Is(g, n + 1)
    OBVIOUS
  <2> HIDE DEF Step
  <2> DEFINE g == [k \in 0 .. n + 1 |-> IF k = n + 1 THEN Step(f[n]) ELSE f[k]]
  <2>1. \A k \in 0 .. n + 1 : g[k] = IF k = 0 THEN r ELSE Step(g[k - 1])
    OBVIOUS
  <2>2. Is(g, n + 1)
    BY <2>1
  <2> QED
    BY <2>2
<1>3. steps \in S
  <2> HIDE DEF S
  <2> QED
    BY <1>1, <1>2, UpToBound
<1> QED
  BY <1>3 DEF EmitRun

LEMMA ByWindows ==
  ASSUME NEW x \in Nat
  PROVE  /\ x \div Window \in Nat
         /\ \A j \in Nat : j >= x \div Window + 1 => Window * j > x
         /\ \A j \in Nat : Window * (j + 1) = Window * j + Window
<1> DEFINE q == x \div Window
<1>1. q \in Int /\ x = Window * q + (x % Window) /\ x % Window \in 0 .. Window - 1
  BY Widths
<1> DEFINE rest == x % Window
<1> HIDE DEF q, rest
<1>2. \A j \in Int : Window * (j + 1) = Window * j + Window
  BY Widths
<1>3. q >= 0
  <2> SUFFICES ASSUME q <= -1 PROVE FALSE
    BY <1>1
  <2>1. Window * q <= Window * (-1)
    BY <1>1, Widths
  <2> QED
    BY <1>1, <2>1, Widths
<1>4. ASSUME NEW j \in Nat, j >= q + 1
      PROVE  Window * j > x
  <2>1. Window * j >= Window * (q + 1)
    BY <1>1, <1>4, Widths
  <2>2. Window * (q + 1) = Window * q + Window /\ Window * q \in Int /\ Window * j \in Int
    BY <1>1, <1>2, Widths
  <2> QED
    BY <1>1, <2>1, <2>2, Widths
<1> QED
  BY <1>1, <1>2, <1>3, <1>4 DEF q

\* The bound on the number of steps is one that emit reaches: it ends because it has nothing more
\* to do, never because the steps have run out.
LEMMA EmittedInOrder ==
  ASSUME NEW r, NEW limit \in Nat, EmitOrdered(r, limit)
  PROVE  LET q == Reorderer!Emitted(r, limit) IN
         EmitOrdered(q, limit) /\ SameInput(r, q) /\ ~Reorderer!Emitting(q, limit)
<1> DEFINE n == Len(r.observations)
           x == Reorderer!Max({0, limit - r.outOffset})
           steps == 2 * Len(r.observations)
                    + Reorderer!Max({0, limit - r.outOffset}) \div Reorderer!PairBytes + 2
           after[k \in 0 .. steps] ==
             IF k = 0 THEN r
             ELSE LET q == after[k - 1]
                  IN IF Reorderer!Emitting(q, limit) THEN Reorderer!EmitStep(q, limit) ELSE q
<1>0. r \in Reorderers /\ r.outOffset \in Nat
  BY DEF EmitOrdered, ScanOrdered, Reorderers
<1>1. Reorderer!Emitted(r, limit) = after[steps]
  BY DEF Reorderer!Emitted
<1>2. x \in Nat /\ limit - r.outOffset <= x
  <2>1. x = IF 0 >= limit - r.outOffset THEN 0 ELSE limit - r.outOffset
    BY <1>0, MaxOfTwo
  <2> HIDE DEF x
  <2> QED
    BY <1>0, <2>1
<1> DEFINE pairs == x \div Window
<1>3. steps = 2 * n + pairs + 2
  BY Widths
<1> HIDE DEF x, steps
<1>4. pairs \in Nat /\ n \in Nat /\ steps \in Nat
      /\ \A j \in Nat : j >= pairs + 1 => Window * j > x
  <2>1. n \in Nat
    BY <1>0, SavTypes
  <2>2. pairs \in Nat /\ \A j \in Nat : j >= pairs + 1 => Window * j > x
    BY <1>2, ByWindows
  <2> HIDE DEF pairs, n
  <2> QED
    BY <1>3, <2>1, <2>2
<1>5. after = [k \in 0 .. steps |->
                IF k = 0 THEN r
                ELSE LET q == after[k - 1]
                     IN IF Reorderer!Emitting(q, limit) THEN Reorderer!EmitStep(q, limit) ELSE q]
  <2>1. steps \in Nat
    BY <1>4
  <2>2. \E f : EmitRun(f, r, limit, steps)
    BY <2>1, EmitRecursion
  <2> QED
    BY ONLY <2>2 DEF EmitRun
<1> HIDE DEF after, pairs, n
<1> DEFINE Going(p, k) ==
             /\ EmitOrdered(p, limit) /\ SameInput(r, p)
             /\ Reorderer!Emitting(p, limit) =>
                  \E j \in Nat : /\ r.outOffset + Window * j <= p.outOffset
                                 /\ SavsLeft(p) + k <= SavsLeft(r) + j
           S == {k \in 0 .. steps : Going(after[k], k)}
<1>6. 0 \in S
  <2>1. after[0] = r
    BY <1>4, <1>5
  <2>2. Window * 0 = 0 /\ 0 \in Nat /\ SavsLeft(r) \in Nat
    BY <1>0, Widths, SavsLeftType
  <2>3. r.outOffset + Window * 0 <= r.outOffset /\ SavsLeft(r) + 0 <= SavsLeft(r) + 0
    BY <1>0, <2>2
  <2>4. SameInput(r, r)
    BY DEF SameInput
  <2> QED
    BY <1>4, <2>1, <2>2, <2>3, <2>4
<1>7. \A k \in 0 .. steps - 1 : k \in S => k + 1 \in S
  <2> SUFFICES ASSUME NEW k \in 0 .. steps - 1, Going(after[k], k) PROVE Going(after[k + 1], k + 1)
    BY <1>4
  <2>1. k + 1 \in 0 .. steps /\ k + 1 # 0 /\ (k + 1) - 1 = k /\ k \in Nat
    BY <1>4
  <2> DEFINE a == after[k]
             b == after[k + 1]
  <2>2. b = IF Reorderer!Emitting(a, limit) THEN Reorderer!EmitStep(a, limit) ELSE a
    BY <1>5, <2>1
  <2>3. /\ EmitOrdered(a, limit) /\ SameInput(r, a)
        /\ Reorderer!Emitting(a, limit) =>
             \E j \in Nat : /\ r.outOffset + Window * j <= a.outOffset
                            /\ SavsLeft(a) + k <= SavsLeft(r) + j
    OBVIOUS
  <2> HIDE DEF a, b
  <2>4. CASE ~Reorderer!Emitting(a, limit)
    <3>1. b = a
      BY <2>2, <2>4
    <3> QED
      BY <2>3, <2>4, <3>1 DEF b
  <2>5. CASE Reorderer!Emitting(a, limit)
    <3>1. EmitOrdered(b, limit) /\ SameInput(a, b) /\ Advanced(a, b, limit)
      BY <2>2, <2>3, <2>5, EmitStepAdvances
    <3>2. PICK j \in Nat : /\ r.outOffset + Window * j <= a.outOffset
                          /\ SavsLeft(a) + k <= SavsLeft(r) + j
      BY <2>3, <2>5
    <3>3. /\ SavsLeft(a) \in Nat /\ SavsLeft(b) \in Nat /\ SavsLeft(r) \in Nat
          /\ a.outOffset \in Nat /\ b.outOffset \in Nat
      BY <1>0, <2>3, <3>1, SavsLeftType DEF EmitOrdered, ScanOrdered, Reorderers
    <3>4. Window * (j + 1) = Window * j + Window /\ Window * j \in Int /\ Window \in Nat
      BY <1>2, ByWindows, Widths
    <3>5. ASSUME Reorderer!Emitting(b, limit)
          PROVE  \E i \in Nat : /\ r.outOffset + Window * i <= b.outOffset
                                /\ SavsLeft(b) + (k + 1) <= SavsLeft(r) + i
      <4>1. CASE SavsLeft(b) <= SavsLeft(a) - 1 /\ b.outOffset >= a.outOffset
        <5>1. r.outOffset + Window * j <= b.outOffset
          BY <1>0, <3>2, <3>3, <3>4, <4>1
        <5>2. SavsLeft(b) + (k + 1) <= SavsLeft(r) + j
          BY <2>1, <3>2, <3>3, <4>1
        <5> QED
          BY <5>1, <5>2
      <4>2. CASE SavsLeft(b) <= SavsLeft(a) /\ b.outOffset = a.outOffset + Window
        <5>1. r.outOffset + Window * (j + 1) <= b.outOffset
          BY <1>0, <3>2, <3>3, <3>4, <4>2
        <5>2. SavsLeft(b) + (k + 1) <= SavsLeft(r) + (j + 1) /\ j + 1 \in Nat
          BY <2>1, <3>2, <3>3, <4>2
        <5> QED
          BY <5>1, <5>2
      <4> QED
        BY <3>1, <3>5, <4>1, <4>2 DEF Advanced
    <3>6. SameInput(r, b)
      BY <2>3, <3>1 DEF SameInput
    <3> QED
      BY <3>1, <3>5, <3>6 DEF b
  <2> QED
    BY <2>4, <2>5
<1>8. Going(after[steps], steps)
  <2> HIDE DEF S
  <2>1. \A k \in 0 .. steps : k \in S
    BY <1>4, <1>6, <1>7, UpToBound
  <2> USE DEF S
  <2> QED
    BY <1>4, <2>1
<1> DEFINE q == after[steps]
<1>9. EmitOrdered(q, limit) /\ SameInput(r, q)
  BY <1>8
<1>10. ASSUME Reorderer!Emitting(q, limit) PROVE FALSE
  <2>1. PICK j \in Nat : /\ r.outOffset + Window * j <= q.outOffset
                        /\ SavsLeft(q) + steps <= SavsLeft(r) + j
    BY <1>8, <1>10
  <2>2. SavsLeft(q) \in Nat /\ q.outOffset \in Nat /\ SavsLeft(r) \in Nat /\ SavsLeft(r) <= 2 * n
    <3>1. SavsLeft(q) \in Nat /\ q.outOffset \in Nat /\ SavsLeft(r) \in Nat
      BY <1>0, <1>9, SavsLeftType DEF EmitOrdered, ScanOrdered, Reorderers
    <3> DEFINE c == Len(r.observations) > 0 /\ r.observations[1].savOffset = r.outOffset
    <3>2. SavsLeft(r) = 2 * n - (IF c THEN 1 ELSE 0)
      BY DEF SavsLeft, n
    <3> HIDE DEF c
    <3>3. SavsLeft(r) <= 2 * n
      BY ONLY <1>4, <3>2
    <3> QED
      BY <3>1, <3>3
  <2> HIDE DEF q
  <2>3. j >= pairs + 1
    BY <1>3, <1>4, <2>1, <2>2
  <2>4. Window * j > x /\ Window * j \in Int
    BY <1>4, <2>3, Widths
  <2>5. q.outOffset > limit
    BY <1>0, <1>2, <2>1, <2>2, <2>4
  <2>6. q.outOffset < limit
    BY <1>10 DEF Reorderer!Emitting, q
  <2> QED
    BY <2>2, <2>5, <2>6
<1> QED
  BY <1>1, <1>9, <1>10

(***************************************************************************)
(* feed.                                                                   *)
(***************************************************************************)

\* A reorderer between two calls of feed.
Settled(r) ==
  /\ ScanOrdered(r) /\ r.pipeStart = r.outOffset
  /\ r.inOffset - r.outOffset < (Window + 9) + Window

LEMMA NewSettled == Settled(Reorderer!NewReorderer)
<1> DEFINE r == Reorderer!NewReorderer
<1>1. r \in Reorderers
  <2>1. << >> \in Seq(Byte) /\ << >> \in Seq(Observations)
        /\ << >> \in Seq([bytes : Seq(Byte), gapped : BOOLEAN])
    BY EmptySeq
  <2> QED
    BY <2>1, Widths DEF Reorderer!NewReorderer, Reorderers, Orders
<1>2. /\ r.pipe = << >> /\ r.observations = << >> /\ r.pipeStart = 0 /\ r.outOffset = 0
      /\ r.inOffset = 0 /\ r.scanOffset = 0 /\ r.pendingSav = -1
  BY Widths DEF Reorderer!NewReorderer
<1>3. Len(<< >>) = 0
  BY EmptySeq
<1> HIDE DEF r
<1>4. PipeWhole(r) /\ SavsInOrder(r, 0)
  BY <1>2, <1>3 DEF PipeWhole, SavsInOrder
<1> QED
  BY <1>1, <1>2, <1>4, Widths DEF Settled, ScanOrdered, r

\* What has been passed to the sink is forgotten.
LEMMA SunkSettled ==
  ASSUME NEW r, Settled(r)
  PROVE  Settled([r EXCEPT !.sunk = << >>])
<1> DEFINE q == [r EXCEPT !.sunk = << >>]
<1>1. r \in Reorderers
  BY DEF Settled, ScanOrdered
<1>2. q \in Reorderers
  BY <1>1, EmptySeq DEF Reorderers
<1>3. /\ q.pipe = r.pipe /\ q.pipeStart = r.pipeStart /\ q.outOffset = r.outOffset
      /\ q.inOffset = r.inOffset /\ q.scanOffset = r.scanOffset
      /\ q.pendingSav = r.pendingSav /\ q.observations = r.observations
  BY <1>1 DEF Reorderers
<1> HIDE DEF q
<1> QED
  BY <1>2, <1>3 DEF Settled, ScanOrdered, PipeWhole, SavsInOrder, q

LEMMA ResetSettled ==
  ASSUME NEW r, Settled(r)
  PROVE  Settled(Reorderer!Reset(r))
<1> DEFINE q == Reorderer!Reset(r)
<1>1. r \in Reorderers /\ r.inOffset \in Nat
  BY DEF Settled, ScanOrdered, Reorderers
<1>2. PICK c \in [order : Orders, origin : Nat, count : Nat] :
        q = [r EXCEPT !.pipe = << >>, !.pipeStart = r.inOffset, !.outOffset = r.inOffset,
                      !.scanOffset = r.inOffset, !.pendingSav = -1, !.observations = << >>,
                      !.order = "Unknown", !.candidate = c, !.gapPending = TRUE]
  <2>1. [r.candidate EXCEPT !.count = 0] \in [order : Orders, origin : Nat, count : Nat]
    BY <1>1 DEF Reorderers
  <2>2. q = [r EXCEPT !.pipe = << >>, !.pipeStart = r.inOffset, !.outOffset = r.inOffset,
                      !.scanOffset = r.inOffset, !.pendingSav = -1, !.observations = << >>,
                      !.order = "Unknown", !.candidate = [r.candidate EXCEPT !.count = 0],
                      !.gapPending = TRUE]
    BY Widths DEF Reorderer!Reset
  <2> QED
    BY <2>1, <2>2
<1> HIDE DEF q
<1>3. q \in Reorderers
  <2>1. << >> \in Seq(Byte) /\ << >> \in Seq(Observations) /\ "Unknown" \in Orders
    BY EmptySeq DEF Orders
  <2> QED
    BY <1>1, <1>2, <2>1 DEF Reorderers
<1>4. /\ q.pipe = << >> /\ q.observations = << >> /\ q.pipeStart = r.inOffset
      /\ q.outOffset = r.inOffset /\ q.inOffset = r.inOffset /\ q.scanOffset = r.inOffset
      /\ q.pendingSav = -1
  BY <1>1, <1>2 DEF Reorderers
<1>5. Len(<< >>) = 0
  BY EmptySeq
<1>6. PipeWhole(q) /\ SavsInOrder(q, q.scanOffset)
  BY <1>1, <1>4, <1>5 DEF PipeWhole, SavsInOrder
<1> QED
  BY <1>1, <1>3, <1>4, <1>6, Widths DEF Settled, ScanOrdered, q

\* A chunk that is appended to the pipe.
LEMMA AppendedOrdered ==
  ASSUME NEW r, Settled(r), NEW chunk \in Seq(Byte)
  PROVE  LET q == [r EXCEPT !.pipe = @ \o chunk, !.inOffset = @ + Len(chunk), !.sunk = << >>]
         IN ScanOrdered(q) /\ q.pipeStart = q.outOffset
<1> DEFINE q == [r EXCEPT !.pipe = @ \o chunk, !.inOffset = @ + Len(chunk), !.sunk = << >>]
<1>1. r \in Reorderers /\ PipeWhole(r) /\ SavsInOrder(r, r.scanOffset)
      /\ r.outOffset <= r.scanOffset /\ r.scanOffset <= r.inOffset /\ r.pipeStart = r.outOffset
  BY DEF Settled, ScanOrdered
<1>2. /\ r.pipe \in Seq(Byte) /\ r.inOffset \in Nat /\ r.outOffset \in Nat /\ r.scanOffset \in Nat
      /\ r.pipeStart \in Nat
  BY <1>1 DEF Reorderers
<1>3. /\ r.pipe \o chunk \in Seq(Byte) /\ Len(r.pipe \o chunk) = Len(r.pipe) + Len(chunk)
      /\ Len(chunk) \in Nat
  BY <1>2, ConcatProperties, LenProperties
<1>4. q \in Reorderers
  <2> DEFINE bytes == r.pipe \o chunk
             last == r.inOffset + Len(chunk)
  <2>1. bytes \in Seq(Byte) /\ last \in Nat
        /\ << >> \in Seq([bytes : Seq(Byte), gapped : BOOLEAN])
    BY <1>2, <1>3, EmptySeq
  <2>2. q = [r EXCEPT !.pipe = bytes, !.inOffset = last, !.sunk = << >>]
    OBVIOUS
  <2> HIDE DEF bytes, last, q
  <2> QED
    BY <1>1, <2>1, <2>2 DEF Reorderers
<1>5. /\ q.pipe = r.pipe \o chunk /\ q.pipeStart = r.pipeStart /\ q.outOffset = r.outOffset
      /\ q.inOffset = r.inOffset + Len(chunk) /\ q.scanOffset = r.scanOffset
      /\ q.pendingSav = r.pendingSav /\ q.observations = r.observations
  BY <1>1 DEF Reorderers
<1> HIDE DEF q
<1>6. SavsInOrder(q, q.scanOffset)
  BY <1>1, <1>5 DEF SavsInOrder
<1>7. PipeWhole(q)
  BY <1>1, <1>2, <1>3, <1>5 DEF PipeWhole
<1>8. q.outOffset <= q.scanOffset /\ q.scanOffset <= q.inOffset
  BY <1>1, <1>2, <1>3, <1>5
<1> QED
  BY <1>1, <1>4, <1>5, <1>6, <1>7, <1>8 DEF ScanOrdered, q

\* What has been passed on leaves the pipe.
LEMMA ErasedSettled ==
  ASSUME NEW r, ScanOrdered(r), r.inOffset - r.outOffset < (Window + 9) + Window
  PROVE  Settled([r EXCEPT !.pipe = SubSeq(@, r.outOffset - r.pipeStart + 1, Len(@)),
                           !.pipeStart = r.outOffset])
<1> DEFINE rest == SubSeq(r.pipe, r.outOffset - r.pipeStart + 1, Len(r.pipe))
           q == [r EXCEPT !.pipe = rest, !.pipeStart = r.outOffset]
<1>1. r \in Reorderers /\ PipeWhole(r) /\ SavsInOrder(r, r.scanOffset)
      /\ r.outOffset <= r.scanOffset /\ r.scanOffset <= r.inOffset
  BY DEF ScanOrdered
<1>2. /\ r.pipe \in Seq(Byte) /\ r.inOffset \in Nat /\ r.outOffset \in Nat /\ r.scanOffset \in Nat
      /\ r.pipeStart \in Nat
  BY <1>1 DEF Reorderers
<1>3. rest = Reorderer!Piped(r, r.outOffset, r.inOffset)
  <2>1. Len(r.pipe) = r.inOffset - r.pipeStart
    BY <1>1 DEF PipeWhole
  <2> QED
    BY <2>1 DEF Reorderer!Piped
<1>4. r.pipeStart <= r.outOffset /\ r.outOffset <= r.inOffset
  BY <1>1 DEF PipeWhole
<1> HIDE DEF rest, q
<1>5. rest \in Seq(Byte) /\ Len(rest) = r.inOffset - r.outOffset
  <2>1. r \in Reorderers /\ PipeWhole(r) /\ r.inOffset <= r.inOffset
    BY <1>1, <1>2
  <2> HIDE DEF rest
  <2>2. /\ Reorderer!Piped(r, r.outOffset, r.inOffset) \in Seq(Byte)
        /\ Len(Reorderer!Piped(r, r.outOffset, r.inOffset)) = r.inOffset - r.outOffset
    BY ONLY <1>2, <1>4, <2>1, PipedType
  <2> QED
    BY ONLY <1>3, <2>2
<1> USE DEF q
<1>6. q \in Reorderers
  BY <1>1, <1>2, <1>5 DEF Reorderers
<1>7. /\ q.pipe = rest /\ q.pipeStart = r.outOffset /\ q.outOffset = r.outOffset
      /\ q.inOffset = r.inOffset /\ q.scanOffset = r.scanOffset
      /\ q.pendingSav = r.pendingSav /\ q.observations = r.observations
  BY <1>1 DEF Reorderers
<1> HIDE DEF q
<1>8. SavsInOrder(q, q.scanOffset)
  BY <1>1, <1>7 DEF SavsInOrder
<1>9. PipeWhole(q)
  BY <1>2, <1>4, <1>5, <1>7 DEF PipeWhole
<1>10. Settled(q)
  BY <1>1, <1>6, <1>7, <1>8, <1>9 DEF Settled, ScanOrdered
<1> QED
  BY <1>10 DEF q, rest

\* feed keeps the reorderer in order, and leaves less than a window and a pair behind.
LEMMA FedSettled ==
  ASSUME NEW reord, Settled(reord), NEW chunk \in Seq(Byte), NEW gap \in BOOLEAN
  PROVE  Settled(Reorderer!Fed(reord, chunk, gap))
<1> DEFINE r == IF gap THEN Reorderer!Reset(reord) ELSE reord
           piped == [r EXCEPT !.pipe = @ \o chunk, !.inOffset = @ + Len(chunk), !.sunk = << >>]
           seen == Reorderer!Scanned(piped)
           limit == seen.inOffset - Reorderer!HoldBack(seen)
           emitted == IF limit > 0 THEN Reorderer!Emitted(seen, limit) ELSE seen
           erased == [emitted EXCEPT
                        !.pipe = SubSeq(@, emitted.outOffset - emitted.pipeStart + 1, Len(@)),
                        !.pipeStart = emitted.outOffset]
<1>1. Reorderer!Fed(reord, chunk, gap) =
        IF chunk = << >> THEN [r EXCEPT !.sunk = << >>] ELSE Reorderer!FlushOut(erased)
  BY DEF Reorderer!Fed
<1>2. Settled(r)
  BY ResetSettled
<1> HIDE DEF r
<1>3. Settled([r EXCEPT !.sunk = << >>])
  BY <1>2, SunkSettled
<1>4. ScanOrdered(piped)
  BY <1>2, AppendedOrdered
<1> HIDE DEF piped
<1>5. /\ ScanOrdered(seen) /\ seen.inOffset = piped.inOffset
      /\ seen.inOffset >= 9 =>
           /\ seen.inOffset - 8 <= seen.scanOffset
           /\ seen.pendingSav # -1 => seen.scanOffset < seen.pendingSav + Window
  BY <1>4, ScannedInOrder DEF SameButSavs
<1> HIDE DEF seen
<1>6. limit = seen.inOffset - (Window + 9)
  BY Widths
<1>7. /\ seen.inOffset \in Nat /\ seen.outOffset \in Nat /\ seen.scanOffset \in Nat
      /\ seen.pendingSav \in Int /\ Window \in Nat /\ Window >= 2
  BY <1>5, Widths DEF ScanOrdered, Reorderers
<1> HIDE DEF limit
<1>8. ScanOrdered(emitted) /\ emitted.inOffset - emitted.outOffset < (Window + 9) + Window
  <2>1. CASE limit > 0
    <3>1. EmitOrdered(seen, limit) /\ limit \in Nat
      <4>1. seen.inOffset >= 9 /\ limit \in Nat /\ limit <= seen.inOffset - 8
        BY <1>6, <1>7, <2>1
      <4>2. limit <= seen.scanOffset
        BY <1>5, <1>6, <1>7, <4>1
      <4>3. seen.pendingSav # -1 => limit < seen.pendingSav
        <5> SUFFICES ASSUME seen.pendingSav # -1 PROVE limit < seen.pendingSav
          OBVIOUS
        <5>1. /\ seen.inOffset - 8 <= seen.scanOffset
              /\ seen.scanOffset < seen.pendingSav + Window
          BY <1>5, <4>1
        <5> DEFINE in == seen.inOffset
                   scan == seen.scanOffset
                   sav == seen.pendingSav
        <5>2. in \in Nat /\ scan \in Nat /\ sav \in Int /\ Window \in Nat
          BY <1>7
        <5>3. in - 8 <= scan /\ scan < sav + Window /\ limit = in - (Window + 9)
          BY <1>6, <5>1
        <5> HIDE DEF in, scan, sav
        <5>4. limit < sav
          BY ONLY <5>2, <5>3
        <5> QED
          BY <5>4 DEF sav
      <4> QED
        BY <1>5, <4>1, <4>2, <4>3 DEF EmitOrdered
    <3>2. emitted = Reorderer!Emitted(seen, limit)
      BY <2>1
    <3> HIDE DEF emitted
    <3>3. EmitOrdered(emitted, limit) /\ SameInput(seen, emitted)
          /\ ~Reorderer!Emitting(emitted, limit)
      BY <3>1, <3>2, EmittedInOrder
    <3>4. ScanOrdered(emitted) /\ emitted.inOffset = seen.inOffset /\ emitted.outOffset \in Nat
      BY <3>3 DEF EmitOrdered, SameInput, ScanOrdered, Reorderers
    <3>5. ~(emitted.outOffset < limit) \/ ~(emitted.outOffset + Window <= limit)
      BY <3>3, Widths DEF Reorderer!Emitting
    <3>6. emitted.inOffset - emitted.outOffset < (Window + 9) + Window
      BY ONLY <1>6, <1>7, <3>1, <3>4, <3>5
    <3> QED
      BY <3>4, <3>6
  <2>2. CASE ~(limit > 0)
    <3>1. emitted = seen
      BY <2>2
    <3>2. seen.inOffset - seen.outOffset < (Window + 9) + Window
      BY <1>6, <1>7, <2>2
    <3> QED
      BY <1>5, <3>1, <3>2
  <2> QED
    BY <2>1, <2>2
<1> HIDE DEF emitted
<1>9. Settled(erased)
  BY <1>8, ErasedSettled
<1> HIDE DEF erased
<1>10. Settled(Reorderer!FlushOut(erased))
  <2> DEFINE q == Reorderer!FlushOut(erased)
  <2>1. erased \in Reorderers
    BY <1>9 DEF Settled, ScanOrdered
  <2>2. q \in Reorderers /\ SameInput(erased, q)
        /\ q.outOffset = erased.outOffset /\ q.observations = erased.observations
    BY <2>1, FlushOutSame
  <2> HIDE DEF q
  <2>3. Settled(q)
    BY <1>9, <2>2 DEF Settled, ScanOrdered, SameInput, PipeWhole, SavsInOrder
  <2> QED
    BY <2>3 DEF q
<1> QED
  BY <1>1, <1>3, <1>10

(***************************************************************************)
(* The specification.                                                      *)
(***************************************************************************)

LEMMA BytesType ==
  ASSUME NEW units \in Seq(Unit)
  PROVE  Bytes(units) \in Seq(Byte)
<1> DEFINE pieces == [i \in DOMAIN units |-> units[i].bytes]
<1>1. Len(units) \in Nat /\ DOMAIN units = 1 .. Len(units)
      /\ \A i \in 1 .. Len(units) : units[i] \in Unit
  BY LenProperties
<1>2. \A i \in 1 .. Len(units) : units[i].bytes \in Seq(Byte)
  BY <1>1 DEF Unit
<1>3. pieces \in [1 .. Len(units) -> Seq(Byte)]
  BY <1>1, <1>2
<1> HIDE DEF pieces
<1>4. pieces \in Seq(Seq(Byte))
  BY <1>1, <1>3, SeqDef
<1>5. FlattenSeq(pieces) \in Seq(Byte)
  BY <1>4, FlattenSeqType
<1> QED
  BY <1>5 DEF Bytes, pieces

\* Pairs fit in front of the end.
LEMMA PairInside ==
  ASSUME NEW length \in Nat, NEW j \in 1 .. length \div Window
  PROVE  /\ (j - 1) * Window \in Nat
         /\ (j - 1) * Window + Window <= length
<1> DEFINE q == length \div Window
           rest == length % Window
<1>1. q \in Int /\ length = Window * q + rest /\ rest \in 0 .. Window - 1 /\ j \in 1 .. q
  BY Widths
<1> HIDE DEF q, rest
<1>2. (j - 1) * Window + Window = Window * j /\ (j - 1) * Window = Window * (j - 1)
  BY <1>1, Widths
<1>3. Window * j <= Window * q
  BY <1>1, Widths
<1>4. Window * (j - 1) \in Nat
  BY <1>1, Widths
<1> QED
  BY <1>1, <1>2, <1>3, <1>4, Widths

LEMMA ArrivedType ==
  ASSUME NEW bytes \in Seq(Byte), NEW swapped
  PROVE  Arrived(bytes, swapped) \in Seq(Byte)
<1> DEFINE n == Len(bytes) \div PairBytes
           first(j) == SubSeq(bytes, (j - 1) * PairBytes + 1, (j - 1) * PairBytes + DmaBufferBytes)
           second(j) == SubSeq(bytes, (j - 1) * PairBytes + DmaBufferBytes + 1,
                               (j - 1) * PairBytes + PairBytes)
           pieces == [j \in 1 .. n |->
                        IF j \in swapped THEN second(j) \o first(j) ELSE first(j) \o second(j)]
<1>1. Len(bytes) \in Nat /\ n = Len(bytes) \div Window
  BY Widths, LenProperties
<1>2. n \in Nat
  BY <1>1, ByWindows
<1>3. ASSUME NEW j \in 1 .. n
      PROVE  first(j) \in Seq(Byte) /\ second(j) \in Seq(Byte)
  <2> DEFINE start == (j - 1) * PairBytes
  <2>1. start \in Nat /\ start + Window <= Len(bytes)
    BY <1>1, <1>3, Widths, PairInside
  <2> HIDE DEF start
  <2>2. /\ start + 1 \in Nat /\ start + 1 >= 1 /\ start + DmaBufferBytes \in Nat
        /\ start + DmaBufferBytes <= Len(bytes)
        /\ start + DmaBufferBytes + 1 \in Nat /\ start + DmaBufferBytes + 1 >= 1
        /\ start + PairBytes \in Nat /\ start + PairBytes <= Len(bytes)
    BY <1>1, <2>1, Widths DEF Window
  <2>3. /\ SubSeq(bytes, start + 1, start + DmaBufferBytes) \in Seq(Byte)
        /\ SubSeq(bytes, start + DmaBufferBytes + 1, start + PairBytes) \in Seq(Byte)
    BY <2>2, SliceType
  <2> QED
    BY <2>3 DEF start
<1> HIDE DEF first, second, n
<1>4. \A j \in 1 .. n : second(j) \o first(j) \in Seq(Byte) /\ first(j) \o second(j) \in Seq(Byte)
  BY <1>3, ConcatProperties
<1>5. pieces \in [1 .. n -> Seq(Byte)]
  BY <1>4
<1> HIDE DEF pieces
<1>6. pieces \in Seq(Seq(Byte))
  BY <1>2, <1>5, SeqDef
<1>7. FlattenSeq(pieces) \in Seq(Byte)
  BY <1>6, FlattenSeqType
<1> QED
  BY <1>7 DEF Arrived, pieces, n, first, second

LEMMA WiresType == \A d \in DOMAIN Deliveries : Wires[d] \in Seq(Byte)
<1> SUFFICES ASSUME NEW d \in DOMAIN Deliveries PROVE Wires[d] \in Seq(Byte)
  OBVIOUS
<1>1. Bytes(Deliveries[d].units) \in Seq(Byte)
  BY DeliveriesAssumption, BytesType
<1>2. Wires[d] = Arrived(Bytes(Deliveries[d].units), Deliveries[d].swapped)
  BY DEF Wires
<1> QED
  BY <1>1, <1>2, ArrivedType

\* Inductive: the reorderer is settled between the chunks, which are sequences of bytes.
InOrder ==
  /\ delivery \in DOMAIN Deliveries /\ gapped \in BOOLEAN
  /\ sent \in Nat /\ sent <= Len(Wires[delivery])
  /\ Settled(reorderer)

LEMMA InitInOrder == Init => InOrder
<1> SUFFICES ASSUME Init PROVE InOrder
  OBVIOUS
<1>1. delivery \in DOMAIN Deliveries /\ gapped = FALSE /\ sent = 0
      /\ reorderer = Reorderer!NewReorderer
  BY DEF Init
<1>2. Len(Wires[delivery]) \in Nat
  BY <1>1, WiresType, LenProperties
<1>3. Settled(reorderer)
  BY <1>1, NewSettled
<1>4. gapped \in BOOLEAN
  BY <1>1
<1>5. sent \in Nat /\ sent <= Len(Wires[delivery])
  BY <1>1, <1>2
<1> QED
  BY <1>1, <1>3, <1>4, <1>5 DEF InOrder

LEMMA StepInOrder == InOrder /\ [Next]_vars => InOrder'
<1> SUFFICES ASSUME InOrder, [Next]_vars PROVE InOrder'
  OBVIOUS
<1>1. /\ delivery \in DOMAIN Deliveries /\ gapped \in BOOLEAN
      /\ sent \in Nat /\ sent <= Len(Wires[delivery]) /\ Settled(reorderer)
  BY DEF InOrder
<1>2. Wires[delivery] \in Seq(Byte)
  BY <1>1, WiresType
<1>3. ASSUME Feed PROVE InOrder'
  <2>1. PICK n \in ChunkSizes :
          /\ sent + n <= Len(Wires[delivery])
          /\ sent' = sent + n /\ gapped' = FALSE
          /\ reorderer' = [Reorderer!Fed(reorderer, SubSeq(Wires[delivery], sent + 1, sent + n), gapped)
                             EXCEPT !.sunk = << >>]
          /\ delivery' = delivery
    BY <1>3 DEF Feed
  <2>2. n \in Nat
    BY DeliveriesAssumption
  <2> DEFINE chunk == SubSeq(Wires[delivery], sent + 1, sent + n)
             fed == Reorderer!Fed(reorderer, chunk, gapped)
  <2>3. chunk \in Seq(Byte)
    <3>1. sent + 1 \in Nat /\ sent + 1 >= 1 /\ sent + n \in Nat
      BY <1>1, <2>2
    <3> QED
      BY <1>2, <2>1, <3>1, SliceType
  <2>4. reorderer' = [fed EXCEPT !.sunk = << >>]
    BY <2>1
  <2> HIDE DEF chunk
  <2>5. Settled(fed)
    BY <1>1, <2>3, FedSettled
  <2> HIDE DEF fed
  <2>6. Settled([fed EXCEPT !.sunk = << >>])
    BY <2>5, SunkSettled
  <2>7. Settled(reorderer)'
    BY <2>4, <2>6 DEF Settled, ScanOrdered, PipeWhole, SavsInOrder
  <2>8. (Wires[delivery])' = Wires[delivery]
    BY <2>1 DEF Wires, Arrived, Bytes
  <2>9. sent' \in Nat /\ sent' <= Len(Wires[delivery])
    BY <1>1, <2>1, <2>2
  <2> QED
    BY <1>1, <2>1, <2>7, <2>8, <2>9 DEF InOrder
<1>4. ASSUME Lose PROVE InOrder'
  <2>1. PICK n \in Losses :
          /\ sent + n <= Len(Wires[delivery])
          /\ sent' = sent + n /\ gapped' = TRUE
          /\ reorderer' = reorderer /\ delivery' = delivery
    BY <1>4 DEF Lose
  <2>2. n \in Nat
    BY DeliveriesAssumption
  <2>3. Settled(reorderer)'
    BY <1>1, <2>1 DEF Settled, ScanOrdered, PipeWhole, SavsInOrder
  <2>4. (Wires[delivery])' = Wires[delivery]
    BY <2>1 DEF Wires, Arrived, Bytes
  <2>5. sent' \in Nat /\ sent' <= Len(Wires[delivery])
    BY <1>1, <2>1, <2>2
  <2> QED
    BY <1>1, <2>1, <2>3, <2>4, <2>5 DEF InOrder
<1>5. CASE UNCHANGED vars
  BY <1>1, <1>5 DEF vars, InOrder, Settled, ScanOrdered, PipeWhole, SavsInOrder, Wires, Arrived, Bytes
<1> QED
  BY <1>3, <1>4, <1>5 DEF Next

\* A settled reorderer has passed nothing on before the SAVs in front of it had their verdict.
LEMMA SettledVerdict == InOrder => VerdictBeforeOutput
<1> SUFFICES ASSUME Settled(reorderer) PROVE VerdictBeforeOutput
  BY DEF InOrder
<1> DEFINE r == reorderer
           n == Len(r.observations)
<1>1. r \in Reorderers /\ PipeWhole(r) /\ SavsInOrder(r, r.scanOffset) /\ r.pipeStart = r.outOffset
      /\ r.inOffset - r.outOffset < (Window + 9) + Window
  BY DEF Settled, ScanOrdered
<1>2. /\ n \in Nat /\ DOMAIN r.observations = 1 .. n /\ r.pendingSav \in Int
      /\ \A i \in 1 .. n : r.observations[i].savOffset \in Nat
      /\ r.outOffset \in Nat
  <2>1. r.observations \in Seq(Observations) /\ r.outOffset \in Nat
    BY <1>1 DEF Reorderers
  <2> QED
    BY <1>1, <2>1, SavTypes, LenProperties
<1>3. r.pendingSav # -1 => r.pendingSav >= r.outOffset
  <2>1. r.pendingSav # -1 => r.outOffset <= r.pendingSav
    BY <1>1 DEF SavsInOrder
  <2> QED
    BY <1>2, <2>1
<1>4. \A i \in DOMAIN r.observations :
        /\ r.observations[i].savOffset >= r.outOffset
        /\ i > 1 => r.observations[i - 1].savOffset < r.observations[i].savOffset
  <2> SUFFICES ASSUME NEW i \in 1 .. n
               PROVE  /\ r.observations[i].savOffset >= r.outOffset
                      /\ i > 1 => r.observations[i - 1].savOffset < r.observations[i].savOffset
    BY <1>2
  <2>1. r.observations[i].savOffset >= r.outOffset
    BY <1>1, <1>2 DEF SavsInOrder
  <2>2. ASSUME i > 1 PROVE r.observations[i - 1].savOffset < r.observations[i].savOffset
    <3>1. i - 1 \in 1 .. n /\ i - 1 < i
      BY <1>2, <2>2
    <3> QED
      BY <1>1, <3>1 DEF SavsInOrder
  <2> QED
    BY <2>1, <2>2
<1>5. Len(r.pipe) = r.inOffset - r.outOffset
  BY <1>1 DEF PipeWhole
<1>6. r.inOffset - r.outOffset < Reorderer!HoldBack(r) + PairBytes
  BY <1>1, Widths
<1> QED
  BY <1>3, <1>4, <1>5, <1>6 DEF VerdictBeforeOutput

\* BufferReorderer never passes bytes on before every SAV in front of them has its verdict, keeps
\* its observations in the stream's order, and holds back less than a window, a marker and a pair
\* (BufferReorderer::scan, emit and feed's holdBack), whatever arrives, however it is cut into
\* chunks and wherever bytes are lost.
THEOREM VerdictsFirst == Spec => []VerdictBeforeOutput
<1>1. Spec => []InOrder
  BY InitInOrder, StepInOrder, PTL DEF Spec
<1> QED
  BY <1>1, SettledVerdict, PTL
=============================================================================
