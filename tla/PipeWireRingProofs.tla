------------------------- MODULE PipeWireRingProofs -------------------------
(***************************************************************************)
(* Proofs about PipeWireRing, for every size of the ring, of the packets   *)
(* and of the requests: the indices stay within the ring, every byte       *)
(* between them is the one that was written there, and so the ring is a    *)
(* queue of bytes.                                                         *)
(***************************************************************************)
EXTENDS PipeWireRing, SequenceTheorems, TLAPS

(***************************************************************************)
(* Arithmetic of indices that wrap.                                        *)
(***************************************************************************)

LEMMA Division ==
  ASSUME NEW a \in Int, NEW n \in Nat \ {0}
  PROVE  \E q \in Int : a = q * n + (a % n) /\ a % n \in 0 .. n - 1
<1>1. a = (a \div n) * n + (a % n) /\ a \div n \in Int /\ a % n \in 0 .. n - 1
  OBVIOUS
<1> QED
  BY <1>1

LEMMA Remainder ==
  ASSUME NEW q \in Int, NEW n \in Nat \ {0}, NEW r \in 0 .. n - 1
  PROVE  (q * n + r) % n = r
  OBVIOUS

LEMMA Distributes ==
  ASSUME NEW p \in Int, NEW q \in Int, NEW n \in Int
  PROVE  (p + q) * n = p * n + q * n /\ (0 - p) * n = 0 - p * n /\ (p * q) * n = p * (q * n)
  OBVIOUS

LEMMA Periodic ==
  ASSUME NEW a \in Int, NEW q \in Int, NEW n \in Nat \ {0}
  PROVE  (a + q * n) % n = a % n
<1> DEFINE r == a % n
<1>1. PICK p \in Int : a = p * n + r /\ r \in 0 .. n - 1
  BY Division
<1> HIDE DEF r
<1>2. p * n \in Int /\ q * n \in Int /\ n \in Int /\ r \in Int
  BY <1>1
<1>3. a + q * n = (p * n + q * n) + r
  BY ONLY <1>1, <1>2
<1>4. a + q * n = (p + q) * n + r /\ p + q \in Int
  BY <1>2, <1>3, Distributes
<1>5. (a + q * n) % n = r
  BY ONLY <1>1, <1>4, Remainder, n \in Nat \ {0}
<1> QED
  BY <1>5 DEF r

\* A sum and a difference wrap like their operands.
LEMMA ModSum ==
  ASSUME NEW a \in Int, NEW b \in Int, NEW n \in Nat \ {0}
  PROVE  ((a % n) + b) % n = (a + b) % n /\ (b - (a % n)) % n = (b - a) % n
<1> DEFINE r == a % n
<1>1. PICK p \in Int : a = p * n + r /\ r \in 0 .. n - 1
  BY Division
<1> HIDE DEF r
<1>2. p * n \in Int /\ (0 - p) * n = 0 - p * n /\ 0 - p \in Int /\ r \in Int /\ n \in Int
  BY <1>1, Distributes
<1>3. r + b = (a + b) + (0 - p) * n /\ b - r = (b - a) + p * n
  BY ONLY <1>1, <1>2, a \in Int, b \in Int
<1>4. ((a + b) + (0 - p) * n) % n = (a + b) % n /\ ((b - a) + p * n) % n = (b - a) % n
  BY ONLY <1>2, Periodic, p \in Int, a + b \in Int, b - a \in Int, n \in Nat \ {0}
<1> QED
  BY ONLY <1>3, <1>4 DEF r

LEMMA ModMultiple ==
  ASSUME NEW a \in Int, NEW n \in Nat \ {0}, NEW m \in Nat \ {0}, m % n = 0
  PROVE  (a % m) % n = a % n
<1> DEFINE r == a % m
<1>1. PICK p \in Int : a = p * m + r /\ r \in 0 .. m - 1
  BY Division
<1>2. PICK q \in Int : m = q * n
  <2>1. \E q \in Int : m = q * n + (m % n) /\ m % n \in 0 .. n - 1
    BY ONLY Division, m \in Int, n \in Nat \ {0}
  <2> QED
    BY <2>1, m % n = 0
<1> HIDE DEF r
<1>3. p * m = (p * q) * n /\ p * q \in Int /\ r \in Int
  BY <1>1, <1>2, Distributes
<1>4. (p * q) * n \in Int /\ a = r + (p * q) * n
  BY ONLY <1>1, <1>3, <1>2, n \in Nat, a \in Int
<1>5. a % n = r % n
  <2>1. (r + (p * q) * n) % n = r % n
    BY ONLY <1>3, Periodic, n \in Nat \ {0}
  <2> QED
    BY ONLY <1>4, <2>1
<1> QED
  BY <1>5 DEF r

\* Two positions less than the modulus apart are not the same.
LEMMA ModDistinct ==
  ASSUME NEW i \in Int, NEW j \in Int, NEW n \in Nat \ {0}, i < j, j < i + n
  PROVE  i % n # j % n
<1> DEFINE r == i % n
<1> SUFFICES ASSUME r = j % n PROVE FALSE
  OBVIOUS
<1>1. PICK p \in Int : i = p * n + r /\ r \in 0 .. n - 1
  BY Division
<1>2. PICK q \in Int : j = q * n + r
  BY Division
<1> HIDE DEF r
<1> DEFINE d == q - p
<1>3. d \in Int /\ q = p + d
  OBVIOUS
<1> HIDE DEF d
<1>4. q * n = p * n + d * n /\ p * n \in Int /\ d * n \in Int /\ r \in Int
  BY <1>1, <1>3, Distributes
<1>5. 0 < d * n /\ d * n < n
  BY ONLY <1>1, <1>2, <1>4, i < j, j < i + n, i \in Int, j \in Int, n \in Nat
<1>6. CASE d <= 0
  BY ONLY <1>6, <1>5, <1>3, n \in Nat
<1>7. CASE d >= 1
  BY ONLY <1>7, <1>5, <1>3, n \in Nat
<1> QED
  BY <1>3, <1>6, <1>7

(***************************************************************************)
(* The sizes of the ring, its offsets and the indices.                     *)
(***************************************************************************)

LEMMA Sizes ==
  /\ RingBytes \in Nat \ {0} /\ IndexMod \in Nat \ {0} /\ Stride \in Nat \ {0}
  /\ RingBytes < IndexMod /\ IndexMod % RingBytes = 0 /\ IndexMod % Stride = 0
<1>1. /\ RingBytes \in Nat \ {0} /\ IndexMod \in Nat \ {0} /\ Stride \in Nat \ {0}
      /\ RingBytes < IndexMod /\ IndexMod % RingBytes = 0
  BY ConstantsAssumption
<1>2. (IndexMod % RingBytes) % Stride = IndexMod % Stride
  <2>1. RingBytes % Stride = 0 /\ IndexMod \in Int
    BY ConstantsAssumption
  <2> QED
    BY <1>1, <2>1, ModMultiple, Zenon
<1>3. 0 % Stride = 0
  BY <1>1
<1> QED
  BY <1>1, <1>2, <1>3

LEMMA WrapRange ==
  ASSUME NEW a \in Int
  PROVE  Wrapped(a) \in Indices /\ (a \in Indices => Wrapped(a) = a)
  BY Sizes DEF Wrapped, Indices

LEMMA WrapSum ==
  ASSUME NEW a \in Int, NEW b \in Int
  PROVE  /\ Wrapped(Wrapped(a) + b) = Wrapped(a + b)
         /\ Wrapped(b - Wrapped(a)) = Wrapped(b - a)
<1>1. IndexMod \in Nat \ {0}
  BY Sizes
<1>2. /\ ((a % IndexMod) + b) % IndexMod = (a + b) % IndexMod
      /\ (b - (a % IndexMod)) % IndexMod = (b - a) % IndexMod
  BY ONLY <1>1, ModSum, a \in Int, b \in Int
<1> QED
  BY <1>2 DEF Wrapped

\* An index and the position it stands for have the same place in the ring.
LEMMA WrapSlot ==
  ASSUME NEW a \in Int, NEW b \in Int
  PROVE  (Wrapped(a) + b) % RingBytes = (a + b) % RingBytes
<1>1. Wrapped(a) \in Int
  BY WrapRange DEF Indices
<1>2. Wrapped(a) % RingBytes = a % RingBytes
  <2>1. /\ RingBytes \in Nat \ {0} /\ IndexMod \in Nat \ {0} /\ IndexMod % RingBytes = 0
    BY Sizes
  <2>2. (a % IndexMod) % RingBytes = a % RingBytes
    BY <2>1, ModMultiple, Zenon
  <2> QED
    BY <2>2 DEF Wrapped
<1>3. ((Wrapped(a) % RingBytes) + b) % RingBytes = (Wrapped(a) + b) % RingBytes
  BY <1>1, Sizes, ModSum, Zenon
<1>4. ((a % RingBytes) + b) % RingBytes = (a + b) % RingBytes
  BY Sizes, ModSum, Zenon
<1> QED
  BY <1>2, <1>3, <1>4

\* A whole number of frames is the most that fits.
LEMMA WholeFrames ==
  ASSUME NEW n \in Nat
  PROVE  Whole(n) \in 0 .. n /\ Whole(n) % Stride = 0 /\ n - Whole(n) < Stride
<1>1. PICK q \in Int : n = q * Stride + (n % Stride) /\ n % Stride \in 0 .. Stride - 1
  BY Sizes, Division, n \in Int, Zenon
<1>2. Whole(n) = q * Stride + 0 /\ q * Stride \in Int
  BY <1>1, Sizes DEF Whole
<1>3. Whole(n) % Stride = 0
  BY <1>2, Sizes, Remainder
<1>4. q >= 0
  <2>1. CASE q <= -1
    <3>1. q * Stride <= -Stride
      BY <2>1, Sizes
    <3> QED
      BY <3>1, <1>1, Sizes
  <2> QED
    BY <2>1
<1>5. q * Stride >= 0
  BY <1>4, Sizes
<1> QED
  BY <1>1, <1>2, <1>3, <1>5, Sizes

\* What a reader that is too far behind skips leaves MAX_BYTES at most.
LEMMA SkipBound ==
  ASSUME NEW filled \in Nat
  PROVE  /\ Skip(filled) \in 0 .. filled /\ Skip(filled) % Stride = 0
         /\ filled - Skip(filled) <= MaxBytes
<1>1. /\ TargetBytes \in Nat /\ MaxBytes \in Nat /\ Stride \in Nat \ {0}
      /\ TargetBytes + Stride <= MaxBytes + 1 /\ 0 % Stride = 0
  BY ConstantsAssumption
<1>2. CASE filled > MaxBytes
  <2>1. filled - TargetBytes \in Nat
    BY <1>1, <1>2
  <2>2. /\ Skip(filled) = Whole(filled - TargetBytes)
        /\ Whole(filled - TargetBytes) \in 0 .. filled - TargetBytes
        /\ Whole(filled - TargetBytes) % Stride = 0
        /\ (filled - TargetBytes) - Whole(filled - TargetBytes) < Stride
    BY <1>2, <2>1, WholeFrames DEF Skip
  <2> HIDE DEF Skip, Whole
  <2> QED
    BY <1>1, <2>1, <2>2
<1>3. CASE filled <= MaxBytes
  BY <1>1, <1>3 DEF Skip
<1> QED
  BY <1>1, <1>2, <1>3

(***************************************************************************)
(* The invariant.                                                          *)
(***************************************************************************)

\* The bytes between the indices, where the byte k from the read index lies, and what it is.
Held    == Wrapped(written - read)
Slot(k) == (read + k) % RingBytes
Byte(k) == Wrapped(read + k)

Shape ==
  /\ written \in Indices /\ read \in Indices
  /\ writer \in [at : {"idle", "copying", "torn", "copied"}, length : Nat]
  /\ writer.at # "idle" => writer.length \in PacketSizes
  /\ reader \in [at : ReaderSteps, wanted : Nat, filled : Nat, index : Indices]

\* The writer's packet fits behind what is held, and the reader's view is not ahead of it: each
\* thread knows the other's index as it was, and the other has only made room or added since.
IndexInv ==
  /\ Held <= RingBytes
  /\ writer.at # "idle" => Held + writer.length <= RingBytes
  /\ reader.at # "idle" => reader.index = read /\ reader.filled <= Held

\* What is held is whole; behind it, once copied, is the writer's packet.
BytesInv ==
  /\ \A k \in 0 .. Held - 1 : data[Slot(k)] = Byte(k)
  /\ writer.at = "copied" =>
       \A k \in Held .. Held + writer.length - 1 : data[Slot(k)] = Byte(k)

RingInv == Shape /\ IndexInv /\ BytesInv

LEMMA HeldRange == Shape => Held \in Indices /\ Held \in Nat
  BY WrapRange DEF Shape, Held, Indices

LEMMA FillIsHeld == Shape /\ Held <= RingBytes => Fill = Held
<1> SUFFICES ASSUME Shape, Held <= RingBytes PROVE Fill = Held
  OBVIOUS
<1>1. Held < IndexMod \div 2
  BY HeldRange, ConstantsAssumption
<1> QED
  BY <1>1 DEF Fill, Filled, Held

\* What lies at the write index and behind it.
LEMMA BehindHeld ==
  ASSUME Shape, NEW j \in Int
  PROVE  (written + j) % RingBytes = Slot(Held + j) /\ Wrapped(written + j) = Byte(Held + j)
<1>1. written \in Int /\ read \in Int /\ Held \in Int /\ written - read \in Int
  BY HeldRange DEF Shape, Indices
<1>2. Wrapped(read + Held) = written
  <2>1. Wrapped(Wrapped(written - read) + read) = Wrapped((written - read) + read)
    BY <1>1, WrapSum
  <2>2. (written - read) + read = written /\ read + Held = Held + read
    BY <1>1
  <2>3. Wrapped(written) = written
    BY WrapRange, <1>1 DEF Shape
  <2> QED
    BY <2>1, <2>2, <2>3 DEF Held
<1>3. read + Held \in Int /\ (read + Held) + j = read + (Held + j)
  BY <1>1
<1>4. (Wrapped(read + Held) + j) % RingBytes = ((read + Held) + j) % RingBytes
  BY <1>3, WrapSlot
<1>5. Wrapped(Wrapped(read + Held) + j) = Wrapped((read + Held) + j)
  BY <1>3, WrapSum
<1> QED
  BY <1>2, <1>3, <1>4, <1>5 DEF Slot, Byte

\* The bytes of the ring do not share a place.
LEMMA SlotsDistinct ==
  ASSUME Shape, NEW j \in Int, NEW k \in Int, j < k, k < j + RingBytes
  PROVE  Slot(j) # Slot(k) /\ Slot(j) \in Offsets /\ Slot(k) \in Offsets
<1>1. read \in Int /\ read + j \in Int /\ read + k \in Int /\ RingBytes \in Nat \ {0}
  BY Sizes DEF Shape, Indices
<1>2. read + j < read + k /\ read + k < (read + j) + RingBytes
  BY <1>1
<1>3. (read + j) % RingBytes # (read + k) % RingBytes
  BY <1>1, <1>2, ModDistinct, Zenon
<1> QED
  BY <1>1, <1>3 DEF Slot, Offsets

(***************************************************************************)
(* The writer's steps.                                                     *)
(***************************************************************************)

LEMMA OfferStep == RingInv /\ Offer => RingInv'
<1> SUFFICES ASSUME RingInv, NEW length \in PacketSizes,
                    writer.at = "idle",
                    writer' = IF Fits(Fill, length) THEN [at |-> "copying", length |-> length]
                                                    ELSE writer,
                    UNCHANGED <<data, written, read, reader>>
             PROVE  RingInv'
  BY DEF Offer
<1>1. Fill = Held /\ Held \in Nat /\ Held' = Held /\ length \in Nat
  BY FillIsHeld, HeldRange, ConstantsAssumption DEF RingInv, IndexInv, Held
<1>2. \/ writer' = writer
      \/ /\ writer' = [at |-> "copying", length |-> length] /\ Held + length <= RingBytes
  BY <1>1 DEF Fits
<1>3. Shape'
  BY <1>1, <1>2 DEF RingInv, Shape
<1>4. IndexInv'
  BY <1>1, <1>2 DEF RingInv, IndexInv
<1>5. BytesInv'
  BY <1>1, <1>2 DEF RingInv, BytesInv, Slot, Byte
<1> QED
  BY <1>3, <1>4, <1>5 DEF RingInv

\* A byte that is held lies nowhere that the writer's packet goes to.
LEMMA HeldNotLanding ==
  ASSUME RingInv, writer.at # "idle", NEW k \in 0 .. Held - 1
  PROVE  Slot(k) \in Offsets /\ Slot(k) \notin Landing
<1>1. Held \in Nat /\ writer.length \in Nat /\ Held + writer.length <= RingBytes /\ Shape
  BY HeldRange DEF RingInv, Shape, IndexInv
<1>2. Slot(k) \in Offsets
  <2>1. 0 <= k /\ k < RingBytes /\ k \in Int /\ RingBytes \in Nat \ {0}
    BY <1>1, Sizes
  <2>2. read \in Int /\ read + k \in Int
    BY <1>1, <2>1 DEF Shape, Indices
  <2> QED
    BY <2>1, <2>2 DEF Slot, Offsets
<1>3. ASSUME NEW j \in 0 .. writer.length - 1
      PROVE  Slot(k) # (written + j) % RingBytes
  <2>1. /\ j \in Int /\ k \in Int /\ Held + j \in Int
        /\ k < Held + j /\ Held + j < k + RingBytes
    BY ONLY <1>1, Sizes, j \in 0 .. writer.length - 1, k \in 0 .. Held - 1
  <2>2. (written + j) % RingBytes = Slot(Held + j)
    BY <1>1, <2>1, BehindHeld
  <2>3. Slot(k) # Slot(Held + j)
    BY <1>1, <2>1, SlotsDistinct
  <2> QED
    BY <2>2, <2>3
<1> QED
  BY <1>2, <1>3 DEF Landing

LEMMA TearStep == RingInv /\ TearBytes => RingInv'
<1> SUFFICES ASSUME RingInv, TearBytes
             PROVE  RingInv'
  OBVIOUS
<1>1. /\ writer.at = "copying" /\ writer' = [writer EXCEPT !.at = "torn"]
      /\ data' = [o \in Offsets |-> IF o \in Landing THEN Torn ELSE data[o]]
      /\ UNCHANGED <<written, read, reader>>
  BY DEF TearBytes
<1>2. writer'.at = "torn" /\ writer'.length = writer.length
  BY <1>1 DEF RingInv, Shape
<1>3. Held' = Held
  BY <1>1 DEF Held
<1>4. Shape'
  BY <1>1, <1>2 DEF RingInv, Shape
<1>5. IndexInv'
  BY <1>1, <1>2, <1>3 DEF RingInv, IndexInv
<1>6. BytesInv'
  <2>1. ASSUME NEW k \in 0 .. Held - 1
        PROVE  data'[Slot(k)] = Byte(k)
    <3>1. Slot(k) \in Offsets /\ Slot(k) \notin Landing
      BY <1>1, HeldNotLanding
    <3> QED
      BY <1>1, <3>1 DEF RingInv, BytesInv
  <2> QED
    BY <1>1, <1>2, <1>3, <2>1 DEF BytesInv, Slot, Byte
<1> QED
  BY <1>4, <1>5, <1>6 DEF RingInv

\* The byte that the packet in hand puts at a place of the ring.
LEMMA LandingByte ==
  ASSUME RingInv, writer.at # "idle", NEW j \in 0 .. writer.length - 1
  PROVE  /\ Slot(Held + j) \in Offsets /\ Slot(Held + j) \in Landing
         /\ (CHOOSE i \in { Wrapped(written + k) : k \in 0 .. writer.length - 1 } :
               i % RingBytes = Slot(Held + j)) = Byte(Held + j)
<1>1. Held \in Nat /\ writer.length \in Nat /\ Held + writer.length <= RingBytes /\ Shape
  BY HeldRange DEF RingInv, Shape, IndexInv
<1>2. written \in Int /\ read \in Int /\ RingBytes \in Nat \ {0}
  BY <1>1, Sizes DEF Shape, Indices
<1>3. /\ (written + j) % RingBytes = Slot(Held + j) /\ Wrapped(written + j) = Byte(Held + j)
      /\ Slot(Held + j) \in Offsets
  <2>1. read + (Held + j) \in Int /\ j \in Int
    BY <1>1, <1>2
  <2> QED
    <3>1. (written + j) % RingBytes = Slot(Held + j) /\ Wrapped(written + j) = Byte(Held + j)
      BY <1>1, <2>1, BehindHeld
    <3>2. Slot(Held + j) \in Offsets
      BY <1>2, <2>1 DEF Slot, Offsets
    <3> QED
      BY <3>1, <3>2
<1>4. ASSUME NEW k \in 0 .. writer.length - 1
      PROVE  /\ Wrapped(written + k) % RingBytes = (written + k) % RingBytes
             /\ (written + k) % RingBytes = (written + j) % RingBytes => k = j
  <2>1. k \in Int /\ j \in Int /\ written + k \in Int /\ 0 \in Int
    BY <1>1, <1>2
  <2>2. (Wrapped(written + k) + 0) % RingBytes = ((written + k) + 0) % RingBytes
    BY <2>1, WrapSlot
  <2>3. Wrapped(written + k) + 0 = Wrapped(written + k) /\ (written + k) + 0 = written + k
    BY <2>1, WrapRange DEF Indices
  <2>4. ASSUME k # j PROVE (written + k) % RingBytes # (written + j) % RingBytes
    <3>1. /\ written + j \in Int
          /\ \/ written + k < written + j /\ written + j < (written + k) + RingBytes
             \/ written + j < written + k /\ written + k < (written + j) + RingBytes
      BY <1>1, <1>2, <2>1, <2>4
    <3> QED
      BY <1>2, <2>1, <3>1, ModDistinct, Zenon
  <2> QED
    BY <2>2, <2>3, <2>4
<1>5. Wrapped(written + j) \in { Wrapped(written + k) : k \in 0 .. writer.length - 1 }
  OBVIOUS
<1>6. Wrapped(written + j) % RingBytes = Slot(Held + j)
  BY <1>3, <1>4
<1>7. ASSUME NEW i \in { Wrapped(written + k) : k \in 0 .. writer.length - 1 },
             i % RingBytes = Slot(Held + j)
      PROVE  i = Byte(Held + j)
  <2>1. PICK k \in 0 .. writer.length - 1 : i = Wrapped(written + k)
    OBVIOUS
  <2>2. k = j
    BY <2>1, <1>3, <1>4, <1>7
  <2> QED
    BY <2>1, <2>2, <1>3
<1> QED
  BY <1>3, <1>5, <1>6, <1>7 DEF Landing

LEMMA WriteDataStep == RingInv /\ WriteData => RingInv'
<1> SUFFICES ASSUME RingInv, WriteData
             PROVE  RingInv'
  OBVIOUS
<1> DEFINE Put(o) == CHOOSE i \in { Wrapped(written + k) : k \in 0 .. writer.length - 1 } :
                       i % RingBytes = o
<1>1. /\ writer.at = "torn" /\ writer' = [writer EXCEPT !.at = "copied"]
      /\ data' = [o \in Offsets |-> IF o \in Landing THEN Put(o) ELSE data[o]]
      /\ UNCHANGED <<written, read, reader>>
  BY DEF WriteData
<1>2. writer'.at = "copied" /\ writer'.length = writer.length
  BY <1>1 DEF RingInv, Shape
<1>3. Held' = Held
  BY <1>1 DEF Held
<1>4. Shape'
  BY <1>1, <1>2 DEF RingInv, Shape
<1>5. IndexInv'
  BY <1>1, <1>2, <1>3 DEF RingInv, IndexInv
<1>6. ASSUME NEW k \in 0 .. Held - 1
      PROVE  data'[Slot(k)] = Byte(k)
  <2>1. Slot(k) \in Offsets /\ Slot(k) \notin Landing
    BY <1>1, HeldNotLanding
  <2> HIDE DEF Put
  <2> QED
    BY <1>1, <2>1 DEF RingInv, BytesInv
<1>7. ASSUME NEW j \in 0 .. writer.length - 1
      PROVE  data'[Slot(Held + j)] = Byte(Held + j)
  <2>1. /\ Slot(Held + j) \in Offsets /\ Slot(Held + j) \in Landing
        /\ Put(Slot(Held + j)) = Byte(Held + j)
    BY <1>1, LandingByte
  <2> HIDE DEF Put
  <2> QED
    BY <1>1, <2>1
<1>8. ASSUME NEW k \in Held .. Held + writer.length - 1
      PROVE  data'[Slot(k)] = Byte(k)
  <2>1. k - Held \in 0 .. writer.length - 1 /\ Held + (k - Held) = k
    BY HeldRange DEF RingInv, Shape
  <2>2. data'[Slot(Held + (k - Held))] = Byte(Held + (k - Held))
    BY <1>7, <2>1
  <2> QED
    BY <2>1, <2>2
<1>9. BytesInv'
  BY <1>1, <1>2, <1>3, <1>6, <1>8 DEF BytesInv, Slot, Byte
<1> QED
  BY <1>4, <1>5, <1>9 DEF RingInv

LEMMA WriteUpdateHeld ==
  ASSUME RingInv, WriteUpdate
  PROVE  Held' = Held + writer.length /\ written' \in Indices
<1>1. /\ written' = Wrapped(written + writer.length) /\ read' = read
      /\ writer.at = "copied"
  BY DEF WriteUpdate
<1>2. /\ written \in Int /\ read \in Int /\ writer.length \in Nat /\ Held \in Nat
      /\ Held + writer.length <= RingBytes
  BY <1>1, HeldRange DEF RingInv, Shape, IndexInv, Indices
<1>3. Held' = Wrapped(Wrapped(written + writer.length) + (0 - read))
  <2>1. Wrapped(written + writer.length) \in Int
    BY <1>2, WrapRange DEF Indices
  <2>2. Wrapped(written + writer.length) - read = Wrapped(written + writer.length) + (0 - read)
    BY <1>2, <2>1
  <2> QED
    BY <1>1, <2>2 DEF Held
<1>4. /\ Wrapped(Wrapped(written + writer.length) + (0 - read))
           = Wrapped((written + writer.length) + (0 - read))
      /\ Wrapped(Wrapped(written - read) + writer.length)
           = Wrapped((written - read) + writer.length)
  <2>1. written + writer.length \in Int /\ 0 - read \in Int /\ written - read \in Int
    BY <1>2
  <2>2. writer.length \in Int
    BY <1>2
  <2> QED
    BY ONLY <2>1, <2>2, WrapSum
<1>5. (written + writer.length) + (0 - read) = (written - read) + writer.length
  BY <1>2
<1>6. Wrapped(Held + writer.length) = Held + writer.length
  <2>1. Held + writer.length \in Indices
    BY <1>2, Sizes DEF Indices
  <2> QED
    BY <1>2, <2>1, WrapRange
<1>7. written' \in Indices
  BY <1>1, <1>2, WrapRange
<1> QED
  BY <1>3, <1>4, <1>5, <1>6, <1>7 DEF Held

LEMMA WriteUpdateStep == RingInv /\ WriteUpdate => RingInv'
<1> SUFFICES ASSUME RingInv, WriteUpdate
             PROVE  RingInv'
  OBVIOUS
<1>1. /\ writer.at = "copied" /\ writer' = [at |-> "idle", length |-> 0]
      /\ UNCHANGED <<data, read, reader>>
  BY DEF WriteUpdate, WriterIdle
<1>2. /\ Held' = Held + writer.length /\ written' \in Indices
      /\ Held \in Nat /\ writer.length \in Nat
  BY HeldRange, WriteUpdateHeld DEF RingInv, Shape
<1>3. Shape'
  BY <1>1, <1>2 DEF RingInv, Shape
<1>4. IndexInv'
  <2>1. Held + writer.length <= RingBytes
    BY <1>1 DEF RingInv, IndexInv
  <2>2. reader.filled \in Nat
    BY DEF RingInv, Shape
  <2> QED
    BY <1>1, <1>2, <2>1, <2>2 DEF RingInv, IndexInv
<1>5. BytesInv'
  <2>1. ASSUME NEW k \in 0 .. (Held + writer.length) - 1
        PROVE  data[Slot(k)] = Byte(k)
    <3>1. k \in 0 .. Held - 1 \/ k \in Held .. Held + writer.length - 1
      BY <1>2
    <3> QED
      BY <1>1, <3>1 DEF RingInv, BytesInv
  <2> QED
    BY <1>1, <1>2, <2>1 DEF BytesInv, Slot, Byte
<1> QED
  BY <1>3, <1>4, <1>5 DEF RingInv

(***************************************************************************)
(* The reader's steps.                                                     *)
(***************************************************************************)

LEMMA GetReadIndexStep == RingInv /\ GetReadIndex => RingInv'
<1> SUFFICES ASSUME RingInv, NEW wanted \in Requests,
                    GetReadIndex,
                    reader' = [at |-> IF Skip(IF Fill < 0 THEN 0 ELSE Fill) > 0
                                      THEN "trimming" ELSE "playing",
                               wanted |-> Whole(wanted),
                               filled |-> IF Fill < 0 THEN 0 ELSE Fill, index |-> read]
             PROVE  RingInv'
  BY DEF GetReadIndex
<1>1. UNCHANGED <<data, written, read, writer>>
  BY DEF GetReadIndex
<1>2. Fill = Held /\ Held \in Nat /\ Held' = Held
  BY <1>1, FillIsHeld, HeldRange DEF RingInv, IndexInv, Held
<1>3. Whole(wanted) \in Nat
  BY WholeFrames, ConstantsAssumption
<1>4. /\ reader'.at \in {"trimming", "playing"} /\ reader'.wanted = Whole(wanted)
      /\ reader'.filled = Held /\ reader'.index = read
      /\ reader' \in [at : ReaderSteps, wanted : Nat, filled : Nat, index : Indices]
  <2> HIDE DEF Whole
  <2> QED
    BY <1>2, <1>3 DEF RingInv, Shape, ReaderSteps
<1>5. Shape'
  BY <1>1, <1>4 DEF RingInv, Shape
<1>6. IndexInv'
  BY <1>1, <1>2, <1>4 DEF RingInv, IndexInv
<1>7. BytesInv'
  BY <1>1, <1>2 DEF RingInv, BytesInv, Slot, Byte
<1> QED
  BY <1>5, <1>6, <1>7 DEF RingInv

\* The reader takes s bytes: what is behind them is still there.
LEMMA ReaderMoves ==
  ASSUME RingInv, NEW s \in 0 .. Held,
         read' = Wrapped(read + s), UNCHANGED <<data, written, writer>>
  PROVE  read' \in Indices /\ Held' = Held - s /\ BytesInv'
<1>1. /\ written \in Int /\ read \in Int /\ Held \in Nat /\ s \in Int
      /\ writer.length \in Nat /\ read + s \in Int /\ 0 - s \in Int /\ written - read \in Int
  BY HeldRange DEF RingInv, Shape, Indices
<1>2. read' \in Indices
  BY <1>1, WrapRange
<1>3. Held' = Held - s
  <2>1. /\ Wrapped(written - Wrapped(read + s)) = Wrapped(written - (read + s))
        /\ Wrapped(Wrapped(written - read) + (0 - s)) = Wrapped((written - read) + (0 - s))
    BY ONLY <1>1, WrapSum
  <2>2. /\ written - (read + s) = (written - read) + (0 - s)
        /\ Held + (0 - s) = Held - s /\ Held - s \in Int
    BY <1>1
  <2>3. Held - s \in Indices
    BY <1>1, HeldRange, Sizes DEF RingInv, Indices
  <2>4. Wrapped(Held - s) = Held - s
    BY <2>2, <2>3, WrapRange
  <2> QED
    BY <2>1, <2>2, <2>4 DEF Held
<1>4. ASSUME NEW k \in Int
      PROVE  (read' + k) % RingBytes = Slot(s + k) /\ Wrapped(read' + k) = Byte(s + k)
  <2>1. (Wrapped(read + s) + k) % RingBytes = ((read + s) + k) % RingBytes
    BY <1>1, WrapSlot
  <2>2. Wrapped(Wrapped(read + s) + k) = Wrapped((read + s) + k)
    BY <1>1, WrapSum
  <2>3. (read + s) + k = read + (s + k)
    BY <1>1
  <2> QED
    BY <2>1, <2>2, <2>3 DEF Slot, Byte
<1>5. ASSUME NEW k \in 0 .. (Held - s) - 1
      PROVE  data[(read' + k) % RingBytes] = Wrapped(read' + k)
  <2>1. s + k \in 0 .. Held - 1 /\ k \in Int
    BY <1>1
  <2> QED
    BY <1>4, <2>1 DEF RingInv, BytesInv
<1>6. ASSUME writer.at = "copied",
             NEW k \in Held - s .. (Held - s) + writer.length - 1
      PROVE  data[(read' + k) % RingBytes] = Wrapped(read' + k)
  <2>1. s + k \in Held .. Held + writer.length - 1 /\ k \in Int
    BY <1>1
  <2> QED
    BY <1>4, <1>6, <2>1 DEF RingInv, BytesInv
<1>7. BytesInv'
  BY <1>3, <1>5, <1>6 DEF BytesInv, Slot, Byte
<1> QED
  BY <1>2, <1>3, <1>7

LEMMA TrimStep == RingInv /\ Trim => RingInv'
<1> SUFFICES ASSUME RingInv, Trim
             PROVE  RingInv'
  OBVIOUS
<1> DEFINE s == Skip(reader.filled)
           index == Wrapped(reader.index + s)
<1>1. /\ reader.at = "trimming" /\ read' = index
      /\ reader' = [reader EXCEPT !.at = "playing", !.index = index,
                                  !.filled = reader.filled - s]
      /\ UNCHANGED <<data, written, writer>>
  BY DEF Trim
<1>2. /\ reader \in [at : ReaderSteps, wanted : Nat, filled : Nat, index : Indices]
      /\ reader.index = read /\ reader.filled \in Nat /\ reader.filled <= Held
      /\ Held \in Nat /\ writer.length \in Nat
  BY <1>1, HeldRange DEF RingInv, Shape, IndexInv
<1>3. s \in 0 .. reader.filled /\ s \in 0 .. Held
  BY <1>2, SkipBound
<1> HIDE DEF s
<1>4. read' \in Indices /\ Held' = Held - s /\ BytesInv'
  BY <1>1, <1>2, <1>3, ReaderMoves
<1>5. /\ reader'.at = "playing" /\ reader'.index = read' /\ reader'.filled = reader.filled - s
      /\ reader' \in [at : ReaderSteps, wanted : Nat, filled : Nat, index : Indices]
  <2>1. reader.filled - s \in Nat /\ index \in Indices
    BY <1>1, <1>2, <1>3, <1>4
  <2> HIDE DEF index
  <2> QED
    BY <1>1, <1>2, <2>1 DEF ReaderSteps
<1>6. Shape'
  BY <1>1, <1>4, <1>5 DEF RingInv, Shape
<1>7. IndexInv'
  <2>1. Held' <= RingBytes /\ (writer'.at # "idle" => Held' + writer'.length <= RingBytes)
    BY <1>1, <1>2, <1>3, <1>4, Sizes DEF RingInv, IndexInv
  <2>2. reader'.filled <= Held'
    BY <1>2, <1>3, <1>4, <1>5
  <2> QED
    BY <1>5, <2>1, <2>2 DEF IndexInv
<1> QED
  BY <1>4, <1>6, <1>7 DEF RingInv

\* What is copied out is a whole number of frames of what is held.
LEMMA CopiedHeld ==
  ASSUME RingInv, reader.at = "playing"
  PROVE  Copied \in 0 .. Held /\ Copied % Stride = 0
<1>1. /\ reader.filled \in Nat /\ reader.wanted \in Nat /\ reader.filled <= Held /\ Held \in Nat
  BY HeldRange DEF RingInv, Shape, IndexInv
<1>2. Least(reader.filled, reader.wanted) \in 0 .. reader.filled
  BY <1>1 DEF Least
<1>3. /\ Whole(Least(reader.filled, reader.wanted)) \in 0 .. Least(reader.filled, reader.wanted)
      /\ Whole(Least(reader.filled, reader.wanted)) % Stride = 0
  BY <1>2, WholeFrames
<1>4. 0 % Stride = 0
  BY Sizes
<1> HIDE DEF Whole, Least
<1> QED
  BY <1>1, <1>2, <1>3, <1>4 DEF Copied

\* The step of ReadUpdate, when nothing is played too.
LEMMA ReadUpdateMoves ==
  ASSUME RingInv, ReadUpdate
  PROVE  \E s \in 0 .. Held : read' = Wrapped(read + s) /\ s % Stride = 0
<1>1. /\ reader.at = "playing" /\ read' = IF Plays THEN Wrapped(reader.index + Copied) ELSE read
  BY DEF ReadUpdate
<1>2. reader.index = read /\ read \in Int /\ read \in Indices /\ Held \in Nat
  BY <1>1, HeldRange DEF RingInv, Shape, IndexInv, Indices
<1>3. CASE Plays
  BY <1>1, <1>2, <1>3, CopiedHeld
<1>4. CASE ~Plays
  <2>1. Wrapped(read + 0) = read /\ 0 \in 0 .. Held /\ 0 % Stride = 0
    BY <1>2, WrapRange, Sizes
  <2> QED
    BY <1>1, <1>4, <2>1
<1> QED
  BY <1>3, <1>4

LEMMA ReadUpdateStep == RingInv /\ ReadUpdate => RingInv'
<1> SUFFICES ASSUME RingInv, ReadUpdate
             PROVE  RingInv'
  OBVIOUS
<1>1. /\ reader' = [at |-> "idle", wanted |-> 0, filled |-> 0, index |-> 0]
      /\ UNCHANGED <<data, written, writer>>
  BY DEF ReadUpdate, ReaderIdle
<1>2. PICK s \in 0 .. Held : read' = Wrapped(read + s)
  BY ReadUpdateMoves
<1>3. read' \in Indices /\ Held' = Held - s /\ BytesInv'
  BY <1>1, <1>2, ReaderMoves
<1>4. Shape'
  BY <1>1, <1>3, Sizes DEF RingInv, Shape, ReaderSteps, Indices
<1>5. IndexInv'
  <2>1. Held \in Nat /\ writer.length \in Nat
    BY HeldRange DEF RingInv, Shape
  <2>2. Held' <= RingBytes /\ (writer'.at # "idle" => Held' + writer'.length <= RingBytes)
    BY <1>1, <1>3, <2>1, Sizes DEF RingInv, IndexInv
  <2> QED
    BY <1>1, <2>2 DEF IndexInv
<1> QED
  BY <1>3, <1>4, <1>5 DEF RingInv

(***************************************************************************)
(* What follows for the two threads.                                       *)
(***************************************************************************)

LEMMA RingInit == Init => RingInv
<1> SUFFICES ASSUME Init PROVE RingInv
  OBVIOUS
<1>1. /\ written = 0 /\ read = 0
      /\ writer = [at |-> "idle", length |-> 0]
      /\ reader = [at |-> "idle", wanted |-> 0, filled |-> 0, index |-> 0]
  BY DEF Init, WriterIdle, ReaderIdle
<1>2. 0 \in Indices /\ Held = 0
  BY <1>1, Sizes, WrapRange DEF Indices, Held
<1> QED
  BY <1>1, <1>2, Sizes DEF RingInv, Shape, IndexInv, BytesInv, ReaderSteps

LEMMA RingStep == RingInv /\ [Next]_vars => RingInv'
<1>1. RingInv /\ UNCHANGED vars => RingInv'
  BY DEF vars, RingInv, Shape, IndexInv, BytesInv, Held, Slot, Byte
<1> QED
  BY <1>1, OfferStep, TearStep, WriteDataStep, WriteUpdateStep, GetReadIndexStep, TrimStep,
     ReadUpdateStep DEF Next, Write, Play

\* The bytes between the indices are the ones that were written there.
THEOREM Invariance == Spec => []RingInv
  BY RingInit, RingStep, PTL DEF Spec

\* Neither thread's view of the fill is beyond what it owns (PipeWireAudioOutput.cpp 81-90,
\* 112-121).
THEOREM NeverOverfull == Spec => []FillBounded
<1>1. RingInv => FillBounded
  <2> SUFFICES ASSUME RingInv PROVE FillBounded
    OBVIOUS
  <2>1. Fill = Held /\ Held \in Nat /\ Held <= RingBytes
    BY FillIsHeld, HeldRange DEF RingInv, IndexInv
  <2> QED
    BY <2>1, Sizes DEF FillBounded, RingInv, IndexInv
<1> QED
  BY <1>1, Invariance, PTL

\* What the reader copies out is what was written there, whatever the writer does meanwhile
\* (PipeWireAudioOutput.cpp 79-91, 125-131).
THEOREM NeverTorn == Spec => []ReadsWhatWasWritten
<1>1. RingInv => ReadsWhatWasWritten
  <2> SUFFICES ASSUME RingInv, reader.at = "playing", NEW k \in 0 .. Copied - 1
               PROVE  data[(reader.index + k) % RingBytes] = Wrapped(reader.index + k)
    BY DEF ReadsWhatWasWritten
  <2>1. Copied \in 0 .. Held /\ Held \in Nat /\ reader.index = read
    BY CopiedHeld, HeldRange DEF RingInv, IndexInv
  <2>2. k \in 0 .. Held - 1
    BY <2>1
  <2>3. data[Slot(k)] = Byte(k)
    BY <2>2 DEF RingInv, BytesInv
  <2> QED
    BY <2>1, <2>3 DEF Slot, Byte
<1> QED
  BY <1>1, Invariance, PTL

\* However far the reader is behind, it trims before it plays.
LEMMA LatencyStep == RingInv /\ LatencyBounded /\ [Next]_vars => LatencyBounded'
<1> SUFFICES ASSUME RingInv, LatencyBounded, [Next]_vars
             PROVE  LatencyBounded'
  OBVIOUS
<1>1. CASE UNCHANGED reader
  BY <1>1 DEF LatencyBounded
<1>2. CASE GetReadIndex
  <2> DEFINE filled == IF Fill < 0 THEN 0 ELSE Fill
  <2>1. filled \in Nat
    BY FillIsHeld, HeldRange DEF RingInv, IndexInv
  <2> HIDE DEF filled
  <2>2. reader'.filled = filled /\ (reader'.at = "playing" => ~(Skip(filled) > 0))
    BY <1>2 DEF GetReadIndex, filled
  <2>3. Skip(filled) \in 0 .. filled /\ filled - Skip(filled) <= MaxBytes
    BY <2>1, SkipBound
  <2> HIDE DEF Skip
  <2>4. ~(Skip(filled) > 0) => filled <= MaxBytes
    BY <2>1, <2>3, ConstantsAssumption
  <2> QED
    BY <2>2, <2>4 DEF LatencyBounded
<1>3. CASE Trim
  <2> DEFINE skip == Skip(reader.filled)
  <2>1. reader' = [reader EXCEPT !.at = "playing", !.index = Wrapped(reader.index + skip),
                                 !.filled = reader.filled - skip]
    BY <1>3 DEF Trim
  <2>2. reader.filled \in Nat
    BY DEF RingInv, Shape
  <2>3. reader.filled - skip <= MaxBytes
    BY <2>2, SkipBound
  <2> HIDE DEF skip
  <2>4. reader'.filled = reader.filled - skip
    BY <2>1 DEF RingInv, Shape
  <2> QED
    BY <2>3, <2>4 DEF LatencyBounded
<1>4. CASE ReadUpdate
  BY <1>4 DEF ReadUpdate, ReaderIdle, LatencyBounded
<1> QED
  BY <1>1, <1>2, <1>3, <1>4
     DEF Next, Write, Play, Offer, TearBytes, WriteData, WriteUpdate, vars

\* The latency is bounded, however long nobody pulled (PipeWireAudioOutput.cpp 115-123).
THEOREM LatencyIsBounded == Spec => []LatencyBounded
<1>1. Init => LatencyBounded
  BY DEF Init, ReaderIdle, LatencyBounded
<1> QED
  BY <1>1, LatencyStep, Invariance, PTL DEF Spec

LEMMA FramesStep == RingInv /\ FramesWhole /\ [Next]_vars => FramesWhole'
<1> SUFFICES ASSUME RingInv, FramesWhole, [Next]_vars
             PROVE  FramesWhole'
  OBVIOUS
<1>1. CASE UNCHANGED read
  BY <1>1 DEF FramesWhole
<1>2. ASSUME NEW s \in Int, s % Stride = 0, read' = Wrapped(read + s)
      PROVE  FramesWhole'
  <2>1. read \in Int /\ read + s \in Int
    BY DEF RingInv, Shape, Indices
  <2>2. Stride \in Nat \ {0} /\ IndexMod \in Nat \ {0} /\ IndexMod % Stride = 0
    BY Sizes
  <2>3. ((read + s) % IndexMod) % Stride = (read + s) % Stride
    BY <2>1, <2>2, ModMultiple, Zenon
  <2>4. ((read % Stride) + s) % Stride = (read + s) % Stride
    BY <2>1, <2>2, ModSum, Zenon
  <2>5. (read % Stride) + s = s
    BY DEF FramesWhole
  <2> QED
    BY <1>2, <2>3, <2>4, <2>5 DEF FramesWhole, Wrapped
<1>3. CASE Trim
  <2>1. read' = Wrapped(read + Skip(reader.filled)) /\ reader.filled \in Nat
    BY <1>3 DEF Trim, RingInv, Shape, IndexInv
  <2>2. Skip(reader.filled) \in 0 .. reader.filled /\ Skip(reader.filled) % Stride = 0
    BY <2>1, SkipBound
  <2> HIDE DEF Skip
  <2> QED
    BY <1>2, <2>1, <2>2
<1>4. CASE ReadUpdate
  <2>1. PICK s \in 0 .. Held : read' = Wrapped(read + s) /\ s % Stride = 0
    BY <1>4, ReadUpdateMoves
  <2> QED
    BY <1>2, <2>1
<1> QED
  BY <1>1, <1>3, <1>4
     DEF Next, Write, Play, Offer, TearBytes, WriteData, WriteUpdate, GetReadIndex, vars

\* The channels never swap (PipeWireAudioOutput.cpp 106-109, 118, 128).
THEOREM ChannelsNeverSwap == Spec => []FramesWhole
<1>1. Init => FramesWhole
  BY Sizes DEF Init, FramesWhole
<1> QED
  BY <1>1, FramesStep, Invariance, PTL DEF Spec

(***************************************************************************)
(* The ring implements a queue of bytes.                                   *)
(***************************************************************************)

\* The n indices from i on: the bytes of a packet, and those that are held.
Run(i, n) == [k \in 1 .. n |-> Wrapped(i + k - 1)]

LEMMA RunIsSeq ==
  ASSUME NEW i \in Int, NEW n \in Nat
  PROVE  /\ Run(i, n) \in Seq(Indices) /\ Len(Run(i, n)) = n
         /\ \A k \in 1 .. n : Run(i, n)[k] = Wrapped(i + k - 1)
<1>1. ASSUME NEW k \in 1 .. n PROVE Wrapped(i + k - 1) \in Indices
  <2>1. i + k - 1 \in Int
    OBVIOUS
  <2> QED
    BY <2>1, WrapRange
<1>2. Run(i, n) \in [1 .. n -> Indices]
  BY <1>1 DEF Run
<1> QED
  BY <1>2 DEF Run

ContentsRun == Contents = Run(read, Held) /\ Held \in Nat /\ read \in Int

LEMMA ContentsIsRun == RingInv => ContentsRun
<1> SUFFICES ASSUME RingInv
             PROVE  Contents = Run(read, Held) /\ Held \in Nat /\ read \in Int
  BY DEF ContentsRun
<1>1. Fill = Held /\ Held \in Nat /\ read \in Int
  BY FillIsHeld, HeldRange DEF RingInv, IndexInv, Shape, Indices
<1>2. ASSUME NEW k \in 1 .. Held
      PROVE  data[(read + k - 1) % RingBytes] = Wrapped(read + k - 1)
  <2>1. k - 1 \in 0 .. Held - 1 /\ read + k - 1 = read + (k - 1)
    BY <1>1
  <2>2. data[Slot(k - 1)] = Byte(k - 1)
    BY <2>1 DEF RingInv, BytesInv
  <2> QED
    BY <2>1, <2>2 DEF Slot, Byte
<1> QED
  BY <1>1, <1>2 DEF Contents, Run

LEMMA ContentsStillRun == RingInv' => ContentsRun'
  BY ContentsIsRun, PTL

\* A packet is put behind what is held when its write index is stored.
LEMMA PutImplemented == RingInv /\ RingInv' /\ WriteUpdate => Fifo!Put
<1> SUFFICES ASSUME RingInv, RingInv', WriteUpdate
             PROVE  Fifo!Put
  OBVIOUS
<1> DEFINE length == writer.length
           packet == Run(written, length)
<1>1. /\ read' = read /\ Held' = Held + length /\ Held \in Nat /\ length \in Nat
      /\ length \in PacketSizes /\ written \in Indices /\ written \in Int /\ read \in Int
      /\ Held + length <= RingBytes /\ Shape
  BY WriteUpdateHeld, HeldRange DEF WriteUpdate, RingInv, Shape, IndexInv, Indices
<1> HIDE DEF length
<1>2. packet \in PacketsAt
  BY <1>1 DEF PacketsAt, Run
<1>3. /\ Run(read, Held) \in Seq(Indices) /\ Len(Run(read, Held)) = Held
      /\ \A k \in 1 .. Held : Run(read, Held)[k] = Wrapped(read + k - 1)
      /\ packet \in Seq(Indices) /\ Len(packet) = length
      /\ \A k \in 1 .. length : packet[k] = Wrapped(written + k - 1)
      /\ Run(read, Held + length) \in Seq(Indices) /\ Len(Run(read, Held + length)) = Held + length
      /\ \A k \in 1 .. Held + length : Run(read, Held + length)[k] = Wrapped(read + k - 1)
  <2>1. Held + length \in Nat
    BY <1>1
  <2> QED
    BY <1>1, <2>1, RunIsSeq
<1> DEFINE joined == Run(read, Held) \o packet
<1> HIDE DEF packet
<1>4. /\ joined \in Seq(Indices) /\ Len(joined) = Held + length
      /\ \A k \in 1 .. Held + length :
           joined[k] = IF k <= Held THEN Run(read, Held)[k] ELSE packet[k - Held]
  <2>1. /\ joined \in Seq(Indices) /\ Len(joined) = Len(Run(read, Held)) + Len(packet)
        /\ \A k \in 1 .. Len(Run(read, Held)) + Len(packet) :
             joined[k] = IF k <= Len(Run(read, Held)) THEN Run(read, Held)[k]
                         ELSE packet[k - Len(Run(read, Held))]
    BY ONLY <1>3, ConcatProperties, Zenon DEF joined
  <2> HIDE DEF joined
  <2> QED
    BY ONLY <1>3, <2>1
<1> HIDE DEF joined
<1>5. ASSUME NEW k \in 1 .. Held + length
      PROVE  joined[k] = Run(read, Held + length)[k]
  <2>1. CASE k <= Held
    <3>1. k \in 1 .. Held
      BY <1>1, <2>1
    <3> QED
      BY <1>3, <1>4, <2>1, <3>1
  <2>2. CASE k > Held
    <3> DEFINE j == (k - Held) - 1
    <3>1. /\ k - Held \in 1 .. length /\ j \in Int /\ ~(k <= Held)
          /\ written + (k - Held) - 1 = written + j /\ read + k - 1 = read + (Held + j)
      BY <1>1, <2>2
    <3>2. Wrapped(written + j) = Byte(Held + j)
      BY <1>1, <3>1, BehindHeld
    <3>3. joined[k] = packet[k - Held] /\ packet[k - Held] = Wrapped(written + (k - Held) - 1)
      BY <1>3, <1>4, <3>1
    <3>4. Run(read, Held + length)[k] = Wrapped(read + k - 1)
      BY <1>3
    <3> HIDE DEF j
    <3> QED
      BY <3>1, <3>2, <3>3, <3>4 DEF Byte
  <2> QED
    BY <1>1, <2>1, <2>2
<1>6. joined = Run(read, Held + length)
  BY <1>3, <1>4, <1>5, SeqEqual
<1>7. Contents = Run(read, Held) /\ Contents' = Run(read, Held + length)
  <2>1. Contents' = Run(read, Held)'
    BY ContentsStillRun DEF ContentsRun
  <2> QED
    BY <1>1, <2>1, ContentsIsRun DEF Run, ContentsRun
<1>8. Contents' = Contents \o packet /\ Len(Contents) + Len(packet) <= RingBytes
  BY <1>1, <1>3, <1>6, <1>7 DEF joined
<1> QED
  BY <1>2, <1>8 DEF Fifo!Put

\* The reader takes off the front, whether it plays or skips; it may take nothing.
LEMMA TakeImplemented ==
  ASSUME RingInv, RingInv', NEW s \in 0 .. Held,
         read' = Wrapped(read + s), UNCHANGED <<data, written, writer>>
  PROVE  Fifo!Take \/ Contents' = Contents
<1>1. Contents = Run(read, Held) /\ Held \in Nat /\ read \in Int /\ s \in Nat /\ s \in Int
  BY ContentsIsRun DEF ContentsRun
<1>2. Held' = Held - s /\ Held - s \in Nat
  BY <1>1, ReaderMoves
<1>3. Contents' = Run(read, Held)' /\ read' \in Int
  BY ContentsStillRun DEF ContentsRun
<1>4. Contents' = Run(read', Held - s)
  BY <1>2, <1>3 DEF Run
<1>5. /\ Run(read, Held) \in Seq(Indices) /\ Len(Run(read, Held)) = Held
      /\ \A k \in 1 .. Held : Run(read, Held)[k] = Wrapped(read + k - 1)
      /\ Run(read', Held - s) \in Seq(Indices) /\ Len(Run(read', Held - s)) = Held - s
      /\ \A k \in 1 .. Held - s : Run(read', Held - s)[k] = Wrapped(read' + k - 1)
  BY <1>1, <1>2, <1>3, RunIsSeq
<1>6. ASSUME NEW k \in 1 .. Held - s
      PROVE  Wrapped(read' + k - 1) = Wrapped(read + (s + k) - 1) /\ s + k \in 1 .. Held
  <2>1. /\ read + s \in Int /\ k - 1 \in Int /\ read' + k - 1 = read' + (k - 1)
        /\ (read + s) + (k - 1) = read + (s + k) - 1 /\ s + k \in 1 .. Held
    BY <1>1, <1>3
  <2>2. Wrapped(Wrapped(read + s) + (k - 1)) = Wrapped((read + s) + (k - 1))
    BY <2>1, WrapSum
  <2> QED
    BY <2>1, <2>2
<1>7. CASE s = 0
  <2>1. \A k \in 1 .. Held : Run(read', Held - s)[k] = Run(read, Held)[k]
    BY <1>1, <1>5, <1>6, <1>7
  <2>2. Held - s = Held
    BY <1>1, <1>7
  <2>3. Run(read', Held - s) = Run(read, Held)
    BY <1>5, <2>1, <2>2, SeqEqual
  <2> QED
    BY <1>1, <1>4, <2>3
<1>8. CASE s # 0
  <2> DEFINE rest == SubSeq(Run(read, Held), s + 1, Held)
  <2>1. \A k \in s + 1 .. Held : Run(read, Held)[k] \in Indices
    <3>1. \A k \in s + 1 .. Held : k \in 1 .. Len(Run(read, Held))
      BY <1>1, <1>5
    <3> QED
      BY <1>5, <3>1, ElementOfSeq
  <2>2. s + 1 \in Int /\ Held \in Int
    BY <1>1
  <2>3. /\ rest \in Seq(Indices)
        /\ Len(rest) = IF s + 1 <= Held THEN Held - (s + 1) + 1 ELSE 0
        /\ \A k \in 1 .. Held - (s + 1) + 1 : rest[k] = Run(read, Held)[(s + 1) + k - 1]
    BY <2>1, <2>2, SubSeqProperties
  <2> HIDE DEF rest
  <2>4. Len(rest) = Held - s /\ Held - (s + 1) + 1 = Held - s
    BY <1>1, <2>3
  <2>5. ASSUME NEW k \in 1 .. Held - s
        PROVE  rest[k] = Run(read', Held - s)[k]
    <3>1. (s + 1) + k - 1 = s + k
      BY <1>1
    <3>2. rest[k] = Run(read, Held)[s + k]
      BY <2>3, <2>4, <3>1
    <3> QED
      BY <1>5, <1>6, <3>2
  <2>6. rest = Run(read', Held - s)
    BY <1>5, <2>3, <2>4, <2>5, SeqEqual
  <2>7. s \in 1 .. Len(Contents) /\ Len(Contents) = Held
    BY <1>1, <1>5, <1>8
  <2>8. Contents' = SubSeq(Contents, s + 1, Len(Contents))
    BY <1>1, <1>4, <2>6, <2>7 DEF rest
  <2> QED
    BY <2>7, <2>8 DEF Fifo!Take
<1> QED
  BY <1>7, <1>8

LEMMA FifoStep == RingInv /\ RingInv' /\ [Next]_vars => [Fifo!Next]_Contents
<1> SUFFICES ASSUME RingInv, RingInv', [Next]_vars
             PROVE  [Fifo!Next]_Contents
  OBVIOUS
<1>1. CASE UNCHANGED <<written, read>>
  <2>1. Held' = Held /\ Contents = Run(read, Held)
    BY <1>1, ContentsIsRun DEF Held, ContentsRun
  <2>2. Contents' = Run(read, Held)'
    BY ContentsStillRun DEF ContentsRun
  <2> QED
    BY <1>1, <2>1, <2>2 DEF Run
<1>2. CASE WriteUpdate
  BY <1>2, PutImplemented DEF Fifo!Next
<1>3. CASE Trim
  <2>1. /\ read' = Wrapped(read + Skip(reader.filled)) /\ UNCHANGED <<data, written, writer>>
        /\ reader.filled \in Nat /\ reader.filled <= Held /\ Held \in Nat
    BY <1>3, HeldRange DEF Trim, RingInv, Shape, IndexInv
  <2>2. Skip(reader.filled) \in 0 .. Held
    BY <2>1, SkipBound
  <2> HIDE DEF Skip
  <2> QED
    BY <2>1, <2>2, TakeImplemented DEF Fifo!Next
<1>4. CASE ReadUpdate
  <2>1. PICK s \in 0 .. Held : read' = Wrapped(read + s)
    BY <1>4, ReadUpdateMoves
  <2>2. UNCHANGED <<data, written, writer>>
    BY <1>4 DEF ReadUpdate
  <2> QED
    BY <2>1, <2>2, TakeImplemented DEF Fifo!Next
<1> QED
  BY <1>1, <1>2, <1>3, <1>4
     DEF Next, Write, Play, Offer, TearBytes, WriteData, GetReadIndex, vars

\* Whatever the two threads interleave, the ring is a bounded first-in first-out queue of bytes
\* that takes whole packets (PipeWireAudioOutput.cpp 74-91, 99-148).
THEOREM RingImplementsFifo == Spec => ImplementsFifo
<1>1. Init => Fifo!Init
  <2> SUFFICES ASSUME Init PROVE Fifo!Init
    OBVIOUS
  <2>1. Contents = Run(read, Held) /\ read = 0 /\ written = 0
    BY RingInit, ContentsIsRun DEF Init, ContentsRun
  <2>2. Held = 0
    BY <2>1, Sizes, WrapRange DEF Indices, Held
  <2>3. Run(read, 0) = << >>
    BY <2>1, RunIsSeq, EmptySeq
  <2> QED
    BY <2>1, <2>2, <2>3 DEF Fifo!Init
<1>2. RingInv /\ RingInv' /\ [Next]_vars => [Fifo!Next]_Contents
  BY FifoStep
<1> QED
  BY <1>1, <1>2, Invariance, PTL DEF Spec, ImplementsFifo, Fifo!Spec
=============================================================================
