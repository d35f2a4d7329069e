------------------------ MODULE CaptureStreamProofs ------------------------
(***************************************************************************)
(* Proofs about CaptureStream for every size of the ring and of the pool.  *)
(***************************************************************************)
EXTENDS CaptureStream, SequenceTheorems, TLAPS

USE ConstantsAssumption

(***************************************************************************)
(* Type correctness.                                                       *)
(***************************************************************************)

LEMMA IdleType == Idle \in Callbacks
  BY DEF Idle, Callbacks, Steps, Transfers, Numbers

LEMMA TypeInit == Init => TypeOK
<1> SUFFICES ASSUME Init PROVE TypeOK
  OBVIOUS
<1>1. inflight \in Seq(Transfers) /\ transfers \subseteq Transfers
  BY DEF Init
<1>2. ring \in [Slots -> Entries]
  BY DEF Init, Entries, Numbers
<1>3. produced \in Numbers /\ upTo \in Numbers
  BY DEF Init, Numbers
<1>4. ringWrite \in Slots /\ ringCount \in 0 .. RingSlots
  BY DEF Init, Slots
<1> QED
  BY <1>1, <1>2, <1>3, <1>4, IdleType DEF Init, TypeOK, OwnerSteps

LEMMA ModInRange ==
  ASSUME NEW x \in Int
  PROVE  x % RingSlots \in Slots
  BY DEF Slots

LEMMA SubmissionIsSeq ==
  ASSUME NEW q \in PoolSubmissions
  PROVE  q \in Seq(Transfers) /\ { q[i] : i \in DOMAIN q } \subseteq Transfers
<1>1. PICK m \in 0 .. PoolSize : q \in [1 .. m -> Pool]
  BY DEF PoolSubmissions
<1>2. q \in [1 .. m -> Transfers] /\ DOMAIN q = 1 .. m
  BY <1>1 DEF Transfers
<1>3. q \in Seq(Transfers)
  BY <1>2, SeqDef
<1> QED
  BY <1>2, <1>3

LEMMA RefuseType ==
  ASSUME TypeOK, NEW ts \in SUBSET Transfers, Refuse(ts)
  PROVE  refused' \subseteq Transfers /\ hasError' \in BOOLEAN
  BY DEF TypeOK, Refuse

LEMMA SubmitPoolType ==
  ASSUME TypeOK, SubmitPool
  PROVE  /\ inflight' \in Seq(Transfers) /\ transfers' \subseteq Transfers
         /\ refused' \subseteq Transfers /\ hasError' \in BOOLEAN
<1>1. CASE shuttingDown
  BY <1>1 DEF TypeOK, SubmitPool, kernel
<1>2. CASE ~shuttingDown
  <2>1. PICK q \in PoolSubmissions :
          /\ inflight' = inflight \o q
          /\ transfers' = transfers \cup { q[i] : i \in DOMAIN q }
          /\ Refuse(Pool \ { q[i] : i \in DOMAIN q })
    BY <1>2 DEF SubmitPool
  <2>2. Pool \ { q[i] : i \in DOMAIN q } \in SUBSET Transfers
    BY DEF Transfers
  <2>3. refused' \subseteq Transfers /\ hasError' \in BOOLEAN
    BY <2>1, <2>2, RefuseType
  <2> QED
    BY <2>1, <2>3, SubmissionIsSeq, ConcatProperties DEF TypeOK
<1> QED
  BY <1>1, <1>2

\* Taking the completed transfer from the kernel's list keeps the list well typed.
LEMMA CompletingType ==
  ASSUME TypeOK, NEW t, Completing(t)
  PROVE  inflight' \in Seq(Transfers) /\ t \in Transfers
  BY HeadTailProperties DEF TypeOK, Completing

LEMMA TypeStep == TypeOK /\ [Next]_vars => TypeOK'
<1> SUFFICES ASSUME TypeOK, [Next]_vars
             PROVE  TypeOK'
  OBVIOUS
<1> USE DEF TypeOK
<1>1. CASE Owner
  <2>1. CASE StartAligned
    <3>1. <<Probe>> \in Seq(Transfers) /\ {Probe} \subseteq Transfers
      BY DEF Transfers, Probe
    <3> QED
      BY <2>1, <3>1, RefuseType DEF StartAligned, OwnerSteps, kernel, queue
  <2>2. CASE StartMidStream
    BY <2>2 DEF StartMidStream, OwnerSteps, kernel, Numbers
  <2>3. CASE StartReads
    BY <2>3, SubmitPoolType DEF StartReads, OwnerSteps, queue
  <2>4. CASE Deliver
    <3>1. ReadIndex \in Slots
      <4>1. ringWrite - ringCount + RingSlots \in Int
        BY DEF Slots
      <4> QED
        BY <4>1, ModInRange DEF ReadIndex
    <3>2. ring[ReadIndex].chunk \in Numbers
      BY <3>1 DEF Entries
    <3>3. ringCount' \in 0 .. RingSlots
      BY <2>4 DEF Deliver
    <3> QED
      BY <2>4, <3>2, <3>3 DEF Deliver, OwnerSteps, kernel
  <2>5. CASE DeliverDone
    BY <2>5 DEF DeliverDone, OwnerSteps, kernel, queue
  <2>6. CASE Discard
    BY <2>6 DEF Discard, DropQueued, consumer, kernel
  <2>7. CASE Stop
    BY <2>7 DEF Stop, OwnerSteps, kernel, queue
  <2>8. CASE StopReturns
    BY <2>8 DEF StopReturns, Stopped, OwnerSteps, kernel, queue
  <2>9. CASE StopTimesOut
    BY <2>9 DEF StopTimesOut, OwnerSteps, kernel, queue
  <2>10. CASE Destroy
    BY <2>10 DEF Destroy, OwnerSteps, kernel, queue
  <2> QED
    BY <1>1, <2>1, <2>2, <2>3, <2>4, <2>5, <2>6, <2>7, <2>8, <2>9, <2>10 DEF Owner
<1>2. CASE Completion
  <2> USE DEF Callbacks, Steps, At, EnqueueStep, consumer, queue
  <2>1. CASE PoolCompleted
    BY <2>1, CompletingType DEF PoolCompleted, Numbers, Pool
  <2>2. CASE PoolEmpty
    BY <2>2, CompletingType DEF PoolEmpty, Numbers
  <2>3. CASE PoolFailed
    BY <2>3, CompletingType DEF PoolFailed, Numbers
  <2>4. CASE ProbeFound
    BY <2>4, CompletingType DEF ProbeFound, Numbers
  <2>5. CASE ProbeMissed
    <3>1. inflight' \in Seq(Transfers) /\ Probe \in Transfers
      BY <2>5, CompletingType DEF ProbeMissed
    <3>2. produced' \in Numbers /\ upTo' \in Numbers
      BY <2>5 DEF ProbeMissed, Numbers
    <3>3. probeAttempts' \in Nat
      BY <2>5 DEF ProbeMissed
    <3>4. cb' \in Callbacks /\ hasError' \in BOOLEAN
      BY <2>5, <3>1 DEF ProbeMissed, Numbers
    <3> QED
      BY <2>5, <3>1, <3>2, <3>3, <3>4 DEF ProbeMissed
  <2>6. CASE Cancelled
    BY <2>6, CompletingType DEF Cancelled, Numbers
  <2>7. CASE Disconnected
    BY <2>7, CompletingType DEF Disconnected, Numbers
  <2> QED
    BY <1>2, <2>1, <2>2, <2>3, <2>4, <2>5, <2>6, <2>7 DEF Completion
<1>3. CASE Callback
  <2>1. CASE Enqueue
    <3>1. [chunk |-> cb.chunk, gapped |-> (ringCount = RingSlots) \/ gapPending \/ cb.gapped]
            \in Entries
      BY DEF Callbacks, Entries
    <3>2. ring' \in [Slots -> Entries]
      BY <2>1, <3>1 DEF Enqueue, Store, Full
    <3>3. cb' \in Callbacks
      BY <2>1 DEF Enqueue, Store, Full, Goto, At, Callbacks, Steps
    <3>4. ringWrite' \in Slots
      <4>1. ringWrite + 1 \in Int
        BY DEF Slots
      <4> QED
        BY <2>1, <4>1, ModInRange DEF Enqueue, Store, Full
    <3>5. ringCount' \in 0 .. RingSlots /\ dropped' \in Nat
      BY <2>1 DEF Enqueue, Store, Full
    <3> QED
      BY <2>1, <3>2, <3>3, <3>4, <3>5 DEF Enqueue, Store, Full, consumer, kernel
  <2>2. CASE MarkGap
    <3>1. cb' \in Callbacks
      BY <2>2 DEF MarkGap, Goto, At, Callbacks, Steps
    <3> QED
      BY <2>2, <3>1 DEF MarkGap, consumer, kernel
  <2>3. CASE Submit
    <3>1. cb.transfer \in Transfers
      BY DEF Callbacks
    <3>2. Append(inflight, cb.transfer) \in Seq(Transfers)
      BY <3>1
    <3> QED
      <4>1. {cb.transfer} \in SUBSET Transfers /\ {} \in SUBSET Transfers
        BY DEF Callbacks
      <4> QED
        BY IdleType, <2>3, <3>2, <4>1, RefuseType DEF Submit, Resubmit, consumer, queue
  <2>4. CASE DiscardTransfer
    <3>1. cb' \in Callbacks
      BY IdleType, <2>4 DEF DiscardTransfer, Goto, At, Callbacks, Steps
    <3> QED
      BY <2>4, <3>1 DEF DiscardTransfer, consumer, queue
  <2>5. CASE QueueAllFrameReads
    BY IdleType, <2>5, SubmitPoolType DEF QueueAllFrameReads, consumer, queue
  <2> QED
    BY <1>3, <2>1, <2>2, <2>3, <2>4, <2>5 DEF Callback
<1>4. CASE Unplug
  BY <1>4 DEF Unplug, consumer, kernel, queue
<1>5. CASE UNCHANGED vars
  BY <1>5 DEF vars
<1> QED
  BY <1>1, <1>2, <1>3, <1>4, <1>5 DEF Next

\* Every variable keeps to its type: the ring's two indices stay inside the ring and the queue
\* never counts more chunks than it has slots (CaptureStream.cpp 183-205).
THEOREM TypeCorrect == Spec => []TypeOK
  BY TypeInit, TypeStep, PTL DEF Spec

(***************************************************************************)
(* The ring as a queue: what each operation does to the sequence Queued.   *)
(***************************************************************************)

LEMMA ModOnce ==
  ASSUME NEW x \in 0 .. 2 * RingSlots - 1
  PROVE  x % RingSlots = IF x < RingSlots THEN x ELSE x - RingSlots
<1> DEFINE q == x \div RingSlots
<1>1. q \in Int /\ x = RingSlots * q + (x % RingSlots) /\ x % RingSlots \in 0 .. RingSlots - 1
  OBVIOUS
<1>2. q < 2
  <2> SUFFICES ASSUME q >= 2 PROVE FALSE
    BY <1>1
  <2>1. RingSlots * q >= RingSlots * 2
    BY <1>1
  <2> QED
    BY <1>1, <2>1
<1>3. q >= 0
  <2> SUFFICES ASSUME q <= -1 PROVE FALSE
    BY <1>1
  <2>1. RingSlots * q <= RingSlots * (-1)
    BY <1>1
  <2> QED
    BY <1>1, <2>1
<1>4. CASE q = 0
  BY <1>1, <1>4
<1>5. CASE q = 1
  BY <1>1, <1>5
<1> QED
  BY <1>1, <1>2, <1>3, <1>4, <1>5

\* Where entry i of the queue lies, without the remainder.
Wrap(x) == IF x < 0 THEN x + RingSlots ELSE x

LEMMA SlotOfEntry ==
  ASSUME NEW w \in Slots, NEW c \in 0 .. RingSlots, NEW i \in 1 .. c
  PROVE  SlotAt(w, c, i) = Wrap(w - c + i - 1) /\ SlotAt(w, c, i) \in Slots
<1> DEFINE x == w - c + i - 1 + RingSlots
<1>1. x \in 0 .. 2 * RingSlots - 1
  BY DEF Slots
<1>2. x % RingSlots = IF x < RingSlots THEN x ELSE x - RingSlots
  BY <1>1, ModOnce
<1>3. x % RingSlots \in Slots
  BY <1>1, ModInRange
<1> QED
  BY <1>2, <1>3 DEF SlotAt, Wrap, Slots

LEMMA NextWrite ==
  ASSUME NEW w \in Slots
  PROVE  (w + 1) % RingSlots = IF w = RingSlots - 1 THEN 0 ELSE w + 1
<1> DEFINE x == w + 1
<1>1. x \in 0 .. 2 * RingSlots - 1
  BY DEF Slots
<1> HIDE DEF x
<1>2. x % RingSlots = IF x < RingSlots THEN x ELSE x - RingSlots
  BY <1>1, ModOnce
<1> QED
  BY <1>2 DEF Slots, x

LEMMA QueuedType ==
  ASSUME TypeOK
  PROVE  /\ Queued \in [1 .. ringCount -> Entries]
         /\ ringCount \in Nat
<1>1. \A i \in 1 .. ringCount : SlotAt(ringWrite, ringCount, i) \in Slots
  BY SlotOfEntry DEF TypeOK
<1> QED
  BY <1>1 DEF TypeOK, Queued

\* The ring untouched, the queue is the same.
LEMMA QueuedSame ==
  ASSUME UNCHANGED <<ring, ringWrite, ringCount>>
  PROVE  Queued' = Queued
  BY DEF Queued

\* Taking from the ring takes the oldest chunk.
LEMMA QueuedDeliver ==
  ASSUME TypeOK, Deliver
  PROVE  /\ Queued' = [i \in 1 .. ringCount - 1 |-> Queued[i + 1]]
         /\ upTo' = Queued[1].chunk
         /\ ringCount' = ringCount - 1 /\ ringCount \in 1 .. RingSlots
<1>1. ring' = ring /\ ringWrite' = ringWrite /\ ringCount' = ringCount - 1 /\ ringCount > 0
  BY DEF Deliver
<1>2. ringCount \in 1 .. RingSlots /\ ringWrite \in Int
  BY <1>1 DEF TypeOK, Slots
<1>3. ReadIndex = SlotAt(ringWrite, ringCount, 1)
  BY <1>2 DEF ReadIndex, SlotAt
<1>4. \A i \in 1 .. ringCount - 1 :
        /\ i + 1 \in 1 .. ringCount
        /\ SlotAt(ringWrite, ringCount - 1, i) = SlotAt(ringWrite, ringCount, i + 1)
  BY <1>2 DEF SlotAt
<1>5. \A i \in 1 .. ringCount - 1 : Queued[i + 1] = ring[SlotAt(ringWrite, ringCount, i + 1)]
  BY <1>4 DEF Queued
<1>6. Queued' = [i \in 1 .. ringCount - 1 |-> ring[SlotAt(ringWrite, ringCount - 1, i)]]
  BY <1>1 DEF Queued
<1>7. Queued' = [i \in 1 .. ringCount - 1 |-> Queued[i + 1]]
  BY <1>4, <1>5, <1>6
<1> QED
  BY <1>1, <1>2, <1>3, <1>7 DEF Deliver, Queued

NewEntry == [chunk |-> cb.chunk,
             gapped |-> (ringCount = RingSlots) \/ gapPending \/ cb.gapped]

\* Queueing appends the new chunk, after dropping the oldest if the ring is full.
LEMMA QueuedEnqueue ==
  ASSUME TypeOK, Enqueue
  PROVE  /\ ringCount < RingSlots =>
              /\ ringCount' = ringCount + 1
              /\ Queued' = [i \in 1 .. ringCount + 1 |->
                              IF i = ringCount + 1 THEN NewEntry ELSE Queued[i]]
         /\ ringCount = RingSlots =>
              /\ ringCount' = ringCount
              /\ Queued' = [i \in 1 .. ringCount |->
                              IF i = ringCount THEN NewEntry ELSE Queued[i + 1]]
         /\ ringCount \in 0 .. RingSlots
<1>0. ringWrite \in Slots /\ ringCount \in 0 .. RingSlots /\ ring \in [Slots -> Entries]
  BY DEF TypeOK
<1>1. ring' = [ring EXCEPT ![ringWrite] = NewEntry]
  BY DEF Enqueue, Store, Full, NewEntry
<1>2. ringWrite' = IF ringWrite = RingSlots - 1 THEN 0 ELSE ringWrite + 1
  BY <1>0, NextWrite DEF Enqueue, Store, Full
<1>3. ringWrite' \in Slots
  BY <1>0, <1>2 DEF Slots
<1>4. ringCount' = IF ringCount < RingSlots THEN ringCount + 1 ELSE ringCount
  BY <1>0, ConstantsAssumption DEF Enqueue, Store, Full
<1>5. ringCount' \in 0 .. RingSlots
  BY <1>0, <1>4
<1>6. \A i \in 1 .. ringCount' :
        /\ SlotAt(ringWrite', ringCount', i) = Wrap(ringWrite' - ringCount' + i - 1)
        /\ SlotAt(ringWrite', ringCount', i) \in Slots
  BY <1>3, <1>5, SlotOfEntry
<1>7. \A i \in 1 .. ringCount :
        /\ SlotAt(ringWrite, ringCount, i) = Wrap(ringWrite - ringCount + i - 1)
        /\ SlotAt(ringWrite, ringCount, i) \in Slots
  BY <1>0, SlotOfEntry
<1>8. Queued' = [i \in 1 .. ringCount' |-> ring'[SlotAt(ringWrite', ringCount', i)]]
  BY DEF Queued
<1>9. CASE ringCount < RingSlots
  <2>1. SlotAt(ringWrite', ringCount', ringCount + 1) = ringWrite
    BY <1>0, <1>2, <1>4, <1>6, <1>9 DEF Slots, Wrap
  <2>2. \A i \in 1 .. ringCount :
          /\ SlotAt(ringWrite', ringCount', i) = SlotAt(ringWrite, ringCount, i)
          /\ SlotAt(ringWrite, ringCount, i) # ringWrite
    BY <1>0, <1>2, <1>4, <1>6, <1>7, <1>9 DEF Slots, Wrap
  <2>3. \A i \in 1 .. ringCount + 1 :
          ring'[SlotAt(ringWrite', ringCount', i)] =
            IF i = ringCount + 1 THEN NewEntry ELSE Queued[i]
    <3> TAKE i \in 1 .. ringCount + 1
    <3>1. CASE i = ringCount + 1
      BY <1>0, <1>1, <2>1, <3>1
    <3>2. CASE i # ringCount + 1
      <4>1. i \in 1 .. ringCount
        BY <1>0, <3>2
      <4>2. ring'[SlotAt(ringWrite, ringCount, i)] = ring[SlotAt(ringWrite, ringCount, i)]
        BY <1>0, <1>1, <1>7, <2>2, <4>1
      <4> QED
        BY <2>2, <3>2, <4>1, <4>2 DEF Queued
    <3> QED
      BY <3>1, <3>2
  <2>4. ringCount' = ringCount + 1
    BY <1>4, <1>9
  <2> QED
    BY <1>0, <1>8, <1>9, <2>3, <2>4
<1>10. CASE ringCount = RingSlots
  <2>1. SlotAt(ringWrite', ringCount', ringCount) = ringWrite
    BY <1>0, <1>2, <1>4, <1>6, <1>10 DEF Slots, Wrap
  <2>2. \A i \in 1 .. ringCount - 1 :
          /\ i + 1 \in 1 .. ringCount
          /\ SlotAt(ringWrite', ringCount', i) = SlotAt(ringWrite, ringCount, i + 1)
          /\ SlotAt(ringWrite, ringCount, i + 1) # ringWrite
    <3> TAKE i \in 1 .. ringCount - 1
    <3>1. i \in Int /\ i + 1 \in 1 .. ringCount /\ i \in 1 .. ringCount'
      BY <1>0, <1>4, <1>10
    <3>2. SlotAt(ringWrite', ringCount', i) = Wrap(ringWrite' - ringCount' + i - 1)
      BY <1>6, <3>1
    <3>3. SlotAt(ringWrite, ringCount, i + 1) = Wrap(ringWrite - ringCount + (i + 1) - 1)
      BY <1>7, <3>1
    <3> QED
      BY <1>0, <1>2, <1>4, <1>10, <3>1, <3>2, <3>3 DEF Slots, Wrap
  <2>3. \A i \in 1 .. ringCount :
          ring'[SlotAt(ringWrite', ringCount', i)] =
            IF i = ringCount THEN NewEntry ELSE Queued[i + 1]
    <3> TAKE i \in 1 .. ringCount
    <3>1. CASE i = ringCount
      BY <1>0, <1>1, <2>1, <3>1
    <3>2. CASE i # ringCount
      <4>1. i \in 1 .. ringCount - 1 /\ i + 1 \in 1 .. ringCount
        BY <1>0, <3>2
      <4>2. ring'[SlotAt(ringWrite, ringCount, i + 1)] = ring[SlotAt(ringWrite, ringCount, i + 1)]
        BY <1>0, <1>1, <1>7, <2>2, <4>1
      <4> QED
        BY <2>2, <3>2, <4>1, <4>2 DEF Queued
    <3> QED
      BY <3>1, <3>2
  <2>4. ringCount' = ringCount
    BY <1>4, <1>10
  <2> QED
    BY <1>0, <1>8, <1>10, <2>3, <2>4
<1> QED
  BY <1>0, <1>9, <1>10

(***************************************************************************)
(* Gaps: the queue's part of the inductive invariant.                      *)
(***************************************************************************)

LEMMA QueueInit == Init => QueueInv
<1> SUFFICES ASSUME Init PROVE QueueInv
  OBVIOUS
<1>1. ringCount = 0 /\ LastQueued = 0 /\ cb.at = "idle" /\ owner = "new" /\ ~gapPending
      /\ produced = 0
  BY DEF Init, LastQueued, Idle
<1> QED
  BY <1>1 DEF QueueInv, GapsInsideFlagged, GapsBehindFlagged, LossReportedWithinRing, Ordered,
              NeverAhead, NoFalseGap, NoFalseGapAhead

\* A step that leaves the queue and the device alone, and takes up no chunk, keeps QueueInv.
LEMMA QueueFrame ==
  ASSUME QueueInv,
         UNCHANGED <<queue, upTo, produced>>,
         shuttingDown => shuttingDown',
         \/ cb' = cb
         \/ cb.at \notin {"enqueue", "markGap"} /\ cb'.at \notin {"enqueue", "markGap"}
  PROVE  QueueInv'
<1>1. Queued' = Queued /\ ringCount' = ringCount /\ gapPending' = gapPending /\ upTo' = upTo
      /\ produced' = produced /\ dropped' = dropped
  BY QueuedSame DEF queue
<1>2. LastQueued' = LastQueued
  BY <1>1 DEF LastQueued
<1>3. GapsBehindFlagged'
  BY <1>1, <1>2 DEF QueueInv, GapsBehindFlagged
<1>4. GapsInsideFlagged' /\ LossReportedWithinRing' /\ Ordered' /\ NoFalseGap'
  BY <1>1, <1>2 DEF QueueInv, GapsInsideFlagged, LossReportedWithinRing, Ordered, NoFalseGap,
                    Follows
<1>5. NeverAhead' /\ NoFalseGapAhead'
  BY <1>1, <1>2 DEF QueueInv, NeverAhead, NoFalseGapAhead
<1> QED
  BY <1>3, <1>4, <1>5 DEF QueueInv

LEMMA QueueDeliver ==
  ASSUME TypeOK, QueueInv, Deliver
  PROVE  QueueInv'
<1> DEFINE Q == Queued
           c == ringCount
<1>1. /\ Queued' = [i \in 1 .. c - 1 |-> Q[i + 1]]
      /\ upTo' = Q[1].chunk
      /\ ringCount' = c - 1 /\ c \in 1 .. RingSlots
  BY QueuedDeliver
<1>2. /\ cb' = cb /\ gapPending' = gapPending /\ dropped' = dropped /\ produced' = produced
      /\ shuttingDown' = shuttingDown
  BY DEF Deliver
<1>3. Q \in [1 .. c -> Entries] /\ produced \in Int /\ upTo \in Int
      /\ \A e \in Entries : e.chunk \in Int /\ e.gapped \in BOOLEAN
  BY QueuedType DEF TypeOK, Entries, Numbers
<1>4. \A i \in 1 .. c - 1 : i + 1 \in 2 .. c /\ Queued'[i] = Q[i + 1]
  BY <1>1
<1>5. \A i \in 2 .. c - 1 : i \in 1 .. c - 1 /\ i - 1 \in 1 .. c - 1 /\ (i - 1) + 1 = i
  BY <1>1
<1>6. LastQueued' = LastQueued
  <2>1. CASE c = 1
    BY <1>1, <2>1 DEF LastQueued
  <2>2. CASE c > 1
    <3>1. c - 1 \in 1 .. c - 1 /\ (c - 1) + 1 = c /\ c - 1 # 0 /\ c # 0
      BY <1>1, <2>2
    <3>2. Queued'[c - 1] = Q[c]
      BY <1>4, <3>1
    <3> QED
      BY <1>1, <3>1, <3>2 DEF LastQueued
  <2> QED
    BY <1>1, <2>1, <2>2
<1> HIDE DEF Q, c
<1>7. GapsInsideFlagged'
  BY <1>1, <1>4, <1>5 DEF QueueInv, GapsInsideFlagged, Follows, Q, c
<1>8. GapsBehindFlagged' /\ NeverAhead' /\ NoFalseGapAhead'
  BY <1>2, <1>6 DEF QueueInv, GapsBehindFlagged, NeverAhead, NoFalseGapAhead
<1>9. Ordered'
  <2>1. \A i, j \in 1 .. c : i < j => Q[i].chunk < Q[j].chunk
    BY DEF QueueInv, Ordered, Q, c
  <2>2. ASSUME NEW i \in 1 .. c - 1, NEW j \in 1 .. c - 1, i < j
        PROVE  Queued'[i].chunk < Queued'[j].chunk
    <3>1. i + 1 \in 1 .. c /\ j + 1 \in 1 .. c /\ i + 1 < j + 1
      BY <1>1, <2>2 DEF c
    <3> QED
      BY <1>4, <2>1, <3>1
  <2>3. ASSUME NEW i \in 1 .. c - 1
        PROVE  Q[1].chunk < Queued'[i].chunk
    <3>1. 1 \in 1 .. c /\ i + 1 \in 1 .. c /\ 1 < i + 1
      BY <1>1, <2>3 DEF c
    <3> QED
      BY <1>4, <2>1, <3>1
  <2> QED
    BY <1>1, <2>2, <2>3 DEF Ordered, c
<1>10. LossReportedWithinRing'
  <2> SUFFICES ASSUME c - 1 > 0, ~Follows(Queued'[1], upTo')
               PROVE  \E i \in 1 .. c - 1 : Queued'[i].gapped
    BY <1>1 DEF LossReportedWithinRing, c, Follows
  <2>1. 2 \in 2 .. c /\ 1 \in 1 .. c - 1 /\ Queued'[1] = Q[2]
    BY <1>1, <1>4 DEF c
  <2>2. Q[2].gapped \/ Follows(Q[2], Q[1].chunk)
    BY <2>1 DEF QueueInv, GapsInsideFlagged, Q, c
  <2> QED
    BY <1>1, <2>1, <2>2
<1>11. NoFalseGap'
  <2> SUFFICES ASSUME dropped = 0
               PROVE  /\ \A i \in 2 .. c - 1 :
                           Queued'[i].gapped => ~Follows(Queued'[i], Queued'[i - 1].chunk)
                      /\ c - 1 > 0 /\ Queued'[1].gapped => ~Follows(Queued'[1], upTo')
                      /\ gapPending => produced > LastQueued
    BY <1>1, <1>2, <1>6 DEF NoFalseGap, c, Follows
  <2>1. /\ \A i \in 2 .. c : Q[i].gapped => ~Follows(Q[i], Q[i - 1].chunk)
        /\ gapPending => produced > LastQueued
    BY DEF QueueInv, NoFalseGap, Q, c
  <2>2. \A i \in 2 .. c - 1 :
          Queued'[i].gapped => ~Follows(Queued'[i], Queued'[i - 1].chunk)
    <3> TAKE i \in 2 .. c - 1
    <3>1. Queued'[i] = Q[i + 1] /\ Queued'[i - 1] = Q[i] /\ i + 1 \in 2 .. c
          /\ (i + 1) - 1 = i
      BY <1>4, <1>5
    <3>2. Q[i + 1].gapped => ~Follows(Q[i + 1], Q[(i + 1) - 1].chunk)
      BY <2>1, <3>1
    <3> QED
      BY <3>1, <3>2
  <2>3. c - 1 > 0 /\ Queued'[1].gapped => ~Follows(Queued'[1], upTo')
    <3> SUFFICES ASSUME c - 1 > 0 PROVE Queued'[1].gapped => ~Follows(Queued'[1], upTo')
      OBVIOUS
    <3>1. 2 \in 2 .. c /\ 1 \in 1 .. c - 1 /\ 2 - 1 = 1
      BY <1>1 DEF c
    <3>2. Queued'[1] = Q[2] /\ (Q[2].gapped => ~Follows(Q[2], Q[2 - 1].chunk))
      BY <1>4, <2>1, <3>1
    <3> QED
      BY <1>1, <3>1, <3>2
  <2> QED
    BY <2>1, <2>2, <2>3
<1> QED
  BY <1>7, <1>8, <1>9, <1>10, <1>11 DEF QueueInv

LEMMA LastQueuedType ==
  ASSUME TypeOK
  PROVE  LastQueued \in Int /\ produced \in Int /\ upTo \in Int /\ ringCount \in 0 .. RingSlots
<1>1. upTo \in Int /\ produced \in Int /\ ringCount \in 0 .. RingSlots
  BY DEF TypeOK, Numbers
<1>2. ringCount # 0 => ringCount \in 1 .. ringCount
  BY <1>1
<1>3. ringCount # 0 => Queued[ringCount] \in Entries
  BY <1>2, QueuedType
<1> QED
  BY <1>1, <1>3 DEF LastQueued, Entries, Numbers

LEMMA QueueDiscard ==
  ASSUME TypeOK, QueueInv, Discard
  PROVE  QueueInv'
<1>1. /\ ringCount' = 0 /\ gapPending' = TRUE /\ upTo' = upTo /\ dropped' = dropped
      /\ produced' = produced /\ cb' = cb /\ ringCount \in 1 .. ringCount
  BY DEF Discard, DropQueued, consumer, TypeOK
<1>2. LastQueued' = upTo
  BY <1>1 DEF LastQueued
<1>3. upTo < LastQueued
  BY <1>1 DEF QueueInv, Ordered, LastQueued
<1>4. LastQueued <= produced /\ (cb.at \in {"enqueue", "markGap"} => LastQueued < produced)
      /\ (cb.at = "enqueue" => cb.chunk = produced)
  BY DEF QueueInv, NeverAhead
<1>5. NeverAhead' /\ NoFalseGapAhead' /\ NoFalseGap' /\ GapsBehindFlagged'
  BY <1>1, <1>2, <1>3, <1>4, LastQueuedType
     DEF NeverAhead, NoFalseGapAhead, NoFalseGap, GapsBehindFlagged
<1>6. GapsInsideFlagged' /\ LossReportedWithinRing' /\ Ordered'
  BY <1>1 DEF GapsInsideFlagged, LossReportedWithinRing, Ordered
<1> QED
  BY <1>5, <1>6 DEF QueueInv

\* Marking a gap: at start(false), where the owner is alone, or for a lost chunk.
LEMMA QueueMarkGap ==
  ASSUME TypeOK, QueueInv, Lifecycle, StartMidStream \/ MarkGap
  PROVE  QueueInv'
<1>1. /\ UNCHANGED <<ring, ringWrite, ringCount, dropped, upTo>> /\ gapPending' = TRUE
      /\ cb'.at \notin {"enqueue", "markGap"}
  BY DEF StartMidStream, MarkGap, consumer, Lifecycle, Goto, At
<1>2. produced' \in Int /\ produced' > LastQueued
  <2>1. CASE StartMidStream
    BY <2>1 DEF StartMidStream, Lifecycle, LastQueued
  <2>2. CASE MarkGap
    BY <2>2, LastQueuedType DEF MarkGap, QueueInv, NeverAhead
  <2> QED
    BY <2>1, <2>2
<1>3. Queued' = Queued
  BY <1>1, QueuedSame
<1>4. LastQueued' = LastQueued
  BY <1>1, <1>3 DEF LastQueued
<1>5. GapsInsideFlagged' /\ GapsBehindFlagged' /\ LossReportedWithinRing' /\ Ordered'
  BY <1>1, <1>3 DEF QueueInv, GapsInsideFlagged, GapsBehindFlagged, LossReportedWithinRing,
                    Ordered, Follows
<1>6. NeverAhead' /\ NoFalseGap' /\ NoFalseGapAhead'
  BY <1>1, <1>2, <1>3, <1>4, LastQueuedType
     DEF QueueInv, NeverAhead, NoFalseGap, NoFalseGapAhead, Follows
<1> QED
  BY <1>5, <1>6 DEF QueueInv

\* A read that the device answers, with data or with a loss: produced moves on, the queue does not.
LEMMA QueueCompletion ==
  ASSUME TypeOK, QueueInv, Lifecycle, PoolCompleted \/ PoolFailed \/ ProbeFound
  PROVE  QueueInv'
<1>1. /\ UNCHANGED <<ring, ringWrite, ringCount, gapPending, dropped, upTo>>
      /\ owner' = owner /\ shuttingDown' = shuttingDown /\ cb.at = "idle"
      /\ produced' \in Int /\ produced' > produced
  <2>1. CASE PoolCompleted
    BY <2>1, LastQueuedType DEF PoolCompleted, Completing, consumer, queue
  <2>2. CASE PoolFailed
    BY <2>2, LastQueuedType DEF PoolFailed, Completing, consumer, queue
  <2>3. CASE ProbeFound
    BY <2>3, LastQueuedType DEF ProbeFound, Completing, consumer, queue
  <2> QED
    BY <2>1, <2>2, <2>3
<1>3. /\ cb'.at \in {"enqueue", "markGap"} \/ (shuttingDown /\ cb'.at \in {"submit", "discard"})
      /\ cb'.at = "enqueue" => /\ ~shuttingDown /\ cb'.chunk = produced'
                               /\ produced' # produced + 1 => cb'.gapped
                               /\ cb'.gapped => produced' > produced + 1
  BY LastQueuedType DEF PoolCompleted, PoolFailed, ProbeFound, At, EnqueueStep
<1>4. Queued' = Queued /\ LastQueued' = LastQueued
  BY <1>1, QueuedSame DEF LastQueued
<1>5. LastQueued <= produced
  BY DEF QueueInv, NeverAhead
<1>6. ~shuttingDown => gapPending \/ produced = LastQueued
  BY <1>1 DEF QueueInv, GapsBehindFlagged
<1>7. GapsBehindFlagged'
  BY <1>1, <1>3, <1>4, <1>6, LastQueuedType DEF GapsBehindFlagged
<1>8. GapsInsideFlagged' /\ LossReportedWithinRing' /\ Ordered'
  BY <1>1, <1>4 DEF QueueInv, GapsInsideFlagged, LossReportedWithinRing, Ordered, Follows
<1>9. NeverAhead'
  BY <1>1, <1>3, <1>4, <1>5, LastQueuedType DEF NeverAhead
<1>10. NoFalseGap'
  BY <1>1, <1>4, LastQueuedType DEF QueueInv, NoFalseGap, Follows
<1>11. NoFalseGapAhead'
  <2> SUFFICES ASSUME dropped' = 0, cb'.at = "enqueue", gapPending' \/ cb'.gapped
               PROVE  cb'.chunk > LastQueued' + 1
    BY DEF NoFalseGapAhead
  <2>1. CASE gapPending
    <3>1. produced > LastQueued
      BY <1>1, <2>1 DEF QueueInv, NoFalseGap
    <3> QED
      BY <1>1, <1>3, <1>4, <3>1, LastQueuedType
  <2>2. CASE cb'.gapped
    BY <1>1, <1>3, <1>4, <1>5, <2>2, LastQueuedType
  <2> QED
    BY <1>1, <2>1, <2>2
<1> QED
  BY <1>7, <1>8, <1>9, <1>10, <1>11 DEF QueueInv

\* A probe that misses moves the start of the stream, with nothing queued yet.
LEMMA QueueProbeMissed ==
  ASSUME TypeOK, QueueInv, ProbeFirst, ProbeMissed
  PROVE  QueueInv'
<1>1. /\ UNCHANGED <<ring, ringWrite, ringCount, gapPending, dropped>>
      /\ produced' \in Int /\ upTo' = produced'
      /\ cb'.at \notin {"enqueue", "markGap"}
  BY LastQueuedType DEF ProbeMissed, queue, At
<1>2. ringCount = 0 /\ ~gapPending
  <2>1. inflight \in Seq(Transfers) /\ inflight # << >> /\ inflight[1] = Probe
    BY DEF ProbeMissed, Completing, TypeOK
  <2>2. 1 \in DOMAIN inflight
    BY <2>1, EmptySeq, LenProperties
  <2> QED
    BY <2>1, <2>2 DEF ProbeFirst
<1>3. LastQueued' = produced'
  BY <1>1, <1>2 DEF LastQueued
<1> QED
  BY <1>1, <1>2, <1>3
     DEF QueueInv, GapsInsideFlagged, GapsBehindFlagged, LossReportedWithinRing, Ordered,
         NeverAhead, NoFalseGap, NoFalseGapAhead

LEMMA QueueEnqueue ==
  ASSUME TypeOK, QueueInv, Enqueue
  PROVE  QueueInv'
<1> DEFINE Q == Queued
           c == ringCount
           N == NewEntry
           F == c = RingSlots
           \* where an entry of the new queue was before
           old(k) == IF F THEN k + 1 ELSE k
<1>0. c \in 0 .. RingSlots /\ RingSlots \in Nat \ {0}
  BY QueuedEnqueue
<1>d. PICK d \in Nat \ {0} : d = ringCount' /\ d = IF F THEN c ELSE c + 1
  <2>1. (IF F THEN c ELSE c + 1) \in Nat \ {0}
    BY <1>0
  <2>2. ringCount' = IF F THEN c ELSE c + 1
    BY <1>0, QueuedEnqueue
  <2> QED
    BY <2>1, <2>2
<1>1. /\ d = IF F THEN c ELSE c + 1
      /\ Queued' = [i \in 1 .. d |-> IF i = d THEN N ELSE Q[old(i)]]
  BY <1>0, <1>d, QueuedEnqueue
<1>2. /\ cb.at = "enqueue" /\ cb'.at \notin {"enqueue", "markGap"} /\ gapPending' = FALSE
      /\ produced' = produced /\ upTo' = upTo
      /\ dropped' = IF F THEN dropped + 1 ELSE dropped
  BY DEF Enqueue, Store, Full, Goto, At, consumer
<1>3. /\ Q \in [1 .. c -> Entries] /\ LastQueued \in Int /\ produced \in Int /\ upTo \in Int
      /\ \A e \in Entries : e.chunk \in Int /\ e.gapped \in BOOLEAN
      /\ dropped \in Nat /\ gapPending \in BOOLEAN /\ cb.gapped \in BOOLEAN
  BY QueuedType, LastQueuedType DEF TypeOK, Entries, Numbers, Callbacks
<1>4. /\ N.chunk = produced /\ N.gapped = (F \/ gapPending \/ cb.gapped)
      /\ LastQueued < produced
  BY <1>2 DEF NewEntry, QueueInv, NeverAhead
<1>5. d \in 1 .. d /\ Queued'[d] = N /\ d \in 1 .. RingSlots
  BY <1>0, <1>1, <1>d
<1>6. \A i \in 1 .. d - 1 : i \in 1 .. d /\ Queued'[i] = Q[old(i)] /\ old(i) \in 1 .. c
  BY <1>0, <1>1, <1>d
<1>7. \A i \in 1 .. c : Q[i].chunk < produced /\ upTo < Q[i].chunk
  <2> TAKE i \in 1 .. c
  <2>1. c # 0 /\ c \in 1 .. c /\ LastQueued = Q[c].chunk
    BY <1>0 DEF LastQueued
  <2>2. Q[i].chunk <= Q[c].chunk
    BY <1>3, <2>1 DEF QueueInv, Ordered
  <2> QED
    BY <1>3, <1>4, <2>1, <2>2 DEF QueueInv, Ordered
<1>8. upTo < produced
  BY <1>0, <1>3, <1>4, <1>7 DEF LastQueued
<1>9. LastQueued' = produced
  BY <1>4, <1>5, <1>d DEF LastQueued
<1>11. Ordered'
  <2>1. ASSUME NEW i \in 1 .. d, NEW j \in 1 .. d, i < j
        PROVE  Queued'[i].chunk < Queued'[j].chunk
    <3>1. i \in 1 .. d - 1
      BY <1>d, <2>1
    <3>2. CASE j = d
      BY <1>4, <1>5, <1>6, <1>7, <3>1, <3>2
    <3>3. CASE j # d
      <4>1. j \in 1 .. d - 1 /\ old(i) < old(j)
        BY <1>d, <2>1, <3>3
      <4> QED
        BY <1>6, <3>1, <4>1 DEF QueueInv, Ordered
    <3> QED
      BY <3>2, <3>3
  <2>2. ASSUME NEW i \in 1 .. d
        PROVE  upTo < Queued'[i].chunk
    <3>1. CASE i = d
      BY <1>4, <1>5, <1>8, <3>1
    <3>2. CASE i # d
      <4>1. i \in 1 .. d - 1
        BY <1>d, <3>2
      <4> QED
        BY <1>6, <1>7, <4>1
    <3> QED
      BY <3>1, <3>2
  <2> QED
    BY <1>2, <1>d, <2>1, <2>2 DEF Ordered
<1>12. \A i \in 2 .. d - 1 : /\ i \in 1 .. d - 1 /\ i - 1 \in 1 .. d - 1
                             /\ old(i) \in 2 .. c /\ old(i - 1) = old(i) - 1
  BY <1>0, <1>1, <1>d
<1>13. N.gapped \/ produced = LastQueued + 1
  BY <1>2, <1>4 DEF QueueInv, GapsBehindFlagged, NeverAhead
<1>14. d # 1 => d - 1 \in 1 .. d - 1 /\ Queued'[d - 1] = Q[c] /\ LastQueued = Q[c].chunk
  <2> SUFFICES ASSUME d # 1
               PROVE  d - 1 \in 1 .. d - 1 /\ Queued'[d - 1] = Q[c] /\ LastQueued = Q[c].chunk
    OBVIOUS
  <2>1. d - 1 \in 1 .. d - 1 /\ old(d - 1) = c /\ c # 0
    BY <1>0, <1>1, <1>d
  <2> QED
    BY <1>6, <2>1 DEF LastQueued
<1>15. GapsInsideFlagged'
  <2> SUFFICES ASSUME NEW i \in 2 .. d
               PROVE  Queued'[i].gapped \/ Queued'[i].chunk = Queued'[i - 1].chunk + 1
    BY <1>d DEF GapsInsideFlagged, Follows
  <2>1. CASE i = d
    <3>1. d # 1 /\ i - 1 = d - 1
      BY <1>d, <2>1
    <3>2. Queued'[i] = N /\ Queued'[i - 1].chunk = LastQueued
      BY <1>5, <1>14, <2>1, <3>1
    <3> QED
      BY <1>4, <1>13, <3>2
  <2>2. CASE i # d
    <3>1. i \in 2 .. d - 1
      BY <1>d, <2>2
    <3> QED
      BY <1>6, <1>12, <3>1 DEF QueueInv, GapsInsideFlagged, Follows
  <2> QED
    BY <2>1, <2>2
<1>16. GapsBehindFlagged' /\ NeverAhead' /\ NoFalseGapAhead'
  BY <1>2, <1>3, <1>9 DEF GapsBehindFlagged, NeverAhead, NoFalseGapAhead
<1>17. LossReportedWithinRing'
  <2> SUFFICES ASSUME Queued'[1].chunk # upTo + 1
               PROVE  \E i \in 1 .. d : Queued'[i].gapped
    BY <1>2, <1>d DEF LossReportedWithinRing, Follows
  <2>1. CASE N.gapped
    BY <1>5, <2>1
  <2>2. CASE ~N.gapped
    <3>1. ~F /\ ~gapPending /\ d = c + 1 /\ \A i \in 1 .. d - 1 : Queued'[i] = Q[i]
      BY <1>1, <1>4, <1>6, <2>2
    <3>2. c > 0
      <4> SUFFICES ASSUME c = 0 PROVE FALSE
        BY <1>0
      <4>1. LastQueued = upTo /\ d = 1
        BY <1>0, <3>1 DEF LastQueued
      <4> QED
        BY <1>4, <1>5, <1>13, <2>2, <4>1
    <3>3. 1 \in 1 .. d - 1 /\ Queued'[1] = Q[1]
      BY <1>0, <3>1, <3>2
    <3>4. PICK i \in 1 .. c : Q[i].gapped
      BY <3>1, <3>2, <3>3 DEF QueueInv, LossReportedWithinRing, Follows
    <3>5. i \in 1 .. d - 1 /\ i \in 1 .. d
      BY <1>0, <3>1
    <3> QED
      BY <3>1, <3>4, <3>5
  <2> QED
    BY <2>1, <2>2
<1>18. NoFalseGap'
  <2> SUFFICES ASSUME dropped' = 0
               PROVE  /\ \A i \in 2 .. d :
                           Queued'[i].gapped => Queued'[i].chunk # Queued'[i - 1].chunk + 1
                      /\ Queued'[1].gapped => Queued'[1].chunk # upTo + 1
    BY <1>2, <1>d DEF NoFalseGap, Follows
  <2>1. ~F /\ dropped = 0 /\ d = c + 1
    BY <1>1, <1>2, <1>3
  <2>2. N.gapped => produced > LastQueued + 1
    BY <1>2, <1>4, <2>1 DEF QueueInv, NoFalseGapAhead, NeverAhead
  <2>3. ASSUME NEW i \in 2 .. d, Queued'[i].gapped
        PROVE  Queued'[i].chunk # Queued'[i - 1].chunk + 1
    <3>1. CASE i = d
      <4>1. d # 1 /\ i - 1 = d - 1
        BY <1>d, <3>1
      <4>2. Queued'[i] = N /\ Queued'[i - 1].chunk = LastQueued
        BY <1>5, <1>14, <3>1, <4>1
      <4> QED
        BY <1>3, <1>4, <2>2, <2>3, <4>2
    <3>2. CASE i # d
      <4>1. i \in 2 .. d - 1
        BY <1>d, <3>2
      <4> QED
        BY <1>6, <1>12, <2>1, <2>3, <4>1 DEF QueueInv, NoFalseGap, Follows
    <3> QED
      BY <3>1, <3>2
  <2>4. ASSUME Queued'[1].gapped
        PROVE  Queued'[1].chunk # upTo + 1
    <3>1. CASE d = 1
      <4>1. LastQueued = upTo
        BY <1>0, <2>1, <3>1 DEF LastQueued
      <4> QED
        BY <1>3, <1>4, <1>5, <2>2, <2>4, <3>1, <4>1
    <3>2. CASE d # 1
      <4>1. 1 \in 1 .. d - 1 /\ c > 0 /\ old(1) = 1
        BY <1>d, <2>1, <3>2
      <4> QED
        BY <1>6, <2>1, <2>4, <4>1 DEF QueueInv, NoFalseGap, Follows
    <3> QED
      BY <3>1, <3>2
  <2> QED
    BY <2>3, <2>4
<1> QED
  BY <1>11, <1>15, <1>16, <1>17, <1>18 DEF QueueInv

(***************************************************************************)
(* Transfers: the kernel's part of the inductive invariant.                *)
(***************************************************************************)

LEMMA KernelInit == Init => KernelInv
<1> SUFFICES ASSUME Init PROVE KernelInv
  OBVIOUS
<1>1. inflight = << >> /\ transfers = {} /\ cb.at = "idle" /\ DOMAIN inflight = {}
  BY DEF Init, Idle
<1> QED
  BY <1>1 DEF Init, KernelInv, TransfersTracked, BuffersExclusive, ProbeFirst, Lifecycle

\* What holds of two transfers in flight: they differ, and the probe is alone.
LEMMA InflightDistinct ==
  ASSUME TypeOK, KernelInv
  PROVE  /\ \A i, j \in DOMAIN inflight : i # j => inflight[i] # inflight[j]
         /\ cb.at \notin {"idle", "queueAll"} =>
              \A i \in DOMAIN inflight : inflight[i] # cb.transfer
  BY DEF KernelInv, BuffersExclusive, Region

\* A completion takes its transfer from the kernel's list and has it in hand.
LEMMA KernelCompletion ==
  ASSUME TypeOK, KernelInv, Completion
  PROVE  KernelInv'
<1>1. PICK t \in Transfers :
        /\ Completing(t)
        /\ cb'.transfer = t
        /\ cb'.at \in {"enqueue", "markGap", "submit", "discard"}
        /\ cb'.at = "markGap" => t # Probe
        /\ cb'.at = "discard" /\ cb'.chunk # 0 => t = Probe
        /\ UNCHANGED <<owner, shuttingDown, transfers, ringCount, gapPending>>
  <2> USE DEF At, EnqueueStep, consumer, queue
  <2>1. CASE PoolCompleted
    BY <2>1 DEF PoolCompleted, Transfers, Pool, Probe
  <2>2. CASE PoolEmpty
    BY <2>2 DEF PoolEmpty, Transfers, Pool, Probe
  <2>3. CASE PoolFailed
    BY <2>3 DEF PoolFailed, Transfers, Pool, Probe
  <2>4. CASE ProbeFound
    BY <2>4 DEF ProbeFound, Transfers
  <2>5. CASE ProbeMissed
    <3>1. cb'.at \in {"submit", "discard"} /\ cb'.transfer = Probe /\ cb'.chunk = 0
      BY <2>5 DEF ProbeMissed
    <3> QED
      BY <2>5, <3>1 DEF ProbeMissed, Transfers
  <2>6. CASE Cancelled
    BY <2>6 DEF Cancelled
  <2>7. CASE Disconnected
    BY <2>7 DEF Disconnected
  <2> QED
    BY <2>1, <2>2, <2>3, <2>4, <2>5, <2>6, <2>7 DEF Completion
<1> DEFINE n == Len(inflight)
<1>2. /\ cb.at = "idle" /\ n \in Nat \ {0} /\ DOMAIN inflight = 1 .. n
      /\ inflight[1] = t
      /\ inflight' = Tail(inflight) /\ inflight' \in Seq(Transfers)
      /\ Len(inflight') = n - 1 /\ DOMAIN inflight' = 1 .. n - 1
      /\ \A i \in 1 .. n - 1 : inflight'[i] = inflight[i + 1]
  BY <1>1, HeadTailProperties, LenProperties, EmptySeq DEF Completing, TypeOK
<1>3. \A i \in 1 .. n - 1 : i + 1 \in 1 .. n /\ i + 1 # 1
  BY <1>2
<1>4. TransfersTracked'
  <2>1. transfers = { inflight[i] : i \in 1 .. n }
    BY <1>2 DEF KernelInv, TransfersTracked
  <2>2. { inflight[i] : i \in 1 .. n } = { inflight'[i] : i \in 1 .. n - 1 } \cup {t}
    <3>1. ASSUME NEW i \in 1 .. n, i # 1
          PROVE  i - 1 \in 1 .. n - 1 /\ inflight[i] = inflight'[i - 1]
      BY <1>2, <3>1
    <3>2. \A i \in 1 .. n - 1 : inflight'[i] \in { inflight[k] : k \in 1 .. n }
      BY <1>2, <1>3
    <3>3. t \in { inflight[i] : i \in 1 .. n } /\ 1 \in 1 .. n
      BY <1>2
    <3>4. \A i \in 1 .. n : inflight[i] \in { inflight'[k] : k \in 1 .. n - 1 } \cup {t}
      BY <1>2, <3>1
    <3> QED
      BY <3>2, <3>3, <3>4
  <2> QED
    BY <1>1, <1>2, <2>1, <2>2 DEF TransfersTracked
<1>5. \A i, j \in 1 .. n : i # j => Region(inflight[i]) # Region(inflight[j])
  BY <1>2 DEF KernelInv, BuffersExclusive
<1>6. BuffersExclusive'
  <2>1. ASSUME NEW i \in 1 .. n - 1, NEW j \in 1 .. n - 1, i # j
        PROVE  Region(inflight'[i]) # Region(inflight'[j])
    <3>1. i + 1 \in 1 .. n /\ j + 1 \in 1 .. n /\ i + 1 # j + 1
      BY <1>2, <2>1
    <3> QED
      BY <1>2, <1>5, <3>1
  <2>2. ASSUME NEW i \in 1 .. n - 1
        PROVE  Region(inflight'[i]) # Region(t)
    <3>1. i + 1 \in 1 .. n /\ 1 \in 1 .. n /\ i + 1 # 1
      BY <1>2, <2>2
    <3> QED
      BY <1>2, <1>5, <3>1
  <2> QED
    BY <1>1, <1>2, <2>1, <2>2 DEF BuffersExclusive, Region
<1>7. /\ \A i \in 1 .. n : inflight[i] = Probe => n = 1 /\ ringCount = 0 /\ ~gapPending
  BY <1>2 DEF KernelInv, ProbeFirst
<1>8. ProbeFirst'
  <2>1. \A i \in 1 .. n - 1 : inflight'[i] # Probe
    BY <1>2, <1>3, <1>7
  <2>2. t = Probe => n = 1 /\ ringCount = 0 /\ ~gapPending
    BY <1>2, <1>7
  <2>3. t = Probe => inflight' = << >>
    BY <1>2, <2>2, EmptySeq
  <2> QED
    BY <1>1, <1>2, <2>1, <2>2, <2>3 DEF ProbeFirst
<1>9. Lifecycle'
  BY <1>1, <1>2 DEF KernelInv, Lifecycle, Completing
<1> QED
  BY <1>4, <1>6, <1>8, <1>9 DEF KernelInv

\* What submitting the pool gives, when nothing is in flight.
LEMMA PoolSubmitted ==
  ASSUME TypeOK, inflight = << >>, transfers = {}, SubmitPool
  PROVE  /\ transfers' = { inflight'[i] : i \in DOMAIN inflight' }
         /\ \A i \in DOMAIN inflight' : inflight'[i] \in Pool
         /\ \A i, j \in DOMAIN inflight' : i # j => inflight'[i] # inflight'[j]
         /\ shuttingDown => inflight' = << >>
<1>1. CASE shuttingDown
  BY <1>1 DEF SubmitPool, kernel
<1>2. CASE ~shuttingDown
  <2>1. PICK q \in PoolSubmissions :
          inflight' = inflight \o q /\ transfers' = transfers \cup { q[i] : i \in DOMAIN q }
    BY <1>2 DEF SubmitPool
  <2>2. inflight' = q
    BY <2>1, SubmissionIsSeq, ConcatEmptySeq
  <2>3. PICK m \in 0 .. PoolSize :
          q \in [1 .. m -> Pool] /\ \A i, j \in DOMAIN q : i < j => q[i] < q[j]
    BY DEF PoolSubmissions
  <2>4. \A i, j \in 1 .. m : i # j => q[i] # q[j]
    BY <2>3 DEF Pool
  <2> QED
    BY <1>2, <2>1, <2>2, <2>3, <2>4
<1> QED
  BY <1>1, <1>2

\* A pool submitted with no callback left in hand satisfies KernelInv.
LEMMA KernelPoolSubmitted ==
  ASSUME TypeOK, inflight = << >>, transfers = {}, SubmitPool, cb' = Idle, Lifecycle',
         shuttingDown' = shuttingDown
  PROVE  KernelInv'
<1>1. TransfersTracked'
  BY PoolSubmitted DEF TransfersTracked, Idle
<1>2. BuffersExclusive'
  BY PoolSubmitted DEF BuffersExclusive, Idle, Region, Pool, Probe
<1>3. ProbeFirst'
  BY PoolSubmitted DEF ProbeFirst, Idle, Pool, Probe
<1> QED
  BY <1>1, <1>2, <1>3 DEF KernelInv

LEMMA KernelSubmit ==
  ASSUME TypeOK, KernelInv, Submit
  PROVE  KernelInv'
<1> DEFINE t == cb.transfer
           n == Len(inflight)
<1>1. /\ cb.at = "submit" /\ t \in Transfers /\ cb' = Idle
      /\ UNCHANGED <<owner, shuttingDown, ringCount, gapPending, upTo, produced>>
      /\ n \in Nat /\ DOMAIN inflight = 1 .. n
  BY LenProperties DEF Submit, Resubmit, consumer, queue, TypeOK, Callbacks
<1>2. Lifecycle'
  BY <1>1 DEF KernelInv, Lifecycle, Submit, Resubmit
<1>3. \A i \in 1 .. n : inflight[i] # t
  BY <1>1, InflightDistinct
<1>4. transfers = { inflight[i] : i \in 1 .. n } \cup {t}
  BY <1>1 DEF KernelInv, TransfersTracked
<1>5. CASE inflight' = inflight /\ transfers' = transfers \ {t}
  <2>1. TransfersTracked'
    BY <1>1, <1>3, <1>4, <1>5 DEF TransfersTracked, Idle
  <2>2. BuffersExclusive' /\ ProbeFirst'
    BY <1>1, <1>5 DEF KernelInv, BuffersExclusive, ProbeFirst, Idle
  <2> QED
    BY <1>2, <2>1, <2>2 DEF KernelInv
<1>6. CASE inflight' = Append(inflight, t) /\ transfers' = transfers
  <2>1. /\ DOMAIN inflight' = 1 .. n + 1 /\ Len(inflight') = n + 1
        /\ \A i \in 1 .. n : inflight'[i] = inflight[i]
        /\ inflight'[n + 1] = t
    BY <1>1, <1>6 DEF TypeOK
  <2>2. \A i \in 1 .. n + 1 : i \in 1 .. n \/ i = n + 1
    BY <1>1
  <2>3. TransfersTracked'
    <3>1. { inflight'[i] : i \in 1 .. n + 1 } = { inflight[i] : i \in 1 .. n } \cup {t}
      BY <1>1, <2>1, <2>2
    <3> QED
      BY <1>1, <1>4, <1>6, <2>1, <3>1 DEF TransfersTracked, Idle
  <2>4. BuffersExclusive'
    <3>1. \A i, j \in 1 .. n : i # j => Region(inflight[i]) # Region(inflight[j])
      BY <1>1 DEF KernelInv, BuffersExclusive
    <3>2. \A i \in 1 .. n : Region(inflight[i]) # Region(t)
      BY <1>1 DEF KernelInv, BuffersExclusive
    <3> QED
      BY <1>1, <2>1, <2>2, <3>1, <3>2 DEF BuffersExclusive, Idle
  <2>5. ProbeFirst'
    <3>1. t = Probe => n = 0 /\ ringCount = 0 /\ ~gapPending
      BY <1>1 DEF KernelInv, ProbeFirst
    <3>2. \A i \in 1 .. n : inflight[i] # Probe
      BY <1>1 DEF KernelInv, ProbeFirst
    <3> QED
      BY <1>1, <2>1, <2>2, <3>1, <3>2 DEF ProbeFirst, Idle
  <2> QED
    BY <1>2, <2>3, <2>4, <2>5 DEF KernelInv
<1> QED
  BY <1>5, <1>6 DEF Submit, Resubmit

LEMMA KernelDiscard ==
  ASSUME TypeOK, KernelInv, DiscardTransfer
  PROVE  KernelInv'
<1> DEFINE t == cb.transfer
<1>1. /\ cb.at = "discard" /\ transfers' = transfers \ {t}
      /\ UNCHANGED <<owner, shuttingDown, inflight, ringCount, gapPending, upTo, produced>>
      /\ \/ cb'.at = "queueAll" /\ cb'.transfer = t /\ cb.chunk # 0
         \/ cb' = Idle
  BY DEF DiscardTransfer, consumer, queue, Goto, At
<1>2. Lifecycle'
  BY <1>1 DEF KernelInv, Lifecycle
<1>3. \A i \in DOMAIN inflight : inflight[i] # t
  BY <1>1, InflightDistinct
<1>4. TransfersTracked'
  BY <1>1, <1>3 DEF KernelInv, TransfersTracked, Idle
<1>5. BuffersExclusive'
  BY <1>1 DEF KernelInv, BuffersExclusive, Idle
<1>6. ProbeFirst'
  BY <1>1 DEF KernelInv, ProbeFirst, Idle
<1> QED
  BY <1>2, <1>4, <1>5, <1>6 DEF KernelInv

LEMMA KernelCallback ==
  ASSUME TypeOK, KernelInv, Callback
  PROVE  KernelInv'
<1>1. CASE Enqueue \/ MarkGap
  <2>1. /\ UNCHANGED <<owner, shuttingDown, inflight, transfers, upTo, produced>>
        /\ cb.at \in {"enqueue", "markGap"} /\ cb'.transfer = cb.transfer /\ cb'.chunk = cb.chunk
        /\ cb'.at = IF cb.transfer = Probe THEN "discard" ELSE "submit"
    BY <1>1 DEF Enqueue, Store, Full, MarkGap, consumer, kernel, Goto, At, KernelInv, ProbeFirst
  <2>2. TransfersTracked' /\ BuffersExclusive'
    BY <2>1 DEF KernelInv, TransfersTracked, BuffersExclusive
  <2>3. Lifecycle'
    BY <2>1 DEF KernelInv, Lifecycle
  <2>4. ProbeFirst'
    BY <2>1 DEF KernelInv, ProbeFirst
  <2> QED
    BY <2>2, <2>3, <2>4 DEF KernelInv
<1>2. CASE Submit
  BY <1>2, KernelSubmit
<1>3. CASE DiscardTransfer
  BY <1>3, KernelDiscard
<1>4. CASE QueueAllFrameReads
  <2>1. /\ cb.at = "queueAll" /\ cb' = Idle /\ SubmitPool
        /\ UNCHANGED <<owner, shuttingDown, ringCount, gapPending, upTo, produced>>
    BY <1>4 DEF QueueAllFrameReads, consumer, queue
  <2>2. inflight = << >> /\ DOMAIN inflight = {}
    BY <2>1 DEF KernelInv, ProbeFirst
  <2>3. transfers = {}
    BY <2>1, <2>2 DEF KernelInv, TransfersTracked
  <2>4. Lifecycle'
    BY <2>1, <2>2 DEF KernelInv, Lifecycle
  <2> QED
    BY <2>1, <2>2, <2>3, <2>4, KernelPoolSubmitted
<1> QED
  BY <1>1, <1>2, <1>3, <1>4 DEF Callback

\* The owner's steps and an unplugged card leave the transfers alone once start() is over.
LEMMA KernelOwner ==
  ASSUME TypeOK, KernelInv, Owner \/ Unplug \/ UNCHANGED vars
  PROVE  KernelInv'
<1>1. CASE StartAligned
  <2>1. /\ owner = "new" /\ cb.at = "idle" /\ inflight = << >> /\ ~shuttingDown
        /\ ringCount = 0 /\ ~gapPending /\ owner' = "running"
        /\ UNCHANGED <<cb, shuttingDown, ringCount, gapPending>>
    BY <1>1 DEF StartAligned, KernelInv, Lifecycle, queue
  <2>2. transfers = {}
    BY <2>1 DEF KernelInv, TransfersTracked
  <2>3. CASE inflight' = <<Probe>> /\ transfers' = {Probe}
    <3>1. DOMAIN <<Probe>> = {1} /\ Len(<<Probe>>) = 1 /\ <<Probe>>[1] = Probe
      OBVIOUS
    <3> QED
      BY <2>1, <2>3, <3>1
         DEF KernelInv, TransfersTracked, BuffersExclusive, ProbeFirst, Lifecycle
  <2>4. CASE inflight' = inflight /\ transfers' = transfers
    BY <2>1, <2>4 DEF KernelInv, TransfersTracked, BuffersExclusive, ProbeFirst, Lifecycle
  <2> QED
    BY <1>1, <2>3, <2>4 DEF StartAligned, kernel
<1>2. CASE StartReads
  <2>1. /\ owner = "starting" /\ cb.at = "idle" /\ inflight = << >> /\ DOMAIN inflight = {}
        /\ SubmitPool /\ owner' = "running"
        /\ UNCHANGED <<cb, shuttingDown, ringCount, gapPending>>
    BY <1>2 DEF StartReads, KernelInv, Lifecycle, queue
  <2>2. transfers = {}
    BY <2>1 DEF KernelInv, TransfersTracked
  <2>3. TransfersTracked' /\ BuffersExclusive' /\ ProbeFirst'
    BY <2>1, <2>2, PoolSubmitted
       DEF TransfersTracked, BuffersExclusive, ProbeFirst, Region, Pool, Probe
  <2>4. Lifecycle'
    BY <2>1 DEF Lifecycle
  <2> QED
    BY <2>3, <2>4 DEF KernelInv
<1>3. CASE StartMidStream
  <2>1. /\ owner = "new" /\ cb.at = "idle" /\ inflight = << >> /\ DOMAIN inflight = {}
        /\ owner' = "starting" /\ UNCHANGED <<cb, shuttingDown, inflight, transfers>>
        /\ ~shuttingDown
    BY <1>3 DEF StartMidStream, KernelInv, Lifecycle, kernel
  <2> QED
    BY <2>1 DEF KernelInv, TransfersTracked, BuffersExclusive, ProbeFirst, Lifecycle
<1>4. CASE Deliver \/ Discard
  <2>1. /\ UNCHANGED <<cb, shuttingDown, inflight, transfers, produced>>
        /\ owner \in {"running", "delivering"} /\ owner' \in {"running", "delivering"}
        /\ ringCount # 0
    BY <1>4 DEF Deliver, Discard, DropQueued, kernel, consumer, TypeOK
  <2> QED
    BY <2>1 DEF KernelInv, TransfersTracked, BuffersExclusive, ProbeFirst, Lifecycle
<1>5. CASE DeliverDone \/ Stop \/ StopReturns \/ StopTimesOut \/ Destroy \/ Unplug
           \/ UNCHANGED vars
  <2>1. /\ UNCHANGED <<cb, inflight, transfers, ringCount, gapPending, upTo, produced>>
        /\ shuttingDown => shuttingDown'
        /\ \/ owner' = owner /\ shuttingDown' = shuttingDown
           \/ owner' \in {"running", "stopping", "stopped", "gaveUp", "gone"}
        /\ owner' \in {"stopping", "stopped", "gaveUp", "gone"} => shuttingDown'
    BY <1>5 DEF DeliverDone, Stop, StopReturns, Stopped, StopTimesOut, Destroy, Unplug, vars,
        kernel, queue, consumer, KernelInv, Lifecycle
  <2> QED
    BY <2>1 DEF KernelInv, TransfersTracked, BuffersExclusive, ProbeFirst, Lifecycle
<1> QED
  BY <1>1, <1>2, <1>3, <1>4, <1>5 DEF Owner

(***************************************************************************)
(* The invariant, and what follows from it.                                *)
(***************************************************************************)

LEMMA QueueStep ==
  ASSUME TypeOK, KernelInv, QueueInv, [Next]_vars
  PROVE  QueueInv'
<1>0. Lifecycle /\ ProbeFirst
  BY DEF KernelInv
<1>1. CASE Owner
  <2>1. CASE StartAligned
    BY <2>1, QueueFrame DEF StartAligned, queue
  <2>2. CASE StartMidStream
    BY <1>0, <2>2, QueueMarkGap
  <2>3. CASE Deliver
    BY <2>3, QueueDeliver
  <2>4. CASE Discard
    BY <2>4, QueueDiscard
  <2>5. CASE StartReads \/ DeliverDone \/ Stop \/ StopReturns \/ StopTimesOut \/ Destroy
    <3>1. UNCHANGED <<queue, upTo, produced, cb>> /\ (shuttingDown => shuttingDown')
      BY <2>5 DEF StartReads, DeliverDone, Stop, StopReturns, Stopped, StopTimesOut, Destroy
    <3> QED
      BY <3>1, QueueFrame
  <2> QED
    BY <1>1, <2>1, <2>2, <2>3, <2>4, <2>5 DEF Owner
<1>2. CASE Completion
  <2>1. CASE PoolCompleted \/ PoolFailed \/ ProbeFound
    BY <1>0, <2>1, QueueCompletion
  <2>2. CASE ProbeMissed
    BY <1>0, <2>2, QueueProbeMissed
  <2>3. CASE PoolEmpty \/ Cancelled \/ Disconnected
    <3>1. /\ UNCHANGED <<queue, upTo, produced, owner, shuttingDown>>
          /\ cb.at = "idle" /\ cb'.at \in {"submit", "discard"}
      BY <2>3 DEF PoolEmpty, Cancelled, Disconnected, Completing, At, consumer
    <3> QED
      BY <3>1, QueueFrame
  <2> QED
    BY <1>2, <2>1, <2>2, <2>3 DEF Completion
<1>3. CASE Callback
  <2>1. CASE Enqueue
    BY <2>1, QueueEnqueue
  <2>2. CASE MarkGap
    BY <1>0, <2>2, QueueMarkGap
  <2>3. CASE Submit \/ DiscardTransfer \/ QueueAllFrameReads
    <3>1. /\ UNCHANGED <<queue, upTo, produced, owner, shuttingDown>>
          /\ cb.at \in {"submit", "discard", "queueAll"} /\ cb'.at \in {"idle", "queueAll"}
      BY <2>3 DEF Submit, Resubmit, DiscardTransfer, QueueAllFrameReads, Goto, At, Idle, consumer
    <3> QED
      BY <3>1, QueueFrame
  <2> QED
    BY <1>3, <2>1, <2>2, <2>3 DEF Callback
<1>4. CASE Unplug \/ UNCHANGED vars
  <2>1. UNCHANGED <<queue, upTo, produced, owner, shuttingDown, cb>>
    BY <1>4 DEF Unplug, vars, consumer, queue
  <2> QED
    BY <2>1, QueueFrame
<1> QED
  BY <1>1, <1>2, <1>3, <1>4 DEF Next

\* The inductive invariant holds in every reachable state, for every ring and pool size.
THEOREM Invariance == Spec => []IndInv
<1>1. Init => IndInv
  BY TypeInit, KernelInit, QueueInit DEF IndInv
<1>2. IndInv /\ [Next]_vars => IndInv'
  <2> SUFFICES ASSUME IndInv, [Next]_vars PROVE IndInv'
    OBVIOUS
  <2>1. TypeOK /\ KernelInv /\ QueueInv
    BY DEF IndInv
  <2>2. TypeOK'
    BY <2>1, TypeStep
  <2>3. KernelInv'
    BY <2>1, KernelCompletion, KernelCallback, KernelOwner DEF Next
  <2>4. QueueInv'
    BY <2>1, QueueStep
  <2> QED
    BY <2>2, <2>3, <2>4 DEF IndInv
<1> QED
  BY <1>1, <1>2, PTL DEF Spec

\* Nothing is lost without a report: inside the ring a loss is flagged on the chunk behind it,
\* behind the ring it is pending, and at the head of the ring (an overwritten slot) it is flagged
\* at most one ring later.
THEOREM GapsReported ==
  Spec => [](GapsInsideFlagged /\ GapsBehindFlagged /\ LossReportedWithinRing)
<1>1. IndInv => GapsInsideFlagged /\ GapsBehindFlagged /\ LossReportedWithinRing
  BY DEF IndInv, QueueInv
<1> QED
  BY <1>1, Invariance, PTL

\* A gap is flagged for a real loss only, as long as no slot has been overwritten.
THEOREM GapsReal == Spec => []NoFalseGap
<1>1. IndInv => NoFalseGap
  BY DEF IndInv, QueueInv
<1> QED
  BY <1>1, Invariance, PTL

\* Chunks are delivered in the device's order, none twice.
THEOREM ChunksOrdered == Spec => []Ordered
<1>1. IndInv => Ordered
  BY DEF IndInv, QueueInv
<1> QED
  BY <1>1, Invariance, PTL

\* No two transfers share a buffer region, and none reads into the region being copied from.
THEOREM ExclusiveBuffers == Spec => []BuffersExclusive
<1>1. IndInv => BuffersExclusive
  BY DEF IndInv, KernelInv
<1> QED
  BY <1>1, Invariance, PTL

\* Once stop() has returned without a time-out, the kernel holds no buffer of the stream, then or
\* later: what StopReturns waits for is every transfer, and nothing is submitted afterwards.
THEOREM StopIsFinal == Spec => [](IndInv /\ StopLeavesNothingInFlight)
<1>1. Init => StopLeavesNothingInFlight
  BY DEF Init, StopLeavesNothingInFlight
<1>2. IndInv /\ StopLeavesNothingInFlight /\ [Next]_vars => StopLeavesNothingInFlight'
  <2> SUFFICES ASSUME IndInv, StopLeavesNothingInFlight, [Next]_vars, owner' = "stopped"
               PROVE  inflight' = << >>
    BY DEF StopLeavesNothingInFlight
  <2>1. TransfersTracked /\ ProbeFirst /\ Lifecycle /\ inflight \in Seq(Transfers)
    BY DEF IndInv, KernelInv, TypeOK
  <2>2. CASE StopReturns
    <3>1. inflight' = inflight /\ transfers = {}
      BY <2>2 DEF StopReturns, Stopped, kernel
    <3>2. \A i \in DOMAIN inflight : FALSE
      BY <2>1, <3>1 DEF TransfersTracked
    <3>3. inflight # << >> => 1 \in DOMAIN inflight
      BY <2>1, LenProperties, EmptySeq
    <3> QED
      BY <3>1, <3>2, <3>3
  <2>3. CASE owner = "stopped"
    <3>1. shuttingDown /\ inflight = << >>
      BY <2>1, <2>3 DEF Lifecycle, StopLeavesNothingInFlight
    <3>2. inflight' = inflight \/ SubmitPool \/ Completion \/ Submit
      BY <2>3 DEF Next, Owner, Callback, StartAligned, StartMidStream, StartReads, Deliver,
          DeliverDone, Discard, DropQueued, Stop, StopReturns, Stopped, StopTimesOut, Destroy,
          Enqueue, Store, Full, MarkGap, DiscardTransfer, QueueAllFrameReads, Unplug, vars,
          kernel
    <3>3. ~Completion
      BY <3>1 DEF Completion, PoolCompleted, PoolEmpty, PoolFailed, ProbeFound, ProbeMissed,
                  Cancelled, Disconnected, Completing
    <3>4. SubmitPool \/ Submit => inflight' = inflight
      BY <3>1 DEF SubmitPool, Submit, Resubmit, kernel
    <3> QED
      BY <3>1, <3>2, <3>3, <3>4
  <2>4. StopReturns \/ owner = "stopped"
    BY DEF Next, Owner, Completion, Callback, StartAligned, StartMidStream, StartReads, Deliver,
        DeliverDone, Discard, DropQueued, Stop, StopReturns, Stopped, StopTimesOut, Destroy,
        PoolCompleted, PoolEmpty, PoolFailed, ProbeFound, ProbeMissed, Cancelled, Disconnected,
        Enqueue, Store, Full, MarkGap, Submit, Resubmit, DiscardTransfer, QueueAllFrameReads,
        Unplug, vars, consumer
  <2> QED
    BY <2>2, <2>3, <2>4
<1> QED
  BY <1>1, <1>2, Invariance, PTL DEF Spec

\* From stop() on no step puts a transfer into the kernel's hands, whichever callback is in
\* progress (CaptureStream.h 81-82): every submission looks at _shuttingDown under the lock that
\* stop() sets it under.
THEOREM NothingSubmittedAfterStop == Spec => NoSubmitAfterStop
<1>1. IndInv /\ [Next]_vars => [shuttingDown => Len(inflight') <= Len(inflight)]_vars
  <2> SUFFICES ASSUME IndInv, Next, shuttingDown
               PROVE  Len(inflight') <= Len(inflight)
    BY DEF vars
  <2>1. inflight \in Seq(Transfers) /\ Lifecycle
    BY DEF IndInv, KernelInv, TypeOK
  <2>2. Len(inflight) \in Nat
    BY <2>1, LenProperties
  <2>3. CASE Completion
    <3>1. inflight # << >> /\ inflight' = Tail(inflight)
      BY <2>3 DEF Completion, PoolCompleted, PoolEmpty, PoolFailed, ProbeFound, ProbeMissed,
                  Cancelled, Disconnected, Completing
    <3>2. Len(inflight') = Len(inflight) - 1
      BY <2>1, <3>1, HeadTailProperties
    <3> QED
      BY <2>2, <3>2
  <2>4. CASE Owner \/ Callback \/ Unplug
    <3>1. inflight' = inflight \/ SubmitPool \/ Submit
      BY <2>1, <2>4 DEF Owner, Callback, StartAligned, StartMidStream, StartReads, Deliver,
          DeliverDone, Discard, DropQueued, Stop, StopReturns, Stopped, StopTimesOut, Destroy,
          Enqueue, Store, Full, MarkGap, DiscardTransfer, QueueAllFrameReads, Unplug, kernel,
          Lifecycle
    <3>2. SubmitPool \/ Submit => inflight' = inflight
      BY DEF SubmitPool, Submit, Resubmit, kernel
    <3> QED
      BY <2>2, <3>1, <3>2
  <2> QED
    BY <2>3, <2>4 DEF Next
<1> QED
  BY <1>1, Invariance, PTL DEF Spec, NoSubmitAfterStop

(***************************************************************************)
(* The stream gives up no read of its own accord.                          *)
(***************************************************************************)

\* While the stream runs without an error, the probe or the whole pool is listed or was refused, or
\* the pool is about to be queued; a probe is given up with an error only.
ReadsAhead ==
  owner \in {"running", "delivering"} =>
    /\ ~shuttingDown
    /\ cb.at = "enqueue" => cb.chunk # 0
    /\ cb.at = "discard" => cb.chunk # 0 \/ hasError
    /\ \/ hasError
       \/ cb.at = "queueAll"
       \/ Probe \in transfers \cup refused
       \/ Pool \subseteq transfers \cup refused

LEMMA PoolReads ==
  ASSUME SubmitPool, ~shuttingDown
  PROVE  hasError' \/ Pool \subseteq transfers' \cup refused'
<1>1. PICK q \in PoolSubmissions :
        /\ Accepted(q)
        /\ transfers' = transfers \cup { q[i] : i \in DOMAIN q }
        /\ Refuse(Pool \ { q[i] : i \in DOMAIN q })
  BY DEF SubmitPool
<1>2. CASE attached
  BY <1>1, <1>2 DEF Refuse
<1>3. CASE ~attached
  <2>1. DOMAIN q = {}
    <3>1. q = << >>
      BY <1>1, <1>3 DEF Accepted
    <3>2. << >> \in Seq(Pool) /\ Len(<< >>) = 0
      OBVIOUS
    <3> QED
      BY <3>1, <3>2, LenProperties
  <2>2. 1 \in Pool
    BY DEF Pool
  <2>3. 1 \in Pool \ { q[i] : i \in DOMAIN q }
    BY <2>1, <2>2
  <2> QED
    BY <1>1, <1>3, <2>3 DEF Refuse
<1> QED
  BY <1>2, <1>3

LEMMA ReadsStep ==
  ASSUME TypeOK, Lifecycle, ReadsAhead, [Next]_vars
  PROVE  ReadsAhead'
<1> DEFINE reading == owner \in {"running", "delivering"}
<1> USE DEF ReadsAhead
<1>1. CASE StartAligned
  <2>1. cb.at = "idle" /\ cb' = cb /\ shuttingDown' = shuttingDown /\ ~shuttingDown
    BY <1>1 DEF StartAligned, Lifecycle
  <2>2. Probe \in transfers' \/ hasError' \/ Probe \in refused'
    BY <1>1 DEF StartAligned, Refuse
  <2> QED
    BY <2>1, <2>2
<1>2. CASE StartMidStream
  BY <1>2 DEF StartMidStream
<1>3. CASE StartReads
  <2>1. cb.at = "idle" /\ cb' = cb /\ shuttingDown' = shuttingDown /\ ~shuttingDown
    BY <1>3 DEF StartReads, Lifecycle
  <2>2. hasError' \/ Pool \subseteq transfers' \cup refused'
    BY <1>3, <2>1, PoolReads DEF StartReads
  <2> QED
    BY <2>1, <2>2
<1>4. CASE Deliver \/ DeliverDone \/ Discard \/ Unplug
  <2>1. \/ reading /\ UNCHANGED <<shuttingDown, transfers, refused, cb, hasError>>
        \/ owner' = owner /\ UNCHANGED <<shuttingDown, transfers, refused, cb, hasError>>
    BY <1>4 DEF Deliver, DeliverDone, Discard, DropQueued, Unplug, kernel, consumer
  <2> QED
    BY <2>1
<1>5. CASE Stop \/ StopReturns \/ StopTimesOut \/ Destroy
  BY <1>5 DEF Stop, StopReturns, Stopped, StopTimesOut, Destroy
<1>6. CASE Completion
  <2>1. owner' = owner /\ shuttingDown' = shuttingDown /\ UNCHANGED <<transfers, refused>>
    BY <1>6 DEF Completion, PoolCompleted, PoolEmpty, PoolFailed, ProbeFound, ProbeMissed,
                Cancelled, Disconnected, consumer
  <2>6. hasError => hasError'
    <3>1. CASE ProbeMissed
      <4>1. hasError' = (hasError \/ probeAttempts' > MaxProbe)
        BY <3>1 DEF ProbeMissed
      <4> QED
        BY <4>1
    <3>2. CASE ~ProbeMissed
      BY <1>6, <3>2 DEF Completion, PoolCompleted, PoolEmpty, PoolFailed, ProbeFound,
                        Cancelled, Disconnected
    <3> QED
      BY <3>1, <3>2
  <2>2. produced + 1 # 0 /\ produced + 2 # 0
    BY DEF TypeOK, Numbers
  <2>3. cb'.at = "enqueue" => cb'.chunk # 0
    BY <1>6, <2>2 DEF Completion, PoolCompleted, PoolEmpty, PoolFailed, ProbeFound, ProbeMissed,
                Cancelled, Disconnected, At, EnqueueStep
  <2>4. cb'.at = "discard" => cb'.chunk # 0 \/ hasError'
    <3>1. CASE ProbeMissed
      <4> DEFINE giveUp == probeAttempts' > MaxProbe
      <4>1. cb'.at = (IF giveUp THEN "discard" ELSE "submit") /\ (giveUp => hasError')
        BY <3>1 DEF ProbeMissed, At
      <4> QED
        BY <4>1
    <3>2. CASE ProbeFound
      BY <3>2, <2>2 DEF ProbeFound, At, EnqueueStep
    <3>3. CASE Disconnected
      BY <3>3 DEF Disconnected
    <3>4. CASE PoolCompleted \/ PoolEmpty \/ PoolFailed \/ Cancelled
      BY <3>4 DEF PoolCompleted, PoolEmpty, PoolFailed, Cancelled, At, EnqueueStep
    <3> QED
      BY <1>6, <3>1, <3>2, <3>3, <3>4 DEF Completion
  <2>5. cb.at = "idle"
    BY <1>6 DEF Completion, PoolCompleted, PoolEmpty, PoolFailed, ProbeFound, ProbeMissed,
                Cancelled, Disconnected, Completing
  <2> QED
    BY <2>1, <2>3, <2>4, <2>5, <2>6
<1>7. CASE Enqueue
  <2>1. /\ cb.at = "enqueue" /\ cb'.at \in {"discard", "submit"} /\ cb'.chunk = cb.chunk
        /\ UNCHANGED <<owner, shuttingDown, transfers, refused, hasError>>
    BY <1>7 DEF Enqueue, Store, Full, Goto, At, consumer, kernel
  <2> QED
    BY <2>1
<1>8. CASE MarkGap
  <2>1. /\ cb.at = "markGap" /\ cb'.at = "submit"
        /\ UNCHANGED <<owner, shuttingDown, transfers, refused, hasError>>
    BY <1>8 DEF MarkGap, Goto, At, consumer, kernel
  <2> QED
    BY <2>1
<1>9. CASE Submit
  <2>1. cb.at = "submit" /\ cb' = Idle /\ UNCHANGED <<owner, shuttingDown>>
    BY <1>9 DEF Submit, Resubmit, consumer
  <2>2. ~shuttingDown => \/ UNCHANGED <<transfers, refused, hasError>>
                         \/ /\ transfers' = transfers \ {cb.transfer}
                            /\ Refuse({cb.transfer})
    BY <1>9 DEF Submit, Resubmit
  <2>3. ~shuttingDown => \/ hasError'
                         \/ /\ transfers \cup refused \subseteq transfers' \cup refused'
                            /\ hasError => hasError'
    BY <2>2 DEF Refuse
  <2> QED
    BY <2>1, <2>3 DEF Idle
<1>10. CASE DiscardTransfer
  <2>1. /\ cb.at = "discard" /\ cb' = IF cb.chunk # 0 THEN Goto("queueAll") ELSE Idle
        /\ UNCHANGED <<owner, shuttingDown, hasError>>
    BY <1>10 DEF DiscardTransfer, consumer
  <2> QED
    BY <2>1 DEF Goto, At, Idle
<1>11. CASE QueueAllFrameReads
  <2>1. cb' = Idle /\ UNCHANGED <<owner, shuttingDown>>
    BY <1>11 DEF QueueAllFrameReads, consumer
  <2>2. ~shuttingDown => hasError' \/ Pool \subseteq transfers' \cup refused'
    BY <1>11, PoolReads DEF QueueAllFrameReads
  <2> QED
    BY <2>1, <2>2 DEF Idle
<1>12. CASE UNCHANGED vars
  BY <1>12 DEF vars, kernel
<1> QED
  BY <1>1, <1>2, <1>3, <1>4, <1>5, <1>6, <1>7, <1>8, <1>9, <1>10, <1>11, <1>12
     DEF Next, Owner, Callback

\* Whatever the host refuses, a stream that runs and has no error has every transfer it should read
\* with in the kernel whenever no callback is in progress, those aside that the host refused: no
\* path through the callbacks drops a read silently (CaptureStream.cpp 212-282).
THEOREM KeepsReading == Spec => []ReadsOrFailed
<1>1. Init => ReadsAhead
  BY DEF Init, ReadsAhead
<1>2. IndInv /\ ReadsAhead /\ [Next]_vars => ReadsAhead'
  BY ReadsStep DEF IndInv, KernelInv
<1>3. IndInv /\ ReadsAhead => ReadsOrFailed
  <2> SUFFICES ASSUME IndInv, ReadsAhead, owner \in {"running", "delivering"}, cb.at = "idle",
                      ~hasError
               PROVE  LET kept == { inflight[i] : i \in DOMAIN inflight } \cup refused
                      IN  Probe \in kept \/ Pool \subseteq kept
    BY DEF ReadsOrFailed
  <2>1. transfers = { inflight[i] : i \in DOMAIN inflight }
    BY DEF IndInv, KernelInv, TransfersTracked
  <2> QED
    BY <2>1 DEF ReadsAhead
<1> QED
  BY <1>1, <1>2, <1>3, Invariance, PTL DEF Spec

(***************************************************************************)
(* The ring implements the bounded queue of ChunkQueue.                    *)
(***************************************************************************)

QueuedShape ==
  Queued \in Seq(Entries) /\ Len(Queued) = ringCount /\ ringCount \in 0 .. RingSlots

LEMMA QueuedIsSeq == TypeOK => QueuedShape
<1> SUFFICES ASSUME TypeOK PROVE QueuedShape
  OBVIOUS
<1>1. Queued \in [1 .. ringCount -> Entries] /\ ringCount \in Nat
  BY QueuedType
<1>2. Queued \in Seq(Entries)
  BY <1>1, SeqDef
<1> QED
  BY <1>1, <1>2, LenProperties DEF TypeOK, QueuedShape

LEMMA QueueImplementationStep ==
  ASSUME TypeOK, TypeOK', [Next]_vars
  PROVE  [Queue!Next]_<<Queued, gapPending>>
<1>0. /\ Queued \in Seq(Entries) /\ Len(Queued) = ringCount /\ ringCount \in 0 .. RingSlots
      /\ Queued' \in Seq(Entries) /\ Len(Queued') = ringCount' /\ ringCount' \in 0 .. RingSlots
  <2>1. TypeOK' => QueuedShape'
    BY QueuedIsSeq, PTL
  <2> QED
    BY <2>1, QueuedIsSeq DEF QueuedShape
<1>1. CASE Enqueue
  <2> DEFINE rest == IF Queue!Full THEN Tail(Queued) ELSE Queued
  <2>1. Queue!Full <=> ringCount = RingSlots
    BY <1>0 DEF Queue!Full
  <2>2. /\ NewEntry = [chunk |-> cb.chunk, gapped |-> Queue!Full \/ gapPending \/ cb.gapped]
        /\ NewEntry \in Entries /\ cb.chunk \in Numbers /\ cb.gapped \in BOOLEAN
    BY <2>1 DEF NewEntry, TypeOK, Callbacks, Entries
  <2>3. Queued' = Append(rest, NewEntry)
    <3>1. CASE ringCount < RingSlots
      <4>1. ringCount' = ringCount + 1 /\ rest = Queued /\
            Queued' = [i \in 1 .. ringCount + 1 |->
                         IF i = ringCount + 1 THEN NewEntry ELSE Queued[i]]
        BY <1>1, <2>1, <3>1, QueuedEnqueue, <1>0
      <4> QED
        BY <1>0, <2>2, <4>1
    <3>2. CASE ringCount = RingSlots
      <4>1. ringCount' = ringCount /\ rest = Tail(Queued) /\
            Queued' = [i \in 1 .. ringCount |->
                         IF i = ringCount THEN NewEntry ELSE Queued[i + 1]]
        BY <1>1, <2>1, <3>2, QueuedEnqueue
      <4>2. /\ Tail(Queued) \in Seq(Entries) /\ Len(Tail(Queued)) = ringCount - 1
            /\ \A i \in 1 .. ringCount - 1 : Tail(Queued)[i] = Queued[i + 1]
        BY <1>0, <3>2, HeadTailProperties, EmptySeq
      <4> QED
        BY <1>0, <2>2, <3>2, <4>1, <4>2
    <3> QED
      BY <1>0, <3>1, <3>2
  <2>4. gapPending' = FALSE
    BY <1>1 DEF Enqueue, Store, Full
  <2>5. Queue!Put
    BY <2>2, <2>3, <2>4 DEF Queue!Put
  <2> QED
    BY <2>5 DEF Queue!Next
<1>2. CASE Deliver
  <2>1. /\ Queued' = [i \in 1 .. ringCount - 1 |-> Queued[i + 1]]
        /\ ringCount \in 1 .. RingSlots /\ gapPending' = gapPending
    BY <1>2, QueuedDeliver DEF Deliver
  <2>2. Queued # << >>
    BY <1>0, <2>1, EmptySeq
  <2>3. /\ Tail(Queued) \in Seq(Entries) /\ Len(Tail(Queued)) = ringCount - 1
        /\ \A i \in 1 .. ringCount - 1 : Tail(Queued)[i] = Queued[i + 1]
    BY <1>0, <2>2, HeadTailProperties
  <2>4. Queued' = Tail(Queued)
    <3>1. Tail(Queued) = [i \in 1 .. ringCount - 1 |-> Tail(Queued)[i]]
      BY <2>1, <2>3, LenProperties
    <3> QED
      BY <2>1, <2>3, <3>1
  <2> QED
    BY <2>1, <2>2, <2>4 DEF Queue!Next, Queue!Take
<1>3. CASE Discard
  <2>1. ringCount # 0 /\ ringCount' = 0 /\ gapPending' = TRUE
    BY <1>3 DEF Discard, DropQueued
  <2>2. Queued # << >> /\ Queued' = << >>
    BY <1>0, <2>1, EmptySeq
  <2> QED
    BY <2>1, <2>2 DEF Queue!Next, Queue!Clear
<1>4. CASE StartMidStream \/ MarkGap
  <2>1. gapPending' = TRUE /\ UNCHANGED <<ring, ringWrite, ringCount>>
    BY <1>4 DEF StartMidStream, MarkGap
  <2> QED
    BY <2>1, QueuedSame DEF Queue!Next, Queue!Mark
<1>5. CASE ~(Enqueue \/ Deliver \/ Discard \/ StartMidStream \/ MarkGap)
  <2>1. UNCHANGED <<ring, ringWrite, ringCount, gapPending>>
    BY <1>5 DEF Next, Owner, Completion, Callback, StartAligned, StartReads, DeliverDone, Stop,
        StopReturns, Stopped, StopTimesOut, Destroy, PoolCompleted, PoolEmpty, PoolFailed,
        ProbeFound, ProbeMissed, Cancelled, Disconnected, Submit, Resubmit, DiscardTransfer,
        QueueAllFrameReads, Unplug, vars, queue
  <2> QED
    BY <2>1, QueuedSame
<1> QED
  BY <1>1, <1>2, <1>3, <1>4, <1>5

\* The ring of slots with its two indices is a bounded first-in first-out queue that drops its
\* oldest chunk when it is full (CaptureStream.cpp 117-141, 183-210).
THEOREM RingImplementsQueue == Spec => ImplementsQueue
<1>1. Init => Queue!Init
  <2> SUFFICES ASSUME Init PROVE Queue!Init
    OBVIOUS
  <2>1. ringCount = 0 /\ gapPending = FALSE
    BY DEF Init
  <2>2. Queued = << >>
    BY <2>1, TypeInit, QueuedIsSeq, EmptySeq DEF QueuedShape
  <2> QED
    BY <2>1, <2>2 DEF Queue!Init
<1>2. TypeOK /\ TypeOK' /\ [Next]_vars => [Queue!Next]_<<Queued, gapPending>>
  BY QueueImplementationStep
<1> QED
  BY <1>1, <1>2, TypeCorrect, PTL DEF Spec, ImplementsQueue, Queue!Spec
=============================================================================
