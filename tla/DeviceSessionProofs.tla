------------------------- MODULE DeviceSessionProofs -------------------------
(***************************************************************************)
(* Proofs about the commands of a session, for every table of registers,   *)
(* every recording and whatever the card answers: the poll thread cannot   *)
(* sleep through stop(); no status and no board state is decoded from      *)
(* another register's reply; one late reply does not change the output     *)
(* format.                                                                 *)
(***************************************************************************)
EXTENDS DeviceSession, SequenceTheorems, TLAPS

\* The poll thread holds _mutex from its look at the flag to its sleep, so once the owner, who
\* has stored the flag, has had the lock, the thread is asleep already or will see the flag.
PollShape == poll \in [at : PollSteps, reg : Nat, wrong : BOOLEAN]
LockInv ==
  /\ mutex <=> poll.at = "sleeping"
  /\ owner \in {"flagged", "locked", "joining"} => stopping
  /\ owner \in {"locked", "joining"} => poll.at # "sleeping"
WakeInv == PollShape /\ LockInv /\ NoLostWakeup

LEMMA AtShape ==
  ASSUME NEW s \in PollSteps
  PROVE  At(s) \in [at : PollSteps, reg : Nat, wrong : BOOLEAN] /\ At(s).at = s
  BY DEF At

\* A failed read drains or ends the thread.
LEMMA FailedShape ==
  /\ Failed \in [at : PollSteps, reg : Nat, wrong : BOOLEAN]
  /\ Failed.at \in {"done", "drain"}
<1>1. "done" \in PollSteps /\ "drain" \in PollSteps
  BY DEF PollSteps
<1>2. Failed \in {At("done"), At("drain")}
  BY DEF Failed
<1> QED
  BY <1>1, <1>2, AtShape

\* The steps of the poll that do not touch the flag, the lock or the sleep.
Awake == PollSteps \ {"sleeping", "asleep"}

LEMMA ReadStep ==
  ASSUME PollShape, Request \/ Reply \/ NoReply \/ Publish \/ Drain \/ Drained
  PROVE  /\ PollShape'
         /\ poll.at \in Awake /\ poll'.at \in Awake
         /\ UNCHANGED <<owner, mutex, stopping>>
<1> USE AtShape, FailedShape DEF PollShape, Awake, PollSteps, shared
<1>1. CASE Request
  <2>1. poll' \in {[poll EXCEPT !.at = "reply"], Failed, At("done")}
    BY <1>1 DEF Request
  <2>2. /\ [poll EXCEPT !.at = "reply"] \in [at : PollSteps, reg : Nat, wrong : BOOLEAN]
        /\ [poll EXCEPT !.at = "reply"].at = "reply"
    OBVIOUS
  <2> QED
    BY <1>1, <2>1, <2>2 DEF Request
<1>2. CASE Reply
  <2> DEFINE Answered(a, r, w) == [at |-> a, reg |-> r, wrong |-> w]
  <2>1. \/ poll' = Failed
        \/ \E a \in {"publish", "request"}, r \in {poll.reg, poll.reg + 1} :
             poll' = Answered(a, r, poll.wrong \/ Head(replies) # poll.reg)
    BY <1>2, Zenon DEF Reply
  <2>2. poll.reg \in Nat /\ poll.reg + 1 \in Nat
    OBVIOUS
  <2>3. (poll.wrong \/ Head(replies) # poll.reg) \in BOOLEAN
    OBVIOUS
  <2>4. ASSUME NEW a \in {"publish", "request"}, NEW r \in Nat, NEW w \in BOOLEAN
        PROVE  Answered(a, r, w) \in [at : PollSteps, reg : Nat, wrong : BOOLEAN] /\ Answered(a, r, w).at = a
    OBVIOUS
  <2>5. poll' \in [at : PollSteps, reg : Nat, wrong : BOOLEAN] /\ poll'.at \in Awake
    <3>1. CASE poll' = Failed
      BY <3>1
    <3>2. CASE poll' # Failed
      <4>1. PICK a \in {"publish", "request"}, r \in {poll.reg, poll.reg + 1} :
              poll' = Answered(a, r, poll.wrong \/ Head(replies) # poll.reg)
        BY <2>1, <3>2
      <4>2. r \in Nat
        BY <2>2
      <4>3. /\ poll' \in [at : PollSteps, reg : Nat, wrong : BOOLEAN]
            /\ poll'.at = a
        BY <4>1, <4>2, <2>3, <2>4, Zenon
      <4> QED
        BY <4>3
    <3> QED
      BY <3>1, <3>2
  <2> QED
    BY <1>2, <2>5 DEF Reply
<1>3. CASE NoReply \/ Publish
  <2>1. poll' \in {Failed, At("done"), At("wait")}
    BY <1>3 DEF NoReply, Publish
  <2> QED
    BY <1>3, <2>1 DEF NoReply, Publish
<1>4. CASE Drain \/ Drained
  <2>1. poll' \in {poll, At("done"), At("wait")} /\ poll.at = "drain"
    BY <1>4 DEF Drain, Drained
  <2> QED
    BY <1>4, <2>1 DEF Drain, Drained
<1> QED
  BY <1>1, <1>2, <1>3, <1>4

LEMMA PollStep == WakeInv /\ Poll => WakeInv'
<1> SUFFICES ASSUME WakeInv, Poll
             PROVE  WakeInv'
  OBVIOUS
<1> USE DEF WakeInv, LockInv, NoLostWakeup
<1>1. CASE Request \/ Reply \/ NoReply \/ Publish \/ Drain \/ Drained
  <2>1. /\ PollShape' /\ poll.at \in Awake /\ poll'.at \in Awake
        /\ owner' = owner /\ (mutex' <=> mutex) /\ (stopping' <=> stopping)
    BY <1>1, ReadStep
  <2> QED
    BY <2>1 DEF Awake
<1>2. CASE Lock
  <2>1. /\ PollShape' /\ poll.at = "lock" /\ poll'.at \in {"done", "request"}
        /\ owner' = owner /\ (mutex' <=> mutex) /\ (stopping' <=> stopping)
    BY <1>2, AtShape DEF Lock, PollShape, PollSteps, shared
  <2> QED
    BY <2>1
<1>3. CASE CheckPredicate
  <2>1. /\ PollShape' /\ poll.at = "wait" /\ owner' = owner /\ (stopping' <=> stopping)
        /\ \/ stopping /\ poll'.at = "done" /\ (mutex' <=> mutex)
           \/ ~stopping /\ poll'.at = "sleeping" /\ mutex'
    BY <1>3, AtShape DEF CheckPredicate, PollShape, PollSteps
  <2> QED
    BY <2>1
<1>4. CASE Sleep
  <2>1. /\ PollShape' /\ poll.at = "sleeping" /\ poll'.at = "asleep" /\ ~mutex'
        /\ owner' = owner /\ (stopping' <=> stopping)
    BY <1>4, AtShape DEF Sleep, PollShape, PollSteps
  <2> QED
    BY <2>1
<1>5. CASE Wake
  <2>1. /\ PollShape' /\ poll.at = "asleep" /\ poll'.at = "lock"
        /\ owner' = owner /\ (mutex' <=> mutex) /\ (stopping' <=> stopping)
    BY <1>5, AtShape DEF Wake, PollShape, PollSteps, shared
  <2> QED
    BY <2>1
<1> QED
  BY <1>1, <1>2, <1>3, <1>4, <1>5 DEF Poll

LEMMA OwnerStep == WakeInv /\ Owner => WakeInv'
<1> SUFFICES ASSUME WakeInv, Owner
             PROVE  WakeInv'
  OBVIOUS
<1> USE DEF WakeInv, LockInv, NoLostWakeup
<1>1. CASE Start
  <2>1. /\ PollShape' /\ poll.at = "done" /\ poll'.at = "lock" /\ owner' = "running"
        /\ (mutex' <=> mutex)
    BY <1>1, AtShape DEF Start, PollShape, PollSteps, shared
  <2> QED
    BY <2>1
<1>2. CASE StoreFlag
  <2>1. owner' = "flagged" /\ stopping' /\ (mutex' <=> mutex) /\ poll' = poll
    BY <1>2 DEF StoreFlag
  <2> QED
    BY <2>1 DEF PollShape
<1>3. CASE TakeLock
  <2>1. /\ owner = "flagged" /\ owner' = "locked" /\ ~mutex
        /\ (mutex' <=> mutex) /\ (stopping' <=> stopping) /\ poll' = poll
    BY <1>3 DEF TakeLock, TakeNoLock, shared
  <2> QED
    BY <2>1 DEF PollShape
<1>4. CASE Notify
  <2>1. /\ owner = "locked" /\ owner' = "joining" /\ PollShape'
        /\ \/ poll.at = "asleep" /\ poll'.at = "lock"
           \/ poll.at # "asleep" /\ poll'.at = poll.at
        /\ (mutex' <=> mutex) /\ (stopping' <=> stopping)
    BY <1>4, AtShape DEF Notify, PollShape, PollSteps, shared
  <2> QED
    BY <2>1
<1>5. CASE Join
  <2>1. owner' = "stopped" /\ (mutex' <=> mutex) /\ poll' = poll
    BY <1>5 DEF Join, shared
  <2> QED
    BY <2>1 DEF PollShape
<1> QED
  BY <1>1, <1>2, <1>3, <1>4, <1>5 DEF Owner

LEMMA WakeStep == WakeInv /\ [SNext]_svars => WakeInv'
<1> SUFFICES ASSUME WakeInv, [SNext]_svars
             PROVE  WakeInv'
  OBVIOUS
<1>1. CASE UNCHANGED <<owner, poll, shared>>
  BY <1>1 DEF WakeInv, PollShape, LockInv, NoLostWakeup, shared
<1>2. CASE Bootstrap /\ UNCHANGED <<owner, poll, shared, status>>
  BY <1>1, <1>2
<1>3. CASE Card
  BY <1>1, <1>3 DEF Card
<1>4. CASE UNCHANGED svars
  BY <1>1, <1>4 DEF svars, vars, shared
<1> QED
  BY <1>2, <1>3, <1>4, PollStep, OwnerStep DEF SNext

LEMMA WakeInit == SInit => WakeInv
  BY DEF SInit, WakeInv, PollShape, LockInv, NoLostWakeup, PollSteps

\* stop() never waits for a poll thread that fell asleep behind its notification
\* (StatusMonitor.cpp 56-66, 114-115), whatever the bootstrap did before.
THEOREM WokenToStop == SSpec => []NoLostWakeup
<1>1. WakeInv => NoLostWakeup
  BY DEF WakeInv
<1> QED
  BY WakeInit, WakeStep, <1>1, PTL DEF SSpec

(***************************************************************************)
(* The requests whose replies nobody has read, and what the bridge's steps *)
(* do to them.                                                             *)
(***************************************************************************)

\* The oldest first.
Queue == replies \o asked

QueueType ==
  replies \in Seq(DOMAIN Lengths) /\ asked \in Seq(DOMAIN Lengths) /\ Len(asked) <= MaxAsked

LEMMA QueueShape ==
  ASSUME QueueType
  PROVE  /\ Queue \in Seq(DOMAIN Lengths) /\ Len(Queue) = Len(replies) + Len(asked)
         /\ Len(Queue) \in Nat /\ Len(asked) \in Nat
         /\ \A i \in 1 .. Len(Queue) : Queue[i] \in DOMAIN Lengths
<1>1. /\ replies \in Seq(DOMAIN Lengths) /\ asked \in Seq(DOMAIN Lengths)
  BY DEF QueueType
<1>2. Queue \in Seq(DOMAIN Lengths) /\ Len(Queue) = Len(replies) + Len(asked)
  BY <1>1, ConcatProperties DEF Queue
<1> QED
  BY <1>1, <1>2, LenProperties

\* A request is at the end.
LEMMA AskQueue ==
  ASSUME QueueType, NEW r \in DOMAIN Lengths, Ask(r)
  PROVE  /\ QueueType' /\ attached /\ attached' = attached /\ late' = late
         /\ Len(Queue') = Len(Queue) + 1 /\ Queue'[Len(Queue) + 1] = r
         /\ \A i \in 1 .. Len(Queue) : Queue'[i] = Queue[i]
<1>1. /\ attached /\ Len(asked) < MaxAsked /\ asked' = Append(asked, r)
      /\ attached' = attached /\ replies' = replies /\ late' = late
  BY DEF Ask
<1>2. replies \in Seq(DOMAIN Lengths) /\ asked \in Seq(DOMAIN Lengths)
  BY DEF QueueType
<1> DEFINE m == Len(replies)
           n == Len(asked)
<1>3. m \in Nat /\ n \in Nat /\ MaxAsked \in Nat
  BY <1>2, LenProperties, BridgeAssumption
<1>4. /\ asked' \in Seq(DOMAIN Lengths) /\ Len(asked') = n + 1
      /\ \A i \in 1 .. n : asked'[i] = asked[i]
      /\ asked'[n + 1] = r
  BY <1>1, <1>2, AppendProperties
<1>5. /\ Len(Queue) = m + n
      /\ \A i \in 1 .. m + n : Queue[i] = IF i <= m THEN replies[i] ELSE asked[i - m]
  BY <1>2, ConcatProperties DEF Queue
<1>6. /\ Len(Queue') = m + (n + 1)
      /\ \A i \in 1 .. m + (n + 1) : Queue'[i] = IF i <= m THEN replies[i] ELSE asked'[i - m]
  <2>1. Queue' = replies' \o asked'
    BY DEF Queue
  <2>2. replies' \in Seq(DOMAIN Lengths) /\ asked' \in Seq(DOMAIN Lengths)
    BY <1>1, <1>2, <1>4
  <2>3. /\ Queue' \in Seq(DOMAIN Lengths) /\ Len(Queue') = Len(replies') + Len(asked')
        /\ \A i \in 1 .. Len(replies') + Len(asked') :
             Queue'[i] = IF i <= Len(replies') THEN replies'[i] ELSE asked'[i - Len(replies')]
    BY ONLY <2>1, <2>2, ConcatProperties
  <2> QED
    BY <1>1, <1>4, <2>3
<1>7. QueueType'
  BY <1>1, <1>2, <1>3, <1>4 DEF QueueType
<1> HIDE DEF m, n
<1>8. Queue'[Len(Queue) + 1] = r
  <2>1. m + (n + 1) \in 1 .. m + (n + 1) /\ ~(m + (n + 1) <= m) /\ (m + (n + 1)) - m = n + 1
        /\ Len(Queue) + 1 = m + (n + 1)
    BY <1>3, <1>5
  <2> QED
    BY <1>4, <1>6, <2>1
<1>9. \A i \in 1 .. Len(Queue) : Queue'[i] = Queue[i]
  <2> SUFFICES ASSUME NEW i \in 1 .. m + n PROVE Queue'[i] = Queue[i]
    BY <1>5
  <2>1. CASE i <= m
    BY <1>3, <1>5, <1>6, <2>1
  <2>2. CASE i > m
    <3>1. i - m \in 1 .. n /\ i \in 1 .. m + (n + 1)
      BY <1>3, <2>2
    <3> QED
      BY <1>3, <1>4, <1>5, <1>6, <2>2, <3>1
  <2> QED
    BY <1>3, <2>1, <2>2
<1> QED
  BY <1>1, <1>3, <1>5, <1>6, <1>7, <1>8, <1>9

\* A reply is taken from the front.
LEMMA TakeQueue ==
  ASSUME QueueType, Take
  PROVE  /\ QueueType' /\ attached /\ attached' = attached /\ late' = late /\ asked' = asked
         /\ Len(Queue) >= 1 /\ Head(replies) = Queue[1] /\ Len(Queue') = Len(Queue) - 1
         /\ \A i \in 1 .. Len(Queue) - 1 : Queue'[i] = Queue[i + 1]
<1>1. /\ attached /\ replies # << >> /\ replies' = Tail(replies)
      /\ attached' = attached /\ asked' = asked /\ late' = late
  BY DEF Take
<1>2. replies \in Seq(DOMAIN Lengths) /\ asked \in Seq(DOMAIN Lengths)
  BY DEF QueueType
<1> DEFINE m == Len(replies)
           n == Len(asked)
<1>3. m \in Nat /\ n \in Nat /\ m # 0
  BY <1>1, <1>2, LenProperties, EmptySeq
<1>4. /\ replies' \in Seq(DOMAIN Lengths) /\ Len(replies') = m - 1
      /\ \A i \in 1 .. m - 1 : replies'[i] = replies[i + 1]
      /\ Head(replies) = replies[1]
  BY <1>1, <1>2, HeadTailProperties
<1>5. /\ Len(Queue) = m + n
      /\ \A i \in 1 .. m + n : Queue[i] = IF i <= m THEN replies[i] ELSE asked[i - m]
  BY <1>2, ConcatProperties DEF Queue
<1>6. /\ Len(Queue') = (m - 1) + n
      /\ \A i \in 1 .. (m - 1) + n : Queue'[i] = IF i <= m - 1 THEN replies'[i] ELSE asked[i - (m - 1)]
  BY <1>1, <1>2, <1>4, ConcatProperties DEF Queue
<1> HIDE DEF m, n
<1>7. QueueType'
  BY <1>1, <1>2, <1>4 DEF QueueType
<1>8. \A i \in 1 .. Len(Queue) - 1 : Queue'[i] = Queue[i + 1]
  <2> SUFFICES ASSUME NEW i \in 1 .. (m + n) - 1 PROVE Queue'[i] = Queue[i + 1]
    BY <1>3, <1>5
  <2>1. i \in 1 .. (m - 1) + n /\ i + 1 \in 1 .. m + n
    BY <1>3
  <2>2. CASE i <= m - 1
    <3>1. i \in 1 .. m - 1 /\ i + 1 <= m
      BY <1>3, <2>2
    <3>2. Queue'[i] = replies'[i] /\ Queue[i + 1] = replies[i + 1]
      BY <1>5, <1>6, <2>1, <2>2, <3>1
    <3> QED
      BY <1>4, <3>1, <3>2
  <2>3. CASE i > m - 1
    <3>1. i - (m - 1) = (i + 1) - m /\ ~(i + 1 <= m) /\ ~(i <= m - 1)
      BY <1>3, <2>3
    <3> QED
      BY <1>5, <1>6, <2>1, <3>1
  <2> QED
    BY <1>3, <2>2, <2>3
<1>9. Head(replies) = Queue[1] /\ Len(Queue) >= 1 /\ Len(Queue') = Len(Queue) - 1
  BY <1>3, <1>4, <1>5, <1>6
<1> QED
  BY <1>1, <1>7, <1>8, <1>9

\* An answer moves a request from one half to the other.
LEMMA AnswerQueue ==
  ASSUME QueueType, Answer
  PROVE  QueueType' /\ Queue' = Queue /\ attached' = attached
<1>1. /\ attached /\ asked # << >> /\ replies' = Append(replies, Head(asked))
      /\ asked' = Tail(asked) /\ attached' = attached
  BY DEF Answer
<1>2. replies \in Seq(DOMAIN Lengths) /\ asked \in Seq(DOMAIN Lengths)
  BY DEF QueueType
<1> DEFINE m == Len(replies)
           n == Len(asked)
<1>3. m \in Nat /\ n \in Nat /\ n # 0 /\ MaxAsked \in Nat
  BY <1>1, <1>2, LenProperties, EmptySeq, BridgeAssumption
<1>4. /\ asked' \in Seq(DOMAIN Lengths) /\ Len(asked') = n - 1
      /\ \A i \in 1 .. n - 1 : asked'[i] = asked[i + 1]
      /\ Head(asked) = asked[1] /\ Head(asked) \in DOMAIN Lengths
  BY <1>1, <1>2, HeadTailProperties
<1>5. /\ replies' \in Seq(DOMAIN Lengths) /\ Len(replies') = m + 1
      /\ \A i \in 1 .. m : replies'[i] = replies[i]
      /\ replies'[m + 1] = asked[1]
  BY <1>1, <1>2, <1>4, AppendProperties
<1>6. /\ Queue \in Seq(DOMAIN Lengths) /\ Len(Queue) = m + n
      /\ \A i \in 1 .. m + n : Queue[i] = IF i <= m THEN replies[i] ELSE asked[i - m]
  BY <1>2, ConcatProperties DEF Queue
<1>7. /\ Queue' \in Seq(DOMAIN Lengths) /\ Len(Queue') = (m + 1) + (n - 1)
      /\ \A i \in 1 .. (m + 1) + (n - 1) :
           Queue'[i] = IF i <= m + 1 THEN replies'[i] ELSE asked'[i - (m + 1)]
  <2>1. Queue' = replies' \o asked'
    BY DEF Queue
  <2>2. replies' \in Seq(DOMAIN Lengths) /\ asked' \in Seq(DOMAIN Lengths)
    BY <1>4, <1>5
  <2>3. /\ Queue' \in Seq(DOMAIN Lengths) /\ Len(Queue') = Len(replies') + Len(asked')
        /\ \A i \in 1 .. Len(replies') + Len(asked') :
             Queue'[i] = IF i <= Len(replies') THEN replies'[i] ELSE asked'[i - Len(replies')]
    BY ONLY <2>1, <2>2, ConcatProperties
  <2> QED
    BY <1>4, <1>5, <2>3
<1>8. QueueType'
  BY <1>2, <1>3, <1>4, <1>5 DEF QueueType
<1> HIDE DEF m, n
<1>9. \A i \in 1 .. Len(Queue') : Queue'[i] = Queue[i]
  <2> SUFFICES ASSUME NEW i \in 1 .. m + n PROVE Queue'[i] = Queue[i]
    BY <1>3, <1>7
  <2>1. CASE i <= m
    BY <1>3, <1>5, <1>6, <1>7, <2>1, SMTT(30)
  <2>2. CASE i = m + 1
    BY <1>3, <1>5, <1>6, <1>7, <2>2
  <2>3. CASE i > m + 1
    <3>1. i - (m + 1) \in 1 .. n - 1 /\ (i - (m + 1)) + 1 = i - m
      BY <1>3, <2>3
    <3>2. Queue'[i] = asked'[i - (m + 1)] /\ Queue[i] = asked[i - m]
      BY <1>3, <1>6, <1>7, <2>3
    <3> QED
      BY <1>4, <3>1, <3>2
  <2> QED
    BY <1>3, <2>1, <2>2, <2>3
<1>10. Len(Queue') = Len(Queue)
  BY <1>3, <1>6, <1>7
<1>11. Queue' = Queue
  BY <1>6, <1>7, <1>9, <1>10, SeqEqual
<1> QED
  BY <1>1, <1>8, <1>11

\* Nothing is given up but what the card has not answered, unless it is gone.
LEMMA GiveUpQueue ==
  ASSUME QueueType, GiveUp
  PROVE  /\ QueueType' /\ Queue' = Queue /\ attached' = attached /\ asked' = asked
         /\ attached => Queue = asked /\ Len(Queue) <= MaxAsked
<1>1. attached' = attached /\ asked' = asked /\ replies' = replies
  BY DEF GiveUp
<1>2. ASSUME attached PROVE Queue = asked
  <2>1. replies = << >> /\ asked \in Seq(DOMAIN Lengths)
    BY <1>2 DEF GiveUp, QueueType
  <2> QED
    BY <2>1, ConcatEmptySeq DEF Queue
<1> QED
  BY <1>1, <1>2 DEF QueueType, Queue

LEMMA SameQueue ==
  ASSUME QueueType, asked' = asked, replies' = replies
  PROVE  QueueType' /\ Queue' = Queue
  BY DEF QueueType, Queue

(***************************************************************************)
(* The bootstrap's steps.                                                  *)
(***************************************************************************)

StageNames == {"counters", "board", "colour", "picture", "flowing", "replay", "thrown", "done"}
StepNames == {"clear", "request", "reply", "drain", "write", "go"}
BootRecords ==
  [stage : StageNames, step : StepNames, k : Nat \ {0}, wrong : BOOLEAN, actual : Int]

\* The register that is read is one of the stage's.
InPlan(stage, k) == stage \in Stages => k <= Len(Plan[stage])
BootShape == boot \in BootRecords /\ InPlan(boot.stage, boot.k)

LEMMA PlanShape ==
  /\ {"counters", "board", "colour", "picture"} = Stages
  /\ "flowing" \notin Stages /\ "replay" \notin Stages /\ "thrown" \notin Stages /\ "done" \notin Stages
  /\ \A s \in Stages : /\ Len(Plan[s]) \in Nat \ {0}
                       /\ \A k \in 1 .. Len(Plan[s]) : Plan[s][k] \in DOMAIN Lengths
<1>1. \A s \in Stages : Plan[s] \in Seq(DOMAIN Lengths) /\ Plan[s] # << >>
  BY PlanAssumption
<1>2. \A s \in Stages : /\ Len(Plan[s]) \in Nat \ {0}
                        /\ \A k \in 1 .. Len(Plan[s]) : Plan[s][k] \in DOMAIN Lengths
  BY <1>1, EmptySeq, ElementOfSeq
<1> QED
  BY <1>2, PlanAssumption

\* The steps that a stage begins with, and where the next one may begin.
Entries == {"clear", "request", "go"}
Entered(b) ==
  \E stage \in StageNames, step \in Entries, k \in Nat \ {0} : InPlan(stage, k) /\ b = Step(stage, step, k)

LEMMA EnteredShape ==
  ASSUME NEW b, Entered(b)
  PROVE  b \in BootRecords /\ InPlan(b.stage, b.k) /\ b.step \in Entries /\ b.wrong = FALSE
<1>1. PICK stage \in StageNames, step \in Entries, k \in Nat \ {0} :
        InPlan(stage, k) /\ b = Step(stage, step, k)
  BY DEF Entered
<1>2. step \in StepNames
  BY DEF Entries, StepNames
<1> QED
  BY <1>1, <1>2 DEF Step, BootRecords

LEMMA FirstEntered ==
  ASSUME NEW stage \in StageNames, NEW step \in Entries
  PROVE  Entered(Step(stage, step, 1))
<1>1. InPlan(stage, 1)
  BY PlanShape DEF InPlan
<1> QED
  BY <1>1 DEF Entered

LEMMA AfterEntered ==
  ASSUME NEW stage \in Stages
  PROVE  Entered(After(stage))
<1>1. stage \in {"counters", "board", "colour", "picture"}
  BY PlanShape
<1> DEFINE next == IF decided'.state = "Configured" THEN "colour"
                   ELSE IF decided'.state = "Unknown" THEN "flowing" ELSE "replay"
           step == IF decided'.state = "Configured" THEN "request" ELSE "go"
<1>2. CASE stage = "board"
  <2>1. After(stage) = Step(next, step, 1)
    BY <1>2 DEF After
  <2>2. next \in StageNames /\ step \in Entries
    BY DEF Entries, StageNames
  <2> HIDE DEF next, step
  <2> QED
    BY <2>1, <2>2, FirstEntered
<1>3. CASE stage # "board"
  <2>1. \E to \in StageNames, s \in Entries : After(stage) = Step(to, s, 1)
    BY <1>1, <1>3 DEF After, Entries, StageNames
  <2> QED
    BY <2>1, FirstEntered
<1> QED
  BY <1>2, <1>3

LEMMA NextRegisterEntered ==
  ASSUME NEW stage \in Stages, NEW k \in Nat \ {0}
  PROVE  Entered(NextRegister(stage, k))
<1>1. CASE k < Len(Plan[stage])
  <2>1. NextRegister(stage, k) = Step(stage, "request", k + 1)
    BY <1>1 DEF NextRegister
  <2>2. InPlan(stage, k + 1) /\ stage \in StageNames /\ "request" \in Entries /\ k + 1 \in Nat \ {0}
    BY <1>1, PlanShape DEF Entries, InPlan, StageNames
  <2> QED
    BY <2>1, <2>2 DEF Entered
<1>2. CASE ~(k < Len(Plan[stage]))
  <2>1. NextRegister(stage, k) = After(stage)
    BY <1>2 DEF NextRegister
  <2> QED
    BY <2>1, AfterEntered
<1> QED
  BY <1>1, <1>2

\* What a step of the bootstrap does to the queue, and where it leads.
LEMMA BootAsks ==
  ASSUME QueueType, BootShape, BootRequest
  PROVE  /\ BootShape' /\ boot.stage \in Stages /\ boot.step = "request"
         /\ Read \in DOMAIN Lengths
         /\ \/ Ask(Read) /\ boot' = [boot EXCEPT !.step = "reply"]
            \/ UNCHANGED bridge /\ boot' = [boot EXCEPT !.step = "drain"]
         /\ UNCHANGED <<board, decided, written>>
<1>1. /\ boot.stage \in Stages /\ boot.step = "request" /\ UNCHANGED <<board, decided, written>>
      /\ \/ Ask(Read) /\ boot' = [boot EXCEPT !.step = "reply"]
         \/ UNCHANGED bridge /\ boot' = [boot EXCEPT !.step = "drain"]
  BY DEF BootRequest, Reading
<1>2. BootShape'
  BY <1>1, PlanShape DEF BootShape, BootRecords, InPlan, StepNames
<1>3. Read \in DOMAIN Lengths
  BY <1>1, PlanShape DEF Read, BootShape, BootRecords, InPlan
<1> QED
  BY <1>1, <1>2, <1>3

LEMMA BootTakes ==
  ASSUME QueueType, BootShape, BootReply
  PROVE  /\ BootShape' /\ boot.stage \in Stages /\ boot.step = "reply" /\ Take
         /\ boot'.step # "reply" /\ UNCHANGED <<board, written>>
<1>1. boot.stage \in Stages /\ boot.step = "reply" /\ Take /\ UNCHANGED <<board, written>>
  BY DEF BootReply, Reading
<1> DEFINE wrong == boot.wrong \/ Head(replies) # Read
<1>2. \/ boot' = [boot EXCEPT !.step = "drain"]
      \/ boot' = NextRegister(boot.stage, boot.k)
      \/ /\ boot' = [boot EXCEPT !.step = "request", !.k = @ + 1, !.wrong = wrong]
         /\ boot.k # Len(Plan[boot.stage])
      \/ boot' = After("board")
      \/ boot' = [boot EXCEPT !.step = "write", !.wrong = wrong]
  BY DEF BootReply
<1>3. wrong \in BOOLEAN /\ boot.k \in Nat \ {0} /\ boot.k <= Len(Plan[boot.stage])
      /\ Len(Plan[boot.stage]) \in Nat
  BY <1>1, PlanShape DEF BootShape, BootRecords, InPlan, StepNames
<1> HIDE DEF wrong
<1>4. CASE boot' = NextRegister(boot.stage, boot.k) \/ boot' = After("board")
  <2>1. Entered(boot')
    BY <1>1, <1>3, <1>4, PlanShape, NextRegisterEntered, AfterEntered
  <2> QED
    BY <1>1, <2>1, EnteredShape DEF BootShape, Entries
<1>5. CASE /\ boot' = [boot EXCEPT !.step = "request", !.k = @ + 1, !.wrong = wrong]
           /\ boot.k # Len(Plan[boot.stage])
  <2>1. boot.k + 1 \in Nat \ {0} /\ boot.k + 1 <= Len(Plan[boot.stage])
    BY <1>3, <1>5
  <2>2. boot' \in BootRecords /\ boot'.k = boot.k + 1 /\ boot'.stage = boot.stage /\ boot'.step = "request"
    BY <1>3, <1>5, <2>1 DEF BootShape, BootRecords, StepNames
  <2> QED
    BY <1>1, <2>1, <2>2 DEF BootShape, InPlan
<1>6. CASE boot' = [boot EXCEPT !.step = "drain"]
           \/ boot' = [boot EXCEPT !.step = "write", !.wrong = wrong]
  <2>1. boot' \in BootRecords /\ boot'.k = boot.k /\ boot'.stage = boot.stage /\ boot'.step # "reply"
    BY <1>3, <1>6 DEF BootShape, BootRecords, StepNames
  <2> QED
    BY <1>1, <1>3, <2>1 DEF BootShape, InPlan
<1> QED
  BY <1>2, <1>4, <1>5, <1>6

LEMMA SameBridge ==
  ASSUME QueueType, UNCHANGED bridge
  PROVE  /\ QueueType' /\ Queue' = Queue /\ attached' = attached /\ late' = late
         /\ asked' = asked /\ replies' = replies
  BY SameQueue DEF bridge

\* The steps of a stage that read no reply.
LEMMA BootMoves ==
  ASSUME QueueType, BootShape, BootNoReply \/ BootDrain \/ Cleared \/ BootDrained \/ BootWrite
  PROVE  /\ BootShape' /\ boot.stage \in Stages /\ boot'.step # "reply" /\ board' = board
         /\ \/ GiveUp /\ (BootNoReply \/ Cleared \/ BootDrained)
            \/ Take /\ BootDrain /\ boot' = boot /\ boot.step # "reply"
            \/ UNCHANGED bridge /\ BootWrite /\ boot.step = "write"
<1>1. CASE BootNoReply \/ Cleared
  <2>1. /\ boot.stage \in Stages /\ GiveUp /\ board' = board
        /\ boot' = [boot EXCEPT !.step = "drain"] \/ boot' = [boot EXCEPT !.step = "request"]
    BY <1>1 DEF BootNoReply, Cleared, Reading
  <2>2. boot' \in BootRecords /\ boot'.step # "reply" /\ boot'.stage = boot.stage /\ boot'.k = boot.k
    BY <2>1 DEF BootShape, BootRecords, StepNames
  <2> QED
    BY <1>1, <2>1, <2>2 DEF BootShape, InPlan
<1>2. CASE BootDrain
  <2>1. boot.stage \in Stages /\ boot.step # "reply" /\ Take /\ boot' = boot /\ board' = board
    BY <1>2 DEF BootDrain, Reading, sessionVars
  <2> QED
    BY <1>2, <2>1 DEF BootShape
<1>3. CASE BootDrained
  <2>1. /\ boot.stage \in Stages /\ GiveUp /\ board' = board
        /\ \/ boot' = NextRegister("picture", boot.k) /\ boot.stage = "picture"
           \/ boot' = After(boot.stage)
    BY <1>3 DEF BootDrained, Reading
  <2>2. Entered(boot')
    BY <2>1, PlanShape, NextRegisterEntered, AfterEntered DEF BootShape, BootRecords
  <2>3. boot'.step # "reply" /\ BootShape'
    BY <2>2, EnteredShape DEF BootShape, Entries
  <2> QED
    BY <1>3, <2>1, <2>3
<1>4. CASE BootWrite
  <2>1. /\ boot.stage \in Stages /\ boot.step = "write" /\ UNCHANGED bridge /\ board' = board
        /\ boot' = NextRegister(boot.stage, boot.k)
    BY <1>4 DEF BootWrite, Reading
  <2>2. Entered(boot')
    BY <2>1, NextRegisterEntered DEF BootShape, BootRecords
  <2>3. boot'.step # "reply" /\ BootShape'
    BY <2>2, EnteredShape DEF BootShape, Entries
  <2> QED
    BY <1>4, <2>1, <2>3
<1> QED
  BY <1>1, <1>2, <1>3, <1>4

\* The recording, and the look at the video in front of it.
LEMMA CommandShape ==
  ASSUME boot \in BootRecords, boot.k <= Len(Recording)
  PROVE  /\ Command.kind \in {"write", "read"} /\ Command.length \in Nat \ {0}
         /\ Command.request \in DOMAIN Lengths \cup {NoRequest}
         /\ Len(Recording) \in Nat
<1> DEFINE Commands == [kind : {"write", "read"}, length : Nat \ {0},
                        request : DOMAIN Lengths \cup {NoRequest}]
<1>1. Recording \in Seq(Commands)
  BY PlanAssumption
<1> HIDE DEF Commands
<1>2. Len(Recording) \in Nat
  BY <1>1, LenProperties
<1>3. boot.k \in 1 .. Len(Recording)
  BY <1>2 DEF BootRecords
<1>4. Command \in Commands
  BY <1>1, <1>3, ElementOfSeq DEF Command
<1> QED
  BY <1>2, <1>4 DEF Commands

LEMMA ReplayedShape ==
  ASSUME BootShape, boot.stage = "replay", NEW actual \in Int, Replayed(actual)
  PROVE  /\ BootShape'
         /\ \/ boot'.stage = "replay" /\ boot'.step = boot.step /\ boot'.k = boot.k + 1
            \/ boot'.stage = "thrown"
<1>1. CASE boot' = [boot EXCEPT !.k = @ + 1, !.actual = actual]
  <2> DEFINE next == boot.k + 1
  <2>0. next \in Nat \ {0} /\ boot' = [boot EXCEPT !.k = next, !.actual = actual]
    BY <1>1 DEF BootShape, BootRecords
  <2> HIDE DEF next
  <2>1. boot' \in BootRecords /\ boot'.stage = "replay" /\ boot'.k = boot.k + 1 /\ boot'.step = boot.step
    BY <2>0 DEF BootShape, BootRecords, next
  <2> QED
    BY <2>1, PlanShape DEF BootShape, InPlan
<1>2. CASE boot' = Step("thrown", "go", 1)
  <2>1. Entered(boot') /\ boot'.stage = "thrown"
    BY <1>2, FirstEntered DEF StageNames, Entries, Step
  <2> QED
    BY <2>1, EnteredShape DEF BootShape
<1> QED
  BY <1>1, <1>2 DEF Replayed

LEMMA ReplayMoves ==
  ASSUME QueueType, BootShape,
         Flowing \/ ReplayWrite \/ ReplayRead \/ ReplayGone \/ ReplayDrain \/ ReplayDone
  PROVE  /\ BootShape' /\ QueueType' /\ attached' = attached
         /\ boot.stage \in {"flowing", "replay"} /\ UNCHANGED <<board, decided, written>>
         /\ \/ boot'.stage \in {"replay", "thrown"}
            \/ ReplayDone /\ GiveUp /\ boot' = Step("colour", "request", 1)
<1> USE DEF Commanding
<1>1. CASE Flowing
  <2>1. /\ boot.stage = "flowing" /\ UNCHANGED bridge /\ UNCHANGED <<board, decided, written>>
        /\ boot' = Step("thrown", "go", 1) \/ boot' = Step("replay", "go", 1)
    BY <1>1 DEF Flowing
  <2>2. Entered(boot') /\ boot'.stage \in {"thrown", "replay"}
    <3>1. /\ Entered(Step("thrown", "go", 1)) /\ Step("thrown", "go", 1).stage = "thrown"
          /\ Entered(Step("replay", "go", 1)) /\ Step("replay", "go", 1).stage = "replay"
      BY FirstEntered DEF StageNames, Entries, Step
    <3> QED
      BY <2>1, <3>1
  <2> QED
    BY <2>1, <2>2, EnteredShape, SameBridge DEF BootShape
<1>2. CASE ReplayWrite
  <2>1. boot.stage = "replay" /\ boot.k <= Len(Recording) /\ UNCHANGED <<board, decided, written>>
        /\ Replayed(Command.length)
        /\ (UNCHANGED bridge \/ (Command.request # NoRequest /\ Ask(Command.request)))
    BY <1>2 DEF ReplayWrite
  <2>2. Command.length \in Int /\ Command.request \in DOMAIN Lengths \cup {NoRequest}
    BY <2>1, CommandShape DEF BootShape
  <2>3. QueueType' /\ attached' = attached
    <3>1. CASE UNCHANGED bridge
      BY <3>1, SameBridge
    <3>2. CASE Command.request # NoRequest /\ Ask(Command.request)
      <4>1. Command.request \in DOMAIN Lengths
        BY <2>2, <3>2
      <4> QED
        BY <3>2, <4>1, AskQueue
    <3> QED
      BY <2>1, <3>1, <3>2
  <2> QED
    BY <2>1, <2>2, <2>3, ReplayedShape
<1>3. CASE ReplayRead
  <2>1. /\ boot.stage = "replay" /\ boot.k <= Len(Recording) /\ UNCHANGED <<board, decided, written>>
        /\ Take
    BY <1>3 DEF ReplayRead
  <2>2. Head(replies) \in DOMAIN Lengths /\ QueueType' /\ attached' = attached
    BY <2>1, TakeQueue, QueueShape
  <2>3. Lengths[Head(replies)] \in Int /\ Command.length \in Int
    BY <2>1, <2>2, BridgeAssumption, LenProperties, ElementOfSeq, CommandShape DEF BootShape
  <2>4. \E actual \in Int : Replayed(actual)
    BY <1>3, <2>3 DEF ReplayRead
  <2> QED
    BY <2>1, <2>2, <2>4, ReplayedShape
<1>4. CASE ReplayGone
  <2>1. /\ boot.stage = "replay" /\ boot.k <= Len(Recording) /\ UNCHANGED <<board, decided, written>>
        /\ UNCHANGED bridge
    BY <1>4 DEF ReplayGone
  <2>2. boot.actual \in Int /\ Command.length \in Int
    BY <2>1, CommandShape DEF BootShape, BootRecords
  <2>3. \E actual \in Int : Replayed(actual)
    BY <1>4, <2>2 DEF ReplayGone
  <2> QED
    BY <2>1, <2>3, ReplayedShape, SameBridge
<1>5. CASE ReplayDrain
  <2>1. /\ boot.stage = "replay" /\ boot' = boot /\ UNCHANGED <<board, decided, written>> /\ Take
    BY <1>5 DEF ReplayDrain, sessionVars
  <2> QED
    BY <2>1, TakeQueue DEF BootShape
<1>6. CASE ReplayDone
  <2>1. /\ boot.stage = "replay" /\ boot' = Step("colour", "request", 1) /\ GiveUp
        /\ UNCHANGED <<board, decided, written>>
    BY <1>6 DEF ReplayDone
  <2>2. Entered(boot')
    BY <2>1, FirstEntered DEF StageNames, Entries
  <2> QED
    BY <1>6, <2>1, <2>2, EnteredShape, GiveUpQueue DEF BootShape
<1> QED
  BY <1>1, <1>2, <1>3, <1>4, <1>5, <1>6

\* What is left unread, when it is not in the middle of a read or of the recording.
QueueBound(stage, step) ==
  attached /\ stage \in Stages \cup {"done"} =>
    Len(Queue) <= MaxAsked + (IF step = "reply" THEN 1 ELSE 0)

LEMMA BootEffect ==
  ASSUME QueueType, BootShape, Bootstrap, QueueBound(boot.stage, boot.step)
  PROVE  /\ BootShape' /\ QueueType' /\ attached' = attached
         /\ boot.stage \in Stages \cup {"flowing", "replay"}
         /\ QueueBound(boot.stage, boot.step)'
         /\ boot'.stage = "done" => boot'.step # "reply"
<1>0. /\ Len(Queue) \in Nat /\ MaxAsked \in Nat
      /\ boot.stage \in Stages /\ attached => Len(Queue) <= MaxAsked + (IF boot.step = "reply" THEN 1 ELSE 0)
  BY QueueShape, BridgeAssumption DEF QueueBound
<1>1. CASE BootRequest
  <2>1. /\ BootShape' /\ boot.stage \in Stages /\ boot.step = "request" /\ Read \in DOMAIN Lengths
        /\ \/ Ask(Read) /\ boot' = [boot EXCEPT !.step = "reply"]
           \/ UNCHANGED bridge /\ boot' = [boot EXCEPT !.step = "drain"]
    BY <1>1, BootAsks
  <2>2. boot'.stage = boot.stage /\ boot'.stage # "done"
    BY <2>1, PlanShape DEF BootShape, BootRecords
  <2>3. CASE Ask(Read) /\ boot' = [boot EXCEPT !.step = "reply"]
    <3>1. QueueType' /\ attached' = attached /\ Len(Queue') = Len(Queue) + 1 /\ attached
      BY <2>1, <2>3, AskQueue
    <3>2. boot'.step = "reply"
      BY <2>3 DEF BootShape, BootRecords
    <3>3. Len(Queue') <= MaxAsked + 1
      BY <1>0, <2>1, <3>1
    <3> QED
      BY <2>1, <2>2, <3>1, <3>2, <3>3 DEF QueueBound
  <2>4. CASE UNCHANGED bridge /\ boot' = [boot EXCEPT !.step = "drain"]
    <3>1. QueueType' /\ attached' = attached /\ Queue' = Queue
      BY <2>4, SameBridge
    <3>2. boot'.step = "drain"
      BY <2>4 DEF BootShape, BootRecords
    <3> QED
      BY <1>0, <2>1, <2>2, <3>1, <3>2 DEF QueueBound
  <2> QED
    BY <2>1, <2>3, <2>4
<1>2. CASE BootReply
  <2>1. BootShape' /\ boot.stage \in Stages /\ boot.step = "reply" /\ Take /\ boot'.step # "reply"
    BY <1>2, BootTakes
  <2>2. QueueType' /\ attached' = attached /\ attached /\ Len(Queue') = Len(Queue) - 1
    BY <2>1, TakeQueue
  <2>3. Len(Queue') <= MaxAsked
    BY <1>0, <2>1, <2>2
  <2> QED
    BY <1>0, <2>1, <2>2, <2>3 DEF QueueBound
<1>3. CASE BootNoReply \/ BootDrain \/ Cleared \/ BootDrained \/ BootWrite
  <2>1. /\ BootShape' /\ boot.stage \in Stages /\ boot'.step # "reply"
        /\ \/ GiveUp
           \/ Take /\ boot' = boot /\ boot.step # "reply"
           \/ UNCHANGED bridge /\ boot.step = "write"
    BY <1>3, BootMoves
  <2>2. /\ QueueType' /\ attached' = attached
        /\ attached => Len(Queue') <= MaxAsked
    <3>1. CASE GiveUp
      BY <3>1, GiveUpQueue
    <3>2. CASE Take /\ boot.step # "reply"
      <4>1. QueueType' /\ attached' = attached /\ Len(Queue') = Len(Queue) - 1
        BY <3>2, TakeQueue
      <4> QED
        BY <1>0, <2>1, <3>2, <4>1
    <3>3. CASE UNCHANGED bridge /\ boot.step = "write"
      <4>1. QueueType' /\ attached' = attached /\ Queue' = Queue
        BY <3>3, SameBridge
      <4> QED
        BY <1>0, <2>1, <3>3, <4>1
    <3> QED
      BY <2>1, <3>1, <3>2, <3>3
  <2> QED
    BY <1>0, <2>1, <2>2 DEF QueueBound
<1>4. CASE Flowing \/ ReplayWrite \/ ReplayRead \/ ReplayGone \/ ReplayDrain \/ ReplayDone
  <2>1. /\ BootShape' /\ QueueType' /\ attached' = attached /\ boot.stage \in {"flowing", "replay"}
        /\ \/ boot'.stage \in {"replay", "thrown"}
           \/ GiveUp /\ boot' = Step("colour", "request", 1)
    BY <1>4, ReplayMoves
  <2>2. CASE boot'.stage \in {"replay", "thrown"}
    BY <2>1, <2>2, PlanShape DEF QueueBound
  <2>3. CASE GiveUp /\ boot' = Step("colour", "request", 1)
    <3>1. attached => Len(Queue') <= MaxAsked
      BY <2>3, GiveUpQueue
    <3>2. boot'.stage = "colour" /\ boot'.step = "request"
      BY <2>3 DEF Step
    <3> QED
      BY <1>0, <2>1, <3>1, <3>2 DEF QueueBound
  <2> QED
    BY <2>1, <2>2, <2>3
<1> QED
  BY <1>1, <1>2, <1>3, <1>4 DEF Bootstrap

(***************************************************************************)
(* A poll never takes another register's reply for its own.                *)
(***************************************************************************)

PollType == poll \in [at : PollSteps, reg : Registers, wrong : BOOLEAN]

\* How many replies are in front of the one that is read or asked for next, and the register that
\* this poll asked for last.
Shift == IF poll.at = "reply" THEN Len(Queue) - 1 ELSE Len(Queue)
LastAsked == IF poll.at = "reply" THEN poll.reg ELSE poll.reg - 1

\* The newest requests are this poll's, and every reply that it took for a register's, though it
\* was of the one asked for Shift requests earlier, had that register's length.
Shifted ==
  /\ Shift \in 0 .. MaxAsked
  /\ \A j \in 0 .. Len(Queue) - 1 : j < LastAsked => Queue[Len(Queue) - j] = LastAsked - j
  /\ \A r \in Shift + 1 .. poll.reg - 1 : Lengths[r] = Lengths[r - Shift]
  /\ Shift = 0 => ~poll.wrong

InPoll == poll.at \in {"request", "reply"}
PollBound ==
  /\ attached => IF InPoll THEN Shifted ELSE Len(Queue) <= MaxAsked
  /\ poll.at = "publish" => ~poll.wrong
PollInv == QueueType /\ PollType /\ PollBound /\ PublishedFromOwnReplies

LEMMA RegistersShape ==
  /\ Polled \in Nat \ {0} /\ Registers = 1 .. Polled /\ Registers \subseteq DOMAIN Lengths
  /\ \A r \in DOMAIN Lengths : Lengths[r] \in Nat
  /\ MaxAsked \in Nat
<1>1. Lengths \in Seq(Nat \ {0}) /\ Polled \in DOMAIN Lengths /\ MaxAsked \in Nat
  BY BridgeAssumption, ConstantsAssumption
<1>2. Len(Lengths) \in Nat /\ DOMAIN Lengths = 1 .. Len(Lengths)
      /\ \A r \in 1 .. Len(Lengths) : Lengths[r] \in Nat \ {0}
  BY <1>1, LenProperties, ElementOfSeq
<1> QED
  BY <1>1, <1>2 DEF Registers

LEMMA AtType ==
  ASSUME NEW step \in PollSteps
  PROVE  /\ At(step) \in [at : PollSteps, reg : Registers, wrong : BOOLEAN]
         /\ At(step).at = step /\ At(step).reg = 1 /\ At(step).wrong = FALSE
<1>1. 1 \in Registers
  BY RegistersShape
<1> QED
  BY <1>1 DEF At

\* A poll that has asked for nothing.
LEMMA FreshShifted ==
  ASSUME QueueType, poll.at = "request", poll.reg = 1, ~poll.wrong, Len(Queue) <= MaxAsked
  PROVE  Shifted
<1>1. Shift = Len(Queue) /\ LastAsked = 0 /\ Len(Queue) \in Nat /\ MaxAsked \in Nat
  BY QueueShape, RegistersShape DEF Shift, LastAsked
<1>2. \A r \in Shift + 1 .. poll.reg - 1 : FALSE
  BY <1>1
<1> QED
  BY <1>1, <1>2 DEF Shifted

LEMMA FreshShiftedNext ==
  (QueueType /\ poll.at = "request" /\ poll.reg = 1 /\ ~poll.wrong /\ Len(Queue) <= MaxAsked)'
    => Shifted'
<1>1. QueueType /\ poll.at = "request" /\ poll.reg = 1 /\ ~poll.wrong /\ Len(Queue) <= MaxAsked
        => Shifted
  BY FreshShifted
<1> QED
  BY <1>1, PTL

LEMMA FailedType ==
  \E step \in {"done", "drain"} : Failed = At(step)
  BY DEF Failed

\* A step after which the poll reads nothing.
LEMMA LeavesPoll ==
  ASSUME PollInv, NEW step \in PollSteps \ {"request", "reply", "publish"}, poll' = At(step),
         QueueType', attached' = attached, attached => Len(Queue') <= MaxAsked
  PROVE  QueueType' /\ PollType' /\ PollBound'
<1>1. poll' \in [at : PollSteps, reg : Registers, wrong : BOOLEAN] /\ poll'.at = step
  BY AtType
<1> QED
  BY <1>1 DEF PollType, PollBound, InPoll

LEMMA PollRequests ==
  ASSUME PollInv, Request
  PROVE  PollInv'
<1>0. /\ poll.at = "request" /\ published' = published /\ poll.reg \in Registers
      /\ QueueType /\ PollType
      /\ attached => Shifted /\ Len(Queue) <= MaxAsked
  BY DEF Request, status, PollInv, PollBound, InPoll, PollType, Shifted, Shift
<1>1. PublishedFromOwnReplies'
  BY <1>0 DEF PollInv, PublishedFromOwnReplies
<1>2. CASE Ask(poll.reg) /\ poll' = [poll EXCEPT !.at = "reply"]
  <2> DEFINE n == Len(Queue)
             k == poll.reg
  <2>1. /\ QueueType' /\ attached /\ Len(Queue') = n + 1 /\ Queue'[n + 1] = k
        /\ \A i \in 1 .. n : Queue'[i] = Queue[i]
    BY <1>0, <1>2, RegistersShape, AskQueue
  <2>2. /\ PollType' /\ poll'.at = "reply" /\ poll'.reg = k /\ poll'.wrong = poll.wrong
    BY <1>0, <1>2 DEF PollType, PollSteps
  <2>3. /\ n \in 0 .. MaxAsked /\ n \in Nat /\ MaxAsked \in Nat /\ k \in Nat \ {0}
        /\ \A j \in 0 .. n - 1 : j < k - 1 => Queue[n - j] = (k - 1) - j
        /\ \A r \in n + 1 .. k - 1 : Lengths[r] = Lengths[r - n]
        /\ n = 0 => ~poll.wrong
    BY <1>0, <2>1, QueueShape, RegistersShape DEF Shifted, Shift, LastAsked
  <2>4. Shift' = n /\ LastAsked' = k
    BY <2>1, <2>2, <2>3 DEF Shift, LastAsked
  <2> HIDE DEF n, k
  <2>5. \A j \in 0 .. Len(Queue') - 1 : j < k => Queue'[Len(Queue') - j] = k - j
    <3> SUFFICES ASSUME NEW j \in 0 .. n, j < k PROVE Queue'[(n + 1) - j] = k - j
      BY <2>1, <2>3
    <3>1. CASE j = 0
      BY <2>1, <2>3, <3>1
    <3>2. CASE j # 0
      <4>1. j - 1 \in 0 .. n - 1 /\ j - 1 < k - 1 /\ n - (j - 1) = (n + 1) - j
            /\ (n + 1) - j \in 1 .. n /\ (k - 1) - (j - 1) = k - j
        BY <2>3, <3>2
      <4> QED
        BY <2>1, <2>3, <4>1
    <3> QED
      BY <3>1, <3>2
  <2>6. Shifted'
    BY <2>2, <2>3, <2>4, <2>5 DEF Shifted
  <2> QED
    BY <1>1, <2>1, <2>2, <2>6 DEF PollInv, PollBound, InPoll
<1>3. CASE UNCHANGED bridge /\ (poll' = Failed \/ poll' = At("done"))
  <2>1. QueueType' /\ attached' = attached /\ Queue' = Queue
    BY <1>0, <1>3, SameBridge
  <2>2. PICK step \in {"done", "drain"} : poll' = At(step)
    BY <1>3, FailedType
  <2>3. step \in PollSteps \ {"request", "reply", "publish"}
    BY DEF PollSteps
  <2> QED
    BY <1>0, <1>1, <2>1, <2>2, <2>3, LeavesPoll DEF PollInv
<1> QED
  BY <1>2, <1>3 DEF Request

\* A reply that is taken.  The last one is only taken for its register's if none is in front of it.
LEMMA PollReplies ==
  ASSUME PollInv, Reply
  PROVE  PollInv'
<1> DEFINE k == poll.reg
           s == Len(Queue) - 1
           head == Head(replies)
           wrong == poll.wrong \/ head # k
<1>0. /\ poll.at = "reply" /\ Take /\ published' = published /\ k \in Registers
      /\ QueueType /\ PollType
      /\ poll' = IF ~LengthFits(head) THEN Failed
                 ELSE [at    |-> IF k = Polled THEN "publish" ELSE "request",
                       reg   |-> IF k = Polled THEN k ELSE k + 1,
                       wrong |-> wrong]
  BY DEF Reply, status, PollInv, PollType
<1>1. PublishedFromOwnReplies'
  BY <1>0 DEF PollInv, PublishedFromOwnReplies
<1>2. /\ QueueType' /\ attached /\ attached' = attached
      /\ Len(Queue) >= 1 /\ head = Queue[1] /\ Len(Queue') = s
      /\ \A i \in 1 .. s : Queue'[i] = Queue[i + 1]
  BY <1>0, TakeQueue
<1>3. /\ s \in 0 .. MaxAsked /\ s \in Nat /\ Len(Queue) = s + 1 /\ MaxAsked \in Nat
      /\ \A j \in 0 .. s : j < k => Queue[(s + 1) - j] = k - j
      /\ \A r \in s + 1 .. k - 1 : Lengths[r] = Lengths[r - s]
      /\ s = 0 => ~poll.wrong
  <2>1. Shifted
    BY <1>0, <1>2 DEF PollInv, PollBound, InPoll
  <2>2. Shift = s /\ LastAsked = k
    BY <1>0 DEF Shift, LastAsked
  <2>3. Len(Queue) \in Nat /\ MaxAsked \in Nat
    BY <1>0, QueueShape, RegistersShape
  <2> QED
    BY <1>2, <2>1, <2>2, <2>3 DEF Shifted
<1>4. k \in Nat \ {0} /\ k <= Polled /\ Polled \in Nat
  BY <1>0, RegistersShape
<1>5. CASE ~LengthFits(head)
  <2>1. PICK step \in {"done", "drain"} : poll' = At(step)
    BY <1>0, <1>5, FailedType
  <2>2. step \in PollSteps \ {"request", "reply", "publish"}
    BY DEF PollSteps
  <2>3. Len(Queue') <= MaxAsked
    BY <1>2, <1>3
  <2> QED
    BY <1>1, <1>2, <2>1, <2>2, <2>3, LeavesPoll DEF PollInv
<1>6. CASE LengthFits(head)
  <2>1. Lengths[head] = Lengths[k]
    BY <1>6 DEF LengthFits
  <2> HIDE DEF s, k, head
  <2>2. s + 1 <= k => head = k - s
    <3>1. s \in 0 .. s /\ (s + 1) - s = 1
      BY <1>3
    <3> QED
      BY <1>2, <1>3, <1>4, <3>1
  <2>3. \A r \in s + 1 .. k : Lengths[r] = Lengths[r - s]
    <3> SUFFICES ASSUME NEW r \in s + 1 .. k PROVE Lengths[r] = Lengths[r - s]
      OBVIOUS
    <3>1. CASE r = k
      BY <1>3, <1>4, <2>1, <2>2, <3>1
    <3>2. CASE r # k
      BY <1>3, <1>4, <3>2
    <3> QED
      BY <3>1, <3>2
  <2>4. s = 0 => ~wrong
    <3>1. s = 0 => head = k
      BY <1>4, <2>2
    <3> QED
      BY <1>3, <3>1
  <2>5. wrong \in BOOLEAN
    OBVIOUS
  <2> HIDE DEF wrong
  <2>6. CASE k = Polled
    <3>1. poll' = [at |-> "publish", reg |-> k, wrong |-> wrong]
      BY <1>0, <1>6, <2>6
    <3>2. s = 0
      <4> SUFFICES ASSUME s \in 1 .. MaxAsked PROVE FALSE
        BY <1>3
      <4>1. PICK r \in s + 1 .. Polled : Lengths[r] # Lengths[r - s]
        BY LengthsAssumption
      <4> QED
        BY <2>3, <2>6, <4>1
    <3>3. PollType'
      BY <1>0, <2>5, <3>1 DEF PollType, PollSteps, k
    <3>4. poll'.at = "publish" /\ poll'.wrong = wrong
      BY <3>1
    <3>5. Len(Queue') <= MaxAsked
      BY <1>2, <1>3
    <3>6. ~InPoll' /\ ~poll'.wrong
      BY <2>4, <3>2, <3>4 DEF InPoll
    <3> QED
      BY <1>1, <1>2, <3>3, <3>4, <3>5, <3>6 DEF PollInv, PollBound
  <2>7. CASE k # Polled
    <3>1. poll' = [at |-> "request", reg |-> k + 1, wrong |-> wrong]
      BY <1>0, <1>6, <2>7
    <3>2. k + 1 \in Registers
      BY <1>4, <2>7, RegistersShape
    <3>3. PollType'
      BY <2>5, <3>1, <3>2 DEF PollType, PollSteps
    <3>4. poll'.at = "request" /\ poll'.reg = k + 1 /\ poll'.wrong = wrong
      BY <3>1
    <3>5. Shift' = s /\ LastAsked' = k
      BY <1>2, <1>4, <3>4 DEF Shift, LastAsked
    <3>6. \A j \in 0 .. Len(Queue') - 1 : j < k => Queue'[Len(Queue') - j] = k - j
      <4> SUFFICES ASSUME NEW j \in 0 .. s - 1, j < k PROVE Queue'[s - j] = k - j
        BY <1>2, <1>3
      <4>1. s - j \in 1 .. s /\ (s - j) + 1 = (s + 1) - j /\ j \in 0 .. s
        BY <1>3
      <4> QED
        BY <1>2, <1>3, <4>1
    <3>7. Shifted'
      <4>1. (k + 1) - 1 = k
        BY <1>4
      <4>2. \A r \in Shift' + 1 .. poll'.reg - 1 : Lengths[r] = Lengths[r - Shift']
        BY <2>3, <3>4, <3>5, <4>1
      <4>3. Shift' = 0 => ~poll'.wrong
        BY <2>4, <3>4, <3>5
      <4> QED
        BY <1>3, <3>5, <3>6, <4>2, <4>3 DEF Shifted
    <3> QED
      BY <1>1, <1>2, <3>3, <3>4, <3>7 DEF PollInv, PollBound, InPoll
  <2> QED
    BY <2>6, <2>7
<1> QED
  BY <1>5, <1>6

\* The poll's other steps leave the queue as it is or take from it, and begin no poll; only Lock
\* and Notify do, from where nothing is read.
LEMMA PollOthers ==
  ASSUME PollInv, NoReply \/ Publish \/ Drain \/ Drained \/ Lock \/ CheckPredicate \/ Sleep \/ Wake
  PROVE  PollInv'
<1>0. /\ QueueType /\ PollType /\ Len(Queue) \in Nat /\ MaxAsked \in Nat
      /\ attached /\ ~InPoll => Len(Queue) <= MaxAsked
      /\ poll.at = "publish" => ~poll.wrong
  BY QueueShape, RegistersShape DEF PollInv, PollBound
<1>1. CASE NoReply \/ Drained
  <2>1. GiveUp /\ published' = published
    BY <1>1 DEF NoReply, Drained, status
  <2>2. PublishedFromOwnReplies'
    BY <2>1 DEF PollInv, PublishedFromOwnReplies
  <2>3. QueueType' /\ Queue' = Queue /\ attached' = attached /\ (attached => Len(Queue') <= MaxAsked)
    BY <1>0, <2>1, GiveUpQueue
  <2>4. PICK step \in {"done", "drain", "wait"} : poll' = At(step)
    <3>1. poll' = Failed \/ (\E step \in {"done", "wait"} : poll' = At(step))
      BY <1>1 DEF NoReply, Drained
    <3> QED
      BY <3>1, FailedType
  <2>5. step \in PollSteps \ {"request", "reply", "publish"}
    BY DEF PollSteps
  <2> QED
    BY <2>2, <2>3, <2>4, <2>5, LeavesPoll DEF PollInv
<1>2. CASE Publish
  <2>1. /\ poll.at = "publish" /\ UNCHANGED bridge
        /\ published' = IF poll.wrong THEN "wrong" ELSE "right"
    BY <1>2 DEF Publish
  <2>2. PublishedFromOwnReplies'
    BY <1>0, <2>1 DEF PublishedFromOwnReplies
  <2>3. QueueType' /\ Queue' = Queue /\ attached' = attached
    BY <1>0, <2>1, SameBridge
  <2>4. PICK step \in {"done", "wait"} : poll' = At(step)
    BY <1>2 DEF Publish
  <2>5. step \in PollSteps \ {"request", "reply", "publish"} /\ ~InPoll
    BY <2>1 DEF PollSteps, InPoll
  <2> QED
    BY <1>0, <2>2, <2>3, <2>4, <2>5, LeavesPoll DEF PollInv
<1>3. CASE Drain
  <2>1. poll.at = "drain" /\ Take /\ poll' = poll /\ published' = published
    BY <1>3 DEF Drain, status
  <2>2. PublishedFromOwnReplies'
    BY <2>1 DEF PollInv, PublishedFromOwnReplies
  <2>3. QueueType' /\ attached' = attached /\ attached /\ Len(Queue') = Len(Queue) - 1
    BY <1>0, <2>1, TakeQueue
  <2>4. ~InPoll /\ ~InPoll' /\ poll'.at # "publish" /\ PollType'
    BY <1>0, <2>1 DEF InPoll, PollType
  <2> QED
    BY <1>0, <2>2, <2>3, <2>4 DEF PollInv, PollBound
<1>4. CASE Lock \/ CheckPredicate \/ Sleep \/ Wake
  <2>1. UNCHANGED bridge /\ published' = published /\ poll.at \notin {"request", "reply", "publish"}
    BY <1>4 DEF Lock, CheckPredicate, Sleep, Wake, status
  <2>2. PublishedFromOwnReplies'
    BY <2>1 DEF PollInv, PublishedFromOwnReplies
  <2>3. QueueType' /\ Queue' = Queue /\ attached' = attached /\ ~InPoll
    BY <1>0, <2>1, SameBridge DEF InPoll
  <2>4. PICK step \in {"done", "request", "sleeping", "asleep", "lock"} : poll' = At(step)
    BY <1>4 DEF Lock, CheckPredicate, Sleep, Wake
  <2>5. CASE step # "request"
    <3>1. step \in PollSteps \ {"request", "reply", "publish"}
      BY <2>5 DEF PollSteps
    <3> QED
      BY <1>0, <2>2, <2>3, <2>4, <3>1, LeavesPoll DEF PollInv
  <2>6. CASE step = "request"
    <3>1. /\ PollType' /\ poll'.at = "request" /\ poll'.reg = 1 /\ ~poll'.wrong
      BY <2>4, <2>6, AtType DEF PollType, PollSteps
    <3>2. attached' => Shifted'
      BY <1>0, <2>3, <3>1, FreshShiftedNext
    <3> QED
      BY <2>2, <2>3, <3>1, <3>2 DEF PollInv, PollBound, InPoll
  <2> QED
    BY <2>5, <2>6
<1> QED
  BY <1>1, <1>2, <1>3, <1>4

LEMMA PollOwner ==
  ASSUME PollInv, Owner
  PROVE  PollInv'
<1>0. /\ QueueType /\ UNCHANGED bridge /\ published' = published
      /\ poll' = poll \/ (poll' = At("lock") /\ poll.at \in {"asleep", "done"})
  BY DEF PollInv, Owner, Start, StoreFlag, TakeLock, TakeNoLock, Notify, Join, status
<1>1. QueueType' /\ Queue' = Queue /\ attached' = attached
  BY <1>0, SameBridge
<1>2. PublishedFromOwnReplies'
  BY <1>0 DEF PollInv, PublishedFromOwnReplies
<1>3. CASE poll' = poll
  BY <1>1, <1>2, <1>3 DEF PollInv, PollType, PollBound, InPoll, Shifted, Shift, LastAsked
<1>4. CASE poll' = At("lock") /\ poll.at \in {"asleep", "done"}
  <2>1. "lock" \in PollSteps \ {"request", "reply", "publish"} /\ ~InPoll
    BY <1>4 DEF PollSteps, InPoll
  <2>2. attached => Len(Queue') <= MaxAsked
    BY <1>1, <2>1 DEF PollInv, PollBound
  <2> QED
    BY <1>1, <1>2, <1>4, <2>1, <2>2, LeavesPoll DEF PollInv
<1> QED
  BY <1>0, <1>3, <1>4

\* What the card does reaches only the halves of the queue.
LEMMA CardQueue ==
  ASSUME QueueType, Card
  PROVE  /\ QueueType' /\ Queue' = Queue /\ (attached' => attached)
         /\ poll' = poll /\ published' = published /\ owner' = owner
<1>1. CASE Answer
  BY <1>1, AnswerQueue DEF Card, status
<1>2. CASE Unplug
  BY <1>2, SameQueue DEF Card, Unplug, status
<1> QED
  BY <1>1, <1>2 DEF Card

\* Until the bootstrap is done the poll, which is then the probe, has not begun.
ShiftInv ==
  /\ BootShape
  /\ boot.stage = "done" => PollInv
  /\ boot.stage # "done" =>
       /\ QueueType /\ PublishedFromOwnReplies
       /\ QueueBound(boot.stage, boot.step) /\ poll = At("request")

LEMMA ShiftInit == SInit => ShiftInv
<1> SUFFICES ASSUME SInit PROVE ShiftInv
  OBVIOUS
<1>1. /\ poll = At("request") /\ published = "none" /\ replies = << >> /\ asked \in Leftovers
      /\ \E stage \in {"counters", "board"} : boot = Step(stage, "clear", 1)
  BY DEF SInit, At
<1>2. PICK stage \in {"counters", "board"} : boot = Step(stage, "clear", 1)
  BY <1>1
<1>3. BootShape
  BY <1>2, FirstEntered, EnteredShape DEF StageNames, Entries, BootShape
<1>4. boot.stage # "done"
  BY <1>2 DEF Step
<1>5. QueueType
  BY <1>1, EmptySeq, LeftoversAssumption DEF QueueType
<1>6. Len(Queue) <= MaxAsked
  <2>1. Len(Queue) = Len(replies) + Len(asked) /\ Len(asked) \in Nat
    BY <1>5, QueueShape
  <2> QED
    BY <1>1, <2>1, EmptySeq, LeftoversAssumption
<1>7. QueueBound(boot.stage, boot.step)
  <2>1. boot.step = "clear" /\ Len(Queue) \in Nat /\ MaxAsked \in Nat
    BY <1>2, <1>5, QueueShape, RegistersShape DEF Step
  <2> QED
    BY <1>6, <2>1 DEF QueueBound
<1>8. PublishedFromOwnReplies
  BY <1>1 DEF PublishedFromOwnReplies
<1> QED
  BY <1>1, <1>3, <1>4, <1>5, <1>7, <1>8 DEF ShiftInv

LEMMA ShiftStep == ShiftInv /\ [SNext]_svars => ShiftInv'
<1> SUFFICES ASSUME ShiftInv, [SNext]_svars PROVE ShiftInv'
  OBVIOUS
<1>0. BootShape /\ QueueType /\ PublishedFromOwnReplies
  BY DEF ShiftInv, PollInv
<1>1. CASE Bootstrap /\ UNCHANGED <<owner, poll, shared, status>>
  <2>1. boot.stage # "done"
    BY <1>1, PlanShape DEF Bootstrap, BootRequest, BootReply, BootNoReply, BootDrain, Cleared, BootDrained,
         BootWrite, Flowing, ReplayWrite, ReplayRead, ReplayGone, ReplayDrain, ReplayDone, Reading, Commanding
  <2>2. QueueBound(boot.stage, boot.step) /\ poll = At("request")
    BY <2>1 DEF ShiftInv
  <2>3. /\ BootShape' /\ QueueType' /\ QueueBound(boot.stage, boot.step)'
        /\ boot'.stage = "done" => boot'.step # "reply"
    BY <1>0, <1>1, <2>2, BootEffect
  <2>4. poll' = At("request") /\ PublishedFromOwnReplies'
    BY <1>0, <1>1, <2>2 DEF status, PublishedFromOwnReplies
  <2>5. ASSUME boot'.stage = "done" PROVE PollInv'
    <3>1. PollType' /\ poll'.at = "request" /\ poll'.reg = 1 /\ ~poll'.wrong
      BY <2>4, AtType DEF PollType, PollSteps
    <3>2. attached' => Len(Queue') <= MaxAsked
      BY <2>3, <2>5, RegistersShape DEF QueueBound
    <3>3. attached' => Shifted'
      BY <2>3, <3>1, <3>2, FreshShiftedNext
    <3> QED
      BY <2>3, <2>4, <3>1, <3>3 DEF PollInv, PollBound, InPoll
  <2>6. (At("request"))' = At("request")
    BY DEF At
  <2> QED
    BY <2>3, <2>4, <2>5, <2>6 DEF ShiftInv
<1>2. CASE boot.stage = "done" /\ (Poll \/ Owner) /\ UNCHANGED sessionVars
  <2>1. PollInv /\ boot' = boot
    BY <1>2 DEF ShiftInv, sessionVars
  <2>2. PollInv'
    BY <1>2, <2>1, PollRequests, PollReplies, PollOthers, PollOwner DEF Poll
  <2> QED
    BY <1>0, <1>2, <2>1, <2>2 DEF ShiftInv, BootShape
<1>3. CASE Card /\ UNCHANGED sessionVars
  <2>1. /\ QueueType' /\ Queue' = Queue /\ (attached' => attached)
        /\ poll' = poll /\ published' = published /\ boot' = boot
    <3>1. boot' = boot
      BY <1>3 DEF sessionVars
    <3>2. /\ QueueType' /\ Queue' = Queue /\ (attached' => attached)
          /\ poll' = poll /\ published' = published
      BY <1>0, <1>3, CardQueue
    <3> QED
      BY <3>1, <3>2
  <2>2. BootShape' /\ PublishedFromOwnReplies' /\ (At("request"))' = At("request")
    BY <1>0, <2>1 DEF BootShape, PublishedFromOwnReplies, At
  <2>3. CASE boot.stage = "done"
    <3>1. PollInv
      BY <2>3 DEF ShiftInv
    <3>2. PollInv'
      BY <2>1, <2>2, <3>1 DEF PollInv, PollType, PollBound, InPoll, Shifted, Shift, LastAsked
    <3> QED
      BY <2>1, <2>2, <2>3, <3>2 DEF ShiftInv
  <2>4. CASE boot.stage # "done"
    <3>1. QueueBound(boot.stage, boot.step) /\ poll = At("request")
      BY <2>4 DEF ShiftInv
    <3>2. QueueBound(boot.stage, boot.step)'
      BY <2>1, <3>1 DEF QueueBound
    <3> QED
      BY <2>1, <2>2, <2>4, <3>1, <3>2 DEF ShiftInv
  <2> QED
    BY <2>3, <2>4
<1>4. CASE UNCHANGED svars
  <2>1. /\ attached' = attached /\ asked' = asked /\ replies' = replies
        /\ poll' = poll /\ published' = published /\ boot' = boot
    BY <1>4 DEF svars, vars, bridge, sessionVars
  <2>2. Queue' = Queue
    BY <2>1 DEF Queue
  <2> QED
    BY <2>1, <2>2 DEF ShiftInv, BootShape, QueueType, PublishedFromOwnReplies, QueueBound, At,
         PollInv, PollType, PollBound, InPoll, Shifted, Shift, LastAsked
<1> QED
  BY <1>1, <1>2, <1>3, <1>4 DEF SNext

LEMMA Shifts == SSpec => []ShiftInv
  BY ShiftInit, ShiftStep, PTL DEF SSpec

LEMMA QueueTyped ==
  ASSUME ShiftInv
  PROVE  QueueType /\ BootShape
  BY DEF ShiftInv, PollInv

\* No status is decoded from another register's value, whatever the bootstrap left behind and
\* however late the replies come (StatusMonitor.cpp 87-111, CommandBridge.cpp 26-39), because no
\* shift of the registers fits their lengths (LengthsAssumption).
THEOREM OwnStatus == SSpec => []PublishedFromOwnReplies
<1>1. ShiftInv => PublishedFromOwnReplies
  BY DEF ShiftInv, PollInv
<1> QED
  BY Shifts, <1>1, PTL

(***************************************************************************)
(* The board is not recognised by another register's reply.                *)
(***************************************************************************)

Expander == Plan.board[2]
Unlike(r) == Lengths[r] # Lengths[Expander]
UnlikeFrom(i) == \A j \in i .. Len(Queue) : Unlike(Queue[j])
Newest(r) == Len(Queue) >= 1 /\ Queue[Len(Queue)] = r

BootAt(stage, step, k) == boot.stage = stage /\ boot.step = step /\ boot.k = k

\* Up to the board's first reply only the oldest of the queue may have the expander's length; that
\* reply takes it away.  When the expander is read at the head of the queue, so was the first.
BoardBound ==
  /\ boot.stage = "counters" => UnlikeFrom(2)
  /\ BootAt("board", "clear", 1) => UnlikeFrom(2) /\ boot.wrong = FALSE
  /\ BootAt("board", "request", 1) => UnlikeFrom(2) /\ boot.wrong = FALSE
  /\ BootAt("board", "reply", 1) =>
       UnlikeFrom(2) /\ boot.wrong = FALSE /\ Newest(Plan.board[1])
  /\ BootAt("board", "request", 2) =>
       UnlikeFrom(1) /\ (Len(Queue) = 0 => boot.wrong = FALSE)
  /\ BootAt("board", "reply", 2) =>
       /\ \A j \in 1 .. Len(Queue) - 1 : Unlike(Queue[j])
       /\ Newest(Expander)
       /\ Len(Queue) = 1 => boot.wrong = FALSE

\* The board is read from the beginning, its registers are never written.
BoardSteps ==
  boot.stage = "board" =>
    boot.step \in {"clear", "request", "reply", "drain"} /\ (boot.step = "clear" => boot.k = 1)

BoardInv == (attached => BoardBound) /\ BoardSteps /\ decided.wrong = FALSE

LEMMA BoardPlan ==
  /\ "board" \in Stages /\ "counters" \in Stages /\ Len(Plan["board"]) = 2
  /\ Plan["board"][2] = Expander /\ Plan["board"][1] = Plan.board[1]
  /\ Plan.board[1] \in DOMAIN Lengths /\ Expander \in DOMAIN Lengths
  /\ Unlike(Plan.board[1])
  /\ \A k \in 1 .. Len(Plan["counters"]) : Unlike(Plan["counters"][k])
<1>1. Len(Plan["board"]) = 2 /\ "board" \in Stages /\ "counters" \in Stages
  BY PlanAssumption
<1>2. Plan.board[1] \in DOMAIN Lengths /\ Expander \in DOMAIN Lengths
  BY <1>1, PlanShape DEF Expander
<1>3. DOMAIN Plan["counters"] = 1 .. Len(Plan["counters"])
  BY <1>1, PlanAssumption, LenProperties
<1> QED
  BY <1>1, <1>2, <1>3, BoardAssumption DEF Unlike, Expander

LEMMA AskUnlike ==
  ASSUME QueueType, NEW r \in DOMAIN Lengths, Ask(r), Unlike(r), UnlikeFrom(2)
  PROVE  UnlikeFrom(2)' /\ Len(Queue') >= 1 /\ Queue'[Len(Queue')] = r
<1>1. /\ Len(Queue) \in Nat /\ Len(Queue') = Len(Queue) + 1 /\ Queue'[Len(Queue) + 1] = r
      /\ \A i \in 1 .. Len(Queue) : Queue'[i] = Queue[i]
  BY AskQueue, QueueShape
<1>2. ASSUME NEW j \in 2 .. Len(Queue') PROVE Unlike(Queue'[j])
  <2>1. CASE j = Len(Queue) + 1
    BY <1>1, <2>1
  <2>2. CASE j # Len(Queue) + 1
    <3>1. j \in 2 .. Len(Queue) /\ Queue'[j] = Queue[j]
      BY <1>1, <1>2, <2>2
    <3> QED
      BY <3>1 DEF UnlikeFrom
  <2> QED
    BY <2>1, <2>2
<1>3. UnlikeFrom(2)'
  BY <1>2 DEF UnlikeFrom, Unlike, Expander
<1> QED
  BY <1>1, <1>3

LEMMA TakeUnlike ==
  ASSUME QueueType, Take, UnlikeFrom(2)
  PROVE  UnlikeFrom(1)' /\ UnlikeFrom(2)'
<1>1. /\ Len(Queue) \in Nat /\ Len(Queue') = Len(Queue) - 1
      /\ \A i \in 1 .. Len(Queue) - 1 : Queue'[i] = Queue[i + 1]
  BY TakeQueue, QueueShape
<1>2. ASSUME NEW j \in 1 .. Len(Queue') PROVE Unlike(Queue'[j])
  <2>1. j + 1 \in 2 .. Len(Queue) /\ Queue'[j] = Queue[j + 1]
    BY <1>1, <1>2
  <2> QED
    BY <2>1 DEF UnlikeFrom
<1>3. \A j \in 1 .. Len(Queue') : Unlike(Queue'[j])
  BY <1>2
<1>4. 2 .. Len(Queue') \subseteq 1 .. Len(Queue')
  BY <1>1
<1> QED
  BY <1>3, <1>4 DEF UnlikeFrom, Unlike, Expander

\* The same queue.
LEMMA KeepUnlike ==
  ASSUME Queue' = Queue, UnlikeFrom(2)
  PROVE  UnlikeFrom(2)'
  BY DEF UnlikeFrom, Unlike, Expander

\* The steps and stages after which nothing is known of the queue.
LEMMA BoardElsewhere ==
  ASSUME boot'.stage \notin {"counters", "board"} \/ (boot'.stage = "board" /\ boot'.step = "drain"),
         decided'.wrong = FALSE
  PROVE  BoardInv'
  BY DEF BoardInv, BoardBound, BoardSteps, BootAt

LEMMA BoardInit == SInit => BoardInv
<1> SUFFICES ASSUME SInit PROVE BoardInv
  OBVIOUS
<1>1. PICK stage \in {"counters", "board"} : boot = Step(stage, "clear", 1)
  BY DEF SInit
<1>2. /\ asked \in Leftovers /\ replies = << >> /\ decided.wrong = FALSE
      /\ boot.stage = stage /\ boot.step = "clear" /\ boot.k = 1 /\ boot.wrong = FALSE
  BY <1>1 DEF SInit, Step
<1>3. asked \in Seq(DOMAIN Lengths)
  BY <1>2, LeftoversAssumption
<1>4. Queue = asked
  BY <1>2, <1>3, ConcatEmptySeq DEF Queue
<1>5. UnlikeFrom(2)
  BY <1>2, <1>4, BoardAssumption DEF UnlikeFrom, Unlike, Expander
<1> QED
  BY <1>2, <1>5 DEF BoardInv, BoardBound, BoardSteps, BootAt

LEMMA AtBoard ==
  ASSUME boot \in BootRecords, InPlan(boot.stage, boot.k), boot.stage = "board"
  PROVE  boot.k \in {1, 2}
<1>1. boot.k <= Len(Plan["board"])
  BY BoardPlan DEF InPlan
<1>2. boot.k \in Nat \ {0}
  BY DEF BootRecords
<1> QED
  BY <1>1, <1>2, BoardPlan

LEMMA BoardRequests ==
  ASSUME QueueType, BootShape, BoardInv, BootRequest
  PROVE  BoardInv'
<1>1. /\ boot.stage \in Stages /\ boot.step = "request" /\ Read \in DOMAIN Lengths
      /\ \/ Ask(Read) /\ boot' = [boot EXCEPT !.step = "reply"]
         \/ UNCHANGED bridge /\ boot' = [boot EXCEPT !.step = "drain"]
      /\ decided' = decided
  BY BootAsks
<1>2. decided'.wrong = FALSE
  BY <1>1 DEF BoardInv
<1>3. boot \in BootRecords /\ InPlan(boot.stage, boot.k)
  BY DEF BootShape
<1>4. CASE UNCHANGED bridge /\ boot' = [boot EXCEPT !.step = "drain"]
  <2>1. boot'.stage = boot.stage /\ boot'.step = "drain"
    BY <1>3, <1>4 DEF BootRecords
  <2>2. CASE boot.stage = "counters"
    <3>1. Queue' = Queue /\ attached' = attached
      BY <1>4, SameBridge
    <3>2. attached => UnlikeFrom(2)'
      BY <2>2, <3>1, KeepUnlike DEF BoardInv, BoardBound
    <3> QED
      BY <1>2, <2>1, <2>2, <3>1, <3>2 DEF BoardInv, BoardBound, BoardSteps, BootAt
  <2>3. CASE boot.stage # "counters"
    BY <1>2, <2>1, <2>3, BoardElsewhere
  <2> QED
    BY <2>2, <2>3
<1>5. CASE Ask(Read) /\ boot' = [boot EXCEPT !.step = "reply"]
  <2>1. /\ boot'.stage = boot.stage /\ boot'.step = "reply" /\ boot'.k = boot.k
        /\ boot'.wrong = boot.wrong
    BY <1>3, <1>5 DEF BootRecords
  <2>2. attached
    BY <1>5 DEF Ask
  <2>3. CASE boot.stage = "counters"
    <3>1. Unlike(Read)
      BY <1>3, <2>3, BoardPlan, PlanShape DEF Read, InPlan, BootRecords
    <3>2. UnlikeFrom(2)
      BY <2>2, <2>3 DEF BoardInv, BoardBound
    <3>3. UnlikeFrom(2)'
      BY <1>1, <1>5, <3>1, <3>2, AskUnlike
    <3> QED
      BY <1>2, <2>1, <2>3, <3>3 DEF BoardInv, BoardBound, BoardSteps, BootAt
  <2>4. CASE boot.stage = "board" /\ boot.k = 1
    <3>1. UnlikeFrom(2) /\ boot.wrong = FALSE
      BY <1>1, <2>2, <2>4 DEF BoardInv, BoardBound, BootAt
    <3>2. Read = Plan.board[1] /\ Unlike(Read)
      BY <2>4, BoardPlan DEF Read
    <3>3. UnlikeFrom(2)' /\ Len(Queue') >= 1 /\ Queue'[Len(Queue')] = Plan.board[1]
      BY <1>1, <1>5, <3>1, <3>2, AskUnlike
    <3>4. Newest(Plan.board[1])'
      BY <3>3 DEF Newest
    <3> QED
      BY <1>2, <2>1, <2>4, <3>1, <3>3, <3>4 DEF BoardInv, BoardBound, BoardSteps, BootAt
  <2>5. CASE boot.stage = "board" /\ boot.k = 2
    <3>1. UnlikeFrom(1) /\ (Len(Queue) = 0 => boot.wrong = FALSE) /\ Read = Expander
      BY <1>1, <2>2, <2>5, BoardPlan DEF BoardInv, BoardBound, BootAt, Read
    <3>2. /\ Len(Queue) \in Nat /\ Len(Queue') = Len(Queue) + 1 /\ Queue'[Len(Queue) + 1] = Expander
          /\ \A i \in 1 .. Len(Queue) : Queue'[i] = Queue[i]
      BY <1>1, <1>5, <3>1, AskQueue, QueueShape
    <3>3. \A j \in 1 .. Len(Queue') - 1 : Unlike(Queue'[j])
      BY <3>1, <3>2 DEF UnlikeFrom
    <3>4. Newest(Expander)'
      <4>1. Len(Queue') >= 1 /\ Queue'[Len(Queue')] = Expander
        BY <3>2
      <4> QED
        BY <4>1 DEF Newest, Expander
    <3>5. Len(Queue') = 1 => boot'.wrong = FALSE
      <4>1. Len(Queue') = 1 => Len(Queue) = 0
        BY <3>2
      <4> QED
        BY <2>1, <3>1, <4>1
    <3>6. (\A j \in 1 .. Len(Queue) - 1 : Unlike(Queue[j]))'
      BY <3>3 DEF Unlike, Expander
    <3> QED
      BY <1>2, <2>1, <2>5, <3>4, <3>5, <3>6 DEF BoardInv, BoardBound, BoardSteps, BootAt
  <2>6. CASE boot.stage \notin {"counters", "board"}
    BY <1>2, <2>1, <2>6, BoardElsewhere
  <2>7. ASSUME boot.stage = "board" PROVE boot.k \in {1, 2}
    BY <1>3, <2>7, AtBoard
  <2> QED
    BY <2>3, <2>4, <2>5, <2>6, <2>7
<1> QED
  BY <1>1, <1>4, <1>5

\* The expander's own reply was the last in the queue.
LEMMA OwnExpander ==
  ASSUME QueueType, BootShape, BoardInv, BootReply, boot.stage = "board", boot.k = 2,
         BootFits(Head(replies))
  PROVE  /\ Len(Queue') = 0 /\ decided'.wrong = FALSE
         /\ boot' = After("board") /\ boot'.stage \notin {"counters", "board"}
<1>1. boot.step = "reply" /\ Take
  BY BootTakes
<1>2. /\ Len(Queue) \in Nat /\ Len(Queue) >= 1 /\ Head(replies) = Queue[1] /\ attached
      /\ Len(Queue') = Len(Queue) - 1
  BY <1>1, TakeQueue, QueueShape
<1> DEFINE wrong == boot.wrong \/ Queue[1] # Read
<1>3. Read = Expander /\ boot.k = Len(Plan[boot.stage])
  BY BoardPlan DEF Read
<1>4. BoardRead(wrong) /\ boot' = After("board")
  BY <1>2, <1>3 DEF BootReply
<1>5. /\ \A j \in 1 .. Len(Queue) - 1 : Unlike(Queue[j])
      /\ Newest(Expander)
      /\ Len(Queue) = 1 => boot.wrong = FALSE
  BY <1>1, <1>2 DEF BoardInv, BoardBound, BootAt
<1>6. ~Unlike(Queue[1])
  BY <1>2, <1>3 DEF BootFits, Unlike
<1>7. Len(Queue) = 1
  BY <1>2, <1>5, <1>6
<1>8. wrong = FALSE
  BY <1>3, <1>5, <1>7 DEF Newest
<1> HIDE DEF wrong
<1>9. decided'.wrong = FALSE
  BY <1>4, <1>8 DEF BoardRead
<1>10. boot'.stage \notin {"counters", "board"}
  BY <1>4 DEF After, Step
<1> QED
  BY <1>2, <1>4, <1>7, <1>9, <1>10

LEMMA BoardReplies ==
  ASSUME QueueType, BootShape, BoardInv, BootReply
  PROVE  BoardInv'
<1>1. boot.stage \in Stages /\ boot.step = "reply" /\ Take /\ boot'.step # "reply"
  BY BootTakes
<1>2. /\ Len(Queue) \in Nat /\ Len(Queue) >= 1 /\ Head(replies) = Queue[1] /\ attached
      /\ Len(Queue') = Len(Queue) - 1
      /\ \A i \in 1 .. Len(Queue) - 1 : Queue'[i] = Queue[i + 1]
  BY <1>1, TakeQueue, QueueShape
<1>3. boot \in BootRecords /\ InPlan(boot.stage, boot.k) /\ decided.wrong = FALSE
  BY DEF BootShape, BoardInv
<1> DEFINE wrong == boot.wrong \/ Queue[1] # Read
<1>4. CASE boot.stage = "counters"
  <2>1. /\ decided' = decided
        /\ \/ boot' = [boot EXCEPT !.step = "drain"]
           \/ boot' = NextRegister("counters", boot.k)
    BY <1>4 DEF BootReply
  <2>2. UnlikeFrom(2)'
    BY <1>1, <1>2, <1>4, TakeUnlike DEF BoardInv, BoardBound
  <2>3. \/ boot'.stage = "counters"
        \/ boot'.stage = "board" /\ boot'.step = "clear" /\ boot'.k = 1 /\ boot'.wrong = FALSE
    BY <1>3, <1>4, <2>1 DEF NextRegister, After, Step, BootRecords
  <2> QED
    BY <1>3, <2>1, <2>2, <2>3 DEF BoardInv, BoardBound, BoardSteps, BootAt
<1>5. CASE boot.stage = "board" /\ boot' = [boot EXCEPT !.step = "drain"] /\ decided' = decided
  BY <1>3, <1>5, BoardElsewhere DEF BootRecords
<1>6. CASE boot.stage = "board" /\ boot.k = 1 /\ BootFits(Head(replies))
  <2>1. Read = Plan.board[1] /\ boot.k # Len(Plan[boot.stage])
    BY <1>6, BoardPlan DEF Read
  <2>2. decided' = decided /\ boot' = [boot EXCEPT !.step = "request", !.k = @ + 1, !.wrong = wrong]
    BY <1>2, <1>6, <2>1 DEF BootReply
  <2>3. UnlikeFrom(2) /\ boot.wrong = FALSE /\ Newest(Plan.board[1])
    BY <1>1, <1>2, <1>6 DEF BoardInv, BoardBound, BootAt
  <2>4. UnlikeFrom(1)'
    BY <1>1, <2>3, TakeUnlike
  <2>5. ASSUME Len(Queue') = 0 PROVE wrong = FALSE
    <3>1. Len(Queue) = 1
      BY <1>2, <2>5
    <3>2. Queue[1] = Read
      BY <2>1, <2>3, <3>1 DEF Newest
    <3> QED
      BY <2>3, <3>2
  <2> HIDE DEF wrong
  <2>6. boot'.stage = "board" /\ boot'.step = "request" /\ boot'.k = 2 /\ boot'.wrong = wrong
    BY <1>3, <1>6, <2>2 DEF BootRecords
  <2>7. Len(Queue') = 0 => boot'.wrong = FALSE
    BY <2>5, <2>6
  <2> QED
    BY <1>3, <2>2, <2>4, <2>6, <2>7 DEF BoardInv, BoardBound, BoardSteps, BootAt
<1>7. CASE boot.stage = "board" /\ boot.k = 2 /\ BootFits(Head(replies))
  BY <1>7, OwnExpander, BoardElsewhere
<1>8. CASE boot.stage \notin {"counters", "board"}
  <2>1. boot.stage \in {"colour", "picture"}
    BY <1>1, <1>8, PlanShape
  <2>2. /\ decided' = decided
        /\ \/ boot' = [boot EXCEPT !.step = "drain"]
           \/ boot' = [boot EXCEPT !.step = "write", !.wrong = boot.wrong \/ Head(replies) # Read]
           \/ boot' = NextRegister(boot.stage, boot.k)
    BY <2>1 DEF BootReply
  <2>3. NextRegister(boot.stage, boot.k).stage \notin {"counters", "board"}
    BY <2>1 DEF NextRegister, After, Step
  <2>4. boot'.stage \notin {"counters", "board"}
    BY <1>3, <2>1, <2>2, <2>3 DEF BootRecords
  <2> QED
    BY <1>3, <2>2, <2>4, BoardElsewhere
<1>9. boot.stage = "board" =>
        \/ boot' = [boot EXCEPT !.step = "drain"] /\ decided' = decided
        \/ BootFits(Head(replies))
  BY DEF BootReply
<1> QED
  BY <1>3, <1>4, <1>5, <1>6, <1>7, <1>8, <1>9, AtBoard

LEMMA BoardMoves ==
  ASSUME QueueType, BootShape, BoardInv,
         BootNoReply \/ BootDrain \/ Cleared \/ BootDrained \/ BootWrite
  PROVE  BoardInv'
<1>1. boot \in BootRecords /\ decided.wrong = FALSE /\ boot.stage \in Stages
  BY BootMoves DEF BootShape, BoardInv
<1>2. /\ QueueType' /\ attached' = attached
      /\ attached /\ UnlikeFrom(2) => UnlikeFrom(2)'
  <2>1. CASE GiveUp
    BY <2>1, GiveUpQueue, KeepUnlike
  <2>2. CASE Take
    BY <2>2, TakeQueue, TakeUnlike
  <2>3. CASE UNCHANGED bridge
    BY <2>3, SameBridge, KeepUnlike
  <2> QED
    BY <2>1, <2>2, <2>3, BootMoves
<1>3. CASE BootNoReply
  <2>1. boot' = [boot EXCEPT !.step = "drain"] /\ decided' = decided /\ boot.step = "reply"
    BY <1>3 DEF BootNoReply, Reading
  <2>2. boot'.stage = boot.stage /\ boot'.step = "drain"
    BY <1>1, <2>1 DEF BootRecords
  <2>3. CASE boot.stage = "counters"
    BY <1>1, <1>2, <2>1, <2>2, <2>3 DEF BoardInv, BoardBound, BoardSteps, BootAt
  <2> QED
    BY <1>1, <2>1, <2>2, <2>3, BoardElsewhere
<1>4. CASE BootDrain
  <2>1. boot' = boot /\ decided' = decided /\ boot.step \in {"drain", "clear"}
    BY <1>4 DEF BootDrain, Reading, sessionVars
  <2> QED
    BY <1>1, <1>2, <2>1 DEF BoardInv, BoardBound, BoardSteps, BootAt
<1>5. CASE Cleared
  <2>1. boot' = [boot EXCEPT !.step = "request"] /\ decided' = decided /\ boot.step = "clear"
    BY <1>5 DEF Cleared, Reading
  <2>2. /\ boot'.stage = boot.stage /\ boot'.step = "request" /\ boot'.k = boot.k
        /\ boot'.wrong = boot.wrong
    BY <1>1, <2>1 DEF BootRecords
  <2>3. boot.stage = "board" => boot.k = 1
    BY <2>1 DEF BoardInv, BoardSteps
  <2> QED
    BY <1>1, <1>2, <2>1, <2>2, <2>3 DEF BoardInv, BoardBound, BoardSteps, BootAt
<1>6. CASE BootDrained
  <2>1. /\ boot.step = "drain"
        /\ decided' = decided \/ decided' = [state |-> "Unknown", wrong |-> FALSE]
        /\ boot' = IF boot.stage = "picture" THEN NextRegister("picture", boot.k) ELSE After(boot.stage)
    BY <1>6 DEF BootDrained, Reading
  <2>2. decided'.wrong = FALSE
    BY <1>1, <2>1
  <2>3. CASE boot.stage = "counters"
    <3>1. boot'.stage = "board" /\ boot'.step = "clear" /\ boot'.k = 1 /\ boot'.wrong = FALSE
      BY <2>1, <2>3 DEF After, Step
    <3> QED
      BY <1>2, <2>2, <2>3, <3>1 DEF BoardInv, BoardBound, BoardSteps, BootAt
  <2>4. CASE boot.stage # "counters"
    <3>1. boot.stage \in {"board", "colour", "picture"}
      BY <1>1, <2>4, PlanShape
    <3>2. boot'.stage \notin {"counters", "board"}
      BY <2>1, <3>1 DEF NextRegister, After, Step
    <3> QED
      BY <2>2, <3>2, BoardElsewhere
  <2> QED
    BY <2>3, <2>4
<1>7. CASE BootWrite
  <2>1. boot' = NextRegister(boot.stage, boot.k) /\ decided' = decided /\ boot.step = "write"
    BY <1>7 DEF BootWrite, Reading
  <2>2. CASE boot.stage = "counters"
    <3>1. \/ boot'.stage = "counters"
          \/ boot'.stage = "board" /\ boot'.step = "clear" /\ boot'.k = 1 /\ boot'.wrong = FALSE
      BY <2>1, <2>2 DEF NextRegister, After, Step
    <3> QED
      BY <1>1, <1>2, <2>1, <2>2, <3>1 DEF BoardInv, BoardBound, BoardSteps, BootAt
  <2>3. CASE boot.stage \in {"colour", "picture"}
    <3>1. boot'.stage \notin {"counters", "board"}
      BY <2>1, <2>3 DEF NextRegister, After, Step
    <3> QED
      BY <1>1, <2>1, <3>1, BoardElsewhere
  <2> QED
    BY <1>1, <2>1, <2>2, <2>3, PlanShape DEF BoardInv, BoardSteps
<1> QED
  BY <1>3, <1>4, <1>5, <1>6, <1>7

LEMMA BoardStep == ShiftInv /\ BoardInv /\ [SNext]_svars => BoardInv'
<1> SUFFICES ASSUME ShiftInv, BoardInv, [SNext]_svars PROVE BoardInv'
  OBVIOUS
<1>0. QueueType /\ BootShape
  BY QueueTyped
<1>1. CASE Bootstrap
  <2>1. CASE Flowing \/ ReplayWrite \/ ReplayRead \/ ReplayGone \/ ReplayDrain \/ ReplayDone
    <3>1. /\ decided' = decided
          /\ boot'.stage \in {"replay", "thrown"} \/ boot' = Step("colour", "request", 1)
      BY <1>0, <2>1, ReplayMoves
    <3>2. boot'.stage \notin {"counters", "board"}
      BY <3>1 DEF Step
    <3> QED
      BY <3>1, <3>2, BoardElsewhere DEF BoardInv
  <2> QED
    BY <1>0, <1>1, <2>1, BoardRequests, BoardReplies, BoardMoves DEF Bootstrap
<1>2. CASE boot.stage = "done" /\ UNCHANGED sessionVars
  BY <1>2, BoardElsewhere DEF sessionVars, BoardInv
<1>3. CASE Card /\ UNCHANGED sessionVars
  <2>1. Queue' = Queue /\ (attached' => attached) /\ boot' = boot /\ decided' = decided
    BY <1>0, <1>3, CardQueue DEF sessionVars
  <2> QED
    BY <2>1 DEF BoardInv, BoardBound, BoardSteps, BootAt, UnlikeFrom, Unlike, Expander, Newest
<1>4. CASE UNCHANGED svars
  <2>1. Queue' = Queue /\ attached' = attached /\ boot' = boot /\ decided' = decided
    BY <1>4 DEF svars, vars, bridge, sessionVars, Queue
  <2> QED
    BY <2>1 DEF BoardInv, BoardBound, BoardSteps, BootAt, UnlikeFrom, Unlike, Expander, Newest
<1> QED
  BY <1>1, <1>2, <1>3, <1>4 DEF SNext

LEMMA Boards == SSpec => []BoardInv
  BY BoardInit, BoardStep, Shifts, PTL DEF SSpec

\* The board is taken for configured, or for fresh, on the word of its own registers only, however
\* late the replies to an earlier session or to the counters come (Bootstrapper.cpp 72-97):
\* a late reply is found out when the expander is read, whose length no other has
\* (BoardAssumption).
THEOREM OwnBoard == SSpec => []BoardReadFromItself
<1>1. BoardInv => BoardReadFromItself
  BY DEF BoardInv, BoardReadFromItself
<1> QED
  BY Boards, <1>1, PTL

(***************************************************************************)
(* One late reply does not change the output format.                       *)
(***************************************************************************)

Single == late.ever <= 1

\* What nobody waits for any more has not been answered, and was counted.
LateInv ==
  /\ late \in [now : Nat, ever : Nat] /\ late.now <= Len(asked)
  /\ Single => late.now <= late.ever

BridgeStep ==
  \/ \E r \in DOMAIN Lengths : Ask(r)
  \/ Take \/ GiveUp \/ Answer \/ Unplug \/ UNCHANGED bridge

LEMMA GivenUp ==
  ASSUME QueueType, LateInv, GiveUp
  PROVE  /\ LateInv' /\ (Single' => Single)
         /\ late'.now = Len(asked)
         /\ Single' => late'.ever = late.ever + Len(asked) - late.now
<1> DEFINE n == Len(asked)
           sum == late.ever + n - late.now
           capped == IF sum < Many THEN sum ELSE Many
<1>1. late' = [now |-> n, ever |-> capped] /\ asked' = asked
  BY DEF GiveUp
<1>2. /\ late.now \in Nat /\ late.ever \in Nat /\ late.now <= n
      /\ Single => late.now <= late.ever
  BY DEF LateInv
<1>3. n \in Nat /\ Many \in Nat /\ Many >= 2
  BY QueueShape, BridgeAssumption
<1> HIDE DEF n
<1>4. sum \in Nat /\ capped \in Nat /\ sum >= late.ever /\ (capped <= 1 => capped = sum)
  BY <1>2, <1>3
<1> HIDE DEF capped
<1>5. late'.now = n /\ late'.ever = capped /\ late' \in [now : Nat, ever : Nat]
  BY <1>1, <1>3, <1>4
<1>6. ASSUME Single' PROVE Single /\ late'.ever = sum /\ late'.now <= late'.ever
  <2>1. capped <= 1
    BY <1>5, <1>6 DEF Single
  <2>2. Single
    BY <1>2, <1>4, <2>1 DEF Single
  <2> QED
    BY <1>2, <1>3, <1>4, <1>5, <2>1, <2>2
<1>7. LateInv'
  BY <1>1, <1>3, <1>5, <1>6 DEF LateInv, n
<1> QED
  BY <1>5, <1>6, <1>7 DEF n

LEMMA Answered ==
  ASSUME QueueType, LateInv, Answer
  PROVE  /\ LateInv' /\ (Single' => Single)
         /\ Single => late'.now = 0 /\ late'.ever = late.ever
<1> DEFINE next == IF late.now > 0 THEN late.now - 1 ELSE 0
           n == Len(asked)
<1>1. late' = [late EXCEPT !.now = next] /\ asked' = Tail(asked) /\ asked # << >>
  BY DEF Answer
<1>2. /\ late \in [now : Nat, ever : Nat] /\ late.now \in Nat /\ late.ever \in Nat /\ late.now <= n
      /\ Single => late.now <= late.ever
  BY DEF LateInv
<1>3. n \in Nat /\ n # 0 /\ Len(asked') = n - 1
  <2>1. asked \in Seq(DOMAIN Lengths)
    BY DEF QueueType
  <2> QED
    BY <1>1, <2>1, HeadTailProperties, LenProperties, EmptySeq
<1> HIDE DEF n
<1>4. next \in Nat /\ next <= n - 1 /\ next <= late.now /\ (late.now <= 1 => next = 0)
  BY <1>2, <1>3
<1> HIDE DEF next
<1>5. late' \in [now : Nat, ever : Nat] /\ late'.now = next /\ late'.ever = late.ever
  BY <1>1, <1>2, <1>4
<1>6. ASSUME Single PROVE late'.now = 0 /\ late'.now <= late'.ever
  BY <1>2, <1>4, <1>5, <1>6 DEF Single
<1>7. Single' => Single
  BY <1>5 DEF Single
<1> QED
  BY <1>3, <1>4, <1>5, <1>6, <1>7 DEF LateInv

LEMMA LateStep ==
  ASSUME QueueType, LateInv, BridgeStep
  PROVE  LateInv' /\ (Single' => Single)
<1>1. CASE \E r \in DOMAIN Lengths : Ask(r)
  <2>1. PICK r \in DOMAIN Lengths : Ask(r)
    BY <1>1
  <2>2. late' = late /\ Len(asked') = Len(asked) + 1
    BY <2>1, AppendProperties DEF Ask, QueueType
  <2> QED
    BY <2>2, QueueShape DEF LateInv, Single
<1>2. CASE Take \/ Unplug \/ UNCHANGED bridge
  <2>1. late' = late /\ asked' = asked
    BY <1>2 DEF Take, Unplug, bridge
  <2> QED
    BY <2>1 DEF LateInv, Single
<1> QED
  BY <1>1, <1>2, GivenUp, Answered DEF BridgeStep

LEMMA Bridged ==
  ASSUME ShiftInv, [SNext]_svars
  PROVE  BridgeStep
<1>0. QueueType /\ BootShape
  BY QueueTyped
<1>1. CASE Bootstrap
  <2>1. CASE BootRequest
    BY <1>0, <2>1, BootAsks DEF BridgeStep
  <2>2. CASE BootReply
    BY <1>0, <2>2, BootTakes DEF BridgeStep
  <2>3. CASE BootNoReply \/ BootDrain \/ Cleared \/ BootDrained \/ BootWrite
    BY <1>0, <2>3, BootMoves DEF BridgeStep
  <2>4. CASE Flowing \/ ReplayRead \/ ReplayGone \/ ReplayDrain \/ ReplayDone
    BY <2>4 DEF Flowing, ReplayRead, ReplayGone, ReplayDrain, ReplayDone, BridgeStep
  <2>5. CASE ReplayWrite
    <3>1. /\ boot.k <= Len(Recording)
          /\ UNCHANGED bridge \/ (Command.request # NoRequest /\ Ask(Command.request))
      BY <2>5 DEF ReplayWrite, Commanding
    <3>2. Command.request \in DOMAIN Lengths \cup {NoRequest}
      BY <1>0, <3>1, CommandShape DEF BootShape
    <3> QED
      BY <3>1, <3>2 DEF BridgeStep
  <2> QED
    BY <1>1, <2>1, <2>2, <2>3, <2>4, <2>5 DEF Bootstrap
<1>2. CASE boot.stage = "done" /\ Poll
  <2>1. poll.reg \in DOMAIN Lengths
    <3>1. poll.reg \in 1 .. Polled
      BY <1>2 DEF ShiftInv, PollInv, PollType, Registers
    <3> QED
      BY <3>1, RegistersShape
  <2>2. CASE Request
    BY <2>1, <2>2 DEF Request, BridgeStep
  <2>3. CASE Reply \/ NoReply \/ Publish \/ Drain \/ Drained
    BY <2>3 DEF Reply, NoReply, Publish, Drain, Drained, BridgeStep
  <2>4. CASE Lock \/ CheckPredicate \/ Sleep \/ Wake
    BY <2>4 DEF Lock, CheckPredicate, Sleep, Wake, BridgeStep
  <2> QED
    BY <1>2, <2>2, <2>3, <2>4 DEF Poll
<1>3. CASE Owner
  BY <1>3 DEF Owner, Start, StoreFlag, TakeLock, TakeNoLock, Notify, Join, BridgeStep
<1>4. CASE Card
  BY <1>4 DEF Card, BridgeStep
<1>5. CASE UNCHANGED svars
  BY <1>5 DEF svars, vars, BridgeStep
<1> QED
  BY <1>1, <1>2, <1>3, <1>4, <1>5 DEF SNext

\* The recording's last command was a request whose reply has not been read.
Requests(k) == Recording[k].kind = "write" /\ Recording[k].request # NoRequest
Unread == boot.k > 1 /\ Requests(boot.k - 1)
Late == IF Unread THEN late.ever + 1 ELSE late.ever

\* Besides that request only one that is late can be in the queue, and it is read for another's.
ReplayBound ==
  /\ boot.k <= Len(Recording) + 1 /\ (boot.stage = "flowing" => boot.k = 1)
  /\ late.now > 0 => Len(replies) = 0
  /\ Len(Queue) <= Late
  /\ Unread /\ Len(Queue) >= 1 => Newest(Recording[boot.k - 1].request)
  /\ (\E j \in 1 .. boot.k - 1 : Recording[j].kind = "read") => late.now = 0

Colour == Plan.colour[1]
UnlikeColour == Lengths[Queue[1]] # Lengths[Colour]

\* At most the reply that the recording leaves is in front of the colour space's, and it shows.
ColourBound(step) ==
  /\ step = "request" =>
       /\ boot.wrong = FALSE
       /\ Len(Queue) = 0 \/ (Len(Queue) = 1 /\ UnlikeColour)
  /\ step = "reply" =>
       /\ boot.wrong = FALSE
       /\ (Len(Queue) = 1 /\ Queue[1] = Colour) \/ (Len(Queue) = 2 /\ UnlikeColour)
  /\ step = "write" => boot.wrong = FALSE
  /\ step # "clear"

FormatBound ==
  /\ boot.stage \in {"flowing", "replay"} => ReplayBound
  /\ boot.stage = "colour" => ColourBound(boot.step)
FormatInv == LateInv /\ (Single => written = FALSE /\ (attached => FormatBound))

LEMMA FormatElsewhere ==
  ASSUME boot'.stage \notin {"flowing", "replay", "colour"}
         \/ (boot'.stage = "colour" /\ boot'.step = "drain")
  PROVE  FormatBound'
  BY DEF FormatBound, ColourBound

LEMMA FormatPlan ==
  /\ "colour" \in Stages /\ Len(Plan["colour"]) = 1
  /\ Colour \in DOMAIN Lengths /\ Plan["colour"][1] = Colour
  /\ Len(Recording) \in Nat /\ DOMAIN Recording = 1 .. Len(Recording)
<1>1. "colour" \in Stages /\ Len(Plan["colour"]) = 1
  BY PlanAssumption
<1>2. Len(Recording) \in Nat /\ DOMAIN Recording = 1 .. Len(Recording)
  BY PlanAssumption, LenProperties
<1> QED
  BY <1>1, <1>2, PlanShape DEF Colour

\* The recording begins, or goes on to the colour space, with an empty queue.
LEMMA FormatEmpty ==
  ASSUME QueueType', LateInv', Len(Queue') = 0,
         boot' \in {Step("flowing", "go", 1), Step("replay", "go", 1), Step("colour", "request", 1)}
  PROVE  FormatBound'
<1>1. Len(replies') = 0 /\ Len(asked') = 0
  <2>1. Queue' = replies' \o asked' /\ replies' \in Seq(DOMAIN Lengths) /\ asked' \in Seq(DOMAIN Lengths)
    BY DEF Queue, QueueType
  <2>2. Len(Queue') = Len(replies') + Len(asked') /\ Len(replies') \in Nat /\ Len(asked') \in Nat
    BY ONLY <2>1, ConcatProperties, LenProperties
  <2> QED
    BY <2>2
<1>2. late'.now \in Nat /\ late'.ever \in Nat /\ late'.now <= Len(asked')
  BY DEF LateInv
<1>3. late'.now = 0
  BY <1>1, <1>2
<1>4. boot'.k = 1 /\ boot'.wrong = FALSE /\ (boot'.stage = "colour" => boot'.step = "request")
  BY DEF Step
<1>5. ~Unread' /\ ~(\E j \in 1 .. boot'.k - 1 : Recording[j].kind = "read")
  BY <1>4 DEF Unread
<1>6. Len(Queue') <= Late'
  BY <1>2, <1>5 DEF Late
<1>7. boot'.k <= Len(Recording) + 1
  BY <1>4, FormatPlan
<1>8. ReplayBound'
  BY <1>1, <1>3, <1>4, <1>5, <1>6, <1>7 DEF ReplayBound
<1>9. boot'.stage = "colour" => ColourBound(boot.step)'
  BY <1>4 DEF ColourBound
<1> QED
  BY <1>8, <1>9 DEF FormatBound

\* The board's steps.
LEMMA FormatBoard ==
  ASSUME QueueType, BootShape, BoardInv, LateInv, LateInv', QueueType', Single', attached,
         boot.stage \in {"counters", "board", "picture"},
         BootRequest \/ BootReply \/ BootNoReply \/ BootDrain \/ Cleared \/ BootDrained \/ BootWrite
  PROVE  FormatBound'
<1>0. boot \in BootRecords /\ InPlan(boot.stage, boot.k)
  BY DEF BootShape
<1>1. CASE boot.stage \in {"counters", "picture"}
  <2>1. boot'.stage \in {boot.stage, NextRegister(boot.stage, boot.k).stage, After(boot.stage).stage}
    <3>1. \/ boot' \in {boot, NextRegister(boot.stage, boot.k), After(boot.stage)}
          \/ \E step \in StepNames : boot' = [boot EXCEPT !.step = step]
          \/ \E w \in BOOLEAN : boot' = [boot EXCEPT !.step = "write", !.wrong = w]
      BY <1>0, <1>1 DEF BootRequest, BootReply, BootNoReply, BootDrain, Cleared, BootDrained, BootWrite,
           sessionVars, StepNames, BootRecords
    <3> QED
      BY <1>0, <3>1 DEF BootRecords
  <2>2. boot'.stage \notin {"flowing", "replay", "colour"}
    BY <1>1, <2>1 DEF NextRegister, After, Step
  <2> QED
    BY <2>2, FormatElsewhere
<1>2. CASE boot.stage = "board" /\ boot'.stage = "board"
  BY <1>2, FormatElsewhere
<1>3. CASE boot.stage = "board" /\ boot'.stage # "board" /\ BootReply
  <2>1. boot.step = "reply"
    BY <1>3, BootTakes
  <2>2. BootFits(Head(replies)) /\ boot.k = Len(Plan["board"])
    BY <1>0, <1>3 DEF BootReply, BootRecords
  <2>3. Len(Queue') = 0 /\ boot' = After("board")
    BY <1>3, <2>2, BoardPlan, OwnExpander
  <2>4. boot' \in {Step("flowing", "go", 1), Step("replay", "go", 1), Step("colour", "request", 1)}
    BY <2>3 DEF After
  <2> QED
    BY <2>3, <2>4, FormatEmpty
<1>4. CASE boot.stage = "board" /\ BootDrained
  <2>1. GiveUp /\ decided'.state = "Unknown" /\ boot' = After("board") /\ boot.step = "drain"
    BY <1>4 DEF BootDrained, Reading
  <2>2. boot' = Step("flowing", "go", 1)
    BY <2>1 DEF After
  <2>3. Queue' = asked /\ replies' = replies /\ Len(replies) = 0 /\ asked' = asked
    BY <2>1, GiveUpQueue, EmptySeq DEF GiveUp
  <2>4. late'.now <= late'.ever /\ late'.now = Len(asked) /\ late'.ever \in Nat
    BY <2>1, GivenUp DEF LateInv
  <2>5. boot'.k = 1 /\ boot'.stage = "flowing"
    BY <2>2 DEF Step
  <2>6. ~Unread' /\ ~(\E j \in 1 .. boot'.k - 1 : Recording[j].kind = "read")
    BY <2>5 DEF Unread
  <2>7. Len(Queue') <= Late'
    BY <2>3, <2>4, <2>6 DEF Late
  <2>8. boot'.k <= Len(Recording) + 1
    BY <2>5, FormatPlan
  <2>9. ReplayBound'
    BY <2>3, <2>5, <2>6, <2>7, <2>8 DEF ReplayBound
  <2> QED
    BY <2>5, <2>9 DEF FormatBound
<1>5. boot.stage = "board" => boot'.stage = "board" \/ BootReply \/ BootDrained
  <2> SUFFICES ASSUME boot.stage = "board", ~BootReply, ~BootDrained PROVE boot'.stage = "board"
    OBVIOUS
  <2>1. ~BootWrite
    BY DEF BootWrite, Reading, BoardInv, BoardSteps
  <2>2. boot' = boot \/ \E step \in StepNames : boot' = [boot EXCEPT !.step = step]
    BY <2>1 DEF BootRequest, BootNoReply, BootDrain, Cleared, sessionVars, StepNames
  <2> QED
    BY <1>0, <2>2 DEF BootRecords
<1> QED
  BY <1>1, <1>2, <1>3, <1>4, <1>5

\* The colour space's steps.
LEMMA FormatColour ==
  ASSUME QueueType, BootShape, boot.stage = "colour", ColourBound(boot.step), attached,
         BootRequest \/ BootReply \/ BootNoReply \/ BootDrain \/ Cleared \/ BootDrained \/ BootWrite
  PROVE  FormatBound'
<1>0. boot \in BootRecords /\ boot.k = 1 /\ Read = Colour
  <2>1. boot \in BootRecords /\ InPlan("colour", boot.k)
    BY DEF BootShape
  <2>2. boot.k \in Nat \ {0} /\ boot.k <= 1
    BY <2>1, FormatPlan DEF BootRecords, InPlan
  <2> QED
    BY <2>1, <2>2, FormatPlan DEF Read
<1>1. CASE BootRequest
  <2>1. /\ Read \in DOMAIN Lengths /\ boot.step = "request"
        /\ \/ Ask(Read) /\ boot' = [boot EXCEPT !.step = "reply"]
           \/ boot' = [boot EXCEPT !.step = "drain"]
    BY <1>1, BootAsks
  <2>2. CASE boot' = [boot EXCEPT !.step = "drain"]
    BY <1>0, <2>2, FormatElsewhere DEF BootRecords
  <2>3. CASE Ask(Read) /\ boot' = [boot EXCEPT !.step = "reply"]
    <3>1. /\ Len(Queue) \in Nat /\ Len(Queue') = Len(Queue) + 1 /\ Queue'[Len(Queue) + 1] = Colour
          /\ \A j \in 1 .. Len(Queue) : Queue'[j] = Queue[j]
      BY <1>0, <2>1, <2>3, AskQueue, QueueShape
    <3>2. boot.wrong = FALSE /\ (Len(Queue) = 0 \/ (Len(Queue) = 1 /\ UnlikeColour))
      BY <2>1 DEF ColourBound
    <3>3. \/ Len(Queue') = 1 /\ Queue'[1] = Colour
          \/ Len(Queue') = 2 /\ Lengths[Queue'[1]] # Lengths[Colour]
      <4>1. CASE Len(Queue) = 0
        BY <3>1, <4>1
      <4>2. CASE Len(Queue) = 1 /\ UnlikeColour
        BY <3>1, <4>2 DEF UnlikeColour
      <4> QED
        BY <3>2, <4>1, <4>2
    <3>4. boot'.stage = "colour" /\ boot'.step = "reply" /\ boot'.wrong = FALSE
      BY <1>0, <2>3, <3>2 DEF BootRecords
    <3> QED
      BY <3>3, <3>4 DEF FormatBound, ColourBound, UnlikeColour, Colour
  <2> QED
    BY <2>1, <2>2, <2>3
<1>2. CASE BootReply
  <2>1. boot.step = "reply" /\ Take
    BY <1>2, BootTakes
  <2>2. Head(replies) = Queue[1]
    BY <2>1, TakeQueue
  <2>3. \/ boot' = [boot EXCEPT !.step = "drain"]
        \/ boot' = NextRegister("colour", boot.k)
        \/ /\ BootFits(Queue[1])
           /\ boot' = [boot EXCEPT !.step = "write", !.wrong = boot.wrong \/ Queue[1] # Read]
    BY <1>2, <2>2 DEF BootReply
  <2>4. CASE boot' = [boot EXCEPT !.step = "drain"]
    BY <1>0, <2>4, FormatElsewhere DEF BootRecords
  <2>5. CASE boot' = NextRegister("colour", boot.k)
    BY <1>0, <2>5, FormatElsewhere, FormatPlan DEF NextRegister, After, Step
  <2>6. CASE /\ BootFits(Queue[1])
             /\ boot' = [boot EXCEPT !.step = "write", !.wrong = boot.wrong \/ Queue[1] # Read]
    <3>1. boot.wrong = FALSE /\ Queue[1] = Colour
      BY <1>0, <2>1, <2>6 DEF ColourBound, UnlikeColour, BootFits
    <3>2. boot' = [boot EXCEPT !.step = "write", !.wrong = FALSE]
      BY <1>0, <2>6, <3>1
    <3>3. boot'.stage = "colour" /\ boot'.step = "write" /\ boot'.wrong = FALSE
      BY <1>0, <3>2 DEF BootRecords
    <3> QED
      BY <3>3 DEF FormatBound, ColourBound
  <2> QED
    BY <2>3, <2>4, <2>5, <2>6
<1>3. CASE BootNoReply \/ BootDrain
  <2>1. /\ boot.step = "drain" \/ boot.step = "clear" => boot' = boot
        /\ boot.step = "reply" => boot' = [boot EXCEPT !.step = "drain"]
        /\ boot.step \in {"drain", "clear", "reply"}
    BY <1>3 DEF BootNoReply, BootDrain, Reading, sessionVars
  <2>2. boot.step # "clear"
    BY DEF ColourBound
  <2> QED
    BY <1>0, <2>1, <2>2, FormatElsewhere DEF BootRecords
<1>4. CASE Cleared
  BY <1>4 DEF Cleared, Reading, ColourBound
<1>5. CASE BootDrained \/ BootWrite
  <2>1. boot' \in {After("colour"), NextRegister("colour", boot.k)}
    BY <1>5 DEF BootDrained, BootWrite
  <2> QED
    BY <1>0, <2>1, FormatElsewhere, FormatPlan DEF NextRegister, After, Step
<1> QED
  BY <1>1, <1>2, <1>3, <1>4, <1>5

\* The recording's commands.
LEMMA ReplaysOn ==
  ASSUME BootShape, boot.stage = "replay", boot.k <= Len(Recording), NEW actual \in Int, Replayed(actual),
         ~Unread', late'.now > 0 => Len(replies') = 0, Len(Queue') <= late'.ever,
         boot'.stage = "replay" =>
           ((\E j \in 1 .. boot'.k - 1 : Recording[j].kind = "read") => late'.now = 0)
  PROVE  FormatBound'
<1>1. CASE boot'.stage = "thrown"
  BY <1>1, FormatElsewhere
<1>2. CASE boot'.stage = "replay" /\ boot'.k = boot.k + 1
  <2>1. boot'.k <= Len(Recording) + 1
    BY <1>2, FormatPlan DEF BootShape, BootRecords
  <2>2. Len(Queue') <= Late'
    BY DEF Late
  <2>3. ReplayBound'
    BY <1>2, <2>1, <2>2 DEF ReplayBound
  <2> QED
    BY <1>2, <2>3 DEF FormatBound
<1> QED
  BY <1>1, <1>2, ReplayedShape

LEMMA FormatWrites ==
  ASSUME QueueType, BootShape, LateInv, ReplayBound, attached, ReplayWrite
  PROVE  FormatBound'
<1>1. /\ boot.stage = "replay" /\ boot.k <= Len(Recording) /\ Recording[boot.k].kind = "write"
      /\ Replayed(Command.length) /\ boot.k \in Nat \ {0} /\ Len(Recording) \in Nat
      /\ IF Recording[boot.k].request = NoRequest THEN UNCHANGED bridge
         ELSE Ask(Recording[boot.k].request)
  BY FormatPlan DEF ReplayWrite, Commanding, Command, BootShape, BootRecords
<1>2. Command.length \in Int /\ Command.request \in DOMAIN Lengths \cup {NoRequest}
  BY <1>1, CommandShape DEF BootShape
<1>3. ~Unread
  <2> SUFFICES ASSUME Unread PROVE FALSE
    OBVIOUS
  <2>1. boot.k - 1 \in DOMAIN Recording /\ boot.k - 1 < Len(Recording) /\ Requests(boot.k - 1)
    BY <1>1, FormatPlan DEF Unread
  <2>2. Recording[(boot.k - 1) + 1].kind = "read"
    BY <2>1, RecordingAssumption DEF Requests
  <2>3. (boot.k - 1) + 1 = boot.k
    BY <1>1
  <2> QED
    BY <1>1, <2>2, <2>3
<1>4. /\ late.now > 0 => Len(replies) = 0
      /\ Len(Queue) <= late.ever
      /\ (\E j \in 1 .. boot.k - 1 : Recording[j].kind = "read") => late.now = 0
  BY <1>3 DEF ReplayBound, Late
<1>5. \/ boot'.stage = "replay" /\ boot'.k = boot.k + 1
      \/ boot'.stage = "thrown"
  BY <1>1, <1>2, ReplayedShape
<1>6. ASSUME boot'.stage = "replay", \E j \in 1 .. boot'.k - 1 : Recording[j].kind = "read"
      PROVE  late.now = 0
  <2>1. PICK j \in 1 .. boot'.k - 1 : Recording[j].kind = "read"
    BY <1>6
  <2>2. j # boot.k
    BY <1>1, <2>1
  <2>3. j \in 1 .. boot.k - 1
    BY <1>1, <1>5, <1>6, <2>1, <2>2
  <2> QED
    BY <1>4, <2>1, <2>3
<1>7. CASE Recording[boot.k].request = NoRequest
  <2>1. Queue' = Queue /\ late' = late /\ replies' = replies
    BY <1>1, <1>7, SameBridge
  <2>2. boot'.stage = "replay" => ~Unread'
    <3>1. boot'.stage = "replay" => boot'.k - 1 = boot.k
      BY <1>1, <1>5
    <3> QED
      BY <1>7, <3>1 DEF Unread, Requests
  <2>3. CASE boot'.stage = "replay"
    BY <1>1, <1>2, <1>4, <1>6, <2>1, <2>2, <2>3, ReplaysOn
  <2> QED
    BY <1>5, <2>3, FormatElsewhere
<1>8. CASE Recording[boot.k].request # NoRequest
  <2> DEFINE r == Recording[boot.k].request
  <2>1. r \in DOMAIN Lengths /\ Ask(r)
    BY <1>1, <1>2, <1>8 DEF Command
  <2> HIDE DEF r
  <2>2. /\ Len(Queue) \in Nat /\ Len(Queue') = Len(Queue) + 1 /\ Queue'[Len(Queue) + 1] = r
        /\ late' = late
    BY <2>1, AskQueue, QueueShape
  <2>3. replies' = replies /\ late.ever \in Nat
    BY <2>1 DEF Ask, LateInv
  <2>4. CASE boot'.stage = "replay" /\ boot'.k = boot.k + 1
    <3>1. boot'.k - 1 = boot.k /\ boot'.k <= Len(Recording) + 1
      BY <1>1, <2>4
    <3>2. Requests(boot.k) /\ Unread'
      BY <1>1, <1>8, <2>4, <3>1 DEF Unread, Requests
    <3>3. Len(Queue') <= Late'
      BY <1>4, <2>2, <2>3, <3>2 DEF Late
    <3>4. Len(Queue') >= 1 /\ Queue'[Len(Queue')] = Recording[boot'.k - 1].request
      BY <2>2, <3>1 DEF r
    <3>5. Newest(Recording[boot.k - 1].request)'
      BY <3>4 DEF Newest
    <3>6. ReplayBound'
      BY <1>4, <1>6, <2>2, <2>3, <2>4, <3>1, <3>3, <3>5 DEF ReplayBound
    <3> QED
      BY <2>4, <3>6 DEF FormatBound
  <2> QED
    BY <1>5, <2>4, FormatElsewhere
<1> QED
  BY <1>7, <1>8

LEMMA FormatReplay ==
  ASSUME QueueType, QueueType', BootShape, LateInv, LateInv', Single', attached, ReplayBound,
         boot.stage \in {"flowing", "replay"},
         Flowing \/ ReplayWrite \/ ReplayRead \/ ReplayGone \/ ReplayDrain \/ ReplayDone
  PROVE  FormatBound'
<1>0. boot \in BootRecords /\ boot.k \in Nat \ {0} /\ Len(Recording) \in Nat
      /\ late.now \in Nat /\ late.ever \in Nat
  BY FormatPlan DEF BootShape, BootRecords, LateInv
<1>1. CASE Flowing
  <2>1. /\ UNCHANGED bridge /\ boot.stage = "flowing"
        /\ boot' = Step("thrown", "go", 1) \/ boot' = Step("replay", "go", 1)
    BY <1>1 DEF Flowing
  <2>2. Queue' = Queue /\ replies' = replies /\ late' = late
    BY <2>1, SameBridge
  <2>3. CASE boot' = Step("thrown", "go", 1)
    BY <2>3, FormatElsewhere DEF Step
  <2>4. CASE boot' = Step("replay", "go", 1)
    <3>1. boot'.k = 1 /\ boot.k = 1 /\ boot'.stage = "replay"
      BY <2>1, <2>4 DEF Step, ReplayBound
    <3>2. ReplayBound'
      BY <2>2, <3>1 DEF ReplayBound, Late, Unread
    <3> QED
      BY <3>1, <3>2 DEF FormatBound
  <2> QED
    BY <2>1, <2>3, <2>4
<1>2. CASE ReplayRead
  <2>1. /\ boot.stage = "replay" /\ boot.k <= Len(Recording) /\ Recording[boot.k].kind = "read" /\ Take
    BY <1>2 DEF ReplayRead, Commanding, Command
  <2>2. /\ Len(Queue) \in Nat /\ Len(Queue') = Len(Queue) - 1 /\ late' = late
        /\ Head(replies) \in DOMAIN Lengths
    BY <2>1, TakeQueue, QueueShape
  <2>3. Len(replies) # 0
    BY <2>1, EmptySeq DEF Take, QueueType
  <2>4. late.now = 0
    BY <1>0, <2>3 DEF ReplayBound
  <2>5. Len(Queue') <= late.ever
    BY <1>0, <2>2 DEF ReplayBound, Late
  <2>6. Lengths[Head(replies)] \in Int /\ Command.length \in Int
    BY <1>0, <2>1, <2>2, RegistersShape, CommandShape
  <2>7. PICK actual \in Int : Replayed(actual)
    BY <1>2, <2>6 DEF ReplayRead
  <2>8. CASE boot'.stage = "replay"
    <3>1. boot'.k - 1 = boot.k
      BY <1>0, <2>1, <2>7, <2>8, ReplayedShape
    <3>2. ~Unread'
      BY <2>1, <3>1 DEF Unread, Requests
    <3> QED
      BY <2>1, <2>2, <2>4, <2>5, <2>7, <3>2, ReplaysOn
  <2>9. boot'.stage \in {"replay", "thrown"}
    BY <2>1, <2>7, ReplayedShape
  <2> QED
    BY <2>8, <2>9, FormatElsewhere
<1>3. CASE ReplayDrain
  <2>1. boot' = boot /\ Take
    BY <1>3 DEF ReplayDrain, sessionVars
  <2>2. /\ Len(Queue) \in Nat /\ Len(Queue') = Len(Queue) - 1 /\ late' = late
        /\ \A i \in 1 .. Len(Queue) - 1 : Queue'[i] = Queue[i + 1]
    BY <2>1, TakeQueue, QueueShape
  <2>3. Len(replies) # 0
    BY <2>1, EmptySeq DEF Take, QueueType
  <2>4. late.now = 0
    BY <1>0, <2>3 DEF ReplayBound
  <2>5. Unread' <=> Unread
    BY <2>1 DEF Unread
  <2>6. Len(Queue') <= Late'
    <3>1. Len(Queue) <= Late /\ Late \in Nat
      BY <1>0 DEF ReplayBound, Late
    <3>2. Late' = Late
      BY <2>2, <2>5 DEF Late
    <3> QED
      BY <2>2, <3>1, <3>2
  <2>7. ASSUME Unread, Len(Queue') >= 1
        PROVE  Newest(Recording[boot.k - 1].request)'
    <3>1. Queue[Len(Queue)] = Recording[boot.k - 1].request
      BY <2>2, <2>7 DEF ReplayBound, Newest
    <3>2. Queue'[Len(Queue')] = Queue[Len(Queue)]
      BY <2>2, <2>7
    <3> QED
      BY <2>1, <2>7, <3>1, <3>2 DEF Newest
  <2>8. ReplayBound'
    BY <2>1, <2>2, <2>4, <2>5, <2>6, <2>7 DEF ReplayBound
  <2> QED
    BY <2>1, <2>8, PlanShape DEF FormatBound
<1>4. CASE ReplayDone
  <2>1. /\ boot.stage = "replay" /\ boot.k > Len(Recording) /\ GiveUp
        /\ boot' = Step("colour", "request", 1)
    BY <1>4 DEF ReplayDone
  <2>2. boot.k - 1 = Len(Recording)
    BY <1>0, <2>1 DEF ReplayBound
  <2>3. late.now = 0
    BY <2>2, RecordingAssumption, FormatPlan DEF ReplayBound
  <2>4. Queue' = Queue /\ Queue = asked /\ Len(Queue) \in Nat
    BY <2>1, GiveUpQueue, QueueShape
  <2>5. late.ever + Len(Queue) <= 1
    BY <1>0, <2>1, <2>3, <2>4, GivenUp DEF Single
  <2>6. CASE Len(Queue) = 0
    <3>1. /\ Len(Queue') = 0
          /\ boot' \in {Step("flowing", "go", 1), Step("replay", "go", 1), Step("colour", "request", 1)}
      BY <2>1, <2>4, <2>6
    <3> QED
      BY <3>1, FormatEmpty
  <2>7. CASE Len(Queue) # 0
    <3>1. Len(Queue) = 1 /\ late.ever = 0
      <4> DEFINE e == late.ever
                 n == Len(Queue)
      <4>1. e \in Nat /\ n \in Nat /\ e + n <= 1 /\ n # 0
        BY <1>0, <2>4, <2>5, <2>7
      <4> HIDE DEF e, n
      <4>2. n = 1 /\ e = 0
        BY ONLY <4>1
      <4> QED
        BY <4>2 DEF e, n
    <3>2. Unread
      BY <3>1 DEF ReplayBound, Late
    <3>3. Queue[1] = Recording[Len(Recording)].request /\ Requests(Len(Recording))
          /\ Len(Recording) \in DOMAIN Recording
      BY <1>0, <2>2, <3>1, <3>2, FormatPlan DEF ReplayBound, Newest, Unread
    <3>4. UnlikeColour
      BY <1>0, <3>3, RecordingAssumption DEF UnlikeColour, Requests, Colour
    <3>5. boot'.stage = "colour" /\ boot'.step = "request" /\ boot'.wrong = FALSE
      BY <2>1 DEF Step
    <3> QED
      BY <2>4, <3>1, <3>4, <3>5 DEF FormatBound, ColourBound, UnlikeColour, Colour
  <2> QED
    BY <2>6, <2>7
<1> QED
  BY <1>1, <1>2, <1>3, <1>4, FormatWrites DEF ReplayGone

LEMMA FormatInit == SInit => FormatInv
<1> SUFFICES ASSUME SInit PROVE FormatInv
  OBVIOUS
<1>1. /\ asked \in Leftovers /\ late = [now |-> Len(asked), ever |-> Len(asked)] /\ written = FALSE
      /\ boot.stage \in {"counters", "board"}
  BY DEF SInit, Step
<1>2. Len(asked) \in Nat
  BY <1>1, LeftoversAssumption, LenProperties
<1> QED
  BY <1>1, <1>2 DEF FormatInv, LateInv, FormatBound

LEMMA FormatStep == ShiftInv /\ ShiftInv' /\ BoardInv /\ FormatInv /\ [SNext]_svars => FormatInv'
<1> SUFFICES ASSUME ShiftInv, ShiftInv', BoardInv, FormatInv, [SNext]_svars PROVE FormatInv'
  OBVIOUS
<1>1. QueueType /\ BootShape /\ LateInv
  BY QueueTyped DEF FormatInv
<1>2. QueueType'
  BY DEF ShiftInv, PollInv
<1>3. BridgeStep /\ LateInv' /\ (Single' => Single)
  BY <1>1, Bridged, LateStep
<1>4. attached' => attached
  BY <1>3 DEF BridgeStep, Ask, Take, GiveUp, Answer, Unplug, bridge
<1> SUFFICES ASSUME Single' PROVE written' = FALSE /\ (attached' => FormatBound')
  BY <1>3 DEF FormatInv
<1>5. Single /\ written = FALSE /\ (attached => FormatBound)
  BY <1>3 DEF FormatInv
<1>6. CASE Bootstrap
  <2>1. written' = FALSE
    <3>1. CASE BootWrite
      <4>1. written' = written \/ (attached /\ boot.stage = "colour" /\ boot.step = "write"
                                   /\ written' = (written \/ boot.wrong))
        BY <3>1 DEF BootWrite, Reading
      <4>2. attached /\ boot.stage = "colour" /\ boot.step = "write" => boot.wrong = FALSE
        BY <1>5 DEF FormatBound, ColourBound
      <4> QED
        BY <1>5, <4>1, <4>2
    <3>2. CASE ~BootWrite
      BY <1>5, <1>6, <3>2 DEF Bootstrap, BootRequest, BootReply, BootNoReply, BootDrain, Cleared,
           BootDrained, Flowing, ReplayWrite, ReplayRead, ReplayGone, ReplayDrain, ReplayDone, sessionVars
    <3> QED
      BY <3>1, <3>2
  <2>2. ASSUME attached' PROVE FormatBound'
    <3>1. attached /\ FormatBound
      BY <1>4, <1>5, <2>2
    <3>2. CASE Flowing \/ ReplayWrite \/ ReplayRead \/ ReplayGone \/ ReplayDrain \/ ReplayDone
      <4>1. boot.stage \in {"flowing", "replay"}
        BY <1>1, <3>2, ReplayMoves
      <4> QED
        BY <1>1, <1>2, <1>3, <3>1, <3>2, <4>1, FormatReplay DEF FormatBound
    <3>3. CASE \/ BootRequest \/ BootReply \/ BootNoReply \/ BootDrain
               \/ Cleared \/ BootDrained \/ BootWrite
      <4>1. boot.stage \in {"counters", "board", "colour", "picture"}
        BY <1>1, <3>3, BootAsks, BootTakes, BootMoves, PlanShape
      <4>2. CASE boot.stage = "colour"
        BY <1>1, <3>1, <3>3, <4>2, FormatColour DEF FormatBound
      <4>3. CASE boot.stage \in {"counters", "board", "picture"}
        BY <1>1, <1>2, <1>3, <3>1, <3>3, <4>3, FormatBoard
      <4> QED
        BY <4>1, <4>2, <4>3
    <3> QED
      BY <1>6, <3>2, <3>3 DEF Bootstrap
  <2> QED
    BY <2>1, <2>2
<1>7. CASE boot.stage = "done" /\ UNCHANGED sessionVars
  BY <1>5, <1>7, FormatElsewhere DEF sessionVars
<1>8. CASE Card /\ UNCHANGED sessionVars
  <2>1. Queue' = Queue /\ boot' = boot /\ written' = written
    BY <1>1, <1>8, CardQueue DEF sessionVars
  <2>2. CASE Answer
    <3>1. late'.now = 0 /\ late'.ever = late.ever
      BY <1>1, <1>5, <2>2, Answered
    <3> QED
      BY <1>4, <1>5, <2>1, <3>1 DEF FormatBound, ReplayBound, Late, Unread, Newest, ColourBound,
           UnlikeColour, Colour
  <2>3. CASE Unplug
    BY <1>5, <2>1, <2>3 DEF Unplug
  <2> QED
    BY <1>8, <2>2, <2>3 DEF Card
<1>9. CASE UNCHANGED svars
  <2>1. /\ Queue' = Queue /\ attached' = attached /\ boot' = boot /\ written' = written
        /\ late' = late /\ replies' = replies
    BY <1>9 DEF svars, vars, bridge, sessionVars, Queue
  <2> QED
    BY <1>5, <2>1 DEF FormatBound, ReplayBound, Late, Unread, Newest, ColourBound, UnlikeColour, Colour
<1> QED
  BY <1>6, <1>7, <1>8, <1>9 DEF SNext

\* One late reply alone, wherever it comes from, never gets the output format changed: the bits of
\* IO 0x02 that are written back are its own (setAutoInputColourSpace).  It shifts the recording's
\* reads by one, the last reply of which is then late too or is drained (Bootstrapper.cpp 48-54).
THEOREM FormatKept == SSpec => []FormatBitsKept
<1>1. FormatInv => FormatBitsKept
  BY DEF FormatInv, FormatBitsKept, Single
<1> QED
  BY FormatInit, FormatStep, Shifts, Boards, <1>1, PTL DEF SSpec
=============================================================================
