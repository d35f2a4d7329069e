------------------------ MODULE CapturePipelineProofs ------------------------
(***************************************************************************)
(* Proofs about CapturePipeline: all its safety properties, for every      *)
(* length of the ramp, of the settling time and of the intervals, and      *)
(* every set of loop times, packet sizes and input states.                 *)
(***************************************************************************)
EXTENDS CapturePipeline, FiniteSetTheorems, TLAPS

USE ConstantsAssumption

(***************************************************************************)
(* Type correctness.                                                       *)
(***************************************************************************)

LEMMA AgeInRange ==
  ASSUME NEW cap \in Nat, NEW age \in 0 .. cap, NEW dt \in Nat
  PROVE  CappedAge(age, dt, cap) \in age .. cap
  BY DEF CappedAge

LEMMA RampInRange ==
  ASSUME NEW position \in 0 .. RampFrames, NEW target \in 0 .. RampFrames, NEW steps \in Nat
  PROVE  Toward(position, target, steps) \in 0 .. RampFrames
<1>1. CASE position <= target
  BY <1>1 DEF Toward
<1>2. CASE position > target
  <2>1. ~ (position <= target)
    BY <1>2
  <2> QED
    BY <1>2, <2>1 DEF Toward
<1> QED
  BY <1>1, <1>2

LEMMA Division ==
  ASSUME NEW a \in Nat, NEW b \in Nat \ {0}
  PROVE  /\ a \div b \in Nat
         /\ (a \div b) * b <= a
         /\ a < (a \div b) * b + b
  OBVIOUS

LEMMA Scales ==
  ASSUME NEW a \in Int, NEW b \in Int, NEW k \in Nat \ {0}
  PROVE  /\ a < b <=> a * k < b * k
         /\ (b - a) * k = b * k - a * k
  OBVIOUS

\* What sendSilence sends and what it takes that for: each rounding down loses less than a unit.
LEMMA SilenceRounds ==
  ASSUME owed \in 0 .. OwedCap
  PROVE  /\ Due \in 0 .. SilenceMax /\ SilenceFrames \in Nat /\ Credit \in Nat
         /\ SilenceFrames * Second <= Due * SampleRate
         /\ Due * SampleRate < SilenceFrames * Second + Second
         /\ Credit * SampleRate <= SilenceFrames * Second
         /\ SilenceFrames * Second < Credit * SampleRate + SampleRate
         /\ Credit <= Due
<1>1. Due \in 0 .. SilenceMax
  BY DEF Due
<1>2. Due * SampleRate \in Nat
  BY <1>1
<1>3. /\ SilenceFrames \in Nat /\ SilenceFrames * Second <= Due * SampleRate
      /\ Due * SampleRate < SilenceFrames * Second + Second
  BY ONLY <1>2, Second \in Nat \ {0}, Division DEF SilenceFrames
<1>4. SilenceFrames * Second \in Nat
  BY <1>3
<1>5. /\ Credit \in Nat /\ Credit * SampleRate <= SilenceFrames * Second
      /\ SilenceFrames * Second < Credit * SampleRate + SampleRate
  BY ONLY <1>4, SampleRate \in Nat \ {0}, Division DEF Credit
<1>6. Credit * SampleRate <= Due * SampleRate
  BY <1>2, <1>3, <1>4, <1>5
<1>7. ~ (Due * SampleRate < Credit * SampleRate)
  BY <1>2, <1>5, <1>6
<1>8. ~ (Due < Credit)
  BY <1>1, <1>5, <1>7, Scales
<1> QED
  BY <1>1, <1>3, <1>5, <1>8

LEMMA FlagsInit == Init => FlagsOK
  BY DEF Init, FlagsOK

LEMMA FlagsStep == FlagsOK /\ [Next]_vars => FlagsOK'
<1> SUFFICES ASSUME FlagsOK, [Next]_vars
             PROVE  FlagsOK'
  OBVIOUS
<1>1. CASE Pass
  BY <1>1 DEF Pass, FlagsOK, parser, pace
<1>2. CASE Replug
  BY <1>2 DEF Replug, FlagsOK, sound, still, pace, image
<1>3. CASE SetInputState
  BY <1>3 DEF SetInputState, FlagsOK, parser, pace
<1>4. CASE Feed
  BY <1>4 DEF Feed, FlagsOK, sound, still, pace, image
<1>5. CASE Discard
  BY <1>5 DEF Discard, FlagsOK, sound, still, pace, image
<1>6. CASE OnVideoFrame
  BY <1>6 DEF OnVideoFrame, FlagsOK, parser, sound, still, pace
<1>7. CASE OnAudioPacket
  BY <1>7 DEF OnAudioPacket, Send, FlagsOK, parser, still, pace, image
<1>8. CASE Fed
  BY <1>8 DEF Fed, FlagsOK, parser, sound, still, pace, image
<1>9. CASE Tick
  BY <1>9 DEF Tick, CountPiece, Send, FlagsOK, parser, pace
<1>10. CASE UNCHANGED vars
  BY <1>10 DEF vars, pace, FlagsOK
<1> QED
  BY <1>1, <1>2, <1>3, <1>4, <1>5, <1>6, <1>7, <1>8, <1>9, <1>10 DEF Next

LEMMA NamesInit == Init => NamesOK
  BY DEF Init, NamesOK

LEMMA NamesStep == NamesOK /\ [Next]_vars => NamesOK'
<1> SUFFICES ASSUME NamesOK, [Next]_vars
             PROVE  NamesOK'
  OBVIOUS
<1>1. CASE Pass
  BY <1>1 DEF Pass, NamesOK, parser
<1>2. CASE Replug
  BY <1>2 DEF Replug, Lost, NamesOK, sound, still, image
<1>3. CASE SetInputState
  BY <1>3 DEF SetInputState, NamesOK, parser
<1>4. CASE Feed
  BY <1>4 DEF Feed, Lost, NamesOK, sound, still, image
<1>5. CASE Discard
  BY <1>5 DEF Discard, Lost, NamesOK, sound, still, image
<1>6. CASE OnVideoFrame
  BY <1>6 DEF OnVideoFrame, NamesOK, parser, sound, still
<1>7. CASE OnAudioPacket
  BY <1>7 DEF OnAudioPacket, Send, NamesOK, parser, still, image
<1>8. CASE Fed
  BY <1>8 DEF Fed, NamesOK, parser, sound, still, image
<1>9. CASE Tick
  BY <1>9 DEF Tick, Send, NamesOK, parser
<1>10. CASE UNCHANGED vars
  BY <1>10 DEF vars, NamesOK
<1> QED
  BY <1>1, <1>2, <1>3, <1>4, <1>5, <1>6, <1>7, <1>8, <1>9, <1>10 DEF Next

LEMMA NumbersInit == Init => NumbersOK
<1> SUFFICES ASSUME Init PROVE NumbersOK
  OBVIOUS
<1>1. gate \in Gates
  BY DEF Init, Gates
<1>2. owed \in 0 .. OwedCap /\ keepAliveAge \in 0 .. KeepAliveInterval
  BY DEF Init, OwedCap
<1>3. ramp \in 0 .. RampFrames /\ heard \in 0 .. RampFrames /\ burst \in Nat
  BY DEF Init
<1>5. debt \in Int /\ pieces \in 0 .. MaxPieces
  BY DEF Init
<1>4. sinceAbsent \in 0 .. SettleTime /\ afterClose \in Nat
  BY DEF Init
<1> QED
  BY <1>1, <1>2, <1>3, <1>4, <1>5 DEF NumbersOK

LEMMA NumbersPass == NumbersOK /\ Pass => NumbersOK'
<1> SUFFICES ASSUME NumbersOK, Pass
             PROVE  NumbersOK'
  OBVIOUS
<1>1. PICK dt \in LoopTimes :
        /\ gate' = [gate EXCEPT !.since = CappedAge(@, dt, SettleTime)]
        /\ sinceAbsent' = CappedAge(sinceAbsent, dt, SettleTime)
        /\ owed' = CappedAge(owed, dt, OwedCap)
        /\ keepAliveAge' = CappedAge(keepAliveAge, dt, KeepAliveInterval)
        /\ debt' \in {debt, debt + dt * SampleRate}
  BY DEF Pass
<1>2. gate.since \in 0 .. SettleTime /\ OwedCap \in Nat /\ dt \in Nat
  BY DEF NumbersOK, Gates, OwedCap
<1>3. CappedAge(gate.since, dt, SettleTime) \in 0 .. SettleTime
  BY <1>2 DEF CappedAge
<1>4. gate' \in Gates
  BY <1>1, <1>3 DEF NumbersOK, Gates
<1>5. sinceAbsent' \in 0 .. SettleTime /\ keepAliveAge' \in 0 .. KeepAliveInterval
  BY <1>1, <1>2, AgeInRange DEF NumbersOK
<1>6. owed' \in 0 .. OwedCap
  BY <1>1, <1>2, AgeInRange DEF NumbersOK
<1>7. UNCHANGED <<ramp, heard, burst, pieces, afterClose>>
  BY DEF Pass
<1>8. debt' \in Int
  BY <1>1, <1>2 DEF NumbersOK
<1> QED
  BY <1>4, <1>5, <1>6, <1>7, <1>8 DEF NumbersOK

LEMMA NumbersReport == NumbersOK /\ SetInputState => NumbersOK'
<1> SUFFICES ASSUME NumbersOK, SetInputState
             PROVE  NumbersOK'
  OBVIOUS
<1>1. PICK state \in States :
        /\ gate' = UpdatedGate(state = "Signal")
        /\ owed' \in {0, owed}
        /\ sinceAbsent' \in {0, sinceAbsent} /\ afterClose' \in {0, afterClose}
        /\ keepAliveAge' \in {KeepAliveInterval, keepAliveAge}
        /\ debt' \in {0, debt} /\ pieces' \in {0, pieces}
        /\ UNCHANGED <<ramp, heard, burst>>
  BY DEF SetInputState, pace
<1>2. gate' \in Gates
  BY <1>1 DEF NumbersOK, Gates, UpdatedGate, GateAfter
<1>3. owed' \in 0 .. OwedCap
  BY <1>1 DEF NumbersOK, OwedCap
<1> QED
  BY <1>1, <1>2, <1>3 DEF NumbersOK

\* The frames of a packet that are heard, when they ramp from "position" to "target".
Audible(position, target, frames) == { f \in 1 .. frames : Toward(position, target, f) > 0 }

LEMMA AudibleCounted ==
  ASSUME NEW position, NEW target, NEW frames \in Nat
  PROVE  Cardinality(Audible(position, target, frames)) \in Nat
<1>1. IsFiniteSet(1 .. frames)
  BY FS_Interval
<1>2. IsFiniteSet(Audible(position, target, frames))
  BY <1>1, FS_Subset DEF Audible
<1> QED
  BY <1>2, FS_CardinalityType

LEMMA NumbersAudio == NumbersOK /\ OnAudioPacket => NumbersOK'
<1> SUFFICES ASSUME NumbersOK, OnAudioPacket
             PROVE  NumbersOK'
  OBVIOUS
<1>1. PICK frames \in PacketFrames :
        /\ ramp' = Toward(ramp, Target, frames)
        /\ heard' = ramp'
        /\ afterClose' = IF gate.open THEN afterClose
                        ELSE afterClose + Cardinality(Audible(ramp, Target, frames))
  BY DEF OnAudioPacket, Send, Audible
<1>2. frames \in Nat /\ ramp \in 0 .. RampFrames /\ Target \in 0 .. RampFrames
  BY DEF Target, NumbersOK
<1>3. ramp' \in 0 .. RampFrames
  BY <1>1, <1>2, RampInRange
<1>4. afterClose' \in Nat
  BY <1>1, <1>2, AudibleCounted DEF NumbersOK
<1>5. UNCHANGED <<gate, owed, burst, debt, pieces, keepAliveAge, sinceAbsent>>
  BY DEF OnAudioPacket, still, pace, image
<1> QED
  BY <1>1, <1>3, <1>4, <1>5 DEF NumbersOK

LEMMA NumbersTick == NumbersOK /\ Tick => NumbersOK'
<1> SUFFICES ASSUME NumbersOK, Tick
             PROVE  NumbersOK'
  OBVIOUS
<1>1. owed \in 0 .. OwedCap
  BY DEF NumbersOK
<1>2. /\ Due \in 0 .. SilenceMax /\ SilenceFrames \in Nat /\ Credit \in Nat /\ Credit <= Due
      /\ SilenceFrames * Second \in Nat
  BY <1>1, SilenceRounds
<1>3. /\ burst' \in {0, SilenceFrames} /\ owed' \in {owed, Due - Credit}
      /\ heard' \in {0, heard} /\ keepAliveAge' \in {0, keepAliveAge}
      /\ UNCHANGED <<gate, ramp, sinceAbsent, afterClose>>
  BY DEF Tick, Send
<1>4. owed' \in 0 .. OwedCap
  BY <1>1, <1>2, <1>3 DEF OwedCap
<1>5. debt' \in {0, debt, debt - SilenceFrames * Second}
  BY DEF Tick, CountPiece, pace
<1>6. debt' \in Int
  BY <1>2, <1>5 DEF NumbersOK
<1>7. pieces' \in 0 .. MaxPieces
  <2>1. pieces' \in {0, pieces} \/ (pieces < MaxPieces /\ pieces' = pieces + 1)
    BY DEF Tick, CountPiece, Watched, pace
  <2> QED
    BY <2>1 DEF NumbersOK
<1> QED
  BY <1>2, <1>3, <1>4, <1>6, <1>7 DEF NumbersOK

LEMMA NumbersStep == NumbersOK /\ [Next]_vars => NumbersOK'
<1>1. NumbersOK /\ (Replug \/ Feed \/ Discard \/ OnVideoFrame \/ Fed \/ UNCHANGED vars) => NumbersOK'
  BY DEF Replug, Feed, Discard, OnVideoFrame, Fed, vars, NumbersOK, sound, still, pace, image, parser
<1> QED
  BY <1>1, NumbersPass, NumbersReport, NumbersAudio, NumbersTick DEF Next

LEMMA TypeInit == Init => TypeOK
  BY FlagsInit, NamesInit, NumbersInit DEF TypeOK

LEMMA TypeStep == TypeOK /\ [Next]_vars => TypeOK'
  BY FlagsStep, NamesStep, NumbersStep DEF TypeOK

\* CapturePipeline is type correct: ramp and ages stay in their ranges, whatever happens.
THEOREM TypeCorrect == Spec => []TypeOK
  BY TypeInit, TypeStep, PTL DEF Spec

(***************************************************************************)
(* The gate.                                                               *)
(***************************************************************************)

\* The gate times the signal's presence no longer than it has been there.
GateInv ==
  /\ gate.present => gate.since <= sinceAbsent
  /\ gate.open => gate.present /\ sinceAbsent >= SettleTime

LEMMA GateStep == TypeOK /\ GateInv /\ [Next]_vars => GateInv'
<1> SUFFICES ASSUME NumbersOK, GateInv, [Next]_vars
             PROVE  GateInv'
  BY DEF TypeOK
<1>1. gate.since \in 0 .. SettleTime /\ sinceAbsent \in 0 .. SettleTime
  BY DEF NumbersOK, Gates
<1>2. CASE Pass
  <2>1. PICK dt \in LoopTimes :
          /\ gate' = [gate EXCEPT !.since = CappedAge(@, dt, SettleTime)]
          /\ sinceAbsent' = CappedAge(sinceAbsent, dt, SettleTime)
    BY <1>2 DEF Pass
  <2>2. /\ gate'.present = gate.present /\ gate'.open = gate.open
        /\ gate'.since = CappedAge(gate.since, dt, SettleTime)
    BY <2>1 DEF NumbersOK, Gates
  <2>3. dt \in Nat
    OBVIOUS
  <2>4. CappedAge(sinceAbsent, dt, SettleTime) >= sinceAbsent
    BY <1>1, <2>3 DEF CappedAge
  <2>5. gate.since <= sinceAbsent => CappedAge(gate.since, dt, SettleTime) <= CappedAge(sinceAbsent, dt, SettleTime)
    BY <1>1, <2>3 DEF CappedAge
  <2>6. CappedAge(sinceAbsent, dt, SettleTime) \in 0 .. SettleTime
    BY <1>1, <2>3 DEF CappedAge
  <2>7. gate'.present => gate'.since <= sinceAbsent'
    BY <2>1, <2>2, <2>5 DEF GateInv
  <2>8. gate'.open => gate'.present /\ sinceAbsent' >= SettleTime
    BY <1>1, <2>1, <2>2, <2>4, <2>6 DEF GateInv
  <2> QED
    BY <2>7, <2>8 DEF GateInv
<1>3. CASE SetInputState
  <2>1. PICK state \in States :
          /\ gate' = UpdatedGate(state = "Signal")
          /\ sinceAbsent' = IF state = "Signal" THEN sinceAbsent ELSE 0
    BY <1>3 DEF SetInputState
  <2> DEFINE age == IF gate.present THEN gate.since ELSE 0
  <2>2. /\ gate'.present <=> state = "Signal"
        /\ gate'.open <=> state = "Signal" /\ (gate.open \/ age >= SettleTime)
        /\ gate'.since = age
    BY <2>1 DEF UpdatedGate, GateAfter
  <2>3. age <= sinceAbsent /\ age \in 0 .. SettleTime
    BY <1>1 DEF GateInv
  <2> HIDE DEF age
  <2>4. CASE state = "Signal"
    <3>1. sinceAbsent' = sinceAbsent /\ gate'.since <= sinceAbsent'
      BY <2>1, <2>2, <2>3, <2>4
    <3>2. gate'.open => sinceAbsent >= SettleTime
      BY <1>1, <2>2, <2>3 DEF GateInv
    <3> QED
      BY <2>2, <2>4, <3>1, <3>2 DEF GateInv
  <2>5. CASE state # "Signal"
    BY <2>2, <2>5 DEF GateInv
  <2> QED
    BY <2>4, <2>5
<1>4. CASE UNCHANGED <<gate, sinceAbsent>>
  BY <1>4 DEF GateInv
<1>5. Replug \/ Feed \/ Discard \/ OnVideoFrame \/ OnAudioPacket \/ Fed \/ Tick \/ UNCHANGED vars
      => UNCHANGED <<gate, sinceAbsent>>
  BY DEF Replug, Feed, Discard, OnVideoFrame, OnAudioPacket, Fed, Tick, vars, sound
<1> QED
  BY <1>2, <1>3, <1>4, <1>5 DEF Next

\* While the gate is closed the rest of the ramp and what was heard of it make up one ramp.
MuteInv ==
  ~gate.open => /\ afterClose < RampFrames
                /\ ramp > 0 => afterClose + ramp <= RampFrames

\* A packet that ramps to silence is heard until the ramp is down.
LEMMA AudibleDown ==
  ASSUME NEW position \in Nat, NEW frames \in Nat \ {0}
  PROVE  /\ position > frames =>
              /\ Toward(position, 0, frames) = position - frames
              /\ Cardinality(Audible(position, 0, frames)) = frames
         /\ position \in 1 .. frames =>
              /\ Toward(position, 0, frames) = 0
              /\ Cardinality(Audible(position, 0, frames)) = position - 1
         /\ position = 0 =>
              /\ Toward(position, 0, frames) = 0
              /\ Cardinality(Audible(position, 0, frames)) = 0
<1>1. \A f \in Nat : Toward(position, 0, f) = IF position > f THEN position - f ELSE 0
  <2> SUFFICES ASSUME NEW f \in Nat
               PROVE  Toward(position, 0, f) = IF position > f THEN position - f ELSE 0
    OBVIOUS
  <2>1. CASE position <= 0
    <3>1. position = 0 /\ ~(position + f < 0)
      BY <2>1
    <3> QED
      BY <2>1, <3>1 DEF Toward
  <2>2. CASE position > 0
    <3>1. ~(position <= 0) /\ (position - f > 0 <=> position > f)
      BY <2>2
    <3> QED
      BY <2>2, <3>1 DEF Toward
  <2> QED
    BY <2>1, <2>2
<1> DEFINE last == IF position > frames THEN frames ELSE IF position = 0 THEN 0 ELSE position - 1
<1>2. Audible(position, 0, frames) = 1 .. last
  BY <1>1 DEF Audible
<1>3. last \in Nat
  OBVIOUS
<1>4. Cardinality(Audible(position, 0, frames)) = last
  <2>1. Cardinality(1 .. last) = IF 1 > last THEN 0 ELSE last - 1 + 1
    BY <1>3, FS_Interval
  <2> QED
    BY <1>2, <1>3, <2>1
<1> QED
  BY <1>1, <1>4

LEMMA MuteStep == TypeOK /\ MuteInv /\ [Next]_vars => MuteInv'
<1> SUFFICES ASSUME NumbersOK, NumbersOK', MuteInv, [Next]_vars
             PROVE  MuteInv'
  BY NumbersStep DEF TypeOK
<1>1. ramp \in Nat /\ afterClose \in Nat /\ ramp' \in 0 .. RampFrames /\ afterClose' \in Nat
  BY DEF NumbersOK
<1>2. CASE Pass
  <2>1. gate'.open = gate.open /\ UNCHANGED <<ramp, afterClose>>
    BY <1>2 DEF Pass, NumbersOK, Gates
  <2> QED
    BY <2>1 DEF MuteInv
<1>3. CASE SetInputState
  <2>1. /\ afterClose' = IF gate.open /\ ~gate'.open THEN 0 ELSE afterClose
        /\ ramp' = ramp
    BY <1>3 DEF SetInputState
  <2> QED
    BY <1>1, <2>1 DEF MuteInv
<1>4. CASE OnAudioPacket
  <2>1. PICK frames \in PacketFrames :
          /\ ramp' = Toward(ramp, Target, frames)
          /\ afterClose' = IF gate.open THEN afterClose
                          ELSE afterClose + Cardinality(Audible(ramp, Target, frames))
          /\ gate' = gate
    BY <1>4 DEF OnAudioPacket, Audible
  <2>2. CASE gate.open
    BY <2>1, <2>2 DEF MuteInv
  <2>3. CASE ~gate.open
    <3>1. /\ ramp' = Toward(ramp, 0, frames)
          /\ afterClose' = afterClose + Cardinality(Audible(ramp, 0, frames))
      BY <2>1, <2>3 DEF Target
    <3>2. frames \in Nat \ {0}
      OBVIOUS
    <3>3. CASE ramp > frames
      <4>1. ramp' = ramp - frames /\ afterClose' = afterClose + frames
        BY <1>1, <3>1, <3>2, <3>3, AudibleDown
      <4> QED
        BY <1>1, <2>1, <2>3, <3>2, <3>3, <4>1 DEF MuteInv
    <3>4. CASE ramp \in 1 .. frames
      <4>1. ramp' = 0 /\ afterClose' = afterClose + (ramp - 1)
        BY <1>1, <3>1, <3>2, <3>4, AudibleDown
      <4> QED
        BY <1>1, <2>1, <2>3, <3>2, <3>4, <4>1 DEF MuteInv
    <3>5. CASE ramp = 0
      <4>1. ramp' = 0 /\ afterClose' = afterClose
        BY <1>1, <3>1, <3>2, <3>5, AudibleDown
      <4> QED
        BY <2>1, <2>3, <4>1 DEF MuteInv
    <3> QED
      BY <1>1, <3>2, <3>3, <3>4, <3>5
  <2> QED
    BY <2>2, <2>3
<1>5. Replug \/ Feed \/ Discard \/ OnVideoFrame \/ Fed \/ Tick \/ UNCHANGED vars
      => UNCHANGED <<gate, ramp, afterClose>>
  BY DEF Replug, Feed, Discard, OnVideoFrame, Fed, Tick, vars, sound
<1>6. CASE UNCHANGED <<gate, ramp, afterClose>>
  BY <1>6 DEF MuteInv
<1> QED
  BY <1>2, <1>3, <1>4, <1>5, <1>6 DEF Next

(***************************************************************************)
(* The images and the silence.                                             *)
(***************************************************************************)

\* What a blanked window shows is the reason it was blanked for, and so does the card, or it is due.
ImageInv ==
  /\ ~WantsData => videoBlanked /\ blankedFor = inputState
  /\ videoBlanked => /\ screen = blankedFor
                     /\ card = blankedFor \/ keepAliveAge = KeepAliveInterval
  /\ CardTellsReason

LEMMA ImageStep == TypeOK /\ ImageInv /\ [Next]_vars => ImageInv'
<1> SUFFICES ASSUME NumbersOK, ImageInv, [Next]_vars
             PROVE  ImageInv'
  BY DEF TypeOK
<1>1. keepAliveAge \in 0 .. KeepAliveInterval
  BY DEF NumbersOK
<1>2. CASE Pass
  <2>1. PICK dt \in LoopTimes : keepAliveAge' = CappedAge(keepAliveAge, dt, KeepAliveInterval)
    BY <1>2 DEF Pass
  <2>2. keepAliveAge = KeepAliveInterval => keepAliveAge' = KeepAliveInterval
    BY <1>1, <2>1 DEF CappedAge
  <2> QED
    BY <1>2, <2>2 DEF Pass, ImageInv, CardTellsReason, WantsData, Daemon
<1>3. CASE SetInputState
  <2>1. PICK state \in States :
          /\ at' # "turn" /\ inputState' = state /\ card' = card
          /\ Blanks(state) => /\ videoBlanked' = TRUE /\ blankedFor' = state /\ screen' = state
                              /\ keepAliveAge' = KeepAliveInterval
          /\ ~Blanks(state) => UNCHANGED <<videoBlanked, blankedFor, screen, keepAliveAge>>
    BY <1>3 DEF SetInputState
  <2>2. CASE Blanks(state)
    BY <2>1, <2>2 DEF ImageInv, CardTellsReason, WantsData
  <2>3. CASE ~Blanks(state)
    <3>1. state # "Signal" => videoBlanked /\ blankedFor = state
      BY <2>3 DEF Blanks
    <3> QED
      BY <2>1, <2>3, <3>1 DEF ImageInv, CardTellsReason, WantsData
  <2> QED
    BY <2>2, <2>3
<1>4. CASE Feed \/ Discard \/ Fed \/ Replug
  <2>1. /\ UNCHANGED <<driver, inputState, videoBlanked, blankedFor, screen, card, keepAliveAge>>
        /\ at' = "turn" => ~Daemon
    BY <1>4 DEF Feed, Discard, Fed, Replug, image, Daemon
  <2> QED
    BY <2>1 DEF ImageInv, CardTellsReason, WantsData, Daemon
<1>5. CASE OnVideoFrame
  BY <1>5 DEF OnVideoFrame, ImageInv, CardTellsReason, WantsData
<1>6. CASE OnAudioPacket \/ UNCHANGED vars
  <2>1. UNCHANGED <<driver, at, inputState, videoBlanked, blankedFor, screen, card, keepAliveAge>>
    BY <1>6 DEF OnAudioPacket, vars, image
  <2> QED
    BY <2>1 DEF ImageInv, CardTellsReason, WantsData, Daemon
<1>7. CASE Tick
  <2>1. /\ UNCHANGED <<driver, inputState, videoBlanked, blankedFor, screen>>
        /\ Daemon /\ ~WantsData /\ keepAliveAge >= KeepAliveInterval => card' = inputState
        /\ ~(Daemon /\ ~WantsData /\ keepAliveAge >= KeepAliveInterval) =>
              UNCHANGED <<card, keepAliveAge>>
    BY <1>7 DEF Tick
  <2>2. CASE ~WantsData
    <3>1. blankedFor = inputState /\ screen = inputState
      BY <2>2 DEF ImageInv
    <3>2. card = inputState \/ keepAliveAge = KeepAliveInterval
      BY <2>2, <3>1 DEF ImageInv
    <3>3. Daemon => card' = inputState
      BY <1>1, <2>1, <2>2, <3>2
    <3> QED
      BY <2>1, <2>2, <3>1, <3>2, <3>3 DEF ImageInv, CardTellsReason, WantsData, Daemon
  <2>3. CASE WantsData
    BY <2>1, <2>3 DEF ImageInv, CardTellsReason, WantsData, Daemon
  <2> QED
    BY <2>2, <2>3
<1> QED
  BY <1>2, <1>3, <1>4, <1>5, <1>6, <1>7 DEF Next

\* The code's account of the time that silence is owed for against the time that passed: since
\* both were counted anew, the one runs behind the other by no more than what was rounded off.
Allowance == Second + (pieces + 1) * (SampleRate - 1)

\* Where the loop has ticked and time has not passed since.
Ticked == at = "turn" \/ (~Daemon /\ at \in {"feed", "parse"})

PaceInv ==
  /\ sendingSilence <=> ~WantsData
  /\ burst * Second <= SilenceMax * SampleRate
  /\ sendingSilence /\ Ticked => owed < SilenceChunk
  /\ sendingSilence /\ ~stalled => owed <= SilenceMax
  /\ sendingSilence /\ ~stalled /\ Watched => owed * SampleRate - debt \in 0 .. Allowance

LEMMA AllowanceNat ==
  ASSUME NEW n \in Nat
  PROVE  Second + (n + 1) * (SampleRate - 1) \in Nat
<1>1. n + 1 \in Nat /\ SampleRate - 1 \in Nat
  OBVIOUS
<1>2. (n + 1) * (SampleRate - 1) \in Nat
  BY <1>1
<1> QED
  BY <1>2

\* Less than a chunk is owed after a tick, and the time counted is not ahead of it.
LEMMA PaceKept == NumbersOK /\ PaceInv => SilenceKeepsPace
<1> SUFFICES ASSUME NumbersOK, PaceInv, at = "turn", ~WantsData, Watched, ~stalled
             PROVE  /\ debt < SilenceChunk * SampleRate
                    /\ 0 - debt <= Second + (pieces + 1) * (SampleRate - 1)
  BY DEF SilenceKeepsPace, PaceInv
<1> DEFINE scaled == owed * SampleRate
           limit == SilenceChunk * SampleRate
<1>1. owed \in Nat /\ debt \in Int /\ pieces \in Nat /\ owed < SilenceChunk
  BY DEF NumbersOK, OwedCap, PaceInv, Ticked
<1>2. scaled - debt \in 0 .. Allowance
  BY DEF PaceInv
<1>3. scaled \in Nat /\ limit \in Nat /\ scaled < limit
  BY <1>1, Scales
<1>4. Allowance \in Nat
  BY <1>1, AllowanceNat DEF Allowance
<1> HIDE DEF scaled, limit
<1>5. debt < limit /\ 0 - debt <= Allowance
  BY <1>1, <1>2, <1>3, <1>4
<1> QED
  BY <1>5 DEF Allowance, limit

\* A turn adds to both accounts alike, or it is a stall.
LEMMA PacePass == NumbersOK /\ PaceInv /\ Pass => PaceInv'
<1> SUFFICES ASSUME NumbersOK, PaceInv, Pass
             PROVE  PaceInv'
  OBVIOUS
<1>1. PICK dt \in LoopTimes :
        /\ at = "turn" /\ at' = "report"
        /\ owed' = CappedAge(owed, dt, OwedCap)
        /\ debt' = IF sendingSilence /\ Watched THEN debt + dt * SampleRate ELSE debt
        /\ stalled' = (stalled \/ (sendingSilence /\ dt > SilenceMax - SilenceChunk))
        /\ UNCHANGED <<driver, inputState, sendingSilence, burst, pieces>>
  BY DEF Pass
<1>2. dt \in Nat /\ owed \in Nat /\ debt \in Int
  BY DEF NumbersOK, OwedCap
<1>3. ~Ticked'
  BY <1>1 DEF Ticked
<1>4. /\ (sendingSilence <=> ~WantsData)'
      /\ (burst * Second <= SilenceMax * SampleRate)'
  BY <1>1 DEF PaceInv, WantsData
<1>5. ASSUME sendingSilence, ~stalled'
      PROVE  ~stalled /\ owed' = owed + dt /\ owed' <= SilenceMax
  <2>0. ~stalled /\ ~(dt > SilenceMax - SilenceChunk)
    BY <1>1, <1>5
  <2>1. ~stalled /\ dt <= SilenceMax - SilenceChunk
    BY <1>2, <2>0
  <2>2. owed < SilenceChunk
    BY <1>1, <1>5 DEF PaceInv, Ticked
  <2> QED
    BY <1>1, <1>2, <2>1, <2>2 DEF CappedAge, OwedCap
<1>6. ASSUME sendingSilence, ~stalled', Watched
      PROVE  (owed * SampleRate - debt \in 0 .. Allowance)'
  <2>1. owed' * SampleRate = owed * SampleRate + dt * SampleRate
    BY <1>2, <1>5, <1>6
  <2>2. debt' = debt + dt * SampleRate
    BY <1>1, <1>6
  <2>3. owed * SampleRate \in Int /\ dt * SampleRate \in Int
    BY <1>2
  <2>4. owed' * SampleRate - debt' = owed * SampleRate - debt
    BY <1>2, <2>1, <2>2, <2>3
  <2>5. owed * SampleRate - debt \in 0 .. Allowance
    BY <1>5, <1>6 DEF PaceInv
  <2>6. Allowance' = Allowance
    BY <1>1 DEF Allowance
  <2> QED
    BY <2>4, <2>5, <2>6
<1>7. sendingSilence' = sendingSilence /\ (Watched' <=> Watched)
  BY <1>1 DEF Watched
<1> QED
  BY <1>3, <1>4, <1>5, <1>6, <1>7 DEF PaceInv

\* A report begins both accounts together.
LEMMA PaceReport == NumbersOK /\ PaceInv /\ SetInputState => PaceInv'
<1> SUFFICES ASSUME NumbersOK, PaceInv, SetInputState
             PROVE  PaceInv'
  OBVIOUS
<1>1. PICK state \in States :
        /\ at' = IF Daemon THEN "feed" ELSE "tick"
        /\ inputState' = state /\ sendingSilence' = (state # "Signal")
        /\ owed' = IF state # "Signal" /\ ~sendingSilence THEN 0 ELSE owed
        /\ IF state # "Signal" /\ sendingSilence THEN UNCHANGED pace
           ELSE debt' = 0 /\ pieces' = 0 /\ stalled' = FALSE
        /\ UNCHANGED <<driver, burst>>
  BY DEF SetInputState
<1>2. ~Ticked'
  BY <1>1 DEF Ticked, Daemon
<1>3. /\ (sendingSilence <=> ~WantsData)'
      /\ (burst * Second <= SilenceMax * SampleRate)'
  BY <1>1 DEF PaceInv, WantsData
<1>4. CASE state = "Signal"
  BY <1>1, <1>2, <1>3, <1>4 DEF PaceInv
<1>5. CASE state # "Signal" /\ sendingSilence
  <2>1. sendingSilence' /\ UNCHANGED <<owed, debt, pieces, stalled>>
    BY <1>1, <1>5 DEF pace
  <2> QED
    BY <1>2, <1>3, <1>5, <2>1 DEF PaceInv, Watched, Allowance
<1>6. CASE state # "Signal" /\ ~sendingSilence
  <2>1. owed' = 0 /\ debt' = 0 /\ pieces' = 0
    BY <1>1, <1>6
  <2>2. Allowance' \in Nat
    BY <2>1, AllowanceNat DEF Allowance
  <2>3. 0 * SampleRate - 0 = 0
    OBVIOUS
  <2>4. (owed * SampleRate - debt \in 0 .. Allowance)'
    BY <2>1, <2>2, <2>3
  <2> QED
    BY <1>2, <1>3, <2>1, <2>4 DEF PaceInv
<1> QED
  BY <1>4, <1>5, <1>6

\* A piece takes as much from both accounts, but for what is rounded off.
LEMMA PaceTick == NumbersOK /\ PaceInv /\ Tick => PaceInv'
<1> SUFFICES ASSUME NumbersOK, PaceInv, Tick
             PROVE  PaceInv'
  OBVIOUS
<1>1. UNCHANGED <<inputState, sendingSilence>>
  BY DEF Tick
<1>2. CASE SendsSilence
  <2> DEFINE due == Due * SampleRate
             sent == SilenceFrames * Second
             credit == Credit * SampleRate
             round == SampleRate - 1
  <2>1. owed \in 0 .. OwedCap /\ debt \in Int /\ pieces \in Nat
    BY DEF NumbersOK
  <2>2. /\ burst' = SilenceFrames /\ owed' = Due - Credit
        /\ CountPiece
    BY <1>2 DEF Tick
  <2>3. /\ due \in Nat /\ sent \in Nat /\ credit \in Nat /\ Due \in 0 .. SilenceMax /\ Credit \in 0 .. Due
        /\ sent <= due /\ due < sent + Second /\ credit <= sent /\ sent < credit + SampleRate
    BY <2>1, SilenceRounds
  <2>4. owed' * SampleRate = due - credit
    BY <2>2, <2>3, Scales
  <2>5. burst' * Second <= SilenceMax * SampleRate
    <3>1. ~ (SilenceMax * SampleRate < due)
      BY <2>3, Scales
    <3>2. SilenceMax * SampleRate \in Nat
      OBVIOUS
    <3> QED
      BY <2>2, <2>3, <3>1, <3>2
  <2>6. owed' < SilenceChunk
    <3>1. owed' * SampleRate <= Second - 1 + round
      BY <2>3, <2>4
    <3>2. Second + round <= SilenceChunk * SampleRate
      OBVIOUS
    <3>3. SilenceChunk * SampleRate \in Nat
      OBVIOUS
    <3>4. owed' * SampleRate < SilenceChunk * SampleRate
      BY <2>3, <2>4, <3>1, <3>2, <3>3
    <3>5. owed' \in Int
      BY <2>2, <2>3
    <3>6. SilenceChunk \in Int /\ SampleRate \in Nat \ {0}
      OBVIOUS
    <3> QED
      BY ONLY <3>4, <3>5, <3>6, Scales
  <2>7. sendingSilence
    BY <1>2 DEF SendsSilence
  <2>8. owed' <= SilenceMax
    BY <2>2, <2>3
  <2>9. ~stalled' /\ Watched' => (owed * SampleRate - debt \in 0 .. Allowance)'
    <3>1. CASE stalled
      <4>1. debt' = 0 /\ pieces' = 0
        BY <2>2, <3>1 DEF CountPiece
      <4>2. Allowance' = Second + round
        BY <4>1 DEF Allowance
      <4>3. due - credit \in 0 .. Second + round
        BY <2>3
      <4> QED
        BY <2>3, <2>4, <4>1, <4>2, <4>3
    <3>2. CASE ~stalled /\ Watched
      <4>1. debt' = debt - sent /\ pieces' = pieces + 1
        BY <2>2, <3>2 DEF CountPiece
      <4>2. owed * SampleRate - debt \in 0 .. Allowance /\ owed <= SilenceMax
        BY <2>7, <3>2 DEF PaceInv
      <4>3. due = owed * SampleRate
        BY <2>1, <4>2 DEF Due
      <4>4. Allowance' = Allowance + round
        <5> DEFINE n == pieces + 1
        <5>1. n \in Nat /\ round \in Nat
          BY <2>1
        <5>2. (n + 1) * round = n * round + round
          BY ONLY <5>1
        <5>3. n * round \in Nat
          BY ONLY <5>1
        <5> QED
          BY <4>1, <5>2, <5>3 DEF Allowance
      <4>5. Allowance \in Nat /\ round \in Nat
        BY <2>1, AllowanceNat DEF Allowance
      <4>6. due - debt \in 0 .. Allowance
        BY <4>2, <4>3
      <4>7. due - credit - (debt - sent) \in 0 .. Allowance + round
        <5> HIDE DEF due, sent, credit, round
        <5>1. sent - credit \in 0 .. round
          BY <2>3 DEF round
        <5> QED
          BY <2>1, <2>3, <4>5, <4>6, <5>1
      <4> QED
        BY <2>4, <4>1, <4>4, <4>7
    <3>3. CASE ~stalled /\ ~Watched
      BY <2>2, <3>3 DEF CountPiece, Watched
    <3> QED
      BY <3>1, <3>2, <3>3
  <2>10. (sendingSilence <=> ~WantsData)'
    BY <1>1 DEF PaceInv, WantsData
  <2> QED
    BY <2>5, <2>6, <2>8, <2>9, <2>10 DEF PaceInv
<1>3. CASE ~SendsSilence
  <2>1. burst' = 0 /\ UNCHANGED <<owed, debt, pieces, stalled>>
    BY <1>3 DEF Tick, pace
  <2>2. sendingSilence => owed < SilenceChunk
    BY <1>3 DEF SendsSilence, PaceInv, NumbersOK, OwedCap
  <2>3. 0 * Second <= SilenceMax * SampleRate
    <3>1. SilenceMax * SampleRate \in Nat /\ 0 * Second = 0
      OBVIOUS
    <3> QED
      BY <3>1
  <2> QED
    BY <1>1, <2>1, <2>2, <2>3 DEF PaceInv, WantsData, Watched, Allowance
<1> QED
  BY <1>2, <1>3

LEMMA PaceStep == TypeOK /\ PaceInv /\ [Next]_vars => PaceInv'
<1> SUFFICES ASSUME NumbersOK, PaceInv, [Next]_vars
             PROVE  PaceInv'
  BY DEF TypeOK
<1>1. CASE Feed \/ Discard \/ Fed \/ Replug
  <2>1. /\ Ticked' => Ticked
        /\ UNCHANGED <<driver, inputState, sendingSilence, owed, burst, debt, pieces, stalled>>
    BY <1>1 DEF Feed, Discard, Fed, Replug, still, pace, Daemon, Ticked
  <2> QED
    BY <2>1 DEF PaceInv, WantsData, Watched, Allowance
<1>2. CASE OnVideoFrame \/ OnAudioPacket \/ UNCHANGED vars
  <2>1. UNCHANGED <<driver, at, inputState, sendingSilence, owed, burst, debt, pieces, stalled>>
    BY <1>2 DEF OnVideoFrame, OnAudioPacket, vars, still, pace
  <2> QED
    BY <2>1 DEF PaceInv, WantsData, Watched, Allowance, Ticked, Daemon
<1> QED
  BY <1>1, <1>2, PacePass, PaceReport, PaceTick DEF Next

(***************************************************************************)
(* The parsers.                                                            *)
(***************************************************************************)

\* A loss they have not been told of waits in one of the two flags.
LossInv ==
  /\ missed = "chunks" => resyncPending \/ streamGap
  /\ LossesFlagged

LEMMA LossStep == LossInv /\ [Next]_vars => LossInv'
<1> SUFFICES ASSUME LossInv, [Next]_vars
             PROVE  LossInv'
  OBVIOUS
<1>1. CASE Pass \/ SetInputState
  <2>1. at' # "parse" /\ UNCHANGED <<resyncPending, streamGap, missed>>
    BY <1>1 DEF Pass, SetInputState, parser, Daemon
  <2> QED
    BY <2>1 DEF LossInv, LossesFlagged
<1>2. CASE Replug
  BY <1>2 DEF Replug, Lost, LossInv, LossesFlagged
<1>3. CASE Feed
  <2>1. PICK flagged \in BOOLEAN :
          /\ inputState' = inputState /\ resyncPending' = ~WantsData
          /\ missed' = CASE ~WantsData -> Lost("chunks")
                         [] WantsData /\ (Gapped(flagged) \/ missed = "all") -> "none"
                         [] OTHER -> missed
    BY <1>3 DEF Feed
  <2>2. CASE WantsData
    <3>1. CASE Gapped(flagged) \/ missed = "all"
      BY <2>1, <2>2, <3>1 DEF LossInv, LossesFlagged
    <3>2. CASE ~(Gapped(flagged) \/ missed = "all")
      <4>1. missed' = missed
        BY <2>1, <2>2, <3>2
      <4>2. missed # "chunks"
        BY <3>2 DEF Gapped, LossInv
      <4> QED
        BY <4>1, <4>2 DEF LossInv, LossesFlagged
    <3> QED
      BY <3>1, <3>2
  <2>3. CASE ~WantsData
    BY <2>1, <2>3 DEF LossInv, LossesFlagged, WantsData
  <2> QED
    BY <2>2, <2>3
<1>4. CASE Discard
  BY <1>4 DEF Discard, LossInv, LossesFlagged, WantsData
<1>5. CASE Fed \/ Tick
  <2>1. at' # "parse" /\ UNCHANGED <<resyncPending, streamGap, missed>>
    BY <1>5 DEF Fed, Tick, parser, Daemon
  <2> QED
    BY <2>1 DEF LossInv, LossesFlagged
<1>6. CASE OnVideoFrame \/ OnAudioPacket \/ UNCHANGED vars
  <2>1. UNCHANGED <<at, inputState, resyncPending, streamGap, missed>>
    BY <1>6 DEF OnVideoFrame, OnAudioPacket, vars, parser
  <2> QED
    BY <2>1 DEF LossInv, LossesFlagged, WantsData
<1> QED
  BY <1>1, <1>2, <1>3, <1>4, <1>5, <1>6 DEF Next

(***************************************************************************)
(* The theorems.                                                           *)
(***************************************************************************)

PipelineInv == TypeOK /\ GateInv /\ MuteInv /\ ImageInv /\ PaceInv /\ LossInv

\* The strengthening that the properties below follow from is an invariant.
THEOREM Invariance == Spec => []PipelineInv
<1>1. Init => PipelineInv
  <2> SUFFICES ASSUME Init PROVE PipelineInv
    OBVIOUS
  <2>1. TypeOK
    BY TypeInit
  <2>2. GateInv
    BY DEF Init, GateInv
  <2>3. MuteInv
    BY DEF Init, MuteInv
  <2>4. ImageInv
    BY DEF Init, ImageInv, CardTellsReason, WantsData
  <2>5. PaceInv
    <3>1. sendingSilence <=> ~WantsData
      BY DEF Init, WantsData
    <3>2. ~sendingSilence /\ burst * Second <= SilenceMax * SampleRate
      BY DEF Init
    <3> QED
      BY <3>1, <3>2 DEF PaceInv
  <2>6. LossInv
    BY DEF Init, LossInv, LossesFlagged
  <2> QED
    BY <2>1, <2>2, <2>3, <2>4, <2>5, <2>6 DEF PipelineInv
<1>2. PipelineInv /\ [Next]_vars => PipelineInv'
  BY TypeStep, GateStep, MuteStep, ImageStep, PaceStep, LossStep DEF PipelineInv
<1> QED
  BY <1>1, <1>2, PTL DEF Spec

\* However the signal flickers, the gate opens only after it was there for SETTLE_TIME
\* without a break (AudioGate::update).
THEOREM GateOpensLate == Spec => []OpenOnlyWhenSettled
<1>1. PipelineInv => OpenOnlyWhenSettled
  BY DEF PipelineInv, GateInv, OpenOnlyWhenSettled
<1> QED
  BY <1>1, Invariance, PTL

\* Less than a ramp is heard behind a closed gate, in whichever packets and however often the signal
\* comes back meanwhile (AudioGate::process).
THEOREM GateClosesSoon == Spec => []MuteBounded
<1>1. PipelineInv => MuteBounded
  BY DEF PipelineInv, MuteInv, MuteBounded
<1> QED
  BY <1>1, Invariance, PTL

\* Without a signal the window shows the current reason (CapturePipeline::setInputState).
THEOREM WindowTellsReason == Spec => []ScreenTellsReason
<1>1. PipelineInv => ScreenTellsReason
  BY DEF PipelineInv, ImageInv, ScreenTellsReason
<1> QED
  BY <1>1, Invariance, PTL

\* Once the daemon has ticked without a signal, its consumers see the current reason's card
\* (CapturePipeline::tick).
THEOREM ConsumersSeeReason == Spec => []CardTellsReason
<1>1. PipelineInv => CardTellsReason
  BY DEF PipelineInv, ImageInv
<1> QED
  BY <1>1, Invariance, PTL

\* The silence sent stays within a chunk of the time it stands for, over any number of pieces and
\* for every sample rate and unit of time, whatever is rounded off: it is never behind by more, nor
\* ahead by more than a frame and a unit of time per piece, but for what a stall forgoes, and it
\* never bursts (CapturePipeline::sendSilence).
THEOREM SilencePaced == Spec => []SilenceKeepsPace
<1>1. PipelineInv => SilenceKeepsPace
  BY PaceKept DEF PipelineInv, TypeOK
<1> QED
  BY <1>1, Invariance, PTL

\* The parsers do not run on behind skipped or discarded chunks without having been told
\* (CapturePipeline::feed).
THEOREM ParsersHearOfLosses == Spec => []LossesFlagged
<1>1. PipelineInv => LossesFlagged
  BY DEF PipelineInv, LossInv
<1> QED
  BY <1>1, Invariance, PTL
=============================================================================
