--------------------------- MODULE CapturePipeline ---------------------------
(***************************************************************************)
(* CapturePipeline and AudioGate (liblgx), driven by the loop of the       *)
(* viewer (Device::run) or of the daemon (CaptureDaemon::run): what the    *)
(* video and audio outputs get as the HDMI signal comes and goes.          *)
(*                                                                         *)
(* One thread.  A turn of the loop reports the input state, feeds the      *)
(* chunks that have arrived and ticks; the viewer ticks before it feeds,   *)
(* the daemon after.  Time passes between turns.  The code keeps points in *)
(* time and only ever subtracts them from now, so the model keeps their    *)
(* ages instead, each capped where the code stops telling them apart.      *)
(* A chunk is what the parsers make of it: any number of video frames and  *)
(* audio packets.  Of a sample only its gain is kept, of a frame whether   *)
(* it may be made of two parts that were not adjacent in the stream.       *)
(***************************************************************************)
EXTENDS Integers, FiniteSets

CONSTANTS
  Drivers,       \* whose loops: "daemon", "viewer" or both
  Replugs,       \* the daemon's card may be replugged between two turns of the loop
  States,        \* the input states that occur; one is "Signal"
  LoopTimes,     \* bound: how long a turn of the loop may take
  RampFrames,    \* RAMP_FRAMES
  SettleTime,    \* SETTLE_TIME
  SilenceChunk,  \* SILENCE_CHUNK
  SilenceMax,    \* SILENCE_MAX
  SampleRate,    \* so many stereo frames last ...
  Second,        \* ... so long, in the units of the other times
  KeepAliveInterval,
  PacketFrames,  \* bound: the sizes of an audio packet
  MaxPieces      \* bound: over how many pieces of silence the pace is watched

ASSUME ConstantsAssumption ==
  /\ Drivers \subseteq {"daemon", "viewer"} /\ Replugs \in BOOLEAN
  /\ "Signal" \in States
  /\ LoopTimes \subseteq Nat \ {0}
  /\ RampFrames \in Nat \ {0} /\ SettleTime \in Nat
  /\ SilenceChunk \in Nat /\ SilenceMax \in Nat /\ SilenceChunk <= SilenceMax
  /\ SampleRate \in Nat \ {0} /\ Second \in Nat \ {0}
  /\ Second + SampleRate - 1 <= SilenceChunk * SampleRate
  /\ KeepAliveInterval \in Nat
  /\ PacketFrames \subseteq Nat \ {0} /\ MaxPieces \in Nat

VARIABLES
  driver,          \* whose loop drives this pipeline
  at,              \* where the loop is
  inputState,      \* _inputState
  resyncPending,   \* _resyncPending
  streamGap,       \* CaptureStream's _gapPending, set by discard()
  gate,            \* AudioGate: open, present, and the age of _presentSince
  ramp,            \* AudioGate's _rampPosition
  sendingSilence,  \* _sendingSilence
  owed,            \* the age of _silenceSentUpTo
  videoBlanked,    \* _videoBlanked
  blankedFor,      \* _blankedFor
  keepAliveAge,    \* the age of _lastKeepAlive; old if it was never set
  screen,          \* history: what the window shows, a frame or a no-signal reason
  card,            \* history: the last image pushed as a frame, captured or a reason's card
  heard,           \* history: the gain of the last sample sent
  click,           \* history: what was sent last began more than a ramp step from what was heard
  burst,           \* history: the frames of silence sent by the last tick
  debt,            \* history: time without a signal less the silence sent for it, in 1/SampleRate
  pieces,          \* history: the pieces of silence sent since debt is counted
  stalled,         \* history: a turn was so long that silence for it may be left out
  sinceAbsent,     \* history: time since the signal was last reported absent
  afterClose,      \* history: audible frames sent since the gate closed
  missed           \* history: what the parsers did not get since they last re-synchronised

parser == <<resyncPending, streamGap, missed>>
sound  == <<gate, ramp, heard, click, sinceAbsent, afterClose>>
pace   == <<debt, pieces, stalled>>
still  == <<sendingSilence, owed, burst, pace>>
image  == <<videoBlanked, blankedFor, keepAliveAge, screen, card>>
vars == <<driver, at, inputState, resyncPending, streamGap, gate, ramp, sendingSilence, owed,
          videoBlanked, blankedFor, keepAliveAge, screen, card, heard, click, burst, pace,
          sinceAbsent, afterClose, missed>>

CappedAge(age, dt, cap) == IF age + dt < cap THEN age + dt ELSE cap
OwedCap == SilenceMax + 1   \* anything more is cut to SilenceMax alike

Daemon == driver = "daemon"

WantsData == inputState = "Signal"

Init ==
  /\ driver \in Drivers
  /\ at = "report"
  /\ inputState = "Signal" /\ resyncPending = FALSE /\ streamGap = FALSE
  /\ gate = [open |-> FALSE, present |-> FALSE, since |-> 0] /\ ramp = 0
  /\ sendingSilence = FALSE /\ owed = 0
  /\ videoBlanked = FALSE /\ blankedFor = "Signal" /\ keepAliveAge = KeepAliveInterval
  /\ screen = "none" /\ card = "none"
  /\ heard = 0 /\ click = "none"
  /\ burst = 0 /\ debt = 0 /\ pieces = 0 /\ stalled = FALSE
  /\ sinceAbsent = 0 /\ afterClose = 0 /\ missed = "all"

\* The parsers did not get this; before they got anything there is nothing to lose.
Lost(what) == IF missed = "all" THEN "all" ELSE what

\* The pace is watched from when silence begins, and anew once a stalled turn is over.
Watched == pieces < MaxPieces

\* Time passes between two turns: LOOP_INTERVAL, a slow consumer, a bootstrap that blocks.
Pass ==
  \E dt \in LoopTimes :
    /\ at = "turn"
    /\ at' = "report"
    /\ gate' = [gate EXCEPT !.since = CappedAge(@, dt, SettleTime)]
    /\ sinceAbsent' = CappedAge(sinceAbsent, dt, SettleTime)
    /\ owed' = CappedAge(owed, dt, OwedCap)
    /\ keepAliveAge' = CappedAge(keepAliveAge, dt, KeepAliveInterval)
    /\ debt' = IF sendingSilence /\ Watched THEN debt + dt * SampleRate ELSE debt
    /\ stalled' = (stalled \/ (sendingSilence /\ dt > SilenceMax - SilenceChunk))
    /\ UNCHANGED <<driver, inputState, parser, ramp, sendingSilence, burst, pieces, videoBlanked,
                   blankedFor, screen, card, heard, click, afterClose>>

\* The card is replugged: handleEvents ends the session and opens another.  The new stream begins
\* in the middle, and then flags its first chunk, or at a frame start; then nothing says that what
\* was between the sessions is missing.
Replug ==
  /\ Replugs /\ Daemon /\ at = "report"
  /\ streamGap' \in BOOLEAN
  /\ missed' = Lost("session")
  /\ UNCHANGED <<driver, at, inputState, resyncPending, sound, still, image>>

\* AudioGate::update.
GateAfter(present, since) ==
  [present |-> present, since |-> since, open |-> present /\ (gate.open \/ since >= SettleTime)]

\* Mutants: presence is timed from the first time ever; or anew at every report.
UpdatedGateFirst(present)    == GateAfter(present, gate.since)
UpdatedGateRestarts(present) == GateAfter(present, 0)

UpdatedGate(present) == GateAfter(present, IF gate.present THEN gate.since ELSE 0)

\* showNoSignal is called at a loss, and when the reason changes (mutant: at a loss only).
BlanksOnce(state) == state # "Signal" /\ ~videoBlanked
Blanks(state) == state # "Signal" /\ (~videoBlanked \/ blankedFor # state)

\* setInputState: gate, silence and blanking follow the reported state.
SetInputState ==
  \E state \in States :
    LET present == state = "Signal" IN
    /\ at = "report"
    /\ at' = IF Daemon THEN "feed" ELSE "tick"
    /\ inputState' = state
    /\ gate' = UpdatedGate(present)
    /\ sendingSilence' = ~present
    /\ owed' = IF ~present /\ ~sendingSilence THEN 0 ELSE owed
    /\ IF ~present /\ sendingSilence
       THEN UNCHANGED pace
       ELSE debt' = 0 /\ pieces' = 0 /\ stalled' = FALSE
    /\ IF Blanks(state)
       THEN videoBlanked' = TRUE /\ blankedFor' = state /\ screen' = state
            /\ keepAliveAge' = KeepAliveInterval
       ELSE UNCHANGED <<videoBlanked, blankedFor, screen, keepAliveAge>>
    /\ sinceAbsent' = IF present THEN sinceAbsent ELSE 0
    /\ afterClose' = IF gate.open /\ ~gate'.open THEN 0 ELSE afterClose
    /\ UNCHANGED <<driver, parser, ramp, heard, click, burst, card>>

-----------------------------------------------------------------------------
(* Feeding.                                                                *)

\* A chunk is flagged by the stream, or because feed() skipped one before it (mutant: the
\* latter is forgotten).
GappedByStream(flagged) == flagged \/ streamGap
Gapped(flagged) == flagged \/ streamGap \/ resyncPending

\* A chunk reaches feed(); the viewer feeds without asking wantsData() first.
Feed ==
  \E flagged \in BOOLEAN :
    /\ at \in {"feed", "parse"}
    /\ Daemon => WantsData
    /\ at' = "parse"
    /\ streamGap' = FALSE
    /\ resyncPending' = ~WantsData
    /\ missed' = CASE ~WantsData -> Lost("chunks")
                   [] WantsData /\ (Gapped(flagged) \/ missed = "all") -> "none"
                   [] OTHER -> missed
    /\ UNCHANGED <<driver, inputState, sound, still, image>>

\* The daemon drops what has arrived instead; the stream flags the next chunk.
Discard ==
  /\ at = "feed" /\ Daemon /\ ~WantsData
  /\ at' = "parse"
  /\ streamGap' = TRUE /\ missed' = Lost("chunks")
  /\ UNCHANGED <<driver, inputState, resyncPending, sound, still, image>>

\* The parsers complete a frame of the chunk just fed.
OnVideoFrame ==
  /\ at = "parse" /\ WantsData
  /\ videoBlanked' = FALSE
  /\ screen' = "frame" /\ card' = "frame"
  /\ UNCHANGED <<driver, at, inputState, parser, sound, still, blankedFor, keepAliveAge>>

\* process() steps the gain of each frame.
Toward(position, target, steps) ==
  CASE position <= target -> IF position + steps < target THEN position + steps ELSE target
    [] position > target  -> IF position - steps > target THEN position - steps ELSE target

\* Mutant: un-muted as soon as the signal is back.
TargetPresent == IF gate.present THEN RampFrames ELSE 0
Target == IF gate.open THEN RampFrames ELSE 0

\* Samples at these gains go out behind what was heard last; "kind" says what they begin.
Send(first, last, kind) ==
  /\ heard' = last
  /\ click' = IF first - heard \in -1 .. 1 THEN "none" ELSE kind

\* The parsers complete an audio packet of the chunk just fed; AudioGate::process ramps it.
OnAudioPacket ==
  \E frames \in PacketFrames :
    /\ at = "parse" /\ WantsData
    /\ ramp' = Toward(ramp, Target, frames)
    /\ Send(Toward(ramp, Target, 1), ramp', "sound")
    /\ LET audible == { f \in 1 .. frames : Toward(ramp, Target, f) > 0 } IN
       afterClose' = IF gate.open THEN afterClose ELSE afterClose + Cardinality(audible)
    /\ UNCHANGED <<driver, at, inputState, parser, gate, sinceAbsent, still, image>>

\* deliver() has drained the queue, or there was nothing in it.
Fed ==
  /\ at \in {"feed", "parse"}
  /\ at' = IF Daemon THEN "tick" ELSE "turn"
  /\ UNCHANGED <<driver, inputState, parser, sound, still, image>>

-----------------------------------------------------------------------------
(* Ticking.                                                                *)

\* sendSilence: the whole stereo frames of the time owed, at most SilenceMax of it, and the time
\* they are taken to last, in whole units (mutant: all that was owed).
Due == IF owed > SilenceMax THEN SilenceMax ELSE owed
SilenceFrames == (Due * SampleRate) \div Second
CreditDue == Due
Credit == (SilenceFrames * Second) \div SampleRate

SendsSilence == sendingSilence /\ ~WantsData /\ owed >= SilenceChunk

CountPiece ==
  IF stalled THEN debt' = 0 /\ pieces' = 0 /\ stalled' = FALSE
  ELSE /\ debt' = IF Watched THEN debt - SilenceFrames * Second ELSE debt
       /\ pieces' = IF Watched THEN pieces + 1 ELSE pieces
       /\ UNCHANGED stalled

\* tick: silence when it is owed, and the no-signal card when it is due (the daemon's option).
Tick ==
  /\ at = "tick"
  /\ at' = IF Daemon THEN "turn" ELSE "feed"
  /\ IF SendsSilence
     THEN /\ Send(0, 0, "silence")
          /\ burst' = SilenceFrames
          /\ owed' = Due - Credit
          /\ CountPiece
     ELSE burst' = 0 /\ UNCHANGED <<owed, heard, click, pace>>
  /\ IF Daemon /\ ~WantsData /\ keepAliveAge >= KeepAliveInterval
     THEN keepAliveAge' = 0 /\ card' = inputState
     ELSE UNCHANGED <<keepAliveAge, card>>
  /\ UNCHANGED <<driver, inputState, parser, gate, ramp, sinceAbsent, afterClose, sendingSilence,
                 videoBlanked, blankedFor, screen>>

Next ==
  \/ Pass \/ Replug \/ SetInputState
  \/ Feed \/ Discard \/ OnVideoFrame \/ OnAudioPacket \/ Fed
  \/ Tick

Spec == Init /\ [][Next]_vars

\* The loop goes round: its thread is never stuck, and deliver() empties the ring at last.
FairSpec == Spec /\ WF_vars(Pass) /\ WF_vars(SetInputState) /\ WF_vars(Fed) /\ WF_vars(Tick)

-----------------------------------------------------------------------------
Gates == [open : BOOLEAN, present : BOOLEAN, since : 0 .. SettleTime]

FlagsOK ==
  /\ resyncPending \in BOOLEAN /\ streamGap \in BOOLEAN
  /\ sendingSilence \in BOOLEAN /\ videoBlanked \in BOOLEAN
  /\ stalled \in BOOLEAN

NumbersOK ==
  /\ gate \in Gates
  /\ ramp \in 0 .. RampFrames /\ heard \in 0 .. RampFrames
  /\ owed \in 0 .. OwedCap /\ burst \in Nat
  /\ debt \in Int /\ pieces \in 0 .. MaxPieces
  /\ keepAliveAge \in 0 .. KeepAliveInterval
  /\ sinceAbsent \in 0 .. SettleTime /\ afterClose \in Nat

NamesOK ==
  /\ driver \in Drivers
  /\ at \in {"report", "feed", "parse", "tick", "turn"}
  /\ inputState \in States /\ blankedFor \in States
  /\ click \in {"none", "silence", "sound"}
  /\ missed \in {"all", "none", "chunks", "session"}
  /\ screen \in States \cup {"none", "frame"} /\ card \in States \cup {"none", "frame"}

TypeOK == FlagsOK /\ NumbersOK /\ NamesOK

\* Without a signal the window shows why, and never the last or a garbage frame: showNoSignal is
\* called once per reason, yet no order of losses, returns and frames leaves a frame on screen
\* (CapturePipeline.cpp 67-72, lgxinterfaces.h 86-88).
ScreenTellsReason == ~WantsData => screen = inputState

\* Once the daemon has ticked without a signal, the image its consumers see is the card of the
\* current reason, never a captured frame nor an earlier reason's card: the keep-alive interval
\* delays a card only behind one that says the same (CapturePipeline.cpp 67-72, 96-100).
CardTellsReason == Daemon /\ at = "turn" /\ ~WantsData => card = inputState

\* The gate is open only after the signal has been reported present for SETTLE_TIME without a
\* break, however it flickers (AudioGate.cpp 6-17).
OpenOnlyWhenSettled == gate.open => sinceAbsent >= SettleTime

\* Once closed the gate lets less than one ramp of frames be heard until it opens again, however
\* often the signal is lost and comes back and however the packets fall (AudioGate.cpp 23-46).
MuteBounded == ~gate.open => afterClose < RampFrames

\* Silence keeps pace with the time it stands for, whatever is rounded off each piece: after a tick
\* it is behind by less than a chunk, and ahead by less than a frame and a unit of time per piece.
\* Only what a stalled turn leaves beyond SilenceMax is forgone, and never more than that is sent
\* at once (CapturePipeline.cpp 75-91).
SilenceKeepsPace ==
  /\ at = "turn" /\ ~WantsData /\ Watched /\ ~stalled =>
       /\ debt < SilenceChunk * SampleRate
       /\ 0 - debt <= Second + (pieces + 1) * (SampleRate - 1)
  /\ burst * Second <= SilenceMax * SampleRate

\* The parsers never run on behind chunks of a stream they did not get without having been told,
\* whether the pipeline skipped them or the stream dropped them (CapturePipeline.cpp 25-35).
LossesFlagged == at = "parse" /\ WantsData => missed # "chunks"

\* Audio comes back: when the signal stays, the gate opens for good (AudioGate.h 12-14).
GateOpens == <>[](inputState = "Signal") => <>[](gate.open)

\* "Gain changes are ramped over RAMP_FRAMES so muting and un-muting do not click"
\* (AudioGate.h 13-14): what is heard does not break into silence at more than a step's gain.
ResumesSmoothly == click # "sound"
=============================================================================
