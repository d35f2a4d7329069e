---------------------------- MODULE DeviceSession ----------------------------
(***************************************************************************)
(* The commands of a session (liblgx-usb): Bootstrapper decides whether    *)
(* the card is configured, replays the recorded configuration if it is not *)
(* and corrects some registers; then DeviceSession probes and polls the    *)
(* input's status (StatusMonitor).  All of it shares one CommandBridge, so *)
(* a reply that is late in one part may be taken for its own by another.   *)
(* The capture that the session starts is CaptureStream.                   *)
(***************************************************************************)
EXTENDS StatusMonitor

CONSTANTS
  Plan,       \* the registers that each stage of the bootstrap reads, in order
  Recording,  \* the recorded commands: what each writes or reads, and how long it is
  Leftovers   \* bound: requests of a session that was killed, not yet answered

Stages == DOMAIN Plan
NoRequest == 0

\* A command is a write, of a request or of anything else, or it reads a reply.
ASSUME PlanAssumption ==
  /\ {"counters", "board", "colour", "picture"} = Stages
  /\ \A s \in Stages : Plan[s] \in Seq(DOMAIN Lengths) /\ Plan[s] # << >>
  /\ Len(Plan.board) = 2 /\ Len(Plan.colour) = 1
  /\ Recording \in Seq([kind : {"write", "read"}, length : Nat \ {0},
                        request : DOMAIN Lengths \cup {NoRequest}])

ASSUME LeftoversAssumption ==
  \A asks \in Leftovers : asks \in Seq(DOMAIN Lengths) /\ Len(asks) <= MaxAsked

\* No other reply has the two bytes of the expander's configuration: not the board's first, not a
\* counter's, and of what an earlier session left at most the oldest.
ASSUME BoardAssumption ==
  LET Unlike(r) == Lengths[r] # Lengths[Plan.board[2]] IN
  /\ Unlike(Plan.board[1])
  /\ \A k \in DOMAIN Plan.counters : Unlike(Plan.counters[k])
  /\ \A asks \in Leftovers : \A i \in 2 .. Len(asks) : Unlike(asks[i])

\* The recording reads, and each of its requests is followed by the read of its reply, but for one
\* at its end whose reply (the GC551's has two bytes) is not like the colour space's.
ASSUME RecordingAssumption ==
  /\ \E k \in DOMAIN Recording : Recording[k].kind = "read"
  /\ \A k \in DOMAIN Recording : Recording[k].kind = "write" /\ Recording[k].request # NoRequest =>
       IF k < Len(Recording) THEN Recording[k + 1].kind = "read"
       ELSE Lengths[Recording[k].request] # Lengths[Plan.colour[1]]

VARIABLES
  boot,     \* the bootstrap: its stage, its step, the register or command it is at, whether a
            \* reply of this stage was another register's, and the last actualLength of replay
  board,    \* what the board really is
  decided,  \* detectBoardState's result, and whether it was read from wrong replies
  written   \* history: a register was written back after a wrong reply

sessionVars == <<boot, board, decided, written>>
svars == <<vars, sessionVars>>

Step(stage, step, k) ==
  [stage |-> stage, step |-> step, k |-> k, wrong |-> FALSE, actual |-> 0]

\* The GC550's attempt counters are read first, the GC551 has none.
SInit ==
  /\ owner = "probing" /\ poll = [at |-> "request", reg |-> 1, wrong |-> FALSE]
  /\ mutex = FALSE /\ stopping = FALSE
  /\ failures = 0 /\ inputState = "Signal" /\ published = "none"
  /\ attached = TRUE /\ replies = << >> /\ asked \in Leftovers
  /\ late = [now |-> Len(asked), ever |-> Len(asked)]
  /\ \E stage \in {"counters", "board"} : boot = Step(stage, "clear", 1)
  /\ board \in {"Configured", "Fresh", "Other"}
  /\ decided = [state |-> "none", wrong |-> FALSE]
  /\ written = FALSE

Booting == boot.stage \notin {"done", "thrown"}

-----------------------------------------------------------------------------
(* The reads of a stage.                                                   *)

\* Where the bootstrap goes when a stage is over.
After(stage) ==
  CASE stage = "counters" -> Step("board", "clear", 1)
    [] stage = "board"    -> Step(IF decided'.state = "Configured" THEN "colour"
                                  ELSE IF decided'.state = "Unknown" THEN "flowing" ELSE "replay",
                                  IF decided'.state = "Configured" THEN "request" ELSE "go", 1)
    [] stage = "colour"   -> Step("picture", "request", 1)
    [] stage = "picture"  -> Step("done", "request", 1)

\* The next register of a stage whose reads stand each for themselves.
NextRegister(stage, k) ==
  IF k < Len(Plan[stage]) THEN Step(stage, "request", k + 1) ELSE After(stage)

Read == Plan[boot.stage][boot.k]
Reading(step) == boot.stage \in Stages /\ boot.step = step

BootRequest ==
  /\ Reading("request")
  /\ \/ Ask(Read) /\ boot' = [boot EXCEPT !.step = "reply"]
     \/ UNCHANGED bridge /\ boot' = [boot EXCEPT !.step = "drain"]
  /\ UNCHANGED <<board, decided, written>>

\* Mutant: the reply is read for what it is, whatever its length.
AnyFits(reply) == TRUE
BootFits(reply) == Lengths[reply] = Lengths[Read]

\* What the two reads of the board say, when they are its own.
BoardRead(wrong) ==
  /\ decided' \in [state : IF wrong THEN {"Configured", "Fresh", "Unknown"}
                           ELSE {IF board = "Other" THEN "Unknown" ELSE board},
                   wrong : {wrong}]

BootReply ==
  /\ Reading("reply")
  /\ Take
  /\ LET reply == Head(replies)
         wrong == boot.wrong \/ reply # Read
         last  == boot.k = Len(Plan[boot.stage])
     IN \/ /\ ~BootFits(reply)
           /\ boot' = [boot EXCEPT !.step = "drain"]
           /\ UNCHANGED decided
        \/ /\ BootFits(reply) /\ boot.stage = "counters"
           /\ boot' = NextRegister(boot.stage, boot.k)
           /\ UNCHANGED decided
        \/ /\ BootFits(reply) /\ boot.stage = "board" /\ ~last
           /\ boot' = [boot EXCEPT !.step = "request", !.k = @ + 1, !.wrong = wrong]
           /\ UNCHANGED decided
        \/ /\ BootFits(reply) /\ boot.stage = "board" /\ last
           /\ BoardRead(wrong)
           /\ boot' = After("board")
        \/ /\ BootFits(reply) /\ boot.stage \in {"colour", "picture"}
           /\ \/ boot' = [boot EXCEPT !.step = "write", !.wrong = wrong]
              \/ boot' = NextRegister(boot.stage, boot.k)  \* it has the value already
           /\ UNCHANGED decided
  /\ UNCHANGED <<board, written>>

BootNoReply ==
  /\ Reading("reply")
  /\ GiveUp
  /\ boot' = [boot EXCEPT !.step = "drain"]
  /\ UNCHANGED <<board, decided, written>>

BootDrain ==
  /\ Reading("drain") \/ Reading("clear")
  /\ Take
  /\ UNCHANGED sessionVars

\* The board's state and the counters are read after what an earlier session left is drained.
Cleared ==
  /\ Reading("clear")
  /\ GiveUp
  /\ boot' = [boot EXCEPT !.step = "request"]
  /\ UNCHANGED <<board, decided, written>>

\* A read has failed: the counters are given up, so is the board, the picture's next is read.
BootDrained ==
  /\ Reading("drain")
  /\ GiveUp
  /\ decided' = IF boot.stage = "board" THEN [state |-> "Unknown", wrong |-> FALSE] ELSE decided
  /\ boot' = IF boot.stage = "picture" THEN NextRegister("picture", boot.k) ELSE After(boot.stage)
  /\ UNCHANGED <<board, written>>

\* The low bits that are written back are those that were read.  The write may fail.
BootWrite ==
  /\ Reading("write")
  /\ written' \in {written} \cup (IF attached /\ boot.stage = "colour" THEN {written \/ boot.wrong} ELSE {})
  /\ boot' = NextRegister(boot.stage, boot.k)
  /\ UNCHANGED <<bridge, board, decided>>

-----------------------------------------------------------------------------
(* The recorded configuration.                                             *)

\* videoAlreadyFlowing: anything but a timeout counts as video.
Flowing ==
  /\ boot.stage = "flowing"
  /\ boot' \in {Step("thrown", "go", 1)} \cup (IF attached THEN {Step("replay", "go", 1)} ELSE {})
  /\ UNCHANGED <<bridge, board, decided, written>>

Command == Recording[boot.k]
Commanding(kind) ==
  boot.stage = "replay" /\ boot.step = "go" /\ boot.k <= Len(Recording) /\ Command.kind = kind

\* A command that moved as many bytes as its length says is done.
Replayed(actual) ==
  boot' = IF actual = Command.length
          THEN [boot EXCEPT !.k = @ + 1, !.actual = actual] ELSE Step("thrown", "go", 1)

ReplayWrite ==
  /\ Commanding("write")
  /\ attached
  /\ IF Command.request = NoRequest THEN UNCHANGED bridge ELSE Ask(Command.request)
  /\ Replayed(Command.length)
  /\ UNCHANGED <<board, decided, written>>

\* There is no timeout: a reply that does not come is waited for.  One that is too long for the
\* read overflows it, and how much is then said to have come is up to the host.
ReplayRead ==
  /\ Commanding("read")
  /\ Take
  /\ LET length == Lengths[Head(replies)] IN
     \E actual \in IF length <= Command.length THEN {length} ELSE {0, Command.length} :
       Replayed(actual)
  /\ UNCHANGED <<board, decided, written>>

\* The card is gone: the transfer sets no length, so the previous one is looked at, and for the
\* first command whatever the variable holds.
ReplayGone ==
  /\ Commanding("write") \/ Commanding("read")
  /\ ~attached
  /\ \E actual \in IF boot.k = 1 THEN {0, Command.length} ELSE {boot.actual} : Replayed(actual)
  /\ UNCHANGED <<bridge, board, decided, written>>

\* The recording ends with a request whose reply nothing reads.
ReplayDrain ==
  /\ boot.stage = "replay" /\ boot.k > Len(Recording)
  /\ Take
  /\ UNCHANGED sessionVars

\* Mutant: that reply is left where it is.
LeftUnread ==
  /\ boot.stage = "replay" /\ boot.k > Len(Recording)
  /\ boot' = Step("colour", "request", 1)
  /\ UNCHANGED <<bridge, board, decided, written>>

ReplayDone ==
  /\ boot.stage = "replay" /\ boot.k > Len(Recording)
  /\ GiveUp
  /\ boot' = Step("colour", "request", 1)
  /\ UNCHANGED <<board, decided, written>>

Bootstrap ==
  \/ BootRequest \/ BootReply \/ BootNoReply \/ BootDrain \/ Cleared \/ BootDrained \/ BootWrite
  \/ Flowing \/ ReplayWrite \/ ReplayRead \/ ReplayGone \/ ReplayDrain \/ ReplayDone

SNext ==
  \/ Bootstrap /\ UNCHANGED <<owner, poll, shared, status>>
  \/ boot.stage = "done" /\ (Poll \/ Owner) /\ UNCHANGED sessionVars
  \/ Card /\ UNCHANGED sessionVars

SSpec == SInit /\ [][SNext]_svars

Done(A) == boot.stage = "done" /\ A /\ UNCHANGED sessionVars

\* As for StatusMonitor!FairSpec.
FairSession ==
  SSpec /\ WF_svars(Done(Poll)) /\ WF_svars(Done(TakeLock \/ Notify \/ Join))

-----------------------------------------------------------------------------
(* Properties.                                                             *)

\* A card is never taken for configured, or for fresh, on the word of another register's reply: a
\* reply that an earlier session or a read of the counters left is found out by its length
\* (Bootstrapper.cpp 72-97: one byte, then two).
BoardReadFromItself == ~decided.wrong

\* One late reply alone never changes the output format: the bits of IO 0x02 that are written back
\* are its own (setAutoInputColourSpace).  Two may, because that read has one byte like most.
FormatBitsKept == late.ever <= 1 => ~written
=============================================================================
