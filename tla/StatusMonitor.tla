---------------------------- MODULE StatusMonitor ----------------------------
(***************************************************************************)
(* StatusMonitor (liblgx-usb): the poll of the HDMI input's status that    *)
(* decides whether audio is muted and the no-signal screen is shown.  It   *)
(* reads the card's registers with CommandBridge!i2cRead.                  *)
(*                                                                         *)
(* Two threads: the OWNER probes once, starts the poll thread and stops it;*)
(* the POLL thread reads all the registers, publishes the state and sleeps.*)
(* The registers' values and their decoding (SignalStatus) are left out: a *)
(* poll that succeeds publishes any of the states.                         *)
(***************************************************************************)
EXTENDS CommandBridge

CONSTANTS
  Polled,       \* readAdvStatus reads the registers 1 .. Polled, in order
  MaxFailures,  \* MAX_CONSECUTIVE_FAILURES
  Inputs        \* the input states; one is "Signal"

ASSUME ConstantsAssumption ==
  /\ Polled \in DOMAIN Lengths
  /\ MaxFailures \in Nat \ {0}
  /\ "Signal" \in Inputs

\* No run of late replies, which shifts every read by as many, fits the lengths of all the
\* registers.  The card's (eight of one byte, then 8, 6 and 12, then one) bear up to ten.
ASSUME LengthsAssumption ==
  \A shift \in 1 .. MaxAsked :
    \E r \in shift + 1 .. Polled : Lengths[r] # Lengths[r - shift]

Registers == 1 .. Polled

VARIABLES
  owner,       \* the owner's step
  poll,        \* the poll thread's (at first the probe's) step, register, and whether
               \* a reply of this poll was another register's
  mutex,       \* _mutex is held by the poll thread, which is about to sleep
  stopping,    \* _stopping
  failures,    \* consecutiveFailures
  inputState,  \* _inputState
  published    \* history: whether the last poll published was of its own replies

vars == <<owner, poll, mutex, stopping, failures, inputState, published, bridge>>

shared == <<mutex, stopping>>
status == <<failures, inputState, published>>

At(step) == [at |-> step, reg |-> 1, wrong |-> FALSE]

Init ==
  /\ owner = "probing" /\ poll = At("request")
  /\ mutex = FALSE /\ stopping = FALSE
  /\ failures = 0 /\ inputState = "Signal" /\ published = "none"
  /\ attached = TRUE /\ asked = << >> /\ replies = << >> /\ late = [now |-> 0, ever |-> 0]

-----------------------------------------------------------------------------
(* One read of all the registers, by probeOnce or by the poll thread.      *)

Probing == owner = "probing"

\* What follows a failed read: the poll thread does not even drain when it is to stop.
Failed == At(IF ~Probing /\ stopping THEN "done" ELSE "drain")

\* NO_DEVICE ends the poll thread as it is; the capture stream reports the disconnect.
Request ==
  /\ poll.at = "request"
  /\ \/ /\ Ask(poll.reg)
        /\ poll' = [poll EXCEPT !.at = "reply"]
     \/ /\ attached
        /\ poll' = Failed
        /\ UNCHANGED bridge
     \/ /\ ~attached
        /\ poll' = IF Probing THEN Failed ELSE At("done")
        /\ UNCHANGED bridge
  /\ UNCHANGED <<owner, shared, status>>

LengthIgnored(reply) == TRUE  \* mutant: actualLength is not looked at
LengthFits(reply) == Lengths[reply] = Lengths[poll.reg]

Reply ==
  /\ poll.at = "reply"
  /\ Take
  /\ LET reply == Head(replies)
         last  == poll.reg = Polled IN
     poll' = IF ~LengthFits(reply) THEN Failed
             ELSE [at    |-> IF last THEN "publish" ELSE "request",
                   reg   |-> IF last THEN poll.reg ELSE poll.reg + 1,
                   wrong |-> poll.wrong \/ reply # poll.reg]
  /\ UNCHANGED <<owner, shared, status>>

\* COMMAND_TIMEOUT_MS passes, or the transfer fails in another way.
NoReply ==
  /\ poll.at = "reply"
  /\ GiveUp
  /\ poll' = IF attached \/ Probing THEN Failed ELSE At("done")
  /\ UNCHANGED <<owner, shared, status>>

Publish ==
  /\ poll.at = "publish"
  /\ inputState' \in Inputs
  /\ published' = IF poll.wrong THEN "wrong" ELSE "right"
  /\ failures' = IF Probing THEN failures ELSE 0
  /\ poll' = At(IF Probing THEN "done" ELSE "wait")
  /\ UNCHANGED <<owner, shared, bridge>>

\* drainResponses: until nothing comes for a moment.
Drain ==
  /\ poll.at = "drain"
  /\ Take
  /\ UNCHANGED <<owner, poll, shared, status>>

\* Mutant: the poll gives up and leaves the state as it is.
DrainedMuted ==
  /\ poll.at = "drain"
  /\ GiveUp
  /\ failures' = IF Probing THEN failures ELSE failures + 1
  /\ poll' = At(IF Probing \/ failures' = MaxFailures THEN "done" ELSE "wait")
  /\ UNCHANGED <<owner, shared, inputState, published>>

Drained ==
  /\ poll.at = "drain"
  /\ GiveUp
  /\ failures' = IF Probing THEN failures ELSE failures + 1
  /\ IF failures' = MaxFailures
     THEN poll' = At("done") /\ inputState' = "Signal"
     ELSE poll' = At(IF Probing THEN "done" ELSE "wait") /\ UNCHANGED inputState
  /\ UNCHANGED <<owner, shared, published>>

-----------------------------------------------------------------------------
(* The poll thread's loop.  A critical section of _mutex is one action.    *)

\* At the head of the loop, on entry and after a sleep.
Lock ==
  /\ poll.at = "lock" /\ ~mutex
  /\ poll' = At(IF stopping THEN "done" ELSE "request")
  /\ UNCHANGED <<owner, shared, status, bridge>>

\* wait_for looks at the predicate, and keeps the lock until it sleeps.
CheckPredicate ==
  /\ poll.at = "wait" /\ ~mutex
  /\ IF stopping THEN poll' = At("done") /\ UNCHANGED mutex
     ELSE poll' = At("sleeping") /\ mutex' = TRUE
  /\ UNCHANGED <<owner, stopping, status, bridge>>

Sleep ==
  /\ poll.at = "sleeping"
  /\ poll' = At("asleep") /\ mutex' = FALSE
  /\ UNCHANGED <<owner, stopping, status, bridge>>

\* POLL_INTERVAL is over.
Wake ==
  /\ poll.at = "asleep"
  /\ poll' = At("lock")
  /\ UNCHANGED <<owner, shared, status, bridge>>

-----------------------------------------------------------------------------
(* The owner.                                                              *)

Start ==
  /\ Probing /\ poll.at = "done"
  /\ owner' = "running"
  /\ poll' = At("lock")
  /\ UNCHANGED <<shared, status, bridge>>

\* stop(): store the flag, take the lock once, wake the poll thread and join it.  (Mutant: no
\* flag is stored.)
StoreNothing ==
  /\ owner = "running"
  /\ owner' = "flagged"
  /\ UNCHANGED <<poll, shared, status, bridge>>

StoreFlag ==
  /\ owner = "running"
  /\ owner' = "flagged"
  /\ stopping' = TRUE
  /\ UNCHANGED <<poll, mutex, status, bridge>>

\* Mutant: the lock is not taken.
TakeNoLock ==
  /\ owner = "flagged"
  /\ owner' = "locked"
  /\ UNCHANGED <<poll, shared, status, bridge>>
TakeLock == ~mutex /\ TakeNoLock

Notify ==
  /\ owner = "locked"
  /\ poll' = IF poll.at = "asleep" THEN At("lock") ELSE poll
  /\ owner' = "joining"
  /\ UNCHANGED <<shared, status, bridge>>

Join ==
  /\ owner = "joining" /\ poll.at = "done"
  /\ owner' = "stopped"
  /\ UNCHANGED <<poll, shared, status, bridge>>

Poll ==
  \/ Request \/ Reply \/ NoReply \/ Publish \/ Drain \/ Drained
  \/ Lock \/ CheckPredicate \/ Sleep \/ Wake
Owner == Start \/ StoreFlag \/ TakeLock \/ Notify \/ Join

Card == (Answer \/ Unplug) /\ UNCHANGED <<owner, poll, shared, status>>

Next == Poll \/ Owner \/ Card

Spec == Init /\ [][Next]_vars

\* The threads are scheduled; every transfer returns, at the latest when it times out.  The owner
\* need not stop the poll, and the device need not answer.
FairSpec == Spec /\ WF_vars(Poll) /\ WF_vars(TakeLock \/ Notify \/ Join)

-----------------------------------------------------------------------------
PollSteps ==
  {"request", "reply", "publish", "drain", "lock", "wait", "sleeping", "asleep", "done"}

TypeOK ==
  /\ owner \in {"probing", "running", "flagged", "locked", "joining", "stopped"}
  /\ poll \in [at : PollSteps, reg : Registers, wrong : BOOLEAN]
  /\ mutex \in BOOLEAN /\ stopping \in BOOLEAN
  /\ failures \in 0 .. MaxFailures
  /\ inputState \in Inputs /\ published \in {"none", "right", "wrong"}
  /\ BridgeOK

\* No status is decoded from another register's value, however late the replies come: a poll
\* that takes a stale reply for its own fails before it publishes (StatusMonitor.cpp 87-111,
\* CommandBridge.cpp 26-39).
PublishedFromOwnReplies == published # "wrong"

\* stop() need not wait for POLL_INTERVAL: the poll thread does not fall asleep behind the
\* notification (StatusMonitor.cpp 56-66, 114-115).
NoLostWakeup == owner = "joining" => poll.at # "asleep"

\* stop() returns, whatever the poll thread is doing and the device is up to.
StopTerminates == owner = "flagged" ~> owner = "stopped"

\* A broken poll never mutes audio for good (StatusMonitor.h 37-38): if no poll succeeds any
\* more, the state becomes Signal, unless the card is gone or the session ends.
BrokenPollUnmutes ==
  \/ []<><<Publish>>_vars
  \/ <>[](inputState = "Signal" \/ ~attached \/ stopping \/ Probing)
=============================================================================
