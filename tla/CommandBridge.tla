---------------------------- MODULE CommandBridge ----------------------------
(***************************************************************************)
(* CommandBridge (liblgx-usb) and the card behind it: a read is a request  *)
(* on OUT 0x01 and a reply on IN 0x81.  Nothing in a reply says which      *)
(* request it answers; only its length does.  A reply that comes after its *)
(* read has timed out waits in the endpoint for the next reader, or for    *)
(* drainResponses().                                                       *)
(*                                                                         *)
(* A register is a number, and so is the reply with its contents: what the *)
(* reader does with it is in StatusMonitor and DeviceSession, whose steps  *)
(* are made of the steps below.  The mutex is left out: the bootstrap, the *)
(* probe and the poll thread use the bridge one after the other.           *)
(***************************************************************************)
EXTENDS Integers, Sequences

CONSTANTS
  Lengths,   \* the length of each register's reply
  MaxAsked,  \* bound: the requests that the card takes before it answers one
  Many       \* bound: how far late replies are counted

ASSUME BridgeAssumption ==
  /\ Lengths \in Seq(Nat \ {0}) /\ Lengths # << >>
  /\ MaxAsked \in Nat \ {0} /\ Many \in Nat \ {0, 1}

VARIABLES
  attached,  \* the card is plugged in
  asked,     \* requests that the card has not answered, oldest first
  replies,   \* replies that wait in IN 0x81
  late       \* history: how many of the oldest in "asked" nobody waits for any more, and
             \* how many replies there ever were, up to Many

bridge == <<attached, asked, replies, late>>

\* A request is taken.
Ask(r) ==
  /\ attached /\ Len(asked) < MaxAsked
  /\ asked' = Append(asked, r)
  /\ UNCHANGED <<attached, replies, late>>

\* The next reply, of whichever register.
Take ==
  /\ attached /\ replies # << >>
  /\ replies' = Tail(replies)
  /\ UNCHANGED <<attached, asked, late>>

\* Nobody waits any longer for what has not been answered.
GiveUp ==
  /\ attached => replies = << >>
  /\ late' = [now  |-> Len(asked),
              ever |-> LET ever == late.ever + Len(asked) - late.now
                       IN IF ever < Many THEN ever ELSE Many]
  /\ UNCHANGED <<attached, asked, replies>>

-----------------------------------------------------------------------------
(* The card.  It answers in order, at any time, or not at all.             *)

Answer ==
  /\ attached /\ asked # << >>
  /\ replies' = Append(replies, Head(asked))
  /\ asked' = Tail(asked)
  /\ late' = [late EXCEPT !.now = IF @ > 0 THEN @ - 1 ELSE 0]
  /\ UNCHANGED attached

Unplug ==
  /\ attached
  /\ attached' = FALSE
  /\ UNCHANGED <<asked, replies, late>>

BridgeOK ==
  /\ attached \in BOOLEAN
  /\ asked \in Seq(DOMAIN Lengths) /\ replies \in Seq(DOMAIN Lengths)
  /\ Len(asked) <= MaxAsked
  /\ late \in [now : 0 .. Len(asked), ever : 0 .. Many]
=============================================================================
