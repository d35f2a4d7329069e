---------------------------- MODULE CaptureDaemon ----------------------------
(***************************************************************************)
(* lgx2d's CaptureDaemon with the hotplug half of UsbContext: which card   *)
(* is captured as cards come and go, and who still refers to which         *)
(* libusb_device.                                                          *)
(*                                                                         *)
(* Two threads.  The EVENT thread hands libusb's hotplug messages to       *)
(* queueEvent; the MAIN thread takes them off the queue, opens and ends    *)
(* the session, and at last destroys the daemon, member by member.  A      *)
(* device is the ADDRESS of its libusb_device: once nothing refers to it,  *)
(* libusb may give the address to another card.  What a session captures   *)
(* is CaptureStream's and CapturePipeline's business; here it is alive or  *)
(* has failed.                                                             *)
(***************************************************************************)
EXTENDS Integers, FiniteSets, Sequences, SequencesExt

CONSTANTS
  Devices,        \* bound: addresses of libusb_devices
  None,           \* nullptr
  MaxPlugged,     \* bound: cards plugged in at a time
  MaxPlugs,       \* bound: times a card is plugged in
  OpenAttempts,   \* OPEN_ATTEMPTS
  OpenMayFail,    \* opening or bootstrapping a card may fail while it is plugged in
  CardMayHang,    \* a card may leave the bootstrap's replay without an answer
  StreamMayFail   \* the capture stream may fail while the card is plugged in

ASSUME ConstantsAssumption ==
  /\ None \notin Devices /\ IsFiniteSet(Devices)
  /\ MaxPlugged \in Nat /\ MaxPlugs \in Nat
  /\ OpenAttempts \in Nat \ {0}
  /\ OpenMayFail \in BOOLEAN /\ CardMayHang \in BOOLEAN /\ StreamMayFail \in BOOLEAN

VARIABLES
  plugged,   \* the cards plugged in
  usb3,      \* the devices on a USB 3 link
  plugs,     \* how often a card was plugged in
  messages,  \* libusb's hotplug messages, oldest first
  callback,  \* the event thread is in queueEvent with this event, its device referenced
  events,    \* _events
  refs,      \* the references this program holds, by device
  main,      \* where the main thread is
  hand,      \* the event handleEvents has taken off the queue
  attempt,   \* openSession's attempt
  session,   \* _sessionDevice
  failed,    \* the session's stream has failed (ended())
  stop,      \* run()'s argument: a signal asks the daemon to stop
  trouble    \* history: a card that is plugged in kept the bootstrap waiting, could not be opened
             \* or its stream failed, or two were plugged in at a time

vars == <<plugged, usb3, plugs, messages, callback, events, refs, main, hand, attempt,
          session, failed, stop, trouble>>

usb     == <<plugged, usb3, plugs, messages>>
capture == <<session, failed>>

NoEvent == [device |-> None, arrived |-> FALSE]
Event(d, arrived) == [device |-> d, arrived |-> arrived]

\* libusb keeps a device until its leaving has been told.
About(d)   == { i \in DOMAIN messages : messages[i].device = d }
Alive(d)   == d \in plugged \/ About(d) # {} \/ refs[d] > 0
Referenced(d)   == [refs EXCEPT ![d] = @ + 1]
Unreferenced(d) == [refs EXCEPT ![d] = @ - 1]

Init ==
  /\ plugged = {} /\ usb3 = {} /\ plugs = 0 /\ messages = << >>
  /\ callback = NoEvent /\ events = << >> /\ refs = [d \in Devices |-> 0]
  /\ main = "watch" /\ hand = NoEvent /\ attempt = 0
  /\ session = None /\ failed = FALSE /\ stop = FALSE /\ trouble = FALSE

-----------------------------------------------------------------------------
(* The user, and the event thread.                                         *)

Plug ==
  \E d \in Devices :
    /\ ~Alive(d)
    /\ Cardinality(plugged) < MaxPlugged /\ plugs < MaxPlugs
    /\ plugs' = plugs + 1
    /\ plugged' = plugged \cup {d}
    /\ usb3' \in {usb3 \cup {d}, usb3 \ {d}}
    /\ messages' = Append(messages, Event(d, TRUE))
    /\ trouble' = (trouble \/ plugged # {})
    /\ UNCHANGED <<callback, events, refs, main, hand, attempt, capture, stop>>

Unplug ==
  \E d \in plugged :
    /\ plugged' = plugged \ {d}
    /\ messages' = Append(messages, Event(d, FALSE))
    /\ UNCHANGED <<usb3, plugs, callback, events, refs, main, hand, attempt, capture, stop,
                   trouble>>

RequestStop ==
  /\ ~stop
  /\ stop' = TRUE
  /\ UNCHANGED <<usb, callback, events, refs, main, hand, attempt, capture, trouble>>

\* While the hotplug callback is registered.
Watching == main \notin {"watch", "gone"}

\* hotplugEvent calls queueEvent, which first references the device.
Dispatch ==
  /\ callback = NoEvent /\ messages # << >>
  /\ messages' = Tail(messages)
  /\ IF Watching
     THEN callback' = Head(messages) /\ refs' = Referenced(Head(messages).device)
     ELSE UNCHANGED <<callback, refs>>
  /\ UNCHANGED <<plugged, usb3, plugs, events, main, hand, attempt, capture, stop, trouble>>

\* Under _eventsMutex.
QueueEvent ==
  /\ callback # NoEvent
  /\ events' = Append(events, callback)
  /\ callback' = NoEvent
  /\ UNCHANGED <<usb, refs, main, hand, attempt, capture, stop, trouble>>

\* The stream fails: its card is gone, or something else was wrong with it.
StreamFails ==
  /\ session # None /\ ~failed
  /\ session \notin plugged \/ StreamMayFail
  /\ failed' = TRUE
  /\ trouble' = (trouble \/ session \in plugged)
  /\ UNCHANGED <<usb, callback, events, refs, main, hand, attempt, session, stop>>

-----------------------------------------------------------------------------
(* The main thread.                                                        *)

\* watchDevices: the devices libusb knows are reported as arrivals, on this thread.
Known == plugged \cup { messages[i].device : i \in DOMAIN messages }

Watch ==
  /\ main = "watch"
  /\ \E order \in SetToSeqs(Known) :
       events' = events \o [i \in DOMAIN order |-> Event(order[i], TRUE)]
  /\ refs' = [d \in Devices |-> IF d \in Known THEN refs[d] + 1 ELSE refs[d]]
  /\ main' = "loop"
  /\ UNCHANGED <<usb, callback, hand, attempt, capture, stop, trouble>>

\* A turn of run()'s loop, or its end.
Loop ==
  /\ main = "loop"
  /\ main' = IF stop THEN "destroy" ELSE "take"
  /\ UNCHANGED <<usb, callback, events, refs, hand, attempt, capture, stop, trouble>>

\* handleEvents takes an event; when there is none the loop goes on.
TakeEvent ==
  /\ main = "take"
  /\ IF events = << >>
     THEN main' = "session" /\ UNCHANGED <<events, hand>>
     ELSE main' = "handle" /\ hand' = Head(events) /\ events' = Tail(events)
  /\ UNCHANGED <<usb, callback, refs, attempt, capture, stop, trouble>>

\* handleEvents is done with the event in hand.
Handled(counts) ==
  /\ refs' = [counts EXCEPT ![hand.device] = @ - 1]
  /\ hand' = NoEvent
  /\ main' = "take"

\* One card is captured already, or this one is not usable.
HandleUnwanted ==
  /\ main = "handle" /\ hand.arrived
  /\ session # None \/ hand.device \notin usb3
  /\ Handled(refs)
  /\ UNCHANGED <<usb, callback, events, attempt, capture, stop, trouble>>

HandleArrived ==
  /\ main = "handle" /\ hand.arrived
  /\ session = None /\ hand.device \in usb3
  /\ main' = "open" /\ attempt' = 1
  /\ UNCHANGED <<usb, callback, events, refs, hand, capture, stop, trouble>>

\* The bootstrap replays recorded commands, and waits for each answer without a timeout.
Replay ==
  /\ main = "open" /\ CardMayHang
  /\ hand.device \in plugged
  /\ main' = "replay" /\ trouble' = TRUE
  /\ UNCHANGED <<usb, callback, events, refs, hand, attempt, capture, stop>>

\* An attempt to open, bootstrap and start a session succeeds; the replay need not notice that its
\* card is gone.
Opened ==
  /\ \/ main = "open" /\ hand.device \in plugged
     \/ main = "replay"
  /\ session' = hand.device /\ failed' = FALSE
  /\ Handled(Referenced(hand.device))
  /\ attempt' = 0
  /\ UNCHANGED <<usb, callback, events, stop, trouble>>

\* It fails: again after OPEN_RETRY_DELAY, or never.  (Mutant: the attempts are not counted.)
OpenFailedForever ==
  /\ main \in {"open", "replay"}
  /\ hand.device \notin plugged \/ OpenMayFail
  /\ main' = "open"
  /\ UNCHANGED <<usb, callback, events, refs, hand, attempt, capture, stop, trouble>>

OpenFailed ==
  /\ main \in {"open", "replay"}
  /\ hand.device \notin plugged \/ OpenMayFail
  /\ IF attempt < OpenAttempts
     THEN attempt' = attempt + 1 /\ main' = "open" /\ UNCHANGED <<refs, hand>>
     ELSE attempt' = 0 /\ Handled(refs)
  /\ trouble' = (trouble \/ hand.device \in plugged)
  /\ UNCHANGED <<usb, callback, events, capture, stop>>

\* endSession, behind its early return.
EndSession ==
  /\ session # None
  /\ session' = None /\ failed' = FALSE

\* Mutants: any card that leaves ends the session; it is ended when its stream has failed; the
\* reference of another card's event is forgotten.
HandleLeftAny ==
  /\ main = "handle" /\ ~hand.arrived
  /\ IF session # None THEN EndSession /\ Handled(Unreferenced(session))
                       ELSE Handled(refs) /\ UNCHANGED capture
  /\ UNCHANGED <<usb, callback, events, attempt, stop, trouble>>
HandleLeftLater ==
  /\ main = "handle" /\ ~hand.arrived
  /\ Handled(refs)
  /\ UNCHANGED <<usb, callback, events, attempt, capture, stop, trouble>>
HandleLeftLeaks ==
  /\ main = "handle" /\ ~hand.arrived
  /\ IF session = hand.device
     THEN EndSession /\ Handled(Unreferenced(session))
     ELSE hand' = NoEvent /\ main' = "take" /\ UNCHANGED <<refs, capture>>
  /\ UNCHANGED <<usb, callback, events, attempt, stop, trouble>>

HandleLeft ==
  /\ main = "handle" /\ ~hand.arrived
  /\ IF session = hand.device
     THEN EndSession /\ Handled(Unreferenced(session))
     ELSE Handled(refs) /\ UNCHANGED capture
  /\ UNCHANGED <<usb, callback, events, attempt, stop, trouble>>

\* The rest of the turn: a session that has ended by itself is closed.
CheckSession ==
  /\ main = "session"
  /\ IF session # None /\ failed
     THEN EndSession /\ refs' = Unreferenced(session)
     ELSE UNCHANGED <<refs, capture>>
  /\ main' = "loop"
  /\ UNCHANGED <<usb, callback, events, hand, attempt, stop, trouble>>

\* ~CaptureDaemon: endSession, then release what is queued ...
Destroy ==
  /\ main = "destroy"
  /\ IF session # None THEN EndSession /\ refs' = Unreferenced(session)
                       ELSE UNCHANGED <<refs, capture>>
  /\ main' = "clear"
  /\ UNCHANGED <<usb, callback, events, hand, attempt, stop, trouble>>

QueuedFor(d) == Cardinality({ i \in DOMAIN events : events[i].device = d })

Clear ==
  /\ main = "clear"
  /\ refs' = [d \in Devices |-> refs[d] - QueuedFor(d)]
  /\ events' = << >>
  /\ main' = "members"
  /\ UNCHANGED <<usb, callback, hand, attempt, capture, stop, trouble>>

\* ... then the members, _context last: it deregisters the callback and joins the event thread.
Deregister ==
  /\ main = "members" /\ callback = NoEvent
  /\ main' = "gone"
  /\ UNCHANGED <<usb, callback, events, refs, hand, attempt, capture, stop, trouble>>

Main ==
  \/ Watch \/ Loop \/ TakeEvent
  \/ HandleUnwanted \/ HandleArrived \/ Replay \/ Opened \/ OpenFailed \/ HandleLeft
  \/ CheckSession \/ Destroy \/ Clear \/ Deregister

Next == Plug \/ Unplug \/ RequestStop \/ Dispatch \/ QueueEvent \/ StreamFails \/ Main

Spec == Init /\ [][Next]_vars

\* A replay goes on when its card answers, which nothing makes it do, or is unplugged.
Unanswered == main = "replay" /\ hand.device \in plugged

\* The two threads are scheduled, and the transfers of a card that is gone fail.
FairSpec ==
  /\ Spec
  /\ WF_vars(Main /\ ~Unanswered) /\ WF_vars(Dispatch \/ QueueEvent)
  /\ WF_vars(StreamFails /\ session \notin plugged)

-----------------------------------------------------------------------------
Events == [device : Devices, arrived : BOOLEAN]

TypeOK ==
  /\ plugged \subseteq Devices /\ usb3 \subseteq Devices /\ plugs \in 0 .. MaxPlugs
  /\ messages \in Seq(Events) /\ events \in Seq(Events)
  /\ callback \in Events \cup {NoEvent} /\ hand \in Events \cup {NoEvent}
  /\ refs \in [Devices -> Nat]
  /\ main \in {"watch", "loop", "take", "handle", "open", "replay", "session",
              "destroy", "clear", "members", "gone"}
  /\ attempt \in 0 .. OpenAttempts
  /\ session \in Devices \cup {None}
  /\ failed \in BOOLEAN /\ stop \in BOOLEAN /\ trouble \in BOOLEAN

\* The references this program should hold: one for each queued event, one for each thread's
\* event in hand, one for the session.
Held(d) ==
  QueuedFor(d) + Cardinality({ e \in {"callback"} : callback.device = d })
               + Cardinality({ e \in {"hand"} : hand.device = d })
               + Cardinality({ e \in {"session"} : session = d })

\* No device is freed while an event or the session still refers to it, and none is kept for
\* ever, on whatever path the event was handled (CaptureDaemon.cpp 32-37, 69-125).
RefsCounted == \A d \in Devices : refs[d] = Held(d)

\* A session whose stream is well is ended only when its own card is gone, or the daemon stops:
\* not for another card, and not for a card that had the same address before
\* (CaptureDaemon.cpp 85-87, CaptureDaemon.h 38: referenced while queued).
EndsOnlyWhenGone ==
  [][session # None /\ session' = None /\ ~failed /\ ~stop => session \notin plugged]_vars

\* A usable card that stays plugged in is captured at last, however often cards came and went
\* before it was, as long as they worked and came one at a time: its predecessor's session does
\* not stand in its way (CaptureDaemon.cpp 69-89).
CardCaptured ==
  \A d \in Devices :
    d \in plugged /\ d \in usb3 ~> session = d \/ d \notin plugged \/ stop \/ trouble

\* A request to stop ends the daemon, also while a card is being opened that is gone or cannot be,
\* unless a card that stays plugged in never answers the bootstrap (CaptureDaemon.cpp 44, 92-115).
StopHonoured == []<>(~Unanswered) => (stop ~> main = "gone")

\* The daemon waits for a card only while there is none to capture (README.md 210-211: it waits
\* for the card to be plugged in, captures until it is unplugged, and then waits again).
Settled == main = "loop" /\ events = << >> /\ messages = << >> /\ callback = NoEvent
CapturesUntilUnplugged == Settled /\ ~stop => session # None \/ plugged \cap usb3 = {}
=============================================================================
