------------------------- MODULE CaptureDaemonProofs -------------------------
(***************************************************************************)
(* Proof that the daemon's references to libusb's devices are balanced,    *)
(* for every set of devices and however often they come and go.            *)
(***************************************************************************)
EXTENDS CaptureDaemon, FiniteSetTheorems, SequenceTheorems, TLAPS

USE ConstantsAssumption

(***************************************************************************)
(* Counting the events of a queue that are about a device.                 *)
(***************************************************************************)

Entries(q, d) == { i \in DOMAIN q : q[i].device = d }
Count(q, d)  == Cardinality(Entries(q, d))
One(is)      == IF is THEN 1 ELSE 0

LEMMA CountNat ==
  ASSUME NEW q \in Seq(Events), NEW d
  PROVE  IsFiniteSet(Entries(q, d)) /\ Count(q, d) \in Nat
<1>1. IsFiniteSet(1 .. Len(q)) /\ Entries(q, d) \subseteq 1 .. Len(q)
  BY FS_Interval DEF Entries
<1> QED
  BY <1>1, FS_Subset, FS_CardinalityType DEF Count

LEMMA CountEmpty ==
  ASSUME NEW d
  PROVE  Count(<< >>, d) = 0
<1>1. Entries(<< >>, d) = {}
  BY DEF Entries
<1> QED
  BY <1>1, FS_EmptySet DEF Count

LEMMA CountAppend ==
  ASSUME NEW q \in Seq(Events), NEW e \in Events, NEW d
  PROVE  Count(Append(q, e), d) = Count(q, d) + One(e.device = d)
<1> DEFINE n == Len(q)
<1>1. /\ n \in Nat /\ Len(Append(q, e)) = n + 1 /\ Append(q, e)[n + 1] = e
      /\ \A i \in 1 .. n : Append(q, e)[i] = q[i]
      /\ DOMAIN q = 1 .. n /\ DOMAIN Append(q, e) = 1 .. n + 1
  BY AppendProperties, LenProperties
<1>2. IsFiniteSet(Entries(q, d)) /\ Count(q, d) \in Nat /\ n + 1 \notin Entries(q, d)
  <2>1. n + 1 \notin Entries(q, d)
    BY <1>1 DEF Entries
  <2> QED
    BY <2>1, CountNat
<1>3. CASE e.device = d
  <2>1. Entries(Append(q, e), d) = Entries(q, d) \cup {n + 1}
    BY <1>1, <1>3 DEF Entries
  <2>2. Cardinality(Entries(q, d) \cup {n + 1}) = Cardinality(Entries(q, d)) + 1
    BY <1>2, FS_AddElement
  <2> QED
    BY <1>3, <2>1, <2>2 DEF Count, One
<1>4. CASE e.device # d
  <2>1. Entries(Append(q, e), d) = Entries(q, d)
    BY <1>1, <1>4 DEF Entries
  <2> QED
    BY <1>2, <1>4, <2>1 DEF Count, One
<1> QED
  BY <1>3, <1>4

LEMMA CountTail ==
  ASSUME NEW q \in Seq(Events), q # << >>, NEW d
  PROVE  Count(q, d) = Count(Tail(q), d) + One(Head(q).device = d)
<1> DEFINE n == Len(q)
           T == Entries(Tail(q), d)
           S == Entries(q, d) \ {1}
           f == [i \in T |-> i + 1]
<1>1. /\ n \in Nat \ {0} /\ DOMAIN q = 1 .. n /\ Head(q) = q[1]
      /\ Tail(q) \in Seq(Events) /\ Len(Tail(q)) = n - 1 /\ DOMAIN Tail(q) = 1 .. n - 1
      /\ \A i \in 1 .. n - 1 : Tail(q)[i] = q[i + 1]
  BY HeadTailProperties, LenProperties, EmptySeq
<1> HIDE DEF n
<1>2. ExistsBijection(T, S)
  <2>1. \A i \in T : i \in 1 .. n - 1 /\ i + 1 \in S
    BY <1>1 DEF Entries
  <2>2. f \in [T -> S]
    BY <2>1
  <2>3. \A i, j \in T : f[i] = f[j] => i = j
    BY <2>1
  <2>4. \A s \in S : s - 1 \in T /\ f[s - 1] = s
    <3> SUFFICES ASSUME NEW s \in S PROVE s - 1 \in T /\ f[s - 1] = s
      OBVIOUS
    <3>1. s \in 1 .. n /\ s # 1 /\ q[s].device = d
      BY <1>1 DEF Entries
    <3>2. s - 1 \in 1 .. n - 1 /\ (s - 1) + 1 = s
      BY <1>1, <3>1
    <3>3. s - 1 \in T
      BY <1>1, <3>1, <3>2 DEF Entries
    <3> QED
      BY <3>2, <3>3
  <2>5. f \in Injection(T, S) /\ f \in Surjection(T, S)
    <3> HIDE DEF f, T, S
    <3> QED
      BY <2>2, <2>3, <2>4 DEF Injection, IsInjective, Surjection
  <2> QED
    BY <2>5 DEF ExistsBijection, Bijection
<1>3. IsFiniteSet(T) /\ Cardinality(T) = Count(Tail(q), d)
  BY <1>1, CountNat DEF Count
<1>4. IsFiniteSet(S) /\ Cardinality(S) = Cardinality(T) /\ Cardinality(T) \in Nat
  <2> HIDE DEF S, T
  <2> QED
    BY <1>2, <1>3, FS_Bijection, FS_CardinalityType
<1>5. CASE Head(q).device = d
  <2>1. Entries(q, d) = S \cup {1} /\ 1 \notin S
    BY <1>1, <1>5 DEF Entries
  <2>2. Cardinality(S \cup {1}) = Cardinality(S) + 1
    BY <1>4, <2>1, FS_AddElement
  <2>3. Cardinality(Entries(q, d)) = Cardinality(T) + 1
    <3> HIDE DEF S, T
    <3> QED
      BY <1>4, <2>1, <2>2
  <2> QED
    BY <1>3, <1>5, <2>3 DEF Count, One
<1>6. CASE Head(q).device # d
  <2>1. Entries(q, d) = S
    BY <1>1, <1>6 DEF Entries
  <2> HIDE DEF S, T
  <2> QED
    BY <1>3, <1>4, <1>6, <2>1 DEF Count, One
<1> QED
  BY <1>5, <1>6

\* The devices that libusb knows are each reported once.
LEMMA CountOrder ==
  ASSUME NEW K \in SUBSET Devices, NEW order \in SetToSeqs(K)
  PROVE  LET q == [i \in DOMAIN order |-> Event(order[i], TRUE)] IN
         q \in Seq(Events) /\ \A d \in Devices : Count(q, d) = One(d \in K)
<1> DEFINE n == Cardinality(K)
           q == [i \in DOMAIN order |-> Event(order[i], TRUE)]
<1>1. IsFiniteSet(K) /\ n \in Nat
  BY FS_Subset, FS_CardinalityType
<1>2. /\ order \in [1 .. n -> K]
      /\ \A i, j \in 1 .. n : i # j => order[i] # order[j]
  BY DEF SetToSeqs
<1>3. order \in Surjection(1 .. n, K)
  <2>1. order \in Injection(1 .. n, K)
    BY <1>2 DEF Injection, IsInjective
  <2>2. Cardinality(1 .. n) = n
    BY <1>1, FS_Interval
  <2> QED
    BY <1>1, <2>1, <2>2, FS_Injection
<1> HIDE DEF n
<1>4. /\ q \in Seq(Events) /\ DOMAIN q = 1 .. n
      /\ \A i \in 1 .. n : q[i].device = order[i]
  <2>1. DOMAIN order = 1 .. n
    BY <1>2
  <2>2. q = [i \in 1 .. n |-> Event(order[i], TRUE)]
    BY <2>1
  <2>3. ASSUME NEW i \in 1 .. n
        PROVE  Event(order[i], TRUE) \in Events /\ Event(order[i], TRUE).device = order[i]
    <3>1. order[i] \in Devices
      BY <1>2
    <3> QED
      BY <3>1 DEF Event, Events
  <2>4. q \in [1 .. n -> Events]
    BY <2>2, <2>3
  <2>5. DOMAIN q = 1 .. n /\ \A i \in 1 .. n : q[i].device = order[i]
    BY <2>2, <2>3
  <2>6. q \in Seq(Events)
    <3> DEFINE Told(i) == Event(order[i], TRUE)
    <3>1. \A i \in 1 .. n : Told(i) \in Events
      BY <2>3
    <3> HIDE DEF Told
    <3>2. [i \in 1 .. n |-> Told(i)] \in Seq(Events)
      BY ONLY <1>1, <3>1
    <3> QED
      BY <2>2, <3>2 DEF Told
  <2> QED
    BY <2>5, <2>6
<1> HIDE DEF q
<1>5. ASSUME NEW d \in Devices, d \in K
      PROVE  Count(q, d) = One(d \in K)
  <2>1. PICK i \in 1 .. n : order[i] = d
    BY <1>3, <1>5 DEF Surjection
  <2>2. Entries(q, d) = {i}
    <3>1. \A j \in DOMAIN q : q[j].device = d <=> j = i
      BY <1>2, <1>4, <2>1, Zenon
    <3>2. i \in DOMAIN q
      BY <1>4
    <3> QED
      BY <3>1, <3>2, Zenon DEF Entries
  <2>3. Cardinality({i}) = 1
    BY FS_Singleton
  <2> QED
    BY <1>4, <1>5, <2>2, <2>3 DEF Count, One
<1>6. ASSUME NEW d \in Devices, d \notin K
      PROVE  Count(q, d) = One(d \in K)
  <2>1. Entries(q, d) = {}
    <3>1. \A j \in DOMAIN q : order[j] \in K /\ q[j].device = order[j]
      BY <1>2, <1>4
    <3> QED
      BY <1>6, <3>1, Zenon DEF Entries
  <2> QED
    BY <1>4, <1>6, <2>1, FS_EmptySet DEF Count, One
<1> QED
  BY <1>4, <1>5, <1>6 DEF q

(***************************************************************************)
(* The invariant.                                                          *)
(***************************************************************************)

Typed ==
  /\ plugged \subseteq Devices
  /\ messages \in Seq(Events) /\ events \in Seq(Events)
  /\ callback \in Events \cup {NoEvent} /\ hand \in Events \cup {NoEvent}
  /\ refs \in [Devices -> Int]
  /\ session \in Devices \cup {None}

\* Before the devices are watched nothing is queued; the main thread has an event in hand just
\* while it handles it, and opens a card only when it has no session.
HandInv ==
  /\ main = "watch" => events = << >> /\ callback = NoEvent
  /\ hand # NoEvent <=> main \in {"handle", "open", "replay"}
  /\ main \in {"open", "replay"} => session = None

\* RefsCounted, without the sets.
Balanced ==
  \A d \in Devices :
    refs[d] = Count(events, d) + One(callback.device = d) + One(hand.device = d)
                               + One(session = d)

RefsInv == Typed /\ HandInv /\ Balanced

LEMMA BalancedIsCounted == Balanced => RefsCounted
<1>1. ASSUME NEW d \in Devices
      PROVE  Held(d) = Count(events, d) + One(callback.device = d) + One(hand.device = d)
                                        + One(session = d)
  <2>1. Cardinality({ e \in {"callback"} : callback.device = d }) = One(callback.device = d)
    <3>1. { e \in {"callback"} : callback.device = d }
            = IF callback.device = d THEN {"callback"} ELSE {}
      OBVIOUS
    <3> QED
      BY <3>1, FS_Singleton, FS_EmptySet DEF One
  <2>2. Cardinality({ e \in {"hand"} : hand.device = d }) = One(hand.device = d)
    <3>1. { e \in {"hand"} : hand.device = d } = IF hand.device = d THEN {"hand"} ELSE {}
      OBVIOUS
    <3> QED
      BY <3>1, FS_Singleton, FS_EmptySet DEF One
  <2>3. Cardinality({ e \in {"session"} : session = d }) = One(session = d)
    <3>1. { e \in {"session"} : session = d } = IF session = d THEN {"session"} ELSE {}
      OBVIOUS
    <3> QED
      BY <3>1, FS_Singleton, FS_EmptySet DEF One
  <2>4. QueuedFor(d) = Count(events, d)
    BY DEF QueuedFor, Count, Entries
  <2> QED
    BY <2>1, <2>2, <2>3, <2>4 DEF Held
<1> QED
  BY <1>1 DEF Balanced, RefsCounted

LEMMA RefsInit == Init => RefsInv
<1> SUFFICES ASSUME Init PROVE RefsInv
  OBVIOUS
<1>1. Typed
  BY EmptySeq DEF Init, Typed
<1>2. HandInv
  BY DEF Init, HandInv
<1>3. Balanced
  <2> SUFFICES ASSUME NEW d \in Devices
               PROVE  refs[d] = Count(events, d) + One(callback.device = d)
                                  + One(hand.device = d) + One(session = d)
    BY DEF Balanced
  <2>1. Count(events, d) = 0 /\ refs[d] = 0
    BY CountEmpty DEF Init
  <2>2. callback.device # d /\ hand.device # d /\ session # d
    BY DEF Init, NoEvent
  <2> QED
    BY <2>1, <2>2 DEF One
<1> QED
  BY <1>1, <1>2, <1>3 DEF RefsInv

(***************************************************************************)
(* The steps that count no reference.                                      *)
(***************************************************************************)

LEMMA QuietStep ==
  ASSUME RefsInv, UNCHANGED <<callback, events, refs, hand, session>>,
         plugged' \subseteq Devices, messages' \in Seq(Events), HandInv'
  PROVE  RefsInv'
<1>1. Typed'
  BY DEF RefsInv, Typed
<1>2. Balanced'
  BY DEF RefsInv, Balanced, Count, Entries
<1> QED
  BY <1>1, <1>2 DEF RefsInv

LEMMA UsbStep == RefsInv /\ (Plug \/ Unplug \/ RequestStop \/ StreamFails) => RefsInv'
<1> SUFFICES ASSUME RefsInv, Plug \/ Unplug \/ RequestStop \/ StreamFails
             PROVE  RefsInv'
  OBVIOUS
<1>1. UNCHANGED <<callback, events, refs, hand, session, main>>
  BY DEF Plug, Unplug, RequestStop, StreamFails, capture
<1>2. HandInv'
  BY <1>1 DEF RefsInv, HandInv
<1>3. \A d \in Devices, b \in BOOLEAN : Event(d, b) \in Events
  BY DEF Event, Events
<1>4. plugged' \subseteq Devices /\ messages' \in Seq(Events)
  <2>1. CASE Plug
    <3>1. PICK d \in Devices : plugged' = plugged \cup {d}
                               /\ messages' = Append(messages, Event(d, TRUE))
      BY <2>1 DEF Plug
    <3> QED
      BY <3>1, <1>3, AppendProperties DEF RefsInv, Typed
  <2>2. CASE Unplug
    <3>1. PICK d \in plugged : plugged' = plugged \ {d}
                               /\ messages' = Append(messages, Event(d, FALSE))
      BY <2>2 DEF Unplug
    <3> QED
      BY <3>1, <1>3, AppendProperties DEF RefsInv, Typed
  <2>3. CASE RequestStop \/ StreamFails
    BY <2>3 DEF RequestStop, StreamFails, usb, RefsInv, Typed
  <2> QED
    BY <2>1, <2>2, <2>3
<1> QED
  BY <1>1, <1>2, <1>4, QuietStep

LEMMA TurnStep == RefsInv /\ (Loop \/ HandleArrived \/ Replay \/ Deregister) => RefsInv'
<1> SUFFICES ASSUME RefsInv, Loop \/ HandleArrived \/ Replay \/ Deregister
             PROVE  RefsInv'
  OBVIOUS
<1>1. UNCHANGED <<plugged, messages, callback, events, refs, hand, session>>
  BY DEF Loop, HandleArrived, Replay, Deregister, usb, capture
<1>2. HandInv'
  <2>1. \/ main = "loop" /\ main' \in {"destroy", "take"}
        \/ main = "handle" /\ main' = "open" /\ session = None
        \/ main = "open" /\ main' = "replay"
        \/ main = "members" /\ main' = "gone"
    BY DEF Loop, HandleArrived, Replay, Deregister
  <2> QED
    BY <1>1, <2>1 DEF RefsInv, HandInv
<1> QED
  BY <1>1, <1>2, QuietStep DEF RefsInv, Typed

(***************************************************************************)
(* The steps that do.                                                      *)
(***************************************************************************)

LEMMA Counted ==
  ASSUME NEW c \in [Devices -> Int], NEW x \in Devices
  PROVE  /\ [c EXCEPT ![x] = @ + 1] \in [Devices -> Int]
         /\ [c EXCEPT ![x] = @ - 1] \in [Devices -> Int]
         /\ \A d \in Devices : /\ [c EXCEPT ![x] = @ + 1][d] = c[d] + One(x = d)
                               /\ [c EXCEPT ![x] = @ - 1][d] = c[d] - One(x = d)
  BY DEF One

LEMMA NoEventOfNone ==
  ASSUME NEW d \in Devices
  PROVE  One(NoEvent.device = d) = 0 /\ One(None = d) = 0
  BY DEF NoEvent, One

\* An event, and a message of libusb's.
LEMMA EventDevice ==
  ASSUME NEW e \in Events \cup {NoEvent}, e # NoEvent
  PROVE  e \in Events /\ e.device \in Devices
  BY DEF Events

LEMMA DispatchStep == RefsInv /\ Dispatch => RefsInv'
<1> SUFFICES ASSUME RefsInv, Dispatch PROVE RefsInv'
  OBVIOUS
<1>1. /\ callback = NoEvent /\ messages # << >> /\ messages' = Tail(messages)
      /\ UNCHANGED <<plugged, events, main, hand, session>>
  BY DEF Dispatch, capture
<1>2. Head(messages) \in Events /\ Tail(messages) \in Seq(Events)
  BY <1>1, HeadTailProperties DEF RefsInv, Typed
<1>3. CASE Watching
  <2> DEFINE m == Head(messages)
  <2>1. /\ callback' = m /\ refs' = [refs EXCEPT ![m.device] = @ + 1]
        /\ m \in Events /\ m.device \in Devices
    BY <1>2, <1>3 DEF Dispatch, Referenced, Events
  <2> HIDE DEF m
  <2>2. /\ refs' \in [Devices -> Int]
        /\ \A d \in Devices : refs'[d] = refs[d] + One(m.device = d)
    BY <2>1, Counted DEF RefsInv, Typed
  <2>3. Typed'
    BY <1>1, <1>2, <2>1, <2>2 DEF RefsInv, Typed
  <2>4. HandInv'
    BY <1>1, <1>3 DEF RefsInv, HandInv, Watching
  <2>5. Balanced'
    <3> SUFFICES ASSUME NEW d \in Devices
                 PROVE  refs'[d] = Count(events, d) + One(m.device = d)
                                     + One(hand.device = d) + One(session = d)
      BY <1>1, <2>1 DEF Balanced, Count, Entries
    <3>1. /\ refs[d] = Count(events, d) + One(callback.device = d)
                         + One(hand.device = d) + One(session = d)
          /\ One(callback.device = d) = 0
      BY <1>1, NoEventOfNone DEF RefsInv, Balanced
    <3>2. Count(events, d) \in Nat
      BY CountNat DEF RefsInv, Typed
    <3> QED
      BY <2>2, <3>1, <3>2 DEF One
  <2> QED
    BY <2>3, <2>4, <2>5 DEF RefsInv
<1>4. CASE ~Watching
  <2>1. UNCHANGED <<callback, events, refs, hand, session, main, plugged>>
    BY <1>1, <1>4 DEF Dispatch
  <2>2. HandInv'
    BY <2>1 DEF RefsInv, HandInv
  <2> QED
    BY <1>1, <1>2, <2>1, <2>2, QuietStep DEF RefsInv, Typed
<1> QED
  BY <1>3, <1>4

LEMMA QueueEventStep == RefsInv /\ QueueEvent => RefsInv'
<1> SUFFICES ASSUME RefsInv, QueueEvent PROVE RefsInv'
  OBVIOUS
<1>1. /\ callback # NoEvent /\ events' = Append(events, callback) /\ callback' = NoEvent
      /\ UNCHANGED <<plugged, messages, refs, main, hand, session>>
  BY DEF QueueEvent, usb, capture
<1>2. callback \in Events /\ events \in Seq(Events) /\ events' \in Seq(Events)
  BY <1>1, EventDevice, AppendProperties DEF RefsInv, Typed
<1>3. Typed'
  BY <1>1, <1>2 DEF RefsInv, Typed
<1>4. HandInv'
  BY <1>1 DEF RefsInv, HandInv
<1>5. Balanced'
  <2> SUFFICES ASSUME NEW d \in Devices
               PROVE  refs[d] = Count(events', d) + One(NoEvent.device = d)
                                  + One(hand.device = d) + One(session = d)
    BY <1>1 DEF Balanced, Count, Entries
  <2>1. refs[d] = Count(events, d) + One(callback.device = d)
                    + One(hand.device = d) + One(session = d)
    BY DEF RefsInv, Balanced
  <2>2. /\ Count(events', d) = Count(events, d) + One(callback.device = d)
        /\ Count(events, d) \in Nat
    BY <1>1, <1>2, CountAppend, CountNat
  <2> QED
    BY <2>1, <2>2, NoEventOfNone DEF One
<1> QED
  BY <1>3, <1>4, <1>5 DEF RefsInv

LEMMA WatchStep == RefsInv /\ Watch => RefsInv'
<1> SUFFICES ASSUME RefsInv, Watch PROVE RefsInv'
  OBVIOUS
<1>1. /\ main = "watch" /\ main' = "loop"
      /\ refs' = [d \in Devices |-> IF d \in Known THEN refs[d] + 1 ELSE refs[d]]
      /\ UNCHANGED <<plugged, messages, callback, hand, session>>
  BY DEF Watch, usb, capture
<1>2. PICK order \in SetToSeqs(Known) :
        events' = events \o [i \in DOMAIN order |-> Event(order[i], TRUE)]
  BY DEF Watch
<1> DEFINE q == [i \in DOMAIN order |-> Event(order[i], TRUE)]
<1>3. Known \in SUBSET Devices
  <2>1. \A i \in DOMAIN messages : messages[i] \in Events
    BY ElementOfSeq, LenProperties DEF RefsInv, Typed
  <2> QED
    BY <2>1 DEF RefsInv, Typed, Known, Events
<1>4. q \in Seq(Events) /\ \A d \in Devices : Count(q, d) = One(d \in Known)
  BY <1>3, CountOrder, Zenon
<1> HIDE DEF q
<1>5. events = << >> /\ events' = q
  <2>1. events = << >>
    BY <1>1 DEF RefsInv, HandInv
  <2> QED
    BY <1>2, <1>4, <2>1, ConcatEmptySeq DEF q
<1>6. Typed'
  BY <1>1, <1>4, <1>5 DEF RefsInv, Typed
<1>7. HandInv'
  BY <1>1 DEF RefsInv, HandInv
<1>8. Balanced'
  <2> SUFFICES ASSUME NEW d \in Devices
               PROVE  refs'[d] = Count(q, d) + One(callback.device = d)
                                   + One(hand.device = d) + One(session = d)
    BY <1>1, <1>5 DEF Balanced, Count, Entries
  <2>1. /\ refs[d] = Count(events, d) + One(callback.device = d)
                       + One(hand.device = d) + One(session = d)
        /\ Count(events, d) = 0 /\ Count(q, d) = One(d \in Known)
    BY <1>4, <1>5, CountEmpty DEF RefsInv, Balanced
  <2>2. refs'[d] = IF d \in Known THEN refs[d] + 1 ELSE refs[d]
    BY <1>1
  <2> QED
    BY <2>1, <2>2 DEF One
<1> QED
  BY <1>6, <1>7, <1>8 DEF RefsInv

LEMMA TakeEventStep == RefsInv /\ TakeEvent => RefsInv'
<1> SUFFICES ASSUME RefsInv, TakeEvent PROVE RefsInv'
  OBVIOUS
<1>1. /\ main = "take" /\ hand = NoEvent
      /\ UNCHANGED <<plugged, messages, callback, refs, session>>
  BY DEF TakeEvent, RefsInv, HandInv, usb, capture
<1>2. CASE events = << >>
  <2>1. UNCHANGED <<events, hand>> /\ main' = "session"
    BY <1>2 DEF TakeEvent
  <2>2. HandInv'
    BY <1>1, <2>1 DEF RefsInv, HandInv
  <2> QED
    BY <1>1, <2>1, <2>2, QuietStep DEF RefsInv, Typed
<1>3. CASE events # << >>
  <2> DEFINE e == Head(events)
  <2>1. /\ main' = "handle" /\ hand' = e /\ events' = Tail(events)
        /\ e \in Events /\ events \in Seq(Events) /\ events' \in Seq(Events)
    BY <1>3, HeadTailProperties, ZenonT(30) DEF TakeEvent, RefsInv, Typed
  <2>2. Typed'
    BY <1>1, <2>1 DEF RefsInv, Typed
  <2>3. \A d \in Devices : Count(events, d) = Count(events', d) + One(e.device = d)
    BY <1>3, <2>1, CountTail
  <2> HIDE DEF e
  <2>4. e # NoEvent
    BY <2>1 DEF Events, NoEvent
  <2>5. HandInv'
    BY <1>1, <2>1, <2>4 DEF RefsInv, HandInv
  <2>6. Balanced'
    <3> SUFFICES ASSUME NEW d \in Devices
                 PROVE  refs[d] = Count(events', d) + One(callback.device = d)
                                    + One(e.device = d) + One(session = d)
      BY <1>1, <2>1 DEF Balanced, Count, Entries
    <3>1. /\ refs[d] = Count(events, d) + One(callback.device = d)
                         + One(hand.device = d) + One(session = d)
          /\ Count(events, d) = Count(events', d) + One(e.device = d)
          /\ One(hand.device = d) = 0
      BY <1>1, <2>3, NoEventOfNone DEF RefsInv, Balanced
    <3>2. Count(events', d) \in Nat
      BY <2>1, CountNat
    <3> QED
      BY <3>1, <3>2 DEF One
  <2> QED
    BY <2>2, <2>5, <2>6 DEF RefsInv
<1> QED
  BY <1>2, <1>3

\* An event that has been handled, whatever became of the session.
LEMMA HandledStep ==
  ASSUME RefsInv, main \in {"handle", "open", "replay"},
         NEW counts \in [Devices -> Int], Handled(counts),
         session' \in Devices \cup {None},
         \A d \in Devices : counts[d] = refs[d] - One(session = d) + One(session' = d),
         UNCHANGED <<plugged, messages, callback, events>>
  PROVE  RefsInv'
<1>1. /\ refs' = [counts EXCEPT ![hand.device] = @ - 1] /\ hand' = NoEvent /\ main' = "take"
      /\ hand.device \in Devices
  BY EventDevice DEF Handled, RefsInv, HandInv, Typed
<1>2. /\ refs' \in [Devices -> Int]
      /\ \A d \in Devices : refs'[d] = counts[d] - One(hand.device = d)
  BY <1>1, Counted
<1>3. Typed'
  BY <1>1, <1>2 DEF RefsInv, Typed
<1>4. HandInv'
  BY <1>1 DEF RefsInv, HandInv
<1>5. Balanced'
  <2> SUFFICES ASSUME NEW d \in Devices
               PROVE  refs'[d] = Count(events, d) + One(callback.device = d)
                                   + One(NoEvent.device = d) + One(session' = d)
    BY <1>1 DEF Balanced, Count, Entries
  <2>1. /\ refs[d] = Count(events, d) + One(callback.device = d)
                       + One(hand.device = d) + One(session = d)
        /\ Count(events, d) \in Nat
    BY CountNat DEF RefsInv, Balanced, Typed
  <2> QED
    BY <1>2, <2>1, NoEventOfNone DEF One
<1> QED
  BY <1>3, <1>4, <1>5 DEF RefsInv

LEMMA HandleStep == RefsInv /\ (HandleUnwanted \/ Opened \/ OpenFailed \/ HandleLeft) => RefsInv'
<1> SUFFICES ASSUME RefsInv, HandleUnwanted \/ Opened \/ OpenFailed \/ HandleLeft
             PROVE  RefsInv'
  OBVIOUS
<1>1. /\ UNCHANGED <<plugged, messages, callback, events>> /\ main \in {"handle", "open", "replay"}
      /\ refs \in [Devices -> Int] /\ session \in Devices \cup {None}
      /\ hand.device \in Devices
  BY EventDevice DEF HandleUnwanted, Opened, OpenFailed, HandleLeft, usb, RefsInv, Typed, HandInv
<1>2. ASSUME Handled(refs), session' = session
      PROVE  RefsInv'
  <2>1. \A d \in Devices : refs[d] = refs[d] - One(session = d) + One(session' = d)
    BY <1>1, <1>2 DEF One
  <2> QED
    BY <1>1, <1>2, <2>1, HandledStep
<1>3. CASE HandleUnwanted
  BY <1>2, <1>3 DEF HandleUnwanted, capture
<1>4. CASE Opened
  <2>1. /\ session = None /\ session' = hand.device /\ Handled(Referenced(hand.device))
    BY <1>4 DEF Opened, RefsInv, HandInv
  <2>2. /\ Referenced(hand.device) \in [Devices -> Int]
        /\ \A d \in Devices : Referenced(hand.device)[d] = refs[d] + One(hand.device = d)
    BY <1>1, Counted DEF Referenced
  <2>3. \A d \in Devices :
          Referenced(hand.device)[d] = refs[d] - One(session = d) + One(session' = d)
    BY <1>1, <2>1, <2>2, NoEventOfNone DEF One
  <2> QED
    BY <1>1, <2>1, <2>2, <2>3, HandledStep
<1>5. CASE OpenFailed
  <2>1. UNCHANGED session
    BY <1>5 DEF OpenFailed, capture
  <2>2. CASE attempt < OpenAttempts
    <3>1. UNCHANGED <<refs, hand>> /\ main \in {"open", "replay"} /\ main' = "open"
      BY <1>5, <2>2 DEF OpenFailed
    <3>2. HandInv'
      BY <1>1, <2>1, <3>1 DEF RefsInv, HandInv
    <3> QED
      BY <1>1, <2>1, <3>1, <3>2, QuietStep DEF RefsInv, Typed
  <2>3. CASE ~(attempt < OpenAttempts)
    BY <1>2, <1>5, <2>1, <2>3 DEF OpenFailed
  <2> QED
    BY <2>2, <2>3
<1>6. CASE HandleLeft
  <2>1. CASE session = hand.device
    <3>1. session' = None /\ Handled(Unreferenced(session)) /\ session \in Devices
      BY <1>1, <1>6, <2>1 DEF HandleLeft, EndSession
    <3>2. /\ Unreferenced(session) \in [Devices -> Int]
          /\ \A d \in Devices : Unreferenced(session)[d] = refs[d] - One(session = d)
      BY <1>1, <3>1, Counted DEF Unreferenced
    <3>3. \A d \in Devices :
            Unreferenced(session)[d] = refs[d] - One(session = d) + One(session' = d)
      BY <1>1, <3>1, <3>2, NoEventOfNone DEF One
    <3> QED
      BY <1>1, <3>1, <3>2, <3>3, HandledStep
  <2>2. CASE session # hand.device
    BY <1>2, <1>6, <2>2 DEF HandleLeft, capture
  <2> QED
    BY <2>1, <2>2
<1> QED
  BY <1>3, <1>4, <1>5, <1>6

LEMMA EndStep == RefsInv /\ (CheckSession \/ Destroy) => RefsInv'
<1> SUFFICES ASSUME RefsInv, CheckSession \/ Destroy PROVE RefsInv'
  OBVIOUS
<1>1. /\ UNCHANGED <<plugged, messages, callback, events, hand>>
      /\ main \in {"session", "destroy"} /\ main' \in {"loop", "clear"} /\ hand = NoEvent
  BY DEF CheckSession, Destroy, usb, RefsInv, HandInv
<1>2. HandInv'
  BY <1>1 DEF RefsInv, HandInv
<1>3. \/ UNCHANGED <<refs, session>>
      \/ session # None /\ session' = None /\ refs' = Unreferenced(session)
  BY DEF CheckSession, Destroy, EndSession, capture
<1>4. CASE UNCHANGED <<refs, session>>
  BY <1>1, <1>2, <1>4, QuietStep DEF RefsInv, Typed
<1>5. CASE session # None /\ session' = None /\ refs' = Unreferenced(session)
  <2>1. session \in Devices /\ refs \in [Devices -> Int]
    BY <1>5 DEF RefsInv, Typed
  <2>2. /\ refs' \in [Devices -> Int]
        /\ \A d \in Devices : refs'[d] = refs[d] - One(session = d)
    BY <1>5, <2>1, Counted DEF Unreferenced
  <2>3. Typed'
    BY <1>1, <1>5, <2>2 DEF RefsInv, Typed
  <2>4. Balanced'
    <3> SUFFICES ASSUME NEW d \in Devices
                 PROVE  refs'[d] = Count(events, d) + One(callback.device = d)
                                     + One(hand.device = d) + One(None = d)
      BY <1>1, <1>5 DEF Balanced, Count, Entries
    <3>1. /\ refs[d] = Count(events, d) + One(callback.device = d)
                         + One(hand.device = d) + One(session = d)
          /\ Count(events, d) \in Nat
      BY CountNat DEF RefsInv, Balanced, Typed
    <3> QED
      BY <2>2, <3>1, NoEventOfNone DEF One
  <2> QED
    BY <1>2, <2>3, <2>4 DEF RefsInv
<1> QED
  BY <1>3, <1>4, <1>5

LEMMA ClearStep == RefsInv /\ Clear => RefsInv'
<1> SUFFICES ASSUME RefsInv, Clear PROVE RefsInv'
  OBVIOUS
<1>1. /\ refs' = [d \in Devices |-> refs[d] - QueuedFor(d)] /\ events' = << >>
      /\ main = "clear" /\ main' = "members"
      /\ UNCHANGED <<plugged, messages, callback, hand, session>>
  BY DEF Clear, usb, capture
<1>2. \A d \in Devices : QueuedFor(d) = Count(events, d) /\ Count(events, d) \in Nat
  BY CountNat DEF QueuedFor, Count, Entries, RefsInv, Typed
<1>3. Typed'
  <2>1. \A d \in Devices : refs[d] - QueuedFor(d) \in Int
    BY <1>2 DEF RefsInv, Typed
  <2> QED
    BY <1>1, <2>1, EmptySeq DEF RefsInv, Typed
<1>4. HandInv'
  BY <1>1 DEF RefsInv, HandInv
<1>5. Balanced'
  <2> SUFFICES ASSUME NEW d \in Devices
               PROVE  refs'[d] = Count(<< >>, d) + One(callback.device = d)
                                   + One(hand.device = d) + One(session = d)
    BY <1>1 DEF Balanced, Count, Entries
  <2>1. /\ refs[d] = Count(events, d) + One(callback.device = d)
                       + One(hand.device = d) + One(session = d)
        /\ refs'[d] = refs[d] - Count(events, d) /\ Count(<< >>, d) = 0
        /\ Count(events, d) \in Nat
    BY <1>1, <1>2, CountEmpty DEF RefsInv, Balanced
  <2> QED
    BY <2>1 DEF One
<1> QED
  BY <1>3, <1>4, <1>5 DEF RefsInv

LEMMA RefsStep == RefsInv /\ [Next]_vars => RefsInv'
<1>1. RefsInv /\ UNCHANGED vars => RefsInv'
  BY DEF vars, RefsInv, Typed, HandInv, Balanced, Count, Entries
<1> QED
  BY <1>1, UsbStep, TurnStep, DispatchStep, QueueEventStep, WatchStep, TakeEventStep, HandleStep,
     EndStep, ClearStep DEF Next, Main

\* No device is freed while an event or the session still refers to it, and none is kept for
\* ever, however many cards come and go (CaptureDaemon.cpp 32-37, 69-125).
THEOREM ReferencesBalanced == Spec => []RefsCounted
  BY RefsInit, RefsStep, BalancedIsCounted, PTL DEF Spec, RefsInv

\* The invariant behind it, which the next theorem needs too: what the main thread has in hand,
\* and the references counted one by one.
THEOREM Invariance == Spec => []RefsInv
  BY RefsInit, RefsStep, PTL DEF Spec

(***************************************************************************)
(* A session is ended for its own card.                                    *)
(***************************************************************************)

\* While the leaving of a device is on its way to the main thread, the device is referenced, so
\* libusb gives its address to no other card.
LeftInv ==
  /\ \A d \in plugged :
       /\ \A i \in DOMAIN messages : messages[i] # Event(d, FALSE)
       /\ \A i \in DOMAIN events : events[i] # Event(d, FALSE)
       /\ callback # Event(d, FALSE) /\ hand # Event(d, FALSE)
  /\ main = "destroy" => stop

\* An address that libusb may give away is one that nothing refers to.
LEMMA NotAlive ==
  ASSUME RefsInv, NEW d \in Devices, ~Alive(d)
  PROVE  /\ \A i \in DOMAIN messages : messages[i].device # d
         /\ \A i \in DOMAIN events : events[i].device # d
         /\ callback.device # d /\ hand.device # d
<1>1. /\ About(d) = {} /\ refs[d] \in Int /\ ~(refs[d] > 0)
      /\ refs[d] = Count(events, d) + One(callback.device = d) + One(hand.device = d)
                                    + One(session = d)
      /\ Count(events, d) \in Nat /\ IsFiniteSet(Entries(events, d))
  BY CountNat DEF Alive, RefsInv, Balanced, Typed
<1>2. Count(events, d) = 0 /\ callback.device # d /\ hand.device # d
  BY <1>1 DEF One
<1>3. Entries(events, d) = {}
  BY <1>1, <1>2, FS_EmptySet DEF Count
<1> QED
  BY <1>1, <1>2, <1>3 DEF About, Entries

LEMMA LeftInit == Init => LeftInv
  BY DEF Init, LeftInv

\* The last event that was appended, and those before it.
LEMMA Appended ==
  ASSUME NEW q \in Seq(Events), NEW e \in Events, NEW i \in DOMAIN Append(q, e)
  PROVE  Append(q, e)[i] = e \/ (i \in DOMAIN q /\ Append(q, e)[i] = q[i])
<1>1. /\ Len(q) \in Nat /\ Len(Append(q, e)) = Len(q) + 1 /\ Append(q, e)[Len(q) + 1] = e
      /\ \A j \in 1 .. Len(q) : Append(q, e)[j] = q[j]
      /\ DOMAIN q = 1 .. Len(q) /\ DOMAIN Append(q, e) = 1 .. Len(q) + 1
  BY AppendProperties, LenProperties
<1> QED
  BY <1>1

LEMMA Behind ==
  ASSUME NEW q \in Seq(Events), q # << >>
  PROVE  /\ 1 \in DOMAIN q /\ Head(q) = q[1]
         /\ \A i \in DOMAIN Tail(q) : i + 1 \in DOMAIN q /\ Tail(q)[i] = q[i + 1]
<1>1. /\ Len(q) \in Nat \ {0} /\ DOMAIN q = 1 .. Len(q) /\ Head(q) = q[1]
      /\ Tail(q) \in Seq(Events) /\ Len(Tail(q)) = Len(q) - 1
      /\ DOMAIN Tail(q) = 1 .. Len(q) - 1
      /\ \A i \in 1 .. Len(q) - 1 : Tail(q)[i] = q[i + 1]
  BY HeadTailProperties, LenProperties, EmptySeq
<1> QED
  BY <1>1

LEMMA LeftStep == RefsInv /\ LeftInv /\ [Next]_vars => LeftInv'
<1> SUFFICES ASSUME RefsInv, LeftInv, [Next]_vars PROVE LeftInv'
  OBVIOUS
<1>0. /\ messages \in Seq(Events) /\ events \in Seq(Events) /\ plugged \subseteq Devices
      /\ \A d \in Devices, b \in BOOLEAN : Event(d, b) \in Events /\ Event(d, b).device = d
      /\ \A d \in Devices : Event(d, TRUE) # Event(d, FALSE) /\ NoEvent # Event(d, FALSE)
  BY DEF RefsInv, Typed, Event, Events, NoEvent
<1>1. CASE Plug
  <2>1. PICK d \in Devices :
          /\ ~Alive(d) /\ plugged' = plugged \cup {d}
          /\ messages' = Append(messages, Event(d, TRUE))
          /\ UNCHANGED <<callback, events, hand, main, stop>>
    BY <1>1 DEF Plug
  <2>2. ASSUME NEW x \in plugged', NEW i \in DOMAIN messages'
        PROVE  messages'[i] # Event(x, FALSE)
    <3>1. x \in Devices
      BY <1>0, <2>1
    <3>2. \/ messages'[i] = Event(d, TRUE)
          \/ i \in DOMAIN messages /\ messages'[i] = messages[i]
      <4>1. messages \in Seq(Events) /\ Event(d, TRUE) \in Events
        BY <1>0
      <4> QED
        BY <2>1, <4>1, Appended, Zenon
    <3>3. Event(d, TRUE) # Event(x, FALSE)
      BY DEF Event
    <3>4. ASSUME i \in DOMAIN messages PROVE messages[i] # Event(x, FALSE)
      <4>1. CASE x = d
        <5>1. messages[i].device # d
          BY <2>1, <3>4, NotAlive
        <5> QED
          BY <4>1, <5>1 DEF Event
      <4>2. CASE x # d
        BY <2>1, <3>4, <4>2 DEF LeftInv
      <4> QED
        BY <4>1, <4>2
    <3> QED
      BY <3>2, <3>3, <3>4
  <2>3. ASSUME NEW x \in plugged'
        PROVE  /\ \A i \in DOMAIN events : events[i] # Event(x, FALSE)
               /\ callback # Event(x, FALSE) /\ hand # Event(x, FALSE)
    <3>1. CASE x = d
      <4>1. /\ \A i \in DOMAIN events : events[i].device # d
            /\ callback.device # d /\ hand.device # d
        BY <2>1, NotAlive
      <4>2. Event(x, FALSE).device = d
        BY <3>1 DEF Event
      <4> QED
        BY <4>1, <4>2, Zenon
    <3>2. CASE x # d
      BY <2>1, <3>2 DEF LeftInv
    <3> QED
      BY <3>1, <3>2
  <2> QED
    BY <2>1, <2>2, <2>3 DEF LeftInv
<1>2. CASE Unplug
  <2>1. PICK d \in plugged :
          /\ plugged' = plugged \ {d} /\ messages' = Append(messages, Event(d, FALSE))
          /\ UNCHANGED <<callback, events, hand, main, stop>>
    BY <1>2 DEF Unplug
  <2>2. ASSUME NEW x \in plugged', NEW i \in DOMAIN messages'
        PROVE  messages'[i] # Event(x, FALSE)
    <3>1. x \in plugged /\ x # d
      BY <2>1
    <3>2. \/ messages'[i] = Event(d, FALSE)
          \/ i \in DOMAIN messages /\ messages'[i] = messages[i]
      <4>1. messages \in Seq(Events) /\ Event(d, FALSE) \in Events
        BY <1>0
      <4> QED
        BY <2>1, <4>1, Appended, Zenon
    <3>3. Event(d, FALSE) # Event(x, FALSE)
      BY <3>1 DEF Event
    <3> QED
      BY <3>1, <3>2, <3>3 DEF LeftInv
  <2> QED
    BY <2>1, <2>2 DEF LeftInv
<1>3. CASE Dispatch
  <2>1. /\ messages # << >> /\ messages' = Tail(messages)
        /\ callback' \in {callback, Head(messages)}
        /\ UNCHANGED <<plugged, events, hand, main, stop>>
    BY <1>3 DEF Dispatch
  <2>2. /\ 1 \in DOMAIN messages /\ Head(messages) = messages[1]
        /\ \A i \in DOMAIN messages' : i + 1 \in DOMAIN messages /\ messages'[i] = messages[i + 1]
    BY <1>0, <2>1, Behind
  <2> QED
    BY <2>1, <2>2 DEF LeftInv
<1>4. CASE QueueEvent
  <2>1. /\ events' = Append(events, callback) /\ callback' = NoEvent /\ callback \in Events
        /\ UNCHANGED <<plugged, messages, hand, main, stop>>
    BY <1>4, EventDevice DEF QueueEvent, usb, RefsInv, Typed
  <2>2. \A i \in DOMAIN events' :
          events'[i] = callback \/ (i \in DOMAIN events /\ events'[i] = events[i])
    BY <1>0, <2>1, Appended
  <2> QED
    BY <1>0, <2>1, <2>2 DEF LeftInv
<1>5. CASE Watch
  <2>1. /\ UNCHANGED <<plugged, messages, callback, hand, stop>> /\ main' = "loop"
        /\ events = << >>
    BY <1>5 DEF Watch, usb, RefsInv, HandInv
  <2>2. PICK order \in SetToSeqs(Known) :
          events' = events \o [i \in DOMAIN order |-> Event(order[i], TRUE)]
    BY <1>5 DEF Watch
  <2>3. Known \in SUBSET Devices
    <3>1. \A i \in DOMAIN messages : messages[i] \in Events
      BY <1>0, ElementOfSeq, LenProperties
    <3> QED
      BY <1>0, <3>1 DEF Known, Events
  <2>4. [i \in DOMAIN order |-> Event(order[i], TRUE)] \in Seq(Events)
    BY <2>3, CountOrder, Zenon
  <2>5. events' = [i \in DOMAIN order |-> Event(order[i], TRUE)]
    BY <2>1, <2>2, <2>4, ConcatEmptySeq
  <2>6. \A i \in DOMAIN events', d \in plugged : events'[i] # Event(d, FALSE)
    BY <2>5 DEF Event
  <2> QED
    BY <2>1, <2>6 DEF LeftInv
<1>6. CASE TakeEvent
  <2>1. /\ UNCHANGED <<plugged, messages, callback, stop>> /\ main' # "destroy"
        /\ \/ UNCHANGED <<events, hand>>
           \/ events # << >> /\ hand' = Head(events) /\ events' = Tail(events)
    BY <1>6 DEF TakeEvent, usb
  <2>2. CASE UNCHANGED <<events, hand>>
    BY <2>1, <2>2 DEF LeftInv
  <2>3. CASE events # << >> /\ hand' = Head(events) /\ events' = Tail(events)
    <3>1. /\ 1 \in DOMAIN events /\ Head(events) = events[1]
          /\ \A i \in DOMAIN events' : i + 1 \in DOMAIN events /\ events'[i] = events[i + 1]
      BY <1>0, <2>3, Behind
    <3> QED
      BY <2>1, <2>3, <3>1, ZenonT(30) DEF LeftInv
  <2> QED
    BY <2>1, <2>2, <2>3
<1>7. CASE HandleUnwanted \/ HandleArrived \/ Replay \/ Opened \/ OpenFailed \/ HandleLeft
  <2>1. /\ UNCHANGED <<plugged, messages, callback, events, stop>> /\ main' # "destroy"
        /\ hand' \in {hand, NoEvent}
    BY <1>7 DEF HandleUnwanted, HandleArrived, Replay, Opened, OpenFailed, HandleLeft, Handled, usb
  <2> QED
    BY <1>0, <2>1 DEF LeftInv
<1>8. CASE Loop \/ CheckSession \/ Destroy \/ Deregister \/ StreamFails \/ RequestStop
  <2>1. /\ UNCHANGED <<plugged, messages, callback, events, hand>>
        /\ stop => stop'
        /\ main' = "destroy" => main = "destroy" \/ stop
    BY <1>8 DEF Loop, CheckSession, Destroy, Deregister, StreamFails, RequestStop, usb
  <2> QED
    BY <2>1 DEF LeftInv
<1>9. CASE Clear
  <2>1. /\ UNCHANGED <<plugged, messages, callback, hand>> /\ main' # "destroy"
        /\ events' = << >>
    BY <1>9 DEF Clear, usb
  <2>2. DOMAIN events' = {}
    BY <2>1
  <2> QED
    BY <2>1, <2>2, Zenon DEF LeftInv
<1>10. CASE UNCHANGED vars
  BY <1>10 DEF vars, LeftInv
<1> QED
  BY <1>1, <1>2, <1>3, <1>4, <1>5, <1>6, <1>7, <1>8, <1>9, <1>10 DEF Next, Main

\* A session whose stream is well is ended only when its own card is gone, or the daemon stops,
\* and not for a card that had the same address before (CaptureDaemon.cpp 85-87,
\* CaptureDaemon.h 38).
THEOREM SessionEndsForItsCard == Spec => EndsOnlyWhenGone
<1>1. ASSUME RefsInv, LeftInv, [Next]_vars, session # None, session' = None, ~failed, ~stop
      PROVE  session \notin plugged
  <2>1. HandleLeft \/ CheckSession \/ Destroy
    BY <1>1 DEF Next, Main, vars, Plug, Unplug, RequestStop, Dispatch, QueueEvent, StreamFails,
                Watch, Loop, TakeEvent, HandleUnwanted, HandleArrived, Replay, Opened, OpenFailed,
                Clear, Deregister, capture, RefsInv, Typed, HandInv
  <2>2. ~CheckSession /\ ~Destroy
    BY <1>1 DEF CheckSession, Destroy, capture, LeftInv
  <2>3. ~hand.arrived /\ session = hand.device /\ main = "handle"
    BY <1>1, <2>1, <2>2 DEF HandleLeft, capture
  <2>4. hand \in Events
    <3>1. hand \in Events \cup {NoEvent} /\ hand # NoEvent
      BY <1>1, <2>3 DEF RefsInv, HandInv, Typed
    <3> QED
      BY <3>1
  <2>5. hand = Event(session, FALSE)
    BY <2>3, <2>4 DEF Event, Events
  <2> QED
    BY <1>1, <2>5 DEF LeftInv
<1> QED
  BY <1>1, LeftInit, LeftStep, Invariance, PTL DEF Spec, EndsOnlyWhenGone
=============================================================================
