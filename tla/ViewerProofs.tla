---------------------------- MODULE ViewerProofs ----------------------------
(***************************************************************************)
(* Proofs about Viewer, for every number of buffers and all command lines: *)
(* its safety properties, and that the buffers it lends to the driver are  *)
(* all accounted for.                                                      *)
(***************************************************************************)
EXTENDS Viewer, SequenceTheorems, TLAPS

USE ViewerAssumption

\* The steps of viewDaemonOutput by what has been acquired.
NothingYet == {"parse", "find", "open"}
NoSoundYet == NothingYet \cup {"request", "map", "stream on", "capture failed",
                               "initialise video", "initialise audio"}
Showing    == {"running", "read", "hand back", "show"}

(***************************************************************************)
(* The audio output and PipeWire's thread.                                 *)
(***************************************************************************)

\* The thread runs while the loop shows frames, and only there is it called back.
AudioInv ==
  /\ calling => thread
  /\ thread => at \in Showing \cup {"stop"}
  /\ at \in Showing \cup {"audio source", "connect", "stop"} => audio
  /\ loop => at \in Showing \cup {"connect", "stop", "unwind"}

LEMMA AudioInit == Init => AudioInv
  BY DEF Init, AudioInv, Showing

LEMMA AudioStep == AudioInv /\ [Next]_vars => AudioInv'
<1> SUFFICES ASSUME AudioInv, [Next]_vars
             PROVE  AudioInv'
  OBVIOUS
<1> USE DEF AudioInv, Showing
<1>1. CASE Parse \/ Find \/ Open \/ Request \/ Map \/ StreamOn \/ CaptureFails \/ CaptureFailed
  <2>1. /\ at \notin Showing \cup {"audio source", "connect", "stop", "unwind"}
        /\ at' \notin Showing \cup {"audio source", "connect", "stop", "unwind"}
        /\ UNCHANGED <<pw, audio>>
    BY <1>1 DEF Parse, Find, Open, Request, Map, AfterMap, StreamOn, CaptureFails, CaptureFailed,
                outputs
  <2> QED
    BY <2>1 DEF pw
<1>2. CASE InitialiseVideo
  <2>1. at = "initialise video" /\ at' = "initialise audio" /\ UNCHANGED <<audio, loop, thread, calling>>
    BY <1>2 DEF InitialiseVideo, pw
  <2> QED
    BY <2>1
<1>3. CASE InitialiseAudio
  <2>1. /\ at = "initialise audio" /\ UNCHANGED <<loop, thread, calling>>
        /\ (at' = "audio source" /\ audio') \/ at' = "unwind"
    BY <1>3 DEF InitialiseAudio, pw
  <2> QED
    BY <2>1
<1>4. CASE CreateLoop
  <2>1. /\ at = "audio source" /\ UNCHANGED <<audio, thread, calling>>
        /\ (at' = "connect" \/ (~loop' /\ at' = "unwind"))
    BY <1>4 DEF CreateLoop, outputs
  <2> QED
    BY <2>1
<1>5. CASE Connect
  <2>1. /\ at = "connect" /\ UNCHANGED <<audio, loop, calling>>
        /\ ((thread' /\ at' = "running") \/ (~thread' /\ at' = "unwind"))
    BY <1>5 DEF Connect, outputs
  <2> QED
    BY <2>1
<1>6. CASE Dequeue \/ Copy \/ HandBack \/ Show \/ Quit
  <2>1. /\ at \in Showing /\ at' \in Showing \cup {"stop"}
        /\ UNCHANGED <<audio, loop, thread, calling>>
    BY <1>6 DEF Dequeue, Copy, HandBack, Show, Quit, outputs, pw
  <2> QED
    BY <2>1
<1>7. CASE StopAudio
  <2>1. /\ at' \in {"shut down", "unwound"} /\ ~loop' /\ ~thread' /\ ~calling'
    BY <1>7 DEF StopAudio
  <2> QED
    BY <2>1
<1>8. CASE ShutDown \/ Unwound
  <2>1. at \in {"shut down", "unwound"} /\ at' = "returned" /\ UNCHANGED <<loop, thread, calling>>
    BY <1>8 DEF ShutDown, Unwound, pw
  <2> QED
    BY <2>1
<1>9. CASE OnProcess
  <2>1. thread /\ UNCHANGED <<at, audio, loop, thread>>
    BY <1>9 DEF OnProcess, outputs
  <2> QED
    BY <2>1
<1>10. CASE Write(TRUE) \/ Write(FALSE) \/ UNCHANGED vars
  <2>1. UNCHANGED <<at, audio, loop, thread, calling>>
    BY <1>10 DEF Write, vars, outputs, pw
  <2> QED
    BY <2>1
<1> QED
  BY <1>1, <1>2, <1>3, <1>4, <1>5, <1>6, <1>7, <1>8, <1>9, <1>10 DEF Next, Main

\* The callback on PipeWire's thread always finds the audio output open (viewDaemonOutput's order
\* of starting and stopping, on errors too).
THEOREM CallbackFindsOutput == Spec => []AudioOnlyWhileOpen
<1>1. AudioInv => AudioOnlyWhileOpen
  BY DEF AudioInv, AudioOnlyWhileOpen
<1> QED
  BY <1>1, AudioInit, AudioStep, PTL DEF Spec

(***************************************************************************)
(* What is acquired is released.                                           *)
(***************************************************************************)

\* Nothing of the device is in use.
Free == ~fd /\ mapped = {} /\ queued = {} /\ filled = << >> /\ ~streaming

ReleaseInv ==
  /\ count \in 0 .. BufferCount
  /\ mapped \subseteq 0 .. count - 1
  /\ at \in NothingYet \cup {"returned"} => Free
  /\ at = "request" => mapped = {}
  /\ AudioInv

LEMMA ReleaseFrees ==
  ASSUME ReleaseInv, Release
  PROVE  Free' /\ mapped' \subseteq 0 .. count' - 1 /\ count' \in 0 .. BufferCount
  BY DEF ReleaseInv, Release, Free

LEMMA ReleaseInit == Init => ReleaseInv
  BY AudioInit DEF Init, ReleaseInv, NothingYet, Free

LEMMA ReleaseStep == ReleaseInv /\ [Next]_vars => ReleaseInv'
<1> SUFFICES ASSUME ReleaseInv, [Next]_vars
             PROVE  ReleaseInv'
  OBVIOUS
<1>1. AudioInv'
  BY AudioStep DEF ReleaseInv
<1> USE DEF ReleaseInv, NothingYet, Free
<1>2. CASE Parse \/ Find
  <2>1. at \in {"parse", "find"} /\ at' # "request" /\ UNCHANGED <<fd, count, mapped, streaming, queued, filled>>
    BY <1>2 DEF Parse, Find, capture, device
  <2> QED
    BY <1>1, <2>1
<1>3. CASE Open \/ Request
  <2>1. CASE Open
    <3>1. /\ at = "open" /\ UNCHANGED <<count, mapped, streaming, queued, filled>>
          /\ (at' = "request" \/ (at' = "returned" /\ ~fd'))
      BY <2>1 DEF Open
    <3> QED
      BY <1>1, <3>1
  <2>2. CASE Request
    <3>1. at = "request" /\ at' = "map" /\ mapped' = mapped /\ count' \in 0 .. BufferCount
      BY <2>2 DEF Request
    <3> QED
      BY <1>1, <3>1
  <2> QED
    BY <1>3, <2>1, <2>2
<1>4. CASE Map
  <2>1. PICK i \in 0 .. count - 1 : mapped' = mapped \cup {i}
    BY <1>4 DEF Map
  <2>2. at' \notin NothingYet \cup {"returned", "request"} /\ count' = count
    BY <1>4 DEF Map, AfterMap
  <2> QED
    BY <1>1, <2>1, <2>2
<1>5. CASE StreamOn \/ CaptureFails \/ InitialiseVideo \/ InitialiseAudio \/ CreateLoop \/ Connect
  <2>1. at' \notin NothingYet \cup {"returned", "request"} /\ UNCHANGED <<count, mapped>>
    BY <1>5 DEF StreamOn, CaptureFails, InitialiseVideo, InitialiseAudio, CreateLoop, Connect, capture, device
  <2> QED
    BY <1>1, <2>1
<1>6. CASE CaptureFailed \/ ShutDown \/ Unwound
  <2>1. Release /\ at' = "returned"
    BY <1>6 DEF CaptureFailed, ShutDown, Unwound
  <2> QED
    BY <1>1, <2>1, ReleaseFrees
<1>7. CASE Dequeue \/ Copy \/ HandBack \/ Show \/ Quit \/ StopAudio
  <2>1. at' \notin NothingYet \cup {"returned", "request"} /\ UNCHANGED <<count, mapped>>
    BY <1>7 DEF Dequeue, Copy, HandBack, Show, Quit, StopAudio, capture, device
  <2> QED
    BY <1>1, <2>1
<1>8. CASE OnProcess \/ UNCHANGED vars
  <2>1. UNCHANGED <<at, fd, count, mapped, streaming, queued, filled>>
    BY <1>8 DEF OnProcess, vars, capture, device
  <2> QED
    BY <1>1, <2>1
<1>9. CASE Write(TRUE) \/ Write(FALSE)
  <2>1. streaming /\ UNCHANGED <<at, count, mapped>>
    BY <1>9 DEF Write, device
  <2> QED
    BY <1>1, <2>1
<1> QED
  BY <1>2, <1>3, <1>4, <1>5, <1>6, <1>7, <1>8, <1>9 DEF Next, Main

\* Whichever call failed, when viewDaemonOutput returns the device is closed and unmapped, and
\* PipeWire's thread is gone (V4LCaptureSource::release, the unwinding of viewDaemonOutput).
THEOREM EverythingReleased == Spec => []ReleasedAtEnd
<1>1. ReleaseInv => ReleasedAtEnd
  BY DEF ReleaseInv, AudioInv, Showing, Free, ReleasedAtEnd
<1> QED
  BY <1>1, ReleaseInit, ReleaseStep, PTL DEF Spec

(***************************************************************************)
(* The buffers.                                                            *)
(***************************************************************************)

FilledBuffers(q) == { q[i].buffer : i \in DOMAIN q }

\* The buffers that the driver has, or that the main thread is about to hand back.
Lent == queued \cup FilledBuffers(filled)
        \cup (IF at \in {"read", "hand back"} THEN {taken.buffer} ELSE {})

Filling == [buffer : Nat, whole : BOOLEAN]

BufferInv ==
  /\ filled \in Seq(Filling) /\ queued \subseteq Nat
  /\ at \notin {"capture failed"} => mapped = Lent
  /\ ReleaseInv

LEMMA HeadTaken ==
  ASSUME NEW q \in Seq(Filling), q # << >>
  PROVE  /\ Tail(q) \in Seq(Filling)
         /\ FilledBuffers(q) = FilledBuffers(Tail(q)) \cup {Head(q).buffer}
<1>1. /\ Tail(q) \in Seq(Filling) /\ Len(Tail(q)) = Len(q) - 1 /\ Len(q) \in Nat \ {0}
      /\ \A i \in 1 .. Len(q) - 1 : Tail(q)[i] = q[i + 1]
      /\ Head(q) = q[1]
  OBVIOUS
<1>2. DOMAIN q = 1 .. Len(q) /\ DOMAIN Tail(q) = 1 .. Len(q) - 1
  BY <1>1
<1>3. FilledBuffers(q) \subseteq FilledBuffers(Tail(q)) \cup {Head(q).buffer}
  <2> SUFFICES ASSUME NEW i \in 1 .. Len(q), i # 1
               PROVE  q[i].buffer \in FilledBuffers(Tail(q))
    BY <1>1, <1>2 DEF FilledBuffers
  <2>1. i - 1 \in 1 .. Len(q) - 1 /\ Tail(q)[i - 1] = q[i]
    BY <1>1
  <2> QED
    BY <1>2, <2>1 DEF FilledBuffers
<1>4. FilledBuffers(Tail(q)) \subseteq FilledBuffers(q)
  <2> SUFFICES ASSUME NEW i \in 1 .. Len(q) - 1
               PROVE  Tail(q)[i].buffer \in FilledBuffers(q)
    BY <1>2 DEF FilledBuffers
  <2>1. i + 1 \in 1 .. Len(q) /\ Tail(q)[i] = q[i + 1]
    BY <1>1
  <2> QED
    BY <1>2, <2>1 DEF FilledBuffers
<1>5. Head(q).buffer \in FilledBuffers(q)
  BY <1>1, <1>2 DEF FilledBuffers
<1> QED
  BY <1>1, <1>3, <1>4, <1>5

LEMMA OneMoreFilled ==
  ASSUME NEW q \in Seq(Filling), NEW e \in Filling
  PROVE  /\ Append(q, e) \in Seq(Filling)
         /\ FilledBuffers(Append(q, e)) = FilledBuffers(q) \cup {e.buffer}
<1>1. /\ Append(q, e) \in Seq(Filling) /\ Len(q) \in Nat
      /\ DOMAIN Append(q, e) = 1 .. Len(q) + 1 /\ DOMAIN q = 1 .. Len(q)
      /\ \A i \in 1 .. Len(q) : Append(q, e)[i] = q[i]
      /\ Append(q, e)[Len(q) + 1] = e
  OBVIOUS
<1>2. 1 .. Len(q) + 1 = (1 .. Len(q)) \cup {Len(q) + 1}
  BY <1>1
<1> QED
  BY <1>1, <1>2 DEF FilledBuffers

LEMMA NothingFilled == FilledBuffers(<< >>) = {}
  BY DEF FilledBuffers

LEMMA BufferStep == BufferInv /\ [Next]_vars => BufferInv'
<1> SUFFICES ASSUME BufferInv, [Next]_vars
             PROVE  BufferInv'
  OBVIOUS
<1>1. ReleaseInv'
  BY ReleaseStep DEF BufferInv
<1>0. count \in Nat /\ mapped \subseteq Nat
  <2>1. count \in 0 .. BufferCount /\ mapped \subseteq 0 .. count - 1
    BY DEF BufferInv, ReleaseInv
  <2> QED
    BY ONLY <2>1
<1> USE DEF BufferInv, Lent
<1>2. CASE Map
  <2>1. PICK i \in 0 .. count - 1 :
          /\ mapped' = mapped \cup {i}
          /\ \/ queued' = queued \cup {i} /\ at' = AfterMap(i)
             \/ queued' = queued /\ at' = "capture failed"
    BY <1>2 DEF Map
  <2>2. at = "map" /\ filled' = filled /\ AfterMap(i) \in {"stream on", "map"}
    BY <1>2 DEF Map, AfterMap
  <2>a. i \in 0 .. count - 1
    OBVIOUS
  <2>b. i \in Nat
    BY ONLY <1>0, <2>a
  <2>3. filled' \in Seq(Filling) /\ queued' \subseteq Nat
    BY <2>1, <2>2, <2>b
  <2>4. at' \notin {"capture failed"} => mapped' = Lent'
    BY <2>1, <2>2
  <2> QED
    BY <1>1, <2>3, <2>4
<1>3. CASE CaptureFailed \/ ShutDown \/ Unwound
  <2>1. Release /\ at' = "returned"
    BY <1>3 DEF CaptureFailed, ShutDown, Unwound
  <2>2. mapped' = {} /\ queued' = {} /\ filled' = << >>
    BY <2>1, ReleaseFrees DEF Free
  <2>3. FilledBuffers(filled') = {}
    BY <2>2, NothingFilled
  <2>4. mapped' = Lent'
    BY <2>1, <2>2, <2>3
  <2>5. filled' \in Seq(Filling)
    BY <2>2, EmptySeq
  <2>6. queued' \subseteq Nat
    BY ONLY <2>2
  <2> QED
    BY <1>1, <2>4, <2>5, <2>6
<1>4. CASE Dequeue
  <2>1. /\ at = "running" /\ at' = "read" /\ filled # << >>
        /\ taken' = Head(filled) /\ filled' = Tail(filled)
        /\ UNCHANGED <<mapped, queued>>
    BY <1>4 DEF Dequeue, device
  <2>2. /\ filled' \in Seq(Filling)
        /\ FilledBuffers(filled) = FilledBuffers(filled') \cup {taken'.buffer}
    BY <2>1, HeadTaken
  <2> QED
    BY <1>1, <2>1, <2>2
<1>5. CASE HandBack
  <2>1. /\ at = "hand back" /\ at' \in {"show", "running"}
        /\ queued' = queued \cup {taken.buffer} /\ UNCHANGED <<mapped, filled>>
    BY <1>5 DEF HandBack, device
  <2>2. queued' \subseteq Nat
    <3>1. taken.buffer \in mapped
      BY <2>1
    <3>2. taken.buffer \in Nat
      BY <1>0, <3>1
    <3> QED
      BY <2>1, <3>2
  <2> QED
    BY <1>1, <2>1, <2>2
<1>6. CASE Write(TRUE) \/ Write(FALSE)
  <2>1. PICK whole \in BOOLEAN : Write(whole)
    BY <1>6
  <2>2. PICK i \in queued :
          queued' = queued \ {i} /\ filled' = Append(filled, [buffer |-> i, whole |-> whole])
    BY <2>1 DEF Write
  <2>3. UNCHANGED <<at, mapped, taken>>
    BY <2>1 DEF Write, device
  <2>4. [buffer |-> i, whole |-> whole] \in Filling
    BY DEF Filling
  <2>5. /\ filled' \in Seq(Filling)
        /\ FilledBuffers(filled') = FilledBuffers(filled) \cup {i}
    BY <2>2, <2>4, OneMoreFilled
  <2> QED
    BY <1>1, <2>2, <2>3, <2>5
<1>7. CASE \/ Parse \/ Find \/ Open \/ Request \/ StreamOn \/ CaptureFails
           \/ InitialiseVideo \/ InitialiseAudio \/ CreateLoop \/ Connect
           \/ Copy \/ Show \/ Quit \/ StopAudio \/ OnProcess \/ UNCHANGED vars
  <2>1. /\ UNCHANGED <<mapped, queued, filled, taken>>
        /\ (at' \in {"read", "hand back"} <=> at \in {"read", "hand back"})
        /\ at = "capture failed" => at' = "capture failed"
    BY <1>7 DEF Parse, Find, Open, Request, StreamOn, CaptureFails, InitialiseVideo,
                InitialiseAudio, CreateLoop, Connect, Copy, Show, Quit, StopAudio, OnProcess, vars,
                capture, device
  <2> QED
    BY <1>1, <2>1
<1> QED
  BY <1>2, <1>3, <1>4, <1>5, <1>6, <1>7 DEF Next, Main

LEMMA BufferInit == Init => BufferInv
<1> SUFFICES ASSUME Init PROVE BufferInv
  OBVIOUS
<1>1. ReleaseInv
  BY ReleaseInit
<1>2. mapped = {} /\ queued = {} /\ filled = << >> /\ at = "parse"
  BY DEF Init
<1>3. FilledBuffers(filled) = {} /\ filled \in Seq(Filling)
  BY <1>2, NothingFilled
<1> QED
  BY <1>1, <1>2, <1>3 DEF BufferInv, Lent

\* What is mapped is with the driver, or about to be handed back to it.
BuffersAccounted == at # "capture failed" => mapped = Lent

\* No path of readFrame loses a buffer; with the driver's fairness that is why the picture does
\* not stop (V4LCaptureSource.cpp 113-126).
THEOREM NoBufferLost == Spec => []BuffersAccounted
<1>1. BufferInv => BuffersAccounted
  BY DEF BufferInv, BuffersAccounted
<1> QED
  BY <1>1, BufferInit, BufferStep, PTL DEF Spec

(***************************************************************************)
(* The frames.                                                             *)
(***************************************************************************)

Reading == at \in {"read", "hand back"}

Distinct(q) == \A i, j \in DOMAIN q : q[i].buffer = q[j].buffer => i = j

\* A buffer is in one hand: lent to the driver, filled, or being read.
OwnInv ==
  /\ queued \cup FilledBuffers(filled) \subseteq Buffers
  /\ Distinct(filled)
  /\ queued \cap FilledBuffers(filled) = {}
  /\ Reading => taken.buffer \in Buffers \ (queued \cup FilledBuffers(filled))

LEMMA NoneTwice == Distinct(<< >>)
  BY DEF Distinct

LEMMA DistinctTail ==
  ASSUME NEW q \in Seq(Filling), q # << >>, Distinct(q)
  PROVE  Distinct(Tail(q)) /\ Head(q).buffer \notin FilledBuffers(Tail(q))
<1>1. /\ Len(q) \in Nat \ {0} /\ DOMAIN q = 1 .. Len(q) /\ DOMAIN Tail(q) = 1 .. Len(q) - 1
      /\ \A i \in 1 .. Len(q) - 1 : Tail(q)[i] = q[i + 1]
      /\ Head(q) = q[1]
  OBVIOUS
<1>2. Distinct(Tail(q))
  <2> SUFFICES ASSUME NEW i \in 1 .. Len(q) - 1, NEW j \in 1 .. Len(q) - 1,
                      Tail(q)[i].buffer = Tail(q)[j].buffer
               PROVE  i = j
    BY <1>1 DEF Distinct
  <2>1. /\ i + 1 \in 1 .. Len(q) /\ j + 1 \in 1 .. Len(q)
        /\ q[i + 1].buffer = q[j + 1].buffer
    BY <1>1
  <2>2. i + 1 = j + 1
    BY <1>1, <2>1 DEF Distinct
  <2> QED
    BY <1>1, <2>2
<1>3. Head(q).buffer \notin FilledBuffers(Tail(q))
  <2> SUFFICES ASSUME NEW i \in 1 .. Len(q) - 1, Tail(q)[i].buffer = Head(q).buffer
               PROVE  FALSE
    BY <1>1 DEF FilledBuffers
  <2>1. /\ i + 1 \in 1 .. Len(q) /\ 1 \in 1 .. Len(q) /\ q[i + 1].buffer = q[1].buffer
    BY <1>1
  <2>2. i + 1 = 1
    BY <1>1, <2>1 DEF Distinct
  <2> QED
    BY <1>1, <2>2
<1> QED
  BY <1>2, <1>3

LEMMA DistinctAppend ==
  ASSUME NEW q \in Seq(Filling), NEW e \in Filling, Distinct(q), e.buffer \notin FilledBuffers(q)
  PROVE  Distinct(Append(q, e))
<1>1. /\ Len(q) \in Nat /\ DOMAIN q = 1 .. Len(q) /\ DOMAIN Append(q, e) = 1 .. Len(q) + 1
      /\ \A i \in 1 .. Len(q) : Append(q, e)[i] = q[i]
      /\ Append(q, e)[Len(q) + 1] = e
  OBVIOUS
<1>2. \A i \in 1 .. Len(q) : q[i].buffer # e.buffer
  BY <1>1 DEF FilledBuffers
<1> SUFFICES ASSUME NEW i \in 1 .. Len(q) + 1, NEW j \in 1 .. Len(q) + 1,
                    Append(q, e)[i].buffer = Append(q, e)[j].buffer
             PROVE  i = j
  BY <1>1 DEF Distinct
<1>3. CASE i \in 1 .. Len(q) /\ j \in 1 .. Len(q)
  BY <1>1, <1>3 DEF Distinct
<1>4. CASE i = Len(q) + 1 \/ j = Len(q) + 1
  BY <1>1, <1>2, <1>4
<1> QED
  BY <1>1, <1>3, <1>4

LEMMA OwnStep == BufferInv /\ OwnInv /\ [Next]_vars => OwnInv'
<1> SUFFICES ASSUME BufferInv, OwnInv, [Next]_vars
             PROVE  OwnInv'
  OBVIOUS
<1> USE DEF OwnInv, Reading
<1>0. filled \in Seq(Filling)
  BY DEF BufferInv
<1>1. CASE Map
  <2>1. PICK i \in 0 .. count - 1 :
          /\ mapped = 0 .. i - 1
          /\ queued' \in {queued, queued \cup {i}}
    BY <1>1 DEF Map
  <2>2. at = "map" /\ filled' = filled /\ ~Reading'
    BY <1>1 DEF Map, AfterMap
  <2>3. count \in 0 .. BufferCount /\ i \in 0 .. count - 1
    BY DEF BufferInv, ReleaseInv
  <2>a. count \in Nat /\ i \in Nat /\ i < count /\ count <= BufferCount /\ BufferCount \in Nat
    BY ONLY <2>3, ViewerAssumption
  <2>b. i \in Buffers
    BY ONLY <2>a DEF Buffers
  <2>c. i \notin 0 .. i - 1
    BY ONLY <2>a
  <2>4. i \in Buffers /\ i \notin mapped
    BY ONLY <2>1, <2>b, <2>c
  <2>5. FilledBuffers(filled) \subseteq mapped
    BY <2>2 DEF BufferInv, Lent
  <2> QED
    BY <2>1, <2>2, <2>4, <2>5
<1>2. CASE CaptureFailed \/ ShutDown \/ Unwound
  <2>1. queued' = {} /\ filled' = << >> /\ ~Reading'
    BY <1>2 DEF CaptureFailed, ShutDown, Unwound, Release
  <2>2. FilledBuffers(filled') = {} /\ Distinct(filled')
    BY <2>1, NothingFilled, NoneTwice
  <2> QED
    BY <2>1, <2>2
<1>3. CASE Dequeue
  <2>1. filled # << >> /\ taken' = Head(filled) /\ filled' = Tail(filled) /\ queued' = queued
    BY <1>3 DEF Dequeue
  <2>2. FilledBuffers(filled) = FilledBuffers(filled') \cup {taken'.buffer}
    BY <1>0, <2>1, HeadTaken
  <2>3. Distinct(filled') /\ taken'.buffer \notin FilledBuffers(filled')
    BY <1>0, <2>1, DistinctTail
  <2> QED
    BY <2>1, <2>2, <2>3
<1>4. CASE HandBack
  <2>1. /\ Reading /\ ~Reading' /\ queued' = queued \cup {taken.buffer} /\ filled' = filled
    BY <1>4 DEF HandBack
  <2> QED
    BY <2>1
<1>5. CASE Write(TRUE) \/ Write(FALSE)
  <2>1. PICK whole \in BOOLEAN : Write(whole)
    BY <1>5
  <2>2. PICK i \in queued :
          queued' = queued \ {i} /\ filled' = Append(filled, [buffer |-> i, whole |-> whole])
    BY <2>1 DEF Write
  <2>3. UNCHANGED <<at, taken>>
    BY <2>1 DEF Write
  <2>4. i \in Nat /\ [buffer |-> i, whole |-> whole] \in Filling /\ i \notin FilledBuffers(filled)
    BY DEF Filling, BufferInv
  <2>5. FilledBuffers(filled') = FilledBuffers(filled) \cup {i}
    BY <1>0, <2>2, <2>4, OneMoreFilled
  <2>6. Distinct(filled')
    <3>1. [buffer |-> i, whole |-> whole].buffer = i
      OBVIOUS
    <3> QED
      BY <1>0, <2>2, <2>4, <3>1, DistinctAppend
  <2> QED
    BY <2>2, <2>3, <2>5, <2>6
<1>6. CASE \/ Parse \/ Find \/ Open \/ Request \/ StreamOn \/ CaptureFails
           \/ InitialiseVideo \/ InitialiseAudio \/ CreateLoop \/ Connect
           \/ Copy \/ Show \/ Quit \/ StopAudio \/ OnProcess \/ UNCHANGED vars
  <2>1. UNCHANGED <<queued, filled, taken>> /\ (Reading' => Reading)
    BY <1>6 DEF Parse, Find, Open, Request, StreamOn, CaptureFails, InitialiseVideo,
                InitialiseAudio, CreateLoop, Connect, Copy, Show, Quit, StopAudio, OnProcess, vars,
                capture, device
  <2> QED
    BY <2>1
<1> QED
  BY <1>1, <1>2, <1>3, <1>4, <1>5, <1>6 DEF Next, Main

\* A buffer that is said to hold a whole frame does, as nobody has written to it since.
AllWhole(q, m) == \A i \in DOMAIN q : q[i].whole => m[q[i].buffer] = "whole"

FrameInv ==
  /\ memory \in [Buffers -> Images]
  /\ AllWhole(filled, memory)
  /\ Reading /\ taken.whole => memory[taken.buffer] = "whole"
  /\ at = "hand back" /\ taken.whole => frame = "whole"
  /\ at = "show" => frame = "whole"
  /\ texture # "torn"

LEMMA NoneTorn == ASSUME NEW m PROVE AllWhole(<< >>, m)
  BY DEF AllWhole

LEMMA WholeTail ==
  ASSUME NEW q \in Seq(Filling), q # << >>, NEW m, AllWhole(q, m)
  PROVE  AllWhole(Tail(q), m) /\ (Head(q).whole => m[Head(q).buffer] = "whole")
<1>1. /\ Len(q) \in Nat \ {0} /\ DOMAIN q = 1 .. Len(q) /\ DOMAIN Tail(q) = 1 .. Len(q) - 1
      /\ \A i \in 1 .. Len(q) - 1 : Tail(q)[i] = q[i + 1] /\ i + 1 \in 1 .. Len(q)
      /\ Head(q) = q[1] /\ 1 \in 1 .. Len(q)
  OBVIOUS
<1> QED
  BY <1>1 DEF AllWhole

LEMMA WholeAppend ==
  ASSUME NEW q \in Seq(Filling), NEW e \in Filling, NEW m,
         AllWhole(q, m), e.whole => m[e.buffer] = "whole"
  PROVE  AllWhole(Append(q, e), m)
<1>1. /\ Len(q) \in Nat /\ DOMAIN q = 1 .. Len(q) /\ DOMAIN Append(q, e) = 1 .. Len(q) + 1
      /\ \A i \in 1 .. Len(q) : Append(q, e)[i] = q[i]
      /\ Append(q, e)[Len(q) + 1] = e
  OBVIOUS
<1>2. 1 .. Len(q) + 1 = (1 .. Len(q)) \cup {Len(q) + 1}
  BY <1>1
<1> QED
  BY <1>1, <1>2 DEF AllWhole

LEMMA FrameStep == BufferInv /\ OwnInv /\ FrameInv /\ [Next]_vars => FrameInv'
<1> SUFFICES ASSUME BufferInv, OwnInv, FrameInv, [Next]_vars
             PROVE  FrameInv'
  OBVIOUS
<1> USE DEF FrameInv, Reading
<1>0. filled \in Seq(Filling)
  BY DEF BufferInv
<1>1. CASE CaptureFailed \/ ShutDown \/ Unwound
  <2>1. /\ filled' = << >> /\ memory' = memory /\ texture' = texture /\ at' = "returned"
    BY <1>1 DEF CaptureFailed, ShutDown, Unwound, Release, outputs
  <2>2. AllWhole(filled', memory')
    BY <2>1, NoneTorn
  <2> QED
    BY <2>1, <2>2
<1>2. CASE Dequeue
  <2>1. /\ filled # << >> /\ taken' = Head(filled) /\ filled' = Tail(filled)
        /\ at' = "read" /\ UNCHANGED <<memory, texture>>
    BY <1>2 DEF Dequeue, outputs
  <2>2. AllWhole(filled', memory) /\ (taken'.whole => memory[taken'.buffer] = "whole")
    BY <1>0, <2>1, WholeTail
  <2> QED
    BY <2>1, <2>2
<1>3. CASE Copy
  <2>1. /\ at = "read" /\ at' = "hand back"
        /\ frame' = IF taken.whole THEN memory[taken.buffer] ELSE frame
        /\ UNCHANGED <<filled, memory, taken, texture>>
    BY <1>3 DEF Copy, capture
  <2> QED
    BY <2>1
<1>4. CASE HandBack
  <2>1. /\ at = "hand back" /\ at' = (IF taken.whole THEN "show" ELSE "running")
        /\ UNCHANGED <<filled, memory, frame, texture>>
    BY <1>4 DEF HandBack, outputs
  <2> QED
    BY <2>1
<1>5. CASE Show
  <2>1. /\ at = "show" /\ at' = "running" /\ texture' \in {texture, frame}
        /\ UNCHANGED <<filled, memory, frame>>
    BY <1>5 DEF Show, capture
  <2> QED
    BY <2>1
<1>6. CASE Write(TRUE) \/ Write(FALSE)
  <2>1. PICK whole \in BOOLEAN : Write(whole)
    BY <1>6
  <2> DEFINE e(i) == [buffer |-> i, whole |-> whole]
  <2>2. PICK i \in queued :
          /\ filled' = Append(filled, e(i))
          /\ memory' = [memory EXCEPT ![i] = IF whole THEN "whole" ELSE "torn"]
    BY <2>1 DEF Write
  <2>3. UNCHANGED <<at, taken, frame, texture>>
    BY <2>1 DEF Write, outputs
  <2>4. /\ e(i) \in Filling /\ i \in Buffers /\ i \notin FilledBuffers(filled)
        /\ Reading => taken.buffer \in Buffers /\ taken.buffer # i
    BY DEF Filling, BufferInv, OwnInv
  <2>5. memory' \in [Buffers -> Images]
    BY <2>2 DEF Images
  <2>6. \A b \in Buffers : b # i => memory'[b] = memory[b]
    BY <2>2
  <2>7. AllWhole(filled, memory')
    <3> SUFFICES ASSUME NEW k \in DOMAIN filled, filled[k].whole
                 PROVE  memory'[filled[k].buffer] = "whole"
      BY DEF AllWhole
    <3>1. filled[k].buffer \in FilledBuffers(filled)
      BY DEF FilledBuffers
    <3>2. filled[k].buffer \in Buffers /\ filled[k].buffer # i
      BY <2>4, <3>1 DEF OwnInv
    <3>3. memory[filled[k].buffer] = "whole"
      BY DEF AllWhole
    <3> QED
      BY <2>6, <3>2, <3>3
  <2>8. e(i).whole => memory'[e(i).buffer] = "whole"
    BY <2>2, <2>4
  <2>9. AllWhole(filled', memory')
    <3> HIDE DEF e
    <3> QED
      BY <1>0, <2>2, <2>4, <2>7, <2>8, WholeAppend
  <2>10. Reading /\ taken.whole => memory'[taken.buffer] = "whole"
    BY <2>4, <2>6
  <2> QED
    BY <2>3, <2>5, <2>9, <2>10
<1>7. CASE \/ Parse \/ Find \/ Open \/ Request \/ Map \/ StreamOn \/ CaptureFails
           \/ InitialiseVideo \/ InitialiseAudio \/ CreateLoop \/ Connect
           \/ Quit \/ StopAudio \/ OnProcess \/ UNCHANGED vars
  <2>1. /\ UNCHANGED <<filled, memory, taken, frame, texture>>
        /\ at' = at \/ at' \notin {"read", "hand back", "show"}
    BY <1>7 DEF Parse, Find, Open, Request, Map, AfterMap, StreamOn, CaptureFails, InitialiseVideo,
                InitialiseAudio, CreateLoop, Connect, Quit, StopAudio, OnProcess, vars,
                capture, outputs
  <2> QED
    BY <2>1
<1> QED
  BY <1>1, <1>2, <1>3, <1>4, <1>5, <1>6, <1>7 DEF Next, Main

\* What is shown was written whole and not written over while it was copied
\* (V4LCaptureSource::readFrame).
THEOREM ShownWhole == Spec => []OnlyWholeFramesShown
<1>1. Init => BufferInv /\ OwnInv /\ FrameInv
  <2> SUFFICES ASSUME Init PROVE OwnInv /\ FrameInv
    BY BufferInit
  <2>1. /\ queued = {} /\ filled = << >> /\ at = "parse" /\ texture = "blank"
        /\ memory = [b \in Buffers |-> "blank"]
    BY DEF Init
  <2>2. FilledBuffers(filled) = {} /\ Distinct(filled) /\ AllWhole(filled, memory)
    BY <2>1, NothingFilled, NoneTwice, NoneTorn
  <2> QED
    BY <2>1, <2>2 DEF OwnInv, FrameInv, Reading, Images
<1>2. FrameInv => OnlyWholeFramesShown
  BY DEF FrameInv, OnlyWholeFramesShown
<1> QED
  BY <1>1, <1>2, BufferStep, OwnStep, FrameStep, PTL DEF Spec
=============================================================================
