------------------------------- MODULE Viewer -------------------------------
(***************************************************************************)
(* The viewer (cli): its options, and viewDaemonOutput, which shows what   *)
(* lgx2d captures.  V4LCaptureSource maps the loopback device's buffers    *)
(* and lends them to the driver, PipeWireAudioSource calls the audio       *)
(* output on PipeWire's data loop, SdlVideoOutput shows the frames.        *)
(*                                                                         *)
(* Three actors: the MAIN thread, PipeWire's DATA LOOP, which runs the     *)
(* callback (the stream is connected with RT_PROCESS), and the DRIVER,     *)
(* which fills queued buffers with what lgx2d writes.  Any call that       *)
(* acquires something may fail: it throws, and what was acquired is        *)
(* released on the way out.  With -D and the options that imply it the     *)
(* viewer captures by itself, which is CapturePipeline's and               *)
(* CaptureStream's.                                                        *)
(***************************************************************************)
EXTENDS Integers, Sequences, SequencesExt

CONSTANTS
  BufferCount,  \* BUFFER_COUNT
  Arguments     \* bound: the command lines

ASSUME ViewerAssumption == BufferCount \in Nat \ {0}

VARIABLES
  at,         \* the main thread's step
  options,    \* OptionParser's result
  fd,         \* _fd is open
  count,      \* _bufferCount
  mapped,     \* the buffers that are mapped
  streaming,  \* _streaming
  queued,     \* the buffers that the driver may fill
  filled,     \* the buffers it has filled, oldest first, and whether with a whole frame
  memory,     \* what the driver wrote last into each buffer
  taken,      \* what readFrame has dequeued
  frame,      \* the main thread's copy of a frame
  texture,    \* the window's
  window,     \* the video output is initialised
  audio,      \* the audio output is initialised
  loop,       \* _loop exists
  thread,     \* the thread loop runs, and the stream is there
  calling     \* the data loop is in the callback

device == <<fd, count, mapped, streaming>>
capture == <<device, queued, filled, memory, taken>>
outputs == <<frame, texture, window, audio>>
pw == <<loop, thread, calling>>
vars == <<at, options, capture, outputs, pw>>

Buffers == 0 .. BufferCount - 1
NoBuffer == [buffer |-> 0, whole |-> FALSE]

\* What memory for a frame holds; "torn" is a part of one frame, the rest being another's.
Images == {"blank", "whole", "torn"}

-----------------------------------------------------------------------------
(* The options.                                                            *)

Defaults ==
  [direct |-> FALSE, usage |-> FALSE, video |-> "sdl", audio |-> "sdl", input |-> FALSE]

\* An option that ends the parsing, or one that sets a member; -d, -f and -x capture directly.
\* Logging and scaling are left out.
Option(o, arg) ==
  CASE o.usage -> o
    [] ~o.usage /\ arg \in {"D", "f", "x"} -> [o EXCEPT !.direct = TRUE]
    [] ~o.usage /\ arg = "d" -> [o EXCEPT !.direct = TRUE, !.video = "v4l"]
    [] ~o.usage /\ arg = "s" -> [o EXCEPT !.video = "null"]
    [] ~o.usage /\ arg = "g" -> [o EXCEPT !.audio = "null"]
    [] ~o.usage /\ arg = "i" -> [o EXCEPT !.input = TRUE]
    [] ~o.usage /\ arg \in {"v", "V", "S"} -> o
    [] OTHER -> [o EXCEPT !.usage = TRUE]

Process(args) == FoldLeft(Option, Defaults, args)

Init ==
  /\ at = "parse" /\ options = Defaults
  /\ fd = FALSE /\ count = 0 /\ mapped = {} /\ streaming = FALSE
  /\ queued = {} /\ filled = << >> /\ taken = NoBuffer
  /\ memory = [b \in Buffers |-> "blank"] /\ frame = "blank" /\ texture = "blank"
  /\ window = FALSE /\ audio = FALSE
  /\ loop = FALSE /\ thread = FALSE /\ calling = FALSE

Parse ==
  /\ at = "parse"
  /\ \E args \in Arguments : options' = Process(args)
  /\ at' = IF options'.usage THEN "returned" ELSE IF options'.direct THEN "direct" ELSE "find"
  /\ UNCHANGED <<capture, outputs, pw>>

-----------------------------------------------------------------------------
(* What viewDaemonOutput acquires, in its order.                           *)

\* Mutant: a device that did not begin to stream is only closed.
CloseOnly ==
  /\ fd' = FALSE /\ UNCHANGED <<count, mapped, streaming, queued, filled, memory, taken>>

\* release: STREAMOFF takes every buffer from the driver, then they are unmapped.
Release ==
  /\ fd' = FALSE /\ streaming' = FALSE /\ count' = 0
  /\ mapped' = mapped \ (0 .. count - 1)
  /\ queued' = {} /\ filled' = << >> /\ taken' = NoBuffer /\ memory' = memory

\* There may be no device that offers video, unless one was named; SDL may not start.
Find ==
  /\ at = "find"
  /\ \/ at' = "open"
     \/ ~options.input /\ at' = "returned"
     \/ "sdl" \in {options.video, options.audio} /\ at' = "returned"
  /\ UNCHANGED <<options, capture, outputs, pw>>

Open ==
  /\ at = "open"
  /\ \/ fd' = TRUE /\ at' = "request"
     \/ fd' = FALSE /\ at' = "returned"
  /\ UNCHANGED <<options, count, mapped, streaming, queued, filled, memory, taken, outputs, pw>>

\* The format is the expected one, and the driver grants some of the buffers.
Request ==
  /\ at = "request"
  /\ \E granted \in 1 .. BufferCount : count' = granted
  /\ at' = "map"
  /\ UNCHANGED <<options, fd, mapped, streaming, queued, filled, memory, taken, outputs, pw>>

AfterMap(i) == IF i + 1 = count THEN "stream on" ELSE "map"

\* Map buffer i and lend it to the driver.
Map ==
  /\ at = "map"
  /\ \E i \in 0 .. count - 1 :
       /\ mapped = 0 .. i - 1
       /\ mapped' = mapped \cup {i}
       /\ \/ queued' = queued \cup {i} /\ at' = AfterMap(i)
          \/ queued' = queued /\ at' = "capture failed"
  /\ UNCHANGED <<options, fd, count, streaming, filled, memory, taken, outputs, pw>>

StreamOn ==
  /\ at = "stream on"
  /\ streaming' = TRUE
  /\ at' = "initialise video"
  /\ UNCHANGED <<options, fd, count, mapped, queued, filled, memory, taken, outputs, pw>>

\* The calls of the constructor that fail without having changed anything.
CaptureFails ==
  /\ at \in {"request", "map", "stream on"}
  /\ at' = "capture failed"
  /\ UNCHANGED <<options, capture, outputs, pw>>

\* The constructor's handler, and the catch of viewDaemonOutput.
CaptureFailed ==
  /\ at = "capture failed"
  /\ Release
  /\ at' = "returned"
  /\ UNCHANGED <<options, outputs, pw>>

InitialiseVideo ==
  /\ at = "initialise video"
  /\ window' = TRUE
  /\ at' = "initialise audio"
  /\ UNCHANGED <<options, capture, frame, texture, audio, pw>>

InitialiseAudio ==
  /\ at = "initialise audio"
  /\ \/ audio' = TRUE /\ at' = "audio source"
     \/ options.audio # "null" /\ audio' = FALSE /\ at' = "unwind"
  /\ UNCHANGED <<options, capture, frame, texture, window, pw>>

\* PipeWireAudioSource::start: a thread loop, then its stream, then the loop runs; only
\* then can the stream be negotiated, and the callback run.
CreateLoop ==
  /\ at = "audio source"
  /\ \/ loop' = TRUE /\ at' = "connect"
     \/ loop' = FALSE /\ at' = "unwind"
  /\ UNCHANGED <<options, capture, outputs, thread, calling>>

Connect ==
  /\ at = "connect"
  /\ \/ thread' = TRUE /\ at' = "running"
     \/ thread' = FALSE /\ at' = "unwind"
  /\ UNCHANGED <<options, capture, outputs, loop, calling>>

-----------------------------------------------------------------------------
(* The loop.                                                               *)

\* Mutant: the buffer is handed back before it is copied.
DequeueLent ==
  /\ at = "running" /\ filled # << >>
  /\ taken' = Head(filled) /\ filled' = Tail(filled)
  /\ queued' = queued \cup {taken'.buffer}
  /\ at' = "read"
  /\ UNCHANGED <<options, device, memory, outputs, pw>>

\* readFrame: poll says that a buffer is filled, and it is dequeued.
Dequeue ==
  /\ at = "running" /\ filled # << >>
  /\ taken' = Head(filled) /\ filled' = Tail(filled)
  /\ at' = "read"
  /\ UNCHANGED <<options, device, queued, memory, outputs, pw>>

\* The frame is copied if it is whole.
Copy ==
  /\ at = "read"
  /\ frame' = IF taken.whole THEN memory[taken.buffer] ELSE frame
  /\ at' = "hand back"
  /\ UNCHANGED <<options, capture, texture, window, audio, pw>>

\* Mutant: a buffer without a whole frame is not handed back.
HandBackWhole ==
  /\ at = "hand back"
  /\ queued' = IF taken.whole THEN queued \cup {taken.buffer} ELSE queued
  /\ at' = IF taken.whole THEN "show" ELSE "running"
  /\ taken' = NoBuffer
  /\ UNCHANGED <<options, device, filled, memory, outputs, pw>>

\* The buffer goes straight back, whatever is in it.  What QBUF returns is not looked at; here it
\* never fails.
HandBack ==
  /\ at = "hand back"
  /\ queued' = queued \cup {taken.buffer}
  /\ at' = IF taken.whole THEN "show" ELSE "running"
  /\ taken' = NoBuffer
  /\ UNCHANGED <<options, device, filled, memory, outputs, pw>>

\* videoFrameAvailable.
Show ==
  /\ at = "show"
  /\ texture' = IF options.video = "null" THEN texture ELSE frame
  /\ at' = "running"
  /\ UNCHANGED <<options, capture, frame, window, audio, pw>>

\* The window is closed, or SIGTERM.
Quit ==
  /\ at = "running"
  /\ at' = "stop"
  /\ UNCHANGED <<options, capture, outputs, pw>>

\* Mutant: the audio output is shut down before the source that feeds it.
StopLate ==
  /\ at = "stop"
  /\ at' = "shut down" /\ audio' = FALSE
  /\ UNCHANGED <<options, capture, frame, texture, window, pw>>

\* audioSource.stop(), or its destructor: the thread is joined, the stream destroyed.  It is the
\* destruction that waits for the callback, which runs on the data loop and not on that thread.
StopAudio ==
  /\ at \in {"stop", "unwind"}
  /\ ~calling
  /\ loop' = FALSE /\ thread' = FALSE
  /\ at' = IF at = "stop" THEN "shut down" ELSE "unwound"
  /\ UNCHANGED <<options, capture, outputs, calling>>

\* The capture source leaves its scope, and what was initialised is shut down.
ShutDown ==
  /\ at = "shut down"
  /\ Release
  /\ window' = FALSE /\ audio' = FALSE
  /\ at' = "returned"
  /\ UNCHANGED <<options, frame, texture, pw>>

\* After an exception the outputs are left as they are; the process ends.
Unwound ==
  /\ at = "unwound"
  /\ Release
  /\ at' = "returned"
  /\ UNCHANGED <<options, outputs, pw>>

Main ==
  \/ Parse \/ Find \/ Open \/ Request \/ Map \/ StreamOn \/ CaptureFails \/ CaptureFailed
  \/ InitialiseVideo \/ InitialiseAudio \/ CreateLoop \/ Connect
  \/ Dequeue \/ Copy \/ HandBack \/ Show \/ Quit \/ StopAudio \/ ShutDown \/ Unwound

-----------------------------------------------------------------------------
(* PipeWire's data loop, and lgx2d's writes through the driver.            *)

OnProcess ==
  /\ thread /\ calling' = ~calling
  /\ UNCHANGED <<at, options, capture, outputs, loop, thread>>

\* lgx2d writes a frame, or a part of one; without a queued buffer it is not seen here.
Write(whole) ==
  /\ streaming
  /\ \E i \in queued :
       /\ queued' = queued \ {i}
       /\ filled' = Append(filled, [buffer |-> i, whole |-> whole])
       /\ memory' = [memory EXCEPT ![i] = IF whole THEN "whole" ELSE "torn"]
  /\ UNCHANGED <<at, options, device, taken, outputs, pw>>

Next == Main \/ OnProcess \/ Write(TRUE) \/ Write(FALSE)

Spec == Init /\ [][Next]_vars

\* The main thread goes on, but nobody need close the window; a callback returns; lgx2d goes on
\* writing whole frames as long as there is a buffer for them.
FairSpec ==
  /\ Spec
  /\ WF_vars(Main /\ ~Quit)
  /\ WF_vars(OnProcess /\ ~calling')
  /\ SF_vars(Write(TRUE))

-----------------------------------------------------------------------------
(* Properties.                                                             *)

\* The callback never uses an audio output that is not initialised yet or shut down already,
\* although it runs on PipeWire's data loop (viewDaemonOutput's order; stop destroys the stream).
AudioOnlyWhileOpen == calling => audio

\* However viewDaemonOutput returns, and wherever it failed, the device is closed, no buffer is
\* mapped or lent to the driver, and the thread loop is gone.
ReleasedAtEnd ==
  at = "returned" =>
    ~fd /\ mapped = {} /\ queued = {} /\ filled = << >> /\ ~streaming /\ ~loop /\ ~thread

\* No frame is shown that was written in part, or that the driver wrote over while it was copied:
\* the buffer that is read is nobody else's until it is handed back (readFrame).
OnlyWholeFramesShown == texture # "torn"

\* The viewer goes on showing what lgx2d writes until it is closed: no buffer is lost to the
\* driver, whatever the frames in them were.
KeepsShowing == []<><<Show>>_at \/ <>(at \in {"stop", "unwind", "capture failed", "returned", "direct"})
=============================================================================
