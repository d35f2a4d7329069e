# lgx2userspace in TLA+

A user-space driver for the AVerMedia LGX and LGX2 capture cards. This directory holds TLA+
models of its concurrent and stateful parts, TLC configurations that check them on small
instances, and TLAPS proofs for every value of the constants of eight of them.

`PROJECT.json` says for every definition which lines of the source it models, for every run
what it checks, and for every property a plausible bug (a mutant) that breaks it.
Paths below are relative to `src/src/liblgx` unless they begin with `lgx2d/` or `cli/`.

    tlc -config MCCaptureStream_reads.cfg MCCaptureStream      # a run
    tlapm CaptureStreamProofs.tla                              # the proofs of a module

## 1. The system

    card --bulk IN 0x83--> CaptureStream --chunks--> CapturePipeline --> video output
     |                     (ring of 8)               BufferReorderer     (SDL, V4L2, ...)
     |                                               FrameBuilder
     |                                               AudioGate       --> audio output
     |                                                    ^              (PipeWire ring, SDL, ao)
     +--OUT 0x01 / IN 0x81--> CommandBridge               |
                              Bootstrapper                |
                              StatusMonitor --input state-+

    hotplug --> UsbContext --> CaptureDaemon --opens, ends--> DeviceSession
                                                              (owns the four on the left)

    loopback video device --> V4LCaptureSource ----> viewer --> SDL window
    PipeWire source --------> PipeWireAudioSource ->        --> SDL audio

Two programs: **lgx2d**, the daemon, captures and offers what it captures as a V4L2 loopback
device and a PipeWire source; the **viewer** shows what the daemon offers or, with `-D`, captures
by itself.

Threads: the **event thread** of `UsbContext` runs libusb's callbacks (transfer completions and
hotplug messages); the **owner**, which is the main thread of the viewer (`Device::run`) or of
the daemon (`CaptureDaemon::run`), drives the stream and the pipeline; the **poll thread** of
`StatusMonitor` reads the card's registers; PipeWire's **real-time thread** pulls audio from the
daemon's ring; in the viewer its **data loop** pushes audio into SDL (both streams are connected with
`RT_PROCESS`, so a callback is ended by `pw_stream_destroy`, not by stopping the thread loop).

## 2. Inventory

| component | state | operations | interacts by | what is hard | what makes it correct |
|---|---|---|---|---|---|
| CaptureStream (`liblgx-usb/src/usb`) | transfers, ring of 8 slots with write index and count, gap flag, shutting-down, error | start (aligned by a probe, or mid-stream), deliver, discard, stop, completion callbacks | two threads under `_queueMutex`, `_transfersMutex` and atomics | a callback takes its locks one after the other; failures, short reads, cancellation, unplugging, time-out | losses are flagged and only losses; order; no shared buffer; stop() ends everything |
| CapturePipeline, AudioGate (`src`) | input state, gate and ramp, resync flag, times, blanking | feed, setInputState, tick, parser callbacks | called by the loop of viewer or daemon, in a different order | long sequences of signal changes against time | reason shown, no garbage audio, silence keeps pace, parsers told of losses |
| FrameBuilder (`src`) | parser state, assembled frame and packet, carry: a marker whose header is not all there, or the length of a marker's beginning | feed | fed by the pipeline | markers split across chunks, loss in any place, audio that looks like markers | frames and packets whole or not at all; what was received whole comes out |
| BufferReorderer (`src`) | held bytes, observations, order and candidate | feed | before FrameBuilder | swapped DMA buffers, order known only from the stream | nothing is put together wrongly; a steady order is followed |
| PipeWireAudioOutput (`liblgx-pipewire`) | byte ring, two wrapping indices, pre-buffering | audioFrameAvailable, onProcess | lock-free, two threads | interleaving of copies and index updates, wrap-around, no consumer | a bounded queue of bytes; bounded latency; whole frames; plays on |
| CommandBridge (`liblgx-usb`) | requests and replies in flight | i2cRead, cryptoReadConfig, drainResponses, replay | bootstrap, probe, poll thread; the card | a reply does not say which request it answers | late replies are found out |
| Bootstrapper (`liblgx-usb`) | the board's registers | detect, replay, adjust | start of a session | replies of an earlier session; read-modify-write; no time-out in replay | board state from its own replies; other bits kept |
| StatusMonitor (`liblgx-usb`) | published state, stop flag, failure count | probe, poll, stop | poll thread, owner | lost wake-up; giving up | no status out of stale replies; stop is prompt; a broken poll does not mute |
| DeviceSession (`liblgx-usb`) | handle, stream, monitor | bootstrap, start, stop | owned by daemon or UsbStream | one bridge for all of it | see the two above |
| CaptureDaemon, UsbContext (`lgx2d`, `liblgx-usb`) | event queue, session, device references | hotplug callback, handleEvents, openSession, endSession, destructor | event thread queues, main thread handles | replug within one turn, address reuse, failing open, shutdown | references counted; session ends for its own card only; card captured again; stop honoured |
| Viewer (`cli`), V4LCaptureSource, PipeWireAudioSource | options; mapped buffers and who has them; loop thread | viewDaemonOutput, readFrame, release, start, stop, onProcess | driver of the loopback device, PipeWire's thread | anything may fail half-way; buffers lent to the driver | all released; no frame torn; no buffer lost; no callback into a closed output |
| SignalStatus, NoSignalCard, SDL, V4L2 output, libao, null and fake parts, tools | little | decoding, drawing, system and library calls | | | |

The hazards, each with its line and with the properties aimed at it, are in `PROJECT.json`.

## 3. Plan

Done in this order, the most important behaviour first:

1. `CaptureStream` with `ChunkQueue` as its abstract specification, and its proofs.
2. `CapturePipeline` with `AudioGate`, under the loops of both drivers, and its proofs.
3. `PipeWireRing` with `ByteFifo` as its abstract specification, and its proofs.
4. `StatusMonitor` over `CommandBridge`.
5. `CaptureDaemon` with the hotplug half of `UsbContext`, and its proofs.
6. `FrameBuilder` over `DeviceStream`, the bytes a card sends, in `FramesParsed`, and its proofs.
7. `BufferReorderer`, composed with `FrameBuilder` in `ReorderedFrames`, and its proofs.
8. `DeviceSession`: the bootstrap in front of the status poll, on one bridge, and the proofs of both.
9. `Viewer` with the sources it reads from, and its proofs.

What could still be added: a proof of `OnlyTrueFrames`, which would need for `FrameBuilder` behind the
reorderer what `ParserInv` says of it behind the card; the order inside `DeviceSession::stop`, which is
sequential and composes `CaptureStream` and `StatusMonitor` by their promises alone; the decision table of `SignalStatus`,
for which there is no second definition to check it against; the settling time of
`BufferReorderer` as a function of the buffers' sizes.

## 4. The modules and the code

**`CaptureStream`** (with `MCCaptureStream`). Each critical section of a mutex is one action. A
completion callback is split accordingly: `cb` is the callback in progress with the step it will
take next (`enqueue`, `markGap`, `submit`, `discard`, `queueAll`), so the owner may run between
any two. `refused` is history: the transfers that were dropped because the host refused them while the
card was there, which the code lets go silently. `inflight` is what the kernel holds (in submission order, which is the order bulk
transfers of one endpoint complete in), `transfers` the list `_transfers` that stop() cancels
and waits for. Data is a chunk's number in the device's stream: `k+1` follows `k`, and a number
that no read returns is a loss. `produced` counts them, `upTo` is where the consumer is. The
owner's `start(true)` is `StartAligned`, `start(false)` `StartMidStream` then `StartReads`;
`Deliver` is one turn of deliver()'s loop. `ChunkQueue` is what the ring promises: a bounded queue
of flagged chunks that drops its oldest. `Queued` is the refinement mapping, from the two indices
to the sequence.

**`CapturePipeline`** (with `MCCapturePipeline`). `driver` is whose loop runs: the daemon reports
the state, feeds or discards, ticks; the viewer ticks before it feeds and feeds always. What the
parsers make of a chunk is any number of frames and packets. The code keeps time points and only
subtracts them from now, so the model keeps ages, capped where the code no longer tells them
apart. Of a sample only the gain is kept. The rest is history: `screen`, `card`, `heard` and `missed` are
what outputs and parsers got, `click` whether what was sent last began more than a ramp step from what
was heard (silence behind sound, or sound behind silence), `sinceAbsent` and `afterClose` the signal's
and the gate's past. `debt` is the time without a signal less the playing time of the silence sent for
it, in units of `1/SampleRate` so that nothing of it is rounded; it is kept by the clock and by what is
sent, not by the `_silenceSentUpTo` that the code steers by (`owed`). `pieces` counts the pieces of
silence, for what the code rounds off each, and `stalled` remembers a turn so long that the code
forgoes silence.

**`PipeWireRing`** (with `MCPipeWireRing`). Loads and stores of the two indices and the copies
are actions of their own; a copy into the ring is two, with the bytes undefined in between. A byte
is the index it was written at. `ByteFifo` is the queue of bytes it implements.

**`CommandBridge`** is the endpoint: requests that the card has not answered and replies that wait.
A reply has a length and nothing else to tell which request it answers. Its steps (`Ask`, `Take`,
`GiveUp`) are the pieces that the readers' steps are made of. `late` is history.

**`StatusMonitor`** extends it. `poll` is the step of the poll thread, or at first of the probe,
which makes the same reads on the owner's thread. `mutex` is only ever observed while the poll
thread goes from looking at the predicate to sleeping.

**`DeviceSession`** (with `MCDeviceSession`) extends that with the bootstrap, which runs first, on
the same bridge: `boot` is its stage and step. Each stage of `Plan` is a list of registers that are
read; `Recording` is what `replay` plays back. A session may find requests of one that was killed
(`Leftovers`). A board is Configured, Fresh or something else; a board read from wrong replies may
be taken for any of them.

**`CaptureDaemon`** (with `MCCaptureDaemon`). Devices are addresses of `libusb_device`s: when
nothing refers to one any more, another card may get it. The event thread is `Dispatch`, which
references the device, and `QueueEvent`; everything under `Main` is the main thread, down to the
destructors. `Replay` is the replay of a bootstrap on a card that does not answer: it has no time-out,
and ends when the card is unplugged.

**`DeviceStream`** has the bytes of frames, audio packets and fillers (external, from `PROTOCOL.md`
and the parser's tests). A byte is a record of what it is worth to a parser and which it is, so that
two pixels are never taken for each other. A marker has its four bytes and a header of four (a SAV's
and a packet's) or five (an EAV's). What the header spells, a checksum that holds or a length, is told
by its first byte, because the parser looks at a header only when all of it is there; the others are
whatever they are, and the last of a SAV's or an EAV's may be 00, 00 FF or 00 FF FF.
**`FrameBuilder`** is the parser as a function: `Fed` gives the parser after a chunk and what it handed
out; feed's loop is a recursive function over its steps. `Carried` is what feed leaves for the next
chunk: a marker without all of its header, with its bytes, or the length of what may be a marker's
beginning, be it the tail of a header. `memory` is the array `_carry`, which the constructor leaves as
it is and of which only the length is set in the second case.
**`FramesParsed`** (with `MCFramesParsed`) cuts streams into chunks, loses bytes, and feeds it. Its
history: `since`, where the bytes began that came without a loss; `seams`, where a tail of a SAV's header
was carried; `marred`, the bytes for which a `_carry` that was never written stood in; `fooled`, the
parser began to read inside a packet that spells markers.

**`BufferReorderer`** is likewise a function on one record; offsets count all bytes ever fed.
**`ReorderedFrames`** (with `MCReorderedFrames`) sends a stream in pairs of buffers that are swapped
or not, through reorderer and parser, as `CapturePipeline::feed` connects them.

**`Viewer`** (with `MCViewer`): `at` is the main thread's step, from the options to the return of
viewDaemonOutput. A buffer of the loopback device is lent to the driver (`queued`), filled, or in
readFrame's hands (`taken`); `memory` is what the driver wrote into it, `frame` the copy that is
shown. An exception goes to `unwind` or, inside the constructor, to `capture failed`.

## 5. The runs

Every run checks deadlock unless the system it models may stop (a stopped stream, a stopped
monitor, a daemon that is gone, and the bounds on chunks and plugs end a behaviour there).

| run | what it shows | bounds |
|---|---|---|
| `stream_reads` | with the card unplugged, submissions refused and stop() giving up: losses flagged within a ring, only losses flagged, no shared buffer, no read dropped but those the host refused, nothing submitted behind the cancellations, stop() returns and is final unless it gave up, the ring implements `ChunkQueue`, the inductive invariant `IndInv` holds | pool 2, ring 3, 2 probe retries, 6 chunks |
| `stream_destroy` | violation: stop() returns while the probe's callback still runs | pool 1, 3 chunks |
| `pipeline_loops` | both drivers: window and card tell the reason, the gate opens late and closes soon, silence keeps pace, losses are told, audio comes back | turns of 1, 3, 9 units against 3 to 7 for the intervals; ramp of 3 frames, packets of 1 and 2; 4 pieces of silence |
| `pipeline_resume` | violation: audio resumes at the old gain behind silence | ramp of 3, the daemon's loop, no replugging |
| `pipewire_ring` | the ring refines `ByteFifo`, latency, whole frames, resuming | 8 bytes, indices modulo 32, frames of 2 bytes, requests of 0, 2 and 5 bytes |
| `status_poll` | a whole session's commands: board, format and input state are read from their own replies, stop is not missed and prompt, a broken poll un-mutes | 12 registers of lengths 1 to 3, 5 polled; 2 failures; at most 1 request left over, 3 unanswered |
| `daemon_cards` | two cards come and go: references counted, the session ends for its card, stop honoured while no mute card is being replayed to, card captured | 2 addresses, 3 plugs, 2 attempts; opening, the card and the stream may fail |
| `daemon_failed` | violation: a plugged-in card is no longer captured | 1 plug |
| `frames_parsed` | frames come out whole, from their first pixel or from a seam in their header; packets whole or not at all; whatever was received whole comes out | 7 streams of up to 5 units, frames of 8 bytes, tolerance 3; chunks of 0, 1, 8, 60 bytes; 2 losses of 5 or 27 |
| `frames_seam` | violation: the tail of a SAV's header is shown as the first pixel | 1 stream; chunks of 1, 3, 8 bytes; no loss, `_carry` written |
| `frames_reordered` | no frame is shown that was not sent, a steady order is followed, no verdict comes too late | 5 frames of 71 pixels, buffers of 26; 18 orders of delivery; chunks of 39 and 78 bytes; 1 loss of 26 or 34 |
| `viewer_capture` | PipeWire's callback finds an open output, all is released, no torn frame, the picture goes on | 3 buffers, up to 2 options |

Why these bounds are enough for the cases that matter:

- *Stream.* Two transfers are the fewest that complete while another is in flight, two share the
  region of the probe and of the first. Six chunks overflow a ring of 3 slots and go round it
  again with losses before, inside and behind it. What holds for other sizes is proved (section 7).
- *Pipeline.* `SILENCE_CHUNK` 3, `SILENCE_MAX` 7 and a frame of 5/2 units (two in a `Second` of 5) do
  not divide each other, so that what the code rounds off differs from turn to turn; four pieces of
  silence are enough for a remainder that is dropped to show; a turn of 9 is longer than
  every interval, as a bootstrap in the daemon's loop is. Two reasons besides `Signal` suffice for
  "the reason changes"; the ramp is longer than a packet, so it is cut anywhere,
  and one step of three is told from half of the gain.
- *PipeWire ring.* Indices wrap after four rounds of the ring, the ring after two packets of the
  larger size; the state space is complete, without a bound on how long the threads run.
- *Status.* The lengths follow the code's reads: single bytes, blocks of two lengths, then single
  bytes, which is what makes late replies show; the board's state is a read of one byte and one of
  two. `PublishedFromOwnReplies`, `BoardReadFromItself` and `FormatBitsKept` rest on what the lengths
  tell apart, which is stated as assumptions of `StatusMonitor` and `DeviceSession` (section 7).
- *Daemon.* Two addresses are enough to reuse one while the other is in use; three plugs, to
  replug a card while its first arrival is still queued.
- *Parser.* Chunks of 1 byte, mixed with longer ones, cut every marker, header and packet anywhere; 8
  is a header with its marker, 60 more than any two units. The tolerance is 3, so that a frame that is
  three bytes too long is shown and one of five is not. The streams hold what the code distinguishes:
  partial, too long and divided frames, damaged SAVs and EAVs, an implausible packet, pixels with the
  beginnings of markers in them, checksums that end in 00, 00 FF and 00 FF FF, samples that spell
  markers. One stream is parsed with `_carry` as the constructor leaves it.
- *Reorderer.* A frame is more than three buffers long and begins in the second half of a pair; the order
  changes within a frame or at a SAV, twice at most, in both directions. `Settling` is 2 SAVs,
  which is what the two agreeing verdicts of the code take, and the run fails with 1.
- *Viewer.* Three buffers are lent, filled and read at once; two options are enough for one that
  changes what another did.

Names for the bounds: `MaxChunks`, `LoopTimes`, `PacketFrames`, `PacketSizes`, `Requests`,
`Devices`, `MaxPlugged`, `MaxPlugs`, `MaxAsked`, `Many`, `Leftovers`, `Streams`, `Deliveries`,
`ChunkSizes`, `Losses`, `MaxLosses`, `Memories`, `Arguments`. `Lengths`, `Plan` and `Recording` are
short forms of the code's tables. All other constants are constants of the code, made small.

## 6. Fairness

- `CaptureStream!FairSpec`: a callback that has begun runs to its end (the event thread is
  scheduled, and holds no lock it waits for); libusb completes a cancelled transfer, and one whose
  device is gone; the owner that waits in stop() is woken. Nothing makes the device send data, so
  no liveness rests on that.
- `CapturePipeline!FairSpec`: the loop goes round. `Fed` is fair because deliver() returns when it
  finds the ring empty and the loop outruns the card.
- `PipeWireRing!FairSpec`: the card keeps offering audio and the graph keeps pulling; without
  either nothing is heard. `Resumes` says what happens when both do.
- `DeviceSession!FairSession`: once the session is bootstrapped, its threads are scheduled and every
  transfer returns, at the latest after `COMMAND_TIMEOUT_MS`. The owner need not stop, and the device
  need not answer. Nothing is assumed of a session that is still being bootstrapped, because
  `replay` waits for replies without a time-out.
- `CaptureDaemon!FairSpec`: both threads are scheduled and each step of theirs returns, but for a
  replay on a card that is plugged in and does not answer (`Unanswered`), of which nothing is assumed;
  the transfers of a card that is gone fail. Users need not plug or unplug, nor ask it to stop.
  `StopHonoured` is therefore conditional: if no such replay goes on for good, stop is heard.
- `Viewer!FairSpec`: the main thread goes on, but nobody need close the window; the callback
  returns; lgx2d writes whole frames again and again as long as it finds a buffer (strong fairness:
  a buffer may be taken away from it for a moment).
- `FramesParsed` and `ReorderedFrames` need none: what they promise is a matter of the bytes fed.

## 7. What is proved

Each proof module is beside the module it is about. The theorems hold for every value of the
constants that satisfies the module's assumptions, with no bound on the length of a behaviour. The
assumptions are stated, and justified, where the constants are declared: `BridgeAssumption`,
`LengthsAssumption`, `LeftoversAssumption`, `PlanAssumption`, `BoardAssumption` and
`RecordingAssumption` for the session, `DeliveriesAssumption` for the reorderer,
`FrameBuilderAssumption`, `StreamsAssumption`, `MemoriesAssumption`, `SpansAssumption`,
`UnitsAssumption` and `MarkersAssumption` for the parser and its streams, one per module elsewhere;
the runs evaluate them.

| module | theorem | statement |
|---|---|---|
| `CaptureStreamProofs` | `TypeCorrect`, `Invariance` | `[]TypeOK`; `[]IndInv` |
| | `GapsReported` | no loss is forgotten: inside the ring, behind it, or flagged within one ring |
| | `GapsReal` | until a slot is overwritten, no flag without a loss |
| | `ChunksOrdered` | the device's order, nothing twice |
| | `ExclusiveBuffers` | no two users of a buffer region |
| | `KeepsReading` | while a stream runs without an error, no path through its callbacks has dropped a read that the host did not refuse |
| | `StopIsFinal` | once stop() has returned by itself, nothing is in flight |
| | `NothingSubmittedAfterStop` | from stop() on no step submits a transfer |
| | `RingImplementsQueue` | `Spec => ImplementsQueue`, the refinement of `ChunkQueue` |
| `CapturePipelineProofs` | `TypeCorrect`, `Invariance` | `[]TypeOK`; `[]PipelineInv` |
| | `GateOpensLate`, `GateClosesSoon` | the gate opens only for a settled signal, and lets less than a ramp through once closed |
| | `WindowTellsReason`, `ConsumersSeeReason` | window and card show why there is no signal |
| | `SilencePaced` | however many pieces it comes in, silence is behind the time it stands for by less than `SILENCE_CHUNK`, ahead by no more than what is rounded, and never bursts; stalled turns aside |
| | `ParsersHearOfLosses` | no chunk is parsed unflagged behind one that was skipped or lost |
| `PipeWireRingProofs` | `Invariance`, `NeverOverfull`, `NeverTorn` | `[]RingInv`; the fill stays within the ring; what is read is what was written there |
| | `LatencyIsBounded`, `ChannelsNeverSwap` | at most MAX_BYTES before the reader; the read index on a frame |
| | `RingImplementsFifo` | `Spec => ImplementsFifo`, the refinement of `ByteFifo` |
| `DeviceSessionProofs` | `WokenToStop` | the poll thread does not sleep through stop() |
| | `OwnStatus` | no status is published from another register's reply, however late replies come |
| | `OwnBoard` | the board is recognised by its own registers only |
| | `FormatKept` | one late reply alone never changes the output format bits |
| `FramesParsedProofs` | `ParserInvariant` | `[]ParserInv`: what is shown, assembled and carried is where the stream has it |
| | `FramesAreWhole` | a frame that is shown was sent, byte for byte from its first pixel or from a seam in its header, in order and once |
| | `HeardInvariant` | `[]HeardInv`: which packets were handed out, which one is being read, and which are still to come |
| | `PacketsAreWhole` | an audio packet that is played was sent, sample for sample, in order and once, unless the parser was fooled |
| `ReorderedFramesProofs` | `VerdictsFirst` | no byte is passed on before the verdict on every SAV in front of it; what is held back is bounded |
| `CaptureDaemonProofs` | `Invariance`, `ReferencesBalanced` | `[]RefsInv`; every reference to a device is accounted for |
| | `SessionEndsForItsCard` | a session is ended only when its own card is gone, though addresses are reused |
| `ViewerProofs` | `CallbackFindsOutput` | PipeWire's callback finds an initialised output |
| | `EverythingReleased` | nothing acquired is left when viewDaemonOutput returns |
| | `NoBufferLost` | what is mapped is with the driver or about to be handed back |
| | `ShownWhole` | no frame is shown that was written in part or over |

*The stream.* `IndInv == TypeOK /\ KernelInv /\ QueueInv`. The properties alone are not
inductive. That no loss is forgotten at the next `Enqueue` needs to know what the callback in
progress has in hand: `NeverAhead` (its chunk is the last the device sent, and newer than
everything queued) and `NoFalseGapAhead` (it is going to be flagged only if something was lost).
That a resubmission does not hit a buffer in use needs `TransfersTracked` and `ProbeFirst`: the
probe, which borrows the pool's first region, is alone in flight until it is done. `Lifecycle` ties
the owner's step to the rest, and gives `StopIsFinal` that nothing is submitted any more. The queue
half is about `Queued`, the sequence the indices stand for: `ModOnce` and `SlotOfEntry` reduce the
remainder to one wrap, `QueuedDeliver` and `QueuedEnqueue` say what the two operations do to the
sequence, and the refinement uses the same lemmas. `stream_reads` checks `IndInv` itself, so the
run and the theorem speak of one formula. `KeepsReading` is about what the callbacks do of their own
accord: a completion, whatever its status, ends in a resubmission, in the queueing of the whole pool, in
an error or in `refused`. That a refusal for another reason than `NO_DEVICE` is no error is in section 8.

*The pipeline.* `PipelineInv` has one part for each concern. `GateInv`: the gate has not timed the
signal for longer than it has been there. `MuteInv`: while the gate is closed, the frames heard since
and the rest of the ramp make up at most one ramp. `ImageInv`: without a signal the window was
blanked for the current reason, and the card says the same or is due. `PaceInv`: silence is sent
just while there is no signal, and what the code owes by its own account and what it owes by the
clock, `debt`, differ by at most what was rounded off the pieces sent since (`Allowance`). `LossInv`: a loss the parsers have not been told of waits in one of
the two flags. Each is inductive given `TypeOK`, whatever the driver's order.

*The PipeWire ring.* Each thread knows the other's index as it was; `IndexInv` says that meanwhile
the other has only made room, or only added. `BytesInv` says of each byte between the indices which
one it is. `Held`, the difference of two indices that wrap, is reduced by `Periodic`, `ModSum`,
`ModMultiple` and `ModDistinct`: two different bytes in the ring have different slots, because the
ring's size divides the modulus. `Contents` is the sequence of bytes held, the refinement mapping.
The proof needs the assumption that the ring is smaller than half the modulus, which the code's
sizes satisfy (the indices have 32 bits), since a fill is told from its negative by its sign.

*The session.* `LockInv`: the poll thread holds the mutex from its look at the flag to its sleep, so
once the owner, having stored the flag, has had the lock, the thread sleeps already or will see it.

The other three theorems are about `Queue`, the replies that wait followed by the requests that have
none yet: `AskQueue`, `TakeQueue`, `AnswerQueue` and `GiveUpQueue` say what the bridge's steps do to it.
`Shifted` is the heart of `OwnStatus`: in a poll the newest requests are the poll's own, a fixed number
of older ones (the shift) is in front of them, and every register read so far had the length of the one
that was asked for as many requests before. A poll that came to its end with a shift would need all the
registers to have such lengths, which `LengthsAssumption` excludes: the card's registers, eight of one
byte, then 8, 6 and 12, then one, bear a shift of up to ten. A poll
that is given up starts again at the first register, with whatever shift there is by then.
`BoardBound` is what `OwnBoard` needs of the queue before each of the board's two reads. Only the oldest
reply can have the length of the expander's (`BoardAssumption`), and the first read takes it away.
`ReplayBound` and `ColourBound` do the same for `FormatKept`: with a single late reply every read of the
recording is at most one reply behind, so that when the recording is over a second reply is late
too or the queue holds no more than the recording's own last request, whose reply has another length
(`RecordingAssumption`, which both recordings satisfy: all of their requests but the GC551's last are
followed by the read). That `Many` is at least two keeps the history from forgetting the second.

*The parser.* `Traced(frames, w, g, bound)` says where in the stream `w` the frames shown are from:
each begins behind an opening marker's header or at a seam, ends in front of a closing one about a
frame later, and agrees with the stream between; they are from different markers, in the stream's
order, all in front of `bound`. `g` has the places where one may begin (`starts`) and the bytes that an
uninitialised `_carry` stood in for (`marred`), both as the stream was cut so far. `Behind` is what holds of the
parser between two chunks, whatever was lost; `Aligned` is what holds besides while nothing was lost
since: the carried bytes are the last that came, and in the state `VideoData` the frame being
assembled (`OpenSpan`) is what came since an opening marker behind all frames shown. A loss takes
`Aligned` away, and resetForGap brings it back with nothing carried (`GapScan`). Within a chunk
`ScanInv` relates the work buffer to the stream from `base` on; there is a lemma for each operator of
`FrameBuilder`, and `ScannedScan` carries them through the loop.

Three details carry the proof. Of the beginning of a marker only the length is carried, and that is
enough because what `_carry` holds begins like a marker (`MemoryShape`, from `MemoriesAssumption`: it
was copied from one, or never written). Video that is flushed at the end of a chunk stops in front of
what is carried, and what is carried may be the end of the SAV's own header. Then nothing is flushed, and the
frame begins at the seam (`CarriedPrefix`): its first one to three bytes are the header's. And the
bound in front of which the frames shown ended (`Limit`) stays four bytes behind the position, so that
even a seam in the header of the next SAV is behind it. `ParserInvariant` takes nothing of
what the card sends. From it `FramesAreWhole` follows with `SpansAssumption`: two such markers enclose a frame of
VIDEO_FRAME_BYTES, with up to three bytes of its header, so that neither pixels nor damaged frames look
like one. A card that leaves
out a few bytes of a frame would break the assumption, and the code would show that span, padded with
an older frame: that is what its tolerance is for.

Audio is harder, because samples may spell markers and a frame's pixels may not. `HeardInv` therefore
has to know that the parser is never between the markers of a packet's payload: `AudioIn` says that it
either reads packet `k` (`Taking`: it has as many of its samples as it is bytes behind its header, and
will take the rest), or that every packet of `Guarded` is still in front of it or was passed as a whole
(`Spared`). `Guarded` are the packets that must not be missed: those that spell markers, since
inside them the argument ends, and those that began behind the last loss. A marker that is met outside of them
(`NoPacketHere`, `PacketThere`, `SpelledThere`) is where `MarkersAssumption` says it is. At the end of
a chunk `PacketCarried` shows that a packet whose marker has begun is not passed: what is carried begins
where the packet does. Packets that the parser does pass may be passed again by up to three bytes, since
what ends a payload may begin a marker and is carried; hence the two bounds in `Spared`.

Two things came out of the attempt. `UnitsAssumption` and `MarkersAssumption` were silent premises of the
property: that packets are as short as the driver takes them to be, and that pixels and fillers spell no
markers. And `PacketsWhole` was wrong as it stood for streams that are parsed while `_carry` has never been
written: TLC found a packet's marker cut by a chunk and lost in that array, after which the payload was
parsed and the marker spelled in it taken for a packet. Hence `fooled`, which says just when the
parser began to read inside such a packet, behind a loss or because of that array. `MarkersAssumption` also
says that a header is not cut off by the next unit: the parser reads eight or nine bytes there, whatever they
are.

*The reorderer.* `Settled` is the invariant between two chunks: `PipeWhole`, the pipe holds the bytes
from `pipeStart` on, and `SavsInOrder`, every SAV that was found and not applied is behind what was
passed on, in the stream's order, the pending one last. `ScannedInOrder` and `EmittedInOrder` carry it
through the two loops. They are recursive functions whose domain bounds the number of steps, so the
proof also shows that the bound is reached only when there is nothing more to do: a step of `emit`
either passes bytes on or takes an observation, and `SavsLeft` with the distance to the limit
decreases. The prover cannot use the library's induction theorems, which take a predicate;
`FramesParsedProofs` and `ReorderedFramesProofs` both begin instead with `LeastNumber` (every set of
naturals that is not empty has a least element, from the well-foundedness of `<`) and `UpToBound`,
induction for a *set*, and the existence of each recursive function is proved by it (`EmitRecursion`,
`ScanRecursion`, `FlattenRecursion`).

*The daemon.* `RefsCounted` is about the cardinality of sets; `Balanced` says the same with `Count`,
how often a device is in the event queue, for which `CountAppend` and `CountTail` are proved.
`HandInv` is what the main thread has in hand at each of its steps. That a session ends for its own
card needs `LeftInv` as well: while the leaving of a device is on its way, the device is referenced
or its message not yet told, so that no other card is given its address.

*The viewer.* `AudioInv` and `ReleaseInv` say what has been acquired at each step. `BufferInv`: the
buffers that are mapped are those lent. `OwnInv`: each is in one hand. `FrameInv`: a buffer that is
said to hold a whole frame does, since nobody has written to it since the driver filled it.

*Only model-checked.* All liveness (`StopTerminates`, `Resumes`, `GateOpens`, `BrokenPollUnmutes`,
`StopHonoured`, `CardCaptured`, `KeepsShowing`): the prover has no fairness. That what was received whole is
handed out (`ReceivedIsHandedOut`); for packets `HeardInv` has the substance of it. What parser and reorderer
together make of a stream (`OnlyTrueFrames` and `SteadyFramesShown` of `ReorderedFrames`): these are about
particular streams and orders of delivery, and follow only from what each stream holds.

## 8. Where the code and its documentation disagree

Each is the counterexample of a run; the quotes are in `PROJECT.json`.

- **`stream_destroy`.** discardTransfer in the successful probe's callback wakes stop(), whose
  caller may free the stream before the callback runs queueAllFrameReads.
- **`pipeline_resume`.** While there is no signal no packets are parsed, so the ramp stays where it
  was; when the signal is back the first packet starts one step below that, at nearly full volume
  behind silence, and ramps down. `ResumesSmoothly` looks at sound behind silence only.
- **`daemon_failed`.** A stream that fails for another reason than unplugging ends the session; the
  daemon then waits for a card that is already there.
- **`frames_seam`.** A chunk that ends right behind a SAV whose checksum is 00 has that byte carried
  as the beginning of a marker (`FrameBuilder.cpp` 217); the next chunk flushes it in front of the first
  pixel (180). The frame is one byte too long, within tolerance, and shown shifted. Line 179 says
  that carried bytes are unflushed data.

### Met, and not kept as runs

- `lgxinterfaces.h` 48-50 promises that a chunk before which bytes were lost is flagged. On overflow
  the *oldest* chunk is lost, but the flag goes to the *newest* (`CaptureStream.cpp` 190-202). What
  holds, and is proved, is that the loss is reported within one ring (`LossReportedWithinRing`).
- With nobody pulling, the PipeWire ring keeps the oldest audio; trimming to the newest of *that* is
  not trimming the stale backlog (`PipeWireAudioOutput.cpp` 83-85, 115-118).
- A request larger than TARGET_BYTES would underrun each time (`PipeWireAudioOutput.cpp` 132).
- The parsers survive a session, and the next one's first chunk is not flagged when it was aligned
  by the probe (`lgx2d/CaptureDaemon.cpp` 102).
- A chunk that ends in what may be the first one to three bytes of a marker: the carried length is
  set and the bytes are not copied (`FrameBuilder.cpp` 217-219), although `FrameBuilder.h` 13 says
  that markers which straddle chunks are reassembled. They are, once `_carry` happens to hold those
  bytes, which any marker carried whole leaves there; before that a frame may have wrong bytes,
  or be missed if they belong to its SAV or EAV (`ReceivedIsHandedOut` excepts just these, with
  `MarkersIntact`).
- At the loss of the signal a tick sends silence straight behind full gain (`CapturePipeline.cpp` 28,
  76), although `AudioGate.h` 13-14 promises that muting does not click either.
- `FrameBuilder.h` 32-35 reads as if a frame's c0 had to be its b0; the code counts a mismatch and
  takes the frame (`FrameBuilder.cpp` 145-146).
- The half-size branch of `SdlVideoOutput.cpp` 160-162 shows the upper half of the image only.
- Submissions refused for another reason than `NO_DEVICE` disappear silently (`CaptureStream.cpp`
  214-217, 232-237), so that the stream may stop reading while `failed()` is false, which
  `CaptureStream.h` 44 has tell whether it does.
- A late reply may be taken for another single register's, though no complete poll, and no board
  state, is built on one.
- `replay` has no time-out and does not look at what a transfer returned (`CommandBridge.cpp` 122,
  129), so that it blocks on a card that does not answer; a daemon that is asked to stop meanwhile
  does not, until the card is unplugged (`lgx2d/CaptureDaemon.h` 28).
- An event queued while the daemon is destroyed keeps its reference; a second card that was plugged
  in all the time is not captured when the first one leaves.
- Audio that spells a SAV in every packet could keep the reorderer from switching from normal to
  swapped order; and a loss into such a packet together with a change of order may let a torn frame
  through, which is why `OnlyTrueFrames` excepts a parser that was `fooled`.

## 9. What the models leave out

- *Data.* Samples (but their gain), register values, messages, statistics and the debugging aids
  (`dumpChunk`, the reads of the front end's registers). Bytes matter in the parser only, where what a
  header says is told by its first byte and not by arithmetic on its bytes. `Garbage`, what a byte of a
  `_carry` that was never written is, is a wrong value that is neither 00 nor FF: a parser that takes it
  for a marker's beginning by chance is left out.
- *Stream.* A completion of length 0 with status COMPLETED loses nothing. After a stop() that gave
  up, what libusb does with freed buffers is undefined; the model goes on as if they were still
  there. `_droppedChunks`, `_transferErrors` and the probe's count are unbounded naturals.
- *Pipeline.* The output's own clock. `showNoSignal` and the card push are taken as
  what the window and the V4L2 consumer then see; drawing is not modelled. Discarding while there
  is no session is possible in the model and not in the code, with no effect on the properties.
- *Parser.* Frame and desync counters. Losses are flagged at once here; that the stream's flag may
  come up to a ring later is `CaptureStream`'s result, and what the parser then makes of the bytes
  in between is bounded by its tolerance: `OnlyTrueFrames` is checked with one of a whole buffer.
- *PipeWire.* Setting up and tearing down the daemon's stream and its loop.
- *Status and bootstrap.* The device answers the requests it answers in order. The values of the
  registers, and their decoding (`SignalStatus`): a poll that succeeds publishes any of the states.
  Debug front-end reads and reportFrontEnd are skipped.
- *Session.* The order inside `DeviceSession::stop`: its parts' promises are checked one by one.
- *Daemon.* One event queue in libusb, in order; enumeration at `watchDevices` reports every device
  libusb knows, in any order. Members destroyed before `_context` are taken to be harmless to a
  late `queueEvent`, which in the code is undefined behaviour.
- *Viewer.* A `QBUF` that fails (`V4LCaptureSource.cpp` 124; its result is ignored, and the buffer would be
  lost to the driver). SDL's textures, scaling and events; logging and scaling options; what is in an audio
  buffer. After an exception the outputs stay open and the process ends.
- *Parts not modelled.* SignalStatus, null and fake parts, loggers and error sinks, the files of
  other platforms, libao and the tools: pure functions, or calls to libraries and the system,
  without state whose interleavings matter.
