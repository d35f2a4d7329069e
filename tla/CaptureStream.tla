--------------------------- MODULE CaptureStream ---------------------------
(***************************************************************************)
(* The video/audio stream on bulk IN 0x83 (liblgx-usb, CaptureStream.cpp). *)
(*                                                                         *)
(* Two threads.  The EVENT thread (UsbContext's libusb loop) runs the      *)
(* completion callbacks, one at a time: it copies a completed chunk into a *)
(* ring of RingSlots slots and resubmits the transfer.  The OWNER (the     *)
(* thread that runs the viewer's or the daemon's loop) starts the stream,  *)
(* takes chunks out with deliver() or drops them with discard(), stops the *)
(* stream and destroys it.  Every critical section of _queueMutex or of    *)
(* _transfersMutex is one action; a callback that takes several of them is *)
(* one action for each, so the owner runs in between.                      *)
(*                                                                         *)
(* Data is abstracted to the number of the chunk in the device's stream:   *)
(* chunk k+1 follows chunk k, and a number that no read returns is a loss. *)
(* dumpChunk (a debugging aid) and the wording of messages are left out.   *)
(***************************************************************************)
EXTENDS Integers, Sequences

CONSTANTS
  PoolSize,       \* TRANSFER_POOL_SIZE
  RingSlots,      \* RING_SLOTS
  MaxProbe,       \* MAX_PROBE_ATTEMPTS
  SubmitMayFail,  \* libusb_submit_transfer may fail while the device is there
  MayTimeOut,     \* STOP_TIMEOUT may pass before the cancelled transfers end
  MaxChunks       \* bound: chunks the device sends in a behaviour

ASSUME ConstantsAssumption ==
  /\ SubmitMayFail \in BOOLEAN /\ MayTimeOut \in BOOLEAN
  /\ PoolSize \in Nat \ {0}
  /\ RingSlots \in Nat \ {0}
  /\ MaxProbe \in Nat
  /\ MaxChunks \in Nat \ {0}

VARIABLES
  owner,         \* what the owner thread is doing with the stream
  attached,      \* the device is plugged in
  shuttingDown,  \* _shuttingDown
  inflight,      \* transfers the kernel holds, in submission order
  transfers,     \* _transfers: what stop() cancels and waits for
  cb,            \* the completion callback in progress, one step at a time
  ring,          \* _ring
  ringWrite,     \* _ringWrite
  ringCount,     \* _ringCount
  gapPending,    \* _gapPending
  hasError,      \* _hasError
  probeAttempts, \* _probeAttempts
  dropped,       \* _droppedChunks
  errors,        \* _transferErrors
  produced,      \* number of the last chunk the device sent (or lost)
  refused,       \* history: transfers dropped because the host refused them, the device being there
  upTo           \* history: number of the chunk the consumer continues from

kernel    == <<inflight, transfers, refused>>
queue     == <<ring, ringWrite, ringCount, gapPending, dropped>>
consumer  == <<owner, upTo>>
vars == <<owner, attached, shuttingDown, inflight, transfers, cb, ring, ringWrite,
          ringCount, gapPending, hasError, probeAttempts, dropped, errors, produced, refused,
          upTo>>

Probe     == 0                          \* the alignment probe's transfer
Pool      == 1 .. PoolSize              \* the transfers of queueAllFrameReads
Transfers == {Probe} \cup Pool
Slots     == 0 .. RingSlots - 1
Numbers   == 0 .. MaxChunks             \* of chunks; 0 is before the first
OwnerSteps == {"new", "starting", "running", "delivering", "stopping", "stopped", "gaveUp", "gone"}
Steps      == {"idle", "enqueue", "markGap", "submit", "discard", "queueAll"}
Callbacks  == [at : Steps, transfer : Transfers, chunk : Numbers, gapped : BOOLEAN]
Entries    == [chunk : Numbers, gapped : BOOLEAN]

Idle == [at |-> "idle", transfer |-> Probe, chunk |-> 0, gapped |-> FALSE]

\* The part of _frameBuffer a transfer reads into: the probe borrows the first one.
Region(t) == IF t = Probe THEN 1 ELSE t

\* Every order-preserving outcome of submitting the whole pool, of which some may be refused.
PoolSubmissions ==
  { q \in UNION { [1 .. m -> Pool] : m \in 0 .. PoolSize } :
      \A i, j \in DOMAIN q : i < j => q[i] < q[j] }

\* What the kernel accepts: all, none once unplugged, and any part if submissions may fail.
Accepted(q) ==
  /\ attached => SubmitMayFail \/ Len(q) = PoolSize
  /\ ~attached => q = << >>

Init ==
  /\ owner = "new"
  /\ attached = TRUE
  /\ shuttingDown = FALSE
  /\ inflight = << >> /\ transfers = {} /\ refused = {}
  /\ cb = Idle
  /\ ring = [s \in Slots |-> [chunk |-> 0, gapped |-> FALSE]]
  /\ ringWrite = 0 /\ ringCount = 0 /\ gapPending = FALSE
  /\ hasError = FALSE /\ probeAttempts = 0 /\ dropped = 0 /\ errors = 0
  /\ produced = 0 /\ upTo = 0

-----------------------------------------------------------------------------
(* The owner.                                                              *)

\* A submission that fails says so only when the device is gone (addTransferLocked,
\* submitTransfer); the transfer is freed either way.
Refuse(ts) ==
  /\ hasError' = (hasError \/ (ts # {} /\ ~attached))
  /\ refused' = IF attached THEN refused \cup ts ELSE refused

\* start(true), after a fresh bootstrap: submit the alignment probe.
StartAligned ==
  /\ owner = "new"
  /\ \/ /\ attached
        /\ inflight' = <<Probe>> /\ transfers' = {Probe}
        /\ UNCHANGED <<refused, hasError>>
     \/ /\ ~attached \/ SubmitMayFail
        /\ Refuse({Probe})
        /\ UNCHANGED <<inflight, transfers>>
  /\ owner' = "running"
  /\ UNCHANGED <<attached, shuttingDown, cb, queue, probeAttempts, errors, produced, upTo>>

\* start(false), first critical section: markGap.  The device is in the middle of its stream, so
\* what comes before the first read is lost.
StartMidStream ==
  /\ owner = "new"
  /\ produced' = 1
  /\ gapPending' = TRUE
  /\ owner' = "starting"
  /\ UNCHANGED <<attached, shuttingDown, kernel, cb, ring, ringWrite, ringCount, hasError,
                 probeAttempts, dropped, errors, upTo>>

\* queueAllFrameReads, on the owner's thread or at the end of a successful probe.
SubmitPool ==
  IF shuttingDown
  THEN UNCHANGED <<kernel, hasError>>
  ELSE \E q \in PoolSubmissions :
         /\ Accepted(q)
         /\ inflight' = inflight \o q
         /\ transfers' = transfers \cup { q[i] : i \in DOMAIN q }
         /\ Refuse(Pool \ { q[i] : i \in DOMAIN q })

StartReads ==
  /\ owner = "starting"
  /\ SubmitPool
  /\ owner' = "running"
  /\ UNCHANGED <<attached, shuttingDown, cb, queue, probeAttempts, errors, produced, upTo>>

ReadIndex == (ringWrite - ringCount + RingSlots) % RingSlots

\* One turn of deliver()'s loop: take the oldest chunk and hand it to the callback.
Deliver ==
  /\ owner \in {"running", "delivering"}
  /\ ringCount > 0
  /\ upTo' = ring[ReadIndex].chunk
  /\ ringCount' = ringCount - 1
  /\ owner' = "delivering"
  /\ UNCHANGED <<attached, shuttingDown, kernel, cb, ring, ringWrite, gapPending, hasError,
                 probeAttempts, dropped, errors, produced>>

\* deliver() returns once it finds the ring empty.
DeliverDone ==
  /\ owner = "delivering" /\ ringCount = 0
  /\ owner' = "running"
  /\ UNCHANGED <<attached, shuttingDown, kernel, cb, queue, hasError, probeAttempts, errors,
                 produced, upTo>>

\* The critical section of discard() behind its early return (alone, a mutant: no early return).
DropQueued ==
  /\ owner = "running"
  /\ ringCount' = 0
  /\ gapPending' = TRUE
  /\ UNCHANGED <<consumer, attached, shuttingDown, kernel, cb, ring, ringWrite, hasError,
                 probeAttempts, dropped, errors, produced>>

Discard == ringCount # 0 /\ DropQueued

\* stop(), up to the wait.  The cancellations are what enables Cancelled below.
Stop ==
  /\ owner = "running"
  /\ shuttingDown' = TRUE
  /\ owner' = "stopping"
  /\ UNCHANGED <<attached, kernel, cb, queue, hasError, probeAttempts, errors, produced, upTo>>

\* The end of stop() (alone, a mutant: no wait for the transfers).
Stopped ==
  /\ owner = "stopping"
  /\ owner' = "stopped"
  /\ UNCHANGED <<attached, shuttingDown, kernel, cb, queue, hasError, probeAttempts, errors,
                 produced, upTo>>

\* _transfersDrained.wait_for: the list is empty, or STOP_TIMEOUT has passed.
StopReturns == transfers = {} /\ Stopped

StopTimesOut ==
  /\ MayTimeOut
  /\ owner = "stopping" /\ transfers # {}
  /\ owner' = "gaveUp"
  /\ UNCHANGED <<attached, shuttingDown, kernel, cb, queue, hasError, probeAttempts, errors,
                 produced, upTo>>

\* ~CaptureStream: stop() once more (nothing left to wait for, or another time-out), then free.
Destroy ==
  /\ owner = "stopped" \/ (owner = "gaveUp" /\ (MayTimeOut \/ transfers = {}))
  /\ owner' = "gone"
  /\ UNCHANGED <<attached, shuttingDown, kernel, cb, queue, hasError, probeAttempts, errors,
                 produced, upTo>>

-----------------------------------------------------------------------------
(* The event thread: completions, oldest submission first.                 *)

Completing(t) ==
  /\ cb.at = "idle"
  /\ inflight # << >> /\ t = Head(inflight)
  /\ inflight' = Tail(inflight)

At(t, step, chunk, gapped) == [at |-> step, transfer |-> t, chunk |-> chunk, gapped |-> gapped]

\* enqueueChunk reads _shuttingDown before it takes the queue's lock.
EnqueueStep(next) == IF shuttingDown THEN next ELSE "enqueue"

\* Mutant: back to the kernel before the chunk is copied out.
PoolCompletedResubmitsFirst ==
  \E t \in Pool :
    /\ attached /\ cb.at = "idle" /\ inflight # << >> /\ t = Head(inflight)
    /\ produced < MaxChunks
    /\ inflight' = Append(Tail(inflight), t)
    /\ produced' = produced + 1
    /\ cb' = At(t, EnqueueStep("submit"), produced + 1, FALSE)
    /\ UNCHANGED <<consumer, attached, shuttingDown, transfers, refused, queue, hasError,
                   probeAttempts, errors>>

\* LIBUSB_TRANSFER_COMPLETED on a pool transfer.  A short read has lost what precedes it.
PoolCompleted ==
  \E t \in Pool, short \in BOOLEAN :
    LET n == produced + (IF short THEN 2 ELSE 1) IN
    /\ attached /\ Completing(t)
    /\ n <= MaxChunks
    /\ produced' = n
    /\ cb' = At(t, EnqueueStep("submit"), n, short)
    /\ UNCHANGED <<consumer, attached, shuttingDown, transfers, refused, queue, hasError,
                   probeAttempts, errors>>

\* A completion without data, or a cancelled one: straight to submitTransfer.
PoolEmpty ==
  \E t \in Pool :
    /\ attached /\ Completing(t)
    /\ cb' = At(t, "submit", 0, FALSE)
    /\ UNCHANGED <<consumer, attached, shuttingDown, transfers, refused, queue, hasError,
                   probeAttempts, errors, produced>>

Cancelled ==
  \E t \in Transfers :
    /\ shuttingDown /\ Completing(t)
    /\ cb' = At(t, "submit", 0, FALSE)
    /\ UNCHANGED <<consumer, attached, shuttingDown, transfers, refused, queue, hasError,
                   probeAttempts, errors, produced>>

\* Any other status of a pool transfer: its chunk is lost.
PoolFailed ==
  \E t \in Pool :
    /\ attached /\ Completing(t)
    /\ produced < MaxChunks
    /\ produced' = produced + 1
    /\ cb' = At(t, "markGap", 0, FALSE)
    /\ UNCHANGED <<consumer, attached, shuttingDown, transfers, refused, queue, hasError,
                   probeAttempts, errors>>

\* Mutant: a disconnected transfer goes without signalError.
DisconnectedSilently ==
  \E t \in Transfers :
    /\ ~attached /\ Completing(t)
    /\ cb' = At(t, "discard", 0, FALSE)
    /\ UNCHANGED <<consumer, attached, shuttingDown, transfers, refused, queue, hasError,
                   probeAttempts, errors, produced>>

\* LIBUSB_TRANSFER_NO_DEVICE: signalError, then discardTransfer.
Disconnected ==
  \E t \in Transfers :
    /\ ~attached /\ Completing(t)
    /\ hasError' = TRUE
    /\ cb' = At(t, "discard", 0, FALSE)
    /\ UNCHANGED <<consumer, attached, shuttingDown, transfers, refused, queue, probeAttempts,
                   errors, produced>>

\* The probe read starts with a SAV marker: its chunk is the first of the stream.
ProbeFound ==
  /\ attached /\ Completing(Probe)
  /\ produced < MaxChunks
  /\ produced' = produced + 1
  /\ cb' = At(Probe, EnqueueStep("discard"), produced + 1, FALSE)
  /\ UNCHANGED <<consumer, attached, shuttingDown, transfers, refused, queue, hasError,
                 probeAttempts, errors>>

\* The probe read is something else, or failed: try again, MaxProbe times.
ProbeMissed ==
  /\ attached /\ Completing(Probe)
  /\ produced < MaxChunks
  /\ produced' = produced + 1
  /\ upTo' = produced + 1               \* the stream has not begun yet
  /\ probeAttempts' = probeAttempts + 1
  /\ LET giveUp == probeAttempts' > MaxProbe IN
     /\ hasError' = (hasError \/ giveUp)
     /\ cb' = At(Probe, IF giveUp THEN "discard" ELSE "submit", 0, FALSE)
  /\ UNCHANGED <<owner, attached, shuttingDown, transfers, refused, queue, errors>>

-----------------------------------------------------------------------------
(* The event thread: the critical sections of the callback in progress.    *)

Goto(step) == At(cb.transfer, step, cb.chunk, cb.gapped)

\* enqueueChunk under _queueMutex.  The slot at ringWrite is the oldest one when the ring is full.
Full == ringCount = RingSlots

Store(gapped, isFull) ==
  /\ cb.at = "enqueue"
  /\ ring' = [ring EXCEPT ![ringWrite] = [chunk |-> cb.chunk, gapped |-> gapped]]
  /\ gapPending' = FALSE
  /\ dropped' = IF isFull THEN dropped + 1 ELSE dropped
  /\ ringWrite' = (ringWrite + 1) % RingSlots
  /\ ringCount' = IF isFull THEN ringCount ELSE ringCount + 1
  /\ cb' = Goto(IF cb.transfer = Probe THEN "discard" ELSE "submit")
  /\ UNCHANGED <<consumer, attached, shuttingDown, kernel, hasError, probeAttempts, errors,
                 produced>>

\* Mutants: the count may pass the ring's size; an overflow is no gap.
EnqueuePastEnd == Store(Full \/ gapPending \/ cb.gapped, ringCount > RingSlots)
EnqueueNoLoss  == Store(gapPending \/ cb.gapped, Full)

Enqueue == Store(Full \/ gapPending \/ cb.gapped, Full)

\* Mutant: a transient error is counted and not marked.
MarkGapForgotten ==
  /\ cb.at = "markGap"
  /\ errors' = errors + 1
  /\ cb' = Goto("submit")
  /\ UNCHANGED <<consumer, attached, shuttingDown, kernel, queue, hasError, probeAttempts,
                 produced>>

\* A transient error: markGap, then count it.
MarkGap ==
  /\ cb.at = "markGap"
  /\ gapPending' = TRUE
  /\ errors' = errors + 1
  /\ cb' = Goto("submit")
  /\ UNCHANGED <<consumer, attached, shuttingDown, kernel, ring, ringWrite, ringCount, dropped,
                 hasError, probeAttempts, produced>>

\* submitTransfer: back to the kernel, or off the list when shutting down or refused.
Resubmit(may) ==
  /\ cb.at = "submit"
  /\ \/ /\ may /\ attached
        /\ inflight' = Append(inflight, cb.transfer)
        /\ UNCHANGED <<transfers, refused, hasError>>
     \/ /\ ~may \/ ~attached \/ SubmitMayFail
        /\ Refuse(IF may THEN {cb.transfer} ELSE {})
        /\ transfers' = transfers \ {cb.transfer}
        /\ UNCHANGED inflight
  /\ cb' = Idle
  /\ UNCHANGED <<consumer, attached, shuttingDown, queue, probeAttempts, errors, produced>>

SubmitRegardless == Resubmit(TRUE)  \* mutant: _shuttingDown is not looked at

Submit == Resubmit(~shuttingDown)

\* discardTransfer.  A probe that found the frame start goes on to queueAllFrameReads.
DiscardTransfer ==
  /\ cb.at = "discard"
  /\ transfers' = transfers \ {cb.transfer}
  /\ cb' = IF cb.chunk # 0 THEN Goto("queueAll") ELSE Idle
  /\ UNCHANGED <<consumer, attached, shuttingDown, inflight, refused, queue, hasError,
                 probeAttempts, errors, produced>>

QueueAllFrameReads ==
  /\ cb.at = "queueAll"
  /\ SubmitPool
  /\ cb' = Idle
  /\ UNCHANGED <<consumer, attached, shuttingDown, queue, probeAttempts, errors, produced>>

\* The card is unplugged.
Unplug ==
  /\ attached
  /\ attached' = FALSE
  /\ UNCHANGED <<consumer, shuttingDown, kernel, cb, queue, hasError, probeAttempts, errors,
                 produced>>

Owner ==
  \/ StartAligned \/ StartMidStream \/ StartReads
  \/ Deliver \/ DeliverDone \/ Discard
  \/ Stop \/ StopReturns \/ StopTimesOut \/ Destroy
Completion ==
  \/ PoolCompleted \/ PoolEmpty \/ PoolFailed
  \/ ProbeFound \/ ProbeMissed
  \/ Cancelled \/ Disconnected
Callback == Enqueue \/ MarkGap \/ Submit \/ DiscardTransfer \/ QueueAllFrameReads

Next == Owner \/ Completion \/ Callback \/ Unplug

Spec == Init /\ [][Next]_vars

\* A callback runs to its end, libusb completes what was cancelled or lost its device, and the
\* owner goes on with stop().  Nothing makes the device send data.
FairSpec ==
  /\ Spec
  /\ WF_vars(Callback)
  /\ WF_vars(Cancelled) /\ WF_vars(Disconnected)
  /\ WF_vars(StopReturns)

-----------------------------------------------------------------------------
TypeOK ==
  /\ owner \in OwnerSteps
  /\ attached \in BOOLEAN /\ shuttingDown \in BOOLEAN
  /\ inflight \in Seq(Transfers) /\ transfers \subseteq Transfers /\ refused \subseteq Transfers
  /\ cb \in Callbacks
  /\ ring \in [Slots -> Entries]
  /\ ringWrite \in Slots /\ ringCount \in 0 .. RingSlots
  /\ gapPending \in BOOLEAN /\ hasError \in BOOLEAN
  /\ probeAttempts \in Nat /\ dropped \in Nat /\ errors \in Nat
  /\ produced \in Numbers /\ upTo \in Numbers

\* The chunks queued, oldest first; entry i of a queue of c chunks behind write index w is in
\* slot w - c + i - 1, around the end of the ring.
SlotAt(w, c, i) == (w - c + i - 1 + RingSlots) % RingSlots
Queued == [i \in 1 .. ringCount |-> ring[SlotAt(ringWrite, ringCount, i)]]

\* The last chunk that is queued, or that the consumer has.
LastQueued == IF ringCount = 0 THEN upTo ELSE Queued[ringCount].chunk

Follows(entry, chunk) == entry.chunk = chunk + 1

\* Between two chunks that are queued one behind the other nothing is lost unless the later one
\* is flagged (CaptureStream.cpp 183-205).
GapsInsideFlagged ==
  \A i \in 2 .. ringCount : Queued[i].gapped \/ Follows(Queued[i], Queued[i - 1].chunk)

\* What was lost behind the last queued chunk will be flagged on the next one: by the pending
\* flag, or by the callback that is about to queue it or to mark the gap.
GapsBehindFlagged ==
  /\ cb.at = "enqueue" => gapPending \/ cb.gapped \/ cb.chunk = LastQueued + 1
  /\ cb.at \notin {"enqueue", "markGap"} /\ ~shuttingDown
       => gapPending \/ produced = LastQueued

\* A loss at the head that is not flagged there (the oldest chunk was overwritten) is flagged
\* later in the ring, or will be on the next chunk: it is reported late, never forgotten.
LossReportedWithinRing ==
  ringCount > 0 /\ ~Follows(Queued[1], upTo) =>
    \/ \E i \in 1 .. ringCount : Queued[i].gapped
    \/ gapPending

\* A flag costs the parser a frame, so it is raised for a real loss only: while no slot has been
\* overwritten, a flagged chunk does not follow the one before it.
NoFalseGap ==
  dropped = 0 =>
    /\ \A i \in 2 .. ringCount :
         Queued[i].gapped => ~Follows(Queued[i], Queued[i - 1].chunk)
    /\ ringCount > 0 /\ Queued[1].gapped => ~Follows(Queued[1], upTo)
    /\ gapPending => produced > LastQueued

\* Chunks stay in the order the device sent them, and none is delivered twice.
Ordered ==
  /\ \A i, j \in 1 .. ringCount : i < j => Queued[i].chunk < Queued[j].chunk
  /\ \A i \in 1 .. ringCount : upTo < Queued[i].chunk

\* Two transfers never read into the same region, and no transfer reads into the one that the
\* callback in progress still copies from.
BuffersExclusive ==
  /\ \A i, j \in DOMAIN inflight : i # j => Region(inflight[i]) # Region(inflight[j])
  /\ cb.at # "idle" /\ cb.at # "queueAll" =>
       \A i \in DOMAIN inflight : Region(inflight[i]) # Region(cb.transfer)

\* stop() knows every transfer it has to wait for, and waits for no other: _transfers is what the
\* kernel holds and what the callback in progress has not yet given back or freed.
TransfersTracked ==
  transfers = { inflight[i] : i \in DOMAIN inflight }
                \cup (IF cb.at \in {"idle", "queueAll"} THEN {} ELSE {cb.transfer})

\* When stop() returns because the list is empty, the kernel holds none of the stream's buffers.
StopLeavesNothingInFlight == owner = "stopped" => inflight = << >>

\* CaptureStream.h 81-82: a completion cannot resubmit a transfer after stop() has cancelled
\* the rest.
NoSubmitAfterStop == [][shuttingDown => Len(inflight') <= Len(inflight)]_vars

\* The stream gives up no read of its own accord: while it runs without an error and no callback
\* is in progress, the probe, or every transfer of the pool, is with the kernel or is one that
\* the host refused.  A transfer that any other path dropped, or a pool that was never queued
\* behind a successful probe, would slow the stream down or end it with nothing to see
\* (CaptureStream.cpp 212-282).
ReadsOrFailed ==
  owner \in {"running", "delivering"} /\ cb.at = "idle" /\ ~hasError =>
    LET kept == { inflight[i] : i \in DOMAIN inflight } \cup refused
    IN  Probe \in kept \/ Pool \subseteq kept

\* The stream is destroyed only when no callback is running in it.
NoCallbackAfterDestroy == owner = "gone" => cb.at = "idle"

\* The ring is a bounded queue that drops its oldest chunk (ChunkQueue), whatever the two
\* indices go through.
Queue == INSTANCE ChunkQueue
           WITH Capacity <- RingSlots, Chunks <- Numbers, entries <- Queued, pending <- gapPending
ImplementsQueue == Queue!Spec

\* stop() returns by itself, unless its time-out struck first: whatever completions race the
\* cancellations, and although submissions were refused (CaptureStream.cpp 138-159).
StopTerminates == [](owner # "gaveUp") => (owner = "stopping" ~> owner = "stopped")

-----------------------------------------------------------------------------
(* The inductive invariant: the properties above and what their proofs need. *)

\* Before start() has submitted anything the stream is as constructed; from stop() on it is
\* shutting down.
Lifecycle ==
  /\ owner \in {"new", "starting"} => inflight = << >> /\ cb.at = "idle" /\ ~shuttingDown
  /\ owner = "new" =>
       ringCount = 0 /\ upTo = 0 /\ ~gapPending /\ produced = 0
  /\ owner \in {"stopping", "stopped", "gaveUp", "gone"} => shuttingDown

\* The probe is alone in flight, and nothing is queued until it has found the frame start.
ProbeFirst ==
  /\ \A i \in DOMAIN inflight : inflight[i] = Probe =>
       Len(inflight) = 1 /\ cb.at = "idle" /\ ringCount = 0 /\ ~gapPending
  /\ cb.at # "idle" /\ cb.transfer = Probe => inflight = << >>
  /\ cb.at = "submit" /\ cb.transfer = Probe => ringCount = 0 /\ ~gapPending
  /\ cb.at = "markGap" => cb.transfer # Probe
  /\ cb.at = "queueAll" \/ (cb.at = "discard" /\ cb.chunk # 0) => cb.transfer = Probe

\* The chunk in hand is the last one the device sent, and nothing queued is newer than that.
NeverAhead ==
  /\ LastQueued <= produced
  /\ cb.at \in {"enqueue", "markGap"} => LastQueued < produced
  /\ cb.at = "enqueue" => cb.chunk = produced

\* The chunk in hand will be flagged only if something was lost before it.
NoFalseGapAhead ==
  dropped = 0 /\ cb.at = "enqueue" /\ (gapPending \/ cb.gapped) => cb.chunk > LastQueued + 1

KernelInv == TransfersTracked /\ BuffersExclusive /\ ProbeFirst /\ Lifecycle
QueueInv  == /\ GapsInsideFlagged /\ GapsBehindFlagged /\ LossReportedWithinRing /\ Ordered
             /\ NeverAhead /\ NoFalseGap /\ NoFalseGapAhead
IndInv    == TypeOK /\ KernelInv /\ QueueInv
=============================================================================
