\* Two threads, indices that wrap, requests that are not whole frames.
SPECIFICATION FairSpec
CONSTANTS
  RingBytes = 8
  IndexMod = 32
  Stride = 2
  TargetBytes = 4
  MaxBytes = 6
  PacketSizes = {2, 4}
  Requests = {0, 2, 5}
INVARIANTS LatencyBounded FramesWhole
PROPERTIES ImplementsFifo Resumes
