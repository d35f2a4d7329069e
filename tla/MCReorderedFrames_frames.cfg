\* Changes of order at any pair, one loss, audio that looks like a marker.
SPECIFICATION Spec
CONSTANTS
  VideoFrameBytes = 71
  FrameSizeTolerance = 26
  VideoBufferCapacity = 110
  AudioMaxPacketBytes = 30
  DmaBufferBytes = 26
  Deliveries <- CardDeliveries
  ChunkSizes = {39, 78}
  Losses = {26, 34}
  MaxLosses = 1
  Settling = 2
INVARIANTS OnlyTrueFrames SteadyFramesShown VerdictBeforeOutput
CHECK_DEADLOCK FALSE
