\* Chunks that end in the tail of a header whose checksum is 00, without a loss.
SPECIFICATION Spec
CONSTANTS
  VideoFrameBytes = 8
  FrameSizeTolerance = 3
  VideoBufferCapacity = 13
  AudioMaxPacketBytes = 13
  Streams <- SeamStreams
  ChunkSizes = {1, 3, 8}
  Losses = {}
  MaxLosses = 0
  Memories <- WrittenOnly
INVARIANT FramesExact
CHECK_DEADLOCK FALSE
