\* Chunks of any length, up to two losses, with the carry buffer written before or not.
SPECIFICATION Spec
CONSTANTS
  VideoFrameBytes = 8
  FrameSizeTolerance = 3
  VideoBufferCapacity = 13
  AudioMaxPacketBytes = 13
  Streams <- CardStreams
  ChunkSizes = {0, 1, 8, 60}
  Losses = {5, 27}
  MaxLosses = 2
  Memories <- CarryMemories
INVARIANTS FramesWhole PacketsWhole ReceivedIsHandedOut
CHECK_DEADLOCK FALSE
