\* What is heard when the signal is back.
SPECIFICATION FairSpec
CONSTANTS
  Drivers = {"daemon"}
  Replugs = FALSE
  States = {"Signal", "NoSignal", "NoCable"}
  LoopTimes = {1, 3, 9}
  RampFrames = 3
  SettleTime = 4
  SilenceChunk = 3
  SilenceMax = 7
  SampleRate = 2
  Second = 5
  KeepAliveInterval = 3
  PacketFrames = {1, 2}
  MaxPieces = 0
INVARIANTS ResumesSmoothly
