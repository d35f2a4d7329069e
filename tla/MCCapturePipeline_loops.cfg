\* Both loops: the daemon feeds or discards and then ticks, the viewer ticks and then feeds.
SPECIFICATION FairSpec
CONSTANTS
  Drivers = {"daemon", "viewer"}
  Replugs = TRUE
  States = {"Signal", "NoSignal", "NoCable"}
  LoopTimes = {1, 3, 9}
  RampFrames = 3
  SettleTime = 4
  SilenceChunk = 3
  SilenceMax = 7
  SampleRate = 2
  Second = 5
  KeepAliveInterval = 3
  PacketFrames = {1, 2}
  MaxPieces = 4
INVARIANTS ScreenTellsReason CardTellsReason OpenOnlyWhenSettled MuteBounded SilenceKeepsPace LossesFlagged
PROPERTIES GateOpens
