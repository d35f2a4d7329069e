\* Submissions may be refused, the card unplugged, stop() may give up.
SPECIFICATION FairSpec
CONSTANTS
  PoolSize = 2
  RingSlots = 3
  MaxProbe = 2
  SubmitMayFail = TRUE
  MayTimeOut = TRUE
  MaxChunks = 6
INVARIANTS IndInv LossReportedWithinRing NoFalseGap BuffersExclusive ReadsOrFailed StopLeavesNothingInFlight
PROPERTIES NoSubmitAfterStop StopTerminates ImplementsQueue
CHECK_DEADLOCK FALSE
