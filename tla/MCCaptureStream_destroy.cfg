\* Stopping and destroying the stream while the alignment probe succeeds.
SPECIFICATION Spec
CONSTANTS
  PoolSize = 1
  RingSlots = 2
  MaxProbe = 0
  SubmitMayFail = FALSE
  MayTimeOut = FALSE
  MaxChunks = 3
INVARIANTS NoCallbackAfterDestroy
CHECK_DEADLOCK FALSE
