\* Up to two cards come and go; opening them and their streams may fail.
SPECIFICATION FairSpec
CONSTANTS
  Devices = {d1, d2}
  None = None
  MaxPlugged = 2
  MaxPlugs = 3
  OpenAttempts = 2
  OpenMayFail = TRUE
  CardMayHang = TRUE
  StreamMayFail = TRUE
INVARIANTS RefsCounted
PROPERTIES EndsOnlyWhenGone StopHonoured CardCaptured
CHECK_DEADLOCK FALSE
