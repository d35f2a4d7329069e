\* The stream fails although the card stays.
SPECIFICATION Spec
CONSTANTS
  Devices = {d1, d2}
  None = None
  MaxPlugged = 1
  MaxPlugs = 1
  OpenAttempts = 2
  OpenMayFail = FALSE
  CardMayHang = FALSE
  StreamMayFail = TRUE
INVARIANTS CapturesUntilUnplugged
CHECK_DEADLOCK FALSE
