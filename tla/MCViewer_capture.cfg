\* Any failure on the way, frames that are written in part, the window closed at any time.
SPECIFICATION FairSpec
CONSTANTS
  BufferCount = 3
  Arguments <- OneOrTwo
INVARIANTS AudioOnlyWhileOpen ReleasedAtEnd OnlyWholeFramesShown
PROPERTIES KeepsShowing
CHECK_DEADLOCK FALSE
