\* Late and lost replies, failures, unplugging, and a stop at any time.
SPECIFICATION FairSession
CONSTANTS
  Lengths <- MCLengths
  Polled = 5
  MaxFailures = 2
  Inputs = {"Signal", "NoCable"}
  MaxAsked = 3
  Many = 2
  Plan <- MCPlan
  Recording <- MCRecording
  Leftovers <- MCLeftovers
INVARIANTS PublishedFromOwnReplies NoLostWakeup BoardReadFromItself FormatBitsKept
PROPERTIES StopTerminates BrokenPollUnmutes
CHECK_DEADLOCK FALSE
