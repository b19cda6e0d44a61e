CONSTANTS
  Uses = {}
  MaxBytes = 4
  MaxDepth = 2
  OutLimit = 2
SPECIFICATION FairSpec
INVARIANTS OutlivesItsCallbacks WriteWatchedIffQueued CloseReportedOnce ClosedIsForgotten KeepaliveArmed
PROPERTIES NoCallbackAfterClose ConnectEnds QueuedOutputDrains
\* A connection ends; nothing is left to do for it.
CHECK_DEADLOCK FALSE
