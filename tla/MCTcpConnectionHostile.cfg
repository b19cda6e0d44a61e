CONSTANTS
  Uses = {"retain", "useClosed", "failAfterClose", "throwInClose", "throwInBeat",
          "earlyKeepalive", "immediate", "flood"}
  MaxBytes = 4
  MaxDepth = 3
  OutLimit = 1
SPECIFICATION Spec
INVARIANTS StreamIntact TimeoutHasReason ConnectGuarded
\* A connection ends; nothing is left to do for it.
CHECK_DEADLOCK FALSE
