SPECIFICATION Spec
CONSTANTS
    Messages <- MCMessages
INVARIANTS WholeOnlyWhenWhole
CHECK_DEADLOCK FALSE
