SPECIFICATION Spec
CONSTANTS
    Base = 4
    Fields <- MCFields
    Orders = {"LE", "BE"}
    Offsets = {0, 1}
    MaxFields = 2
INVARIANTS ReadsWhatWasWritten CutIffRefused
CHECK_DEADLOCK FALSE
