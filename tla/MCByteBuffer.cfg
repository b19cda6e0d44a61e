SPECIFICATION Spec
CONSTANTS
    Bytes = {1, 2}
    Indeterminate = 0
    StackSize = 1
    BlockSize = 2
    Slack = 1
    Limits = {2, 4}
    MaxAdd = 2
    MaxCap = 4
INVARIANT TypeOK
PROPERTIES CompactNeverGrows ImplementsQueue
