SPECIFICATION Spec
CONSTANTS
    s = s
    l = l
    Threads <- MCThreads
    Lines <- MCLines
    Parts <- MCParts
    BlockSize = 1
    Bucket = 2
    Heap = 4
    ListMax = 3
    OutputMax = 2
INVARIANT BlockIsOwned
CHECK_DEADLOCK FALSE
