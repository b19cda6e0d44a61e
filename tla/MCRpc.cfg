SPECIFICATION Spec
CONSTANTS
    a = a
    b = b
    h = h
    g = g
    k = k
    None = None
    Requests <- MCRequests
    Kind <- MCKind
    Waiter <- MCWaiter
    Sn <- MCSn
INVARIANTS EndsOnce PendingIsFiled NobodyForgotten
PROPERTIES EveryRequestEnds
CHECK_DEADLOCK FALSE
