SPECIFICATION Spec
CONSTANTS
    Server = Server
    None = None
    Peers = {p, q}
    Workers = 2
    HashKey = None
    MaxFd = 2
    MaxConn = 2
    MaxDatagrams = 3
    MaxOut = 1
    QueueLimit = 0
INVARIANTS TableMatchesConnections OwnDatagrams DatagramsConserved
CONSTRAINT Promising
PROPERTIES EveryDatagramHandled OutputDrains
CHECK_DEADLOCK FALSE
