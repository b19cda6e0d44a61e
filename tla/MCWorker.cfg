CONSTANTS
  Producers = {p1, p2}
  IoThread = io
  Tasks = {c1, c2, c3, c4, c5}
  NoTask = NoTask
  QueueLimit = 0
  PipeCap = 3
  ReadChunk = 1
SPECIFICATION FairSpec
INVARIANTS NoLostWakeup PipeHoldsOneByte QueueBound SingleOwner
PROPERTIES ImplementsChannel AcceptedTaskRuns
\* The worker idles in epoll_wait when every task has been handled.
CHECK_DEADLOCK FALSE
