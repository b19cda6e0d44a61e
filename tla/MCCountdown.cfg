CONSTANTS
  Handlers = {h1, h2}
  LastFall = 3
  Fall <- Ladder
  TimeClick = 2
  MaxTimeout = 10
  MaxStep = 5
SPECIFICATION FairSpec
INVARIANT NoTimerOverdue
PROPERTIES ImplementsTimers ArmedTimerExpires
