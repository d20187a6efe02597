SPECIFICATION FairSpec
CONSTANTS
  Clients = {c1, c2}
  Delegates = {d1, d2}
  None = None
  Delays = {0, 1}
  Destroys = TRUE
  MaxTime = 2
INVARIANTS DelegatesLive SoonestIsArmed
PROPERTY IsTimerService
\* once every client is destroyed the service stops
CHECK_DEADLOCK FALSE
