SPECIFICATION FairSpec
CONSTANTS
  WaitMs = 1
  MinDuration = 2
  MaxDuration = 5
  Slack = 1
  IntMax = 9
  Durations <- MCDurations
INVARIANTS
  NoStaleAbort
  HintHeld
  TimeoutHonoursRequests
PROPERTIES
  HintEventuallyReleased
  ExitReturns
