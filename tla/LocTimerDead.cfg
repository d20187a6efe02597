SPECIFICATION Spec
CONSTANTS
  Clients = {c1, c2}
  Delegates = {d1, d2}
  None = None
  Delays = {0, 1}
  Destroys = TRUE
  MaxTime = 2
INVARIANT NoDeadClient
CHECK_DEADLOCK FALSE
