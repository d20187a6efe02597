SPECIFICATION Spec
CONSTANTS
  Clients = {c1, c2}
  Delegates = {d1, d2}
  None = None
  Delays = {0, 1}
  Destroys = FALSE
  MaxTime = 2
INVARIANT ExpiresOnlyDue
CHECK_DEADLOCK FALSE
