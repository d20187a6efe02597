CONSTANTS
  c1 = c1
  c2 = c2
  NoClient = NoClient
  Clients = {c1, c2}
  Options <- MCOptions
  Environments <- MCBasic
  MaxCalls = 4
  MaxRestarts = 1
SPECIFICATION Spec
INVARIANT Served
SYMMETRY MCSymmetry
CHECK_DEADLOCK FALSE
