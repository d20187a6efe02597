CONSTANTS
  s1 = s1
  q1 = q1
  NoIface = NoIface
  Ap = ap
  Stas = {s1}
  Modems = {q1}
  Environments <- MCDualStack
  CacheSize = 2
  MaxCalls = 2
  MaxChanges = 1
  MaxQueue = 2
SPECIFICATION Spec
INVARIANTS Served
CHECK_DEADLOCK FALSE
