CONSTANTS
  s1 = s1
  q1 = q1
  NoIface = NoIface
  Ap = ap
  Stas = {s1}
  Modems = {q1}
  Environments <- MCEnvironments
  CacheSize = 2
  MaxCalls = 4
  MaxChanges = 1
  MaxQueue = 2
SPECIFICATION Spec
INVARIANTS Served NothingAfterRemoval WanUpAgrees LanAgrees FirewallCurrent
CHECK_DEADLOCK FALSE
