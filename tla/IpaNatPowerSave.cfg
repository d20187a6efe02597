SPECIFICATION Spec
CONSTANTS
  c1 = c1
  h1 = h1
  wa = wa
  wb = wb
  p1 = p1
  p2 = p2
  far = far
  fc = fc
  fh = fh
  fw = fw
  fp = fp
  None = None
  Clients = {c1}
  Hosts = {h1}
  WanIps = {wa, wb}
  Peers = {p1}
  Far = far
  Flows = {fc}
  Src <- MCSrc
  Dst <- MCDst
  MaxHosts = 1
  MaxSta = 1
  Failures <- NoFailures
  MaxFailures = 0
  Garbage <- Zeroed
INVARIANTS
  PowerSaveHasNoRule
