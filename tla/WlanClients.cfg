SPECIFICATION Spec
CONSTANTS
  Ifaces = {ap1, ap2}
  Macs = {m1, m2, m3}
  V4Addrs = {a1, a2, a3}
  V6Addrs = {b1, b2, b3}
  NoAddr = none
  MaxClients = 3
  V6Num = 2
  Environments <- Cooperative
SYMMETRY Symmetry
CHECK_DEADLOCK FALSE
INVARIANT RoutesOwned
INVARIANT Served
INVARIANT NothingLeaks
INVARIANT TotalAgrees
