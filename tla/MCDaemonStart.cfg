SPECIFICATION StartFairSpec
CONSTANTS
  s1 = s1
  s2 = s2
  k1 = k1
  k2 = k2
  Starters = {s1, s2}
  Clients = {k1, k2}
  Nobody = Nobody
INVARIANTS
  ExitStatusTrue
  OneDaemon
PROPERTIES
  StartReturns
  ConnectedEarly
  SignalNotLost
CHECK_DEADLOCK FALSE
