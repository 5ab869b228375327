SPECIFICATION LeaseFairSpec
CONSTANTS
  d = d
  s = s
  Nobody = Nobody
  Daemon = {d}
  Server = {s}
  MaxSignals = 2
INVARIANTS
  IInv
PROPERTIES
  StopBounded
  HeartbeatReturns
  
CHECK_DEADLOCK FALSE
