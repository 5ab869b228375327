SPECIFICATION Spec
CONSTANTS
  p = p
  q = q
  None = None
  Proc = {p, q}
  Searchers = {p}
  Cap = 2
  MaxEvents = 4
  Naming = {1, 3}
  MaxFails = 1
  MaxDamage = 1
  MaxKills = 1
INVARIANTS
  LogInv
  NothingLost
  VectorsRight
CHECK_DEADLOCK FALSE
