SPECIFICATION BehaviourSpec
CONSTANTS
  r = r
  v = v
  w = w
  q1 = q1
  q2 = q2
  q3 = q3
  Request = {r, v}
  Watcher = w
  Query = {q1, q2, q3}
  Repeated = {q3}
  MaxHistory = 2
  Every = 1
  Cap = 1
  MaxRecordings = 3
  MaxAdoptions = 1
SYMMETRY Symmetry
INVARIANTS
  BoundedInv
  CountedOnce
PROPERTIES
  NothingTakenBack
CHECK_DEADLOCK FALSE
