SPECIFICATION Spec
CONSTANTS
  a = a
  b = b
  c = c
  e1 = e1
  e2 = e2
  e3 = e3
  None = None
  MaxClock = 5
  Proc = {a, b, c}
  Editors = {a}
  Failing = {}
  Mortal = {a, b, c}
  Pruners = {b, c}
  Entry = {e1, e2, e3}
  Seeds <- ThreeSeeds
  Expendable = {e1, e3}
INVARIANTS
  SearchFresh
  
