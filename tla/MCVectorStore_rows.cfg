SPECIFICATION Spec
CONSTANTS
  a = a
  b = b
  c = c
  e1 = e1
  e2 = e2
  e3 = e3
  None = None
  MaxClock = 0
  Proc = {a, b}
  Editors = {a}
  Failing = {b}
  Mortal = {a, b}
  Pruners = {}
  Entry = {e1, e2, e3}
  Seeds <- NoSeeds
  Expendable = {}
INVARIANTS
  RowsInv
  StoredFound
  OnlyChosenDead
PROPERTIES
  StaysDead
