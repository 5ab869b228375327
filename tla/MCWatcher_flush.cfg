SPECIFICATION FairSpec
CONSTANTS
  f = f
  g = g
  t1 = t1
  t2 = t2
  Main = Main
  Emitter = Emitter
  None = None
  File = {f, g}
  Seeds = {f}
  Versions = {1, 2}
  Timer = {t1, t2}
  Touching = TRUE
  MaxEdits = 2
  MaxFails = 2
INVARIANTS
  EventsInv
  StoresAgree
PROPERTIES
  Reflected
  Stops
CHECK_DEADLOCK FALSE
