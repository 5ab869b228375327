SPECIFICATION Spec
CONSTANTS
  w = w
  u = u
  f = f
  g = g
  None = None
  Proc = {w, u}
  Builders = {u}
  Updaters = {w}
  Watchers = {w}
  Reloaders = {w}
  Failing = {w}
  Mortal = {w}
  File = {f, g}
  Seeds <- OneSeed
  Versions = {1, 2}
  MaxEdits = 2
  MaxSaves = 3
INVARIANTS
  IndexInv
  RecordsFresh
PROPERTIES
  OthersKept
CHECK_DEADLOCK FALSE
