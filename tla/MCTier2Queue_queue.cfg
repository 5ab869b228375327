SPECIFICATION FairQueueSpec
CONSTANTS
  f = f
  g = g
  s = s
  File = {f, g}
  Server = {s}
  Mortal = {s}
  Batch = 1
  Overlap = FALSE
  Stopping = TRUE
  MaxRuns = 2
  MaxFails = 2
INVARIANTS
  QueueInv
  EmbedsInv
PROPERTIES
  Drains
CHECK_DEADLOCK FALSE
