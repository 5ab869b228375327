SPECIFICATION Spec
CONSTANTS
  w = w
  r = r
  o1 = o1
  o2 = o2
  None = None
  Proc = {w, r}
  Writers = {w}
  Indexers = {w}
  Op = {o1, o2}
  FlushOps = 2
  Cap = 2
  MaxSaves = 2
SYMMETRY Symmetry
INVARIANTS
  AppliedOnce
  AckedOnDisk
  Fresh
  NoPhantom
  ContentsInv
PROPERTIES
  Implements
