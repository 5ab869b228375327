SPECIFICATION Spec
CONSTANTS
  a = a
  b = b
  o1 = o1
  o2 = o2
  None = None
  Proc = {a, b}
  Writers = {a, b}
  Indexers = {a, b}
  Op = {o1, o2}
  FlushOps = 2
  Cap = 1
  MaxSaves = 1
SYMMETRY Symmetry
INVARIANTS
  JournalInv
