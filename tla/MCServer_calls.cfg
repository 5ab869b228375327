SPECIFICATION Spec
CONSTANTS
  a = a
  b = b
  None = None
  Thread = {a, b}
  Slots = 1
  MaxCommits = 1
  MaxEvicts = 1
SYMMETRY Threads
INVARIANTS
  ThreadsInv
  CacheExplained
  LookupsAgree
  
