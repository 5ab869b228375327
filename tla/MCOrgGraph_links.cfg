SPECIFICATION Spec
CONSTANTS
  a = a
  b = b
  c = c
  p = p
  q = q
  x = x
  None = None
  Repo = {a, b, c}
  Proc = {p, q, x}
  Root = a
  Member = {b}
  Encrypting = {x}
  MaxCalls = 2
  MaxFails = 1
SYMMETRY Symmetry
INVARIANTS
  OrgInv
  LinksKept
  QueryExact
CHECK_DEADLOCK FALSE
