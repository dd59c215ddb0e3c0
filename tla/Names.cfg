CONSTANTS
  c1 = c1
  c2 = c2
  s1 = s1
  s2 = s2
  a = a
  b = b
  None = None
  Objects = {c1, c2, s1, s2}
  Containers = {c1, c2}
  Names = {a, b}
  MaxDepth = 3
SYMMETRY Symmetry
SPECIFICATION Spec
INVARIANTS
  TreeOK
  TableSound
  AllFound
  PathsNest
  Enumerated
CHECK_DEADLOCK FALSE
