SPECIFICATION Spec
CONSTANTS
  a1 = a1
  a2 = a2
  b1 = b1
  p = p
  q = q
  Calls = {a1, a2, b1}
  Procs = {p, q}
  ProcOf <- MCProcOf
  Keys = {k1, k2}
  Grants = {g1, g2}
  MaxGen = 3
INVARIANTS TypeOK NoUpdateLost StoredIsLatest NotSpentTwice
CHECK_DEADLOCK FALSE
SYMMETRY MCSymmetry
