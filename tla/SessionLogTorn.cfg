CONSTANTS
  Writers = {w1}
  Nobody = nobody
  Kinds = {"append"}
  Titles = {}
  NoTitle = noTitle
  MaxBatch = 1
  MaxOps = 3
  MaxFaults = 1
SPECIFICATION Spec
INVARIANTS AlwaysReadable
