CONSTANTS
  Writers = {w1}
  Nobody = nobody
  Kinds = {"retitle"}
  Titles = {t1}
  NoTitle = noTitle
  MaxBatch = 1
  MaxOps = 2
  MaxFaults = 2
SPECIFICATION Spec
INVARIANTS AckedTitleDurable
