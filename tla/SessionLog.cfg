CONSTANTS
  Writers = {w1, w2}
  Nobody = nobody
  Kinds = {"append", "once", "retitle", "rewind"}
  Titles = {t1, t2}
  NoTitle = noTitle
  MaxBatch = 2
  MaxOps = 3
  MaxFaults = 2
SPECIFICATION FairSpec
INVARIANTS TypeOK SequencesIncrease AckedSurvive RecordedOnce TitleKept ReadableUnlessTorn
PROPERTIES LockReleased
