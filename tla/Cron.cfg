CONSTANTS
  Schedulers = {s1, s2}
  Slots = {2, 3}
  Horizon = 3
  MaxStarts = 2
  MaxCommands = 1
  MaxErrors = 1
SPECIFICATION FairSpec
INVARIANTS TypeOK ClaimedOnce PauseHolds
PROPERTIES RemovedStays DueFires
