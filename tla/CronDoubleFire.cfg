CONSTANTS
  Schedulers = {s1, s2}
  Slots = {2, 3}
  Horizon = 3
  MaxStarts = 2
  MaxCommands = 0
  MaxErrors = 0
SPECIFICATION Spec
INVARIANTS NeverDoubleFires

