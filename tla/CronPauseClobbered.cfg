CONSTANTS
  Schedulers = {s1}
  Slots = {2}
  Horizon = 2
  MaxStarts = 1
  MaxCommands = 1
  MaxErrors = 1
SPECIFICATION Spec
INVARIANTS PauseNeverClobbered
