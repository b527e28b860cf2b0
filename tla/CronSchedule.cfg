SPECIFICATION FairSearchSpec
CONSTANTS
  Months <- MCMonths
  MinutesPerHour = 2
  HoursPerDay = 3
  DaysPerWeek = 2
  SearchYears = 1
  Expressions <- MCExpressions
  Zones <- MCZones
  Afters <- MCAfters
INVARIANTS NothingSkipped
PROPERTIES SearchEnds
CHECK_DEADLOCK FALSE
