SPECIFICATION SearchSpec
CONSTANTS
  Months <- MCMonths
  MinutesPerHour = 2
  HoursPerDay = 3
  DaysPerWeek = 2
  SearchYears = 1
  Expressions <- MCExpressions
  Zones <- MCHalfHour
  Afters <- MCAfters
INVARIANT NothingSkipped
CHECK_DEADLOCK FALSE
