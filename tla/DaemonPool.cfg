SPECIFICATION FairSpec
CONSTANTS
  Sessions = {s1, s2, s3}
  Size = 1
  MaxAttempts = 2
INVARIANTS TypeOK BoundedWorkers CompleteSuccess RetriesBounded DrainLeavesNone
PROPERTIES ShutdownEnds
