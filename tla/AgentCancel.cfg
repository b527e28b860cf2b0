SPECIFICATION Spec
CONSTANTS
  Reads = {"read", "look"}
  Plans = {"plan"}
  Files = {"file"}
  Batches <- MCBatches
  MaxTurns = 1
  EscalatedTurns = 2
  MaxReconnects = 1
  MaxStallRetries = 1
  MaxContinueNudges = 1
  MaxEmptyTurns = 2
  MaxNoActionTurns = 2
  ToolFailureStopAt = 2
  NoOpStopAt = 1
INVARIANT CancelKeepsSentinel
CHECK_DEADLOCK FALSE
