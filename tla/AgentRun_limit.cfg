CONSTANTS
  MaxAttempts = 1
  MaxToolCalls = 1
  LangGraph = TRUE
  Suspends = FALSE
  MaxTurns = 2
  MaxCalls = 2
  MaxSlices = 1
SPECIFICATION Spec
INVARIANT CallsWithinLimit
CHECK_DEADLOCK FALSE
