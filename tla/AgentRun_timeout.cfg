CONSTANTS
  MaxAttempts = 2
  MaxToolCalls = 2
  LangGraph = FALSE
  Suspends = TRUE
  MaxTurns = 2
  MaxCalls = 2
  MaxSlices = 2
SPECIFICATION Spec
INVARIANT TimeoutIsReported
CHECK_DEADLOCK FALSE
