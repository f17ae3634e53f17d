SPECIFICATION HandoffSpec
CONSTANTS
  MaxRuns = 1
  Handlers = 1
INVARIANTS EveryStageIsRequested
CHECK_DEADLOCK FALSE
