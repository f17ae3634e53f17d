SPECIFICATION Spec
CONSTANTS
    Roster <- TwoPersonas
    Workers = {1, 2, 3}
    Steps = 2
    FailureBudget = 1
    RepeatBudget = 1
    ExchangesBounded = FALSE
    MaxTimers = 1
    MaxPresses = 3
INVARIANTS
    LiveNeverSilentlyEnds
CHECK_DEADLOCK FALSE
