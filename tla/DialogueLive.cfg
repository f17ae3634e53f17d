SPECIFICATION Spec
CONSTANTS
    Roster <- TwoPersonas
    Workers = {1, 2}
    Steps = 2
    FailureBudget = 1
    RepeatBudget = 0
    ExchangesBounded = TRUE
    MaxTimers = 1
    MaxPresses = 3
INVARIANTS
    LiveIsAlive
CHECK_DEADLOCK FALSE
PROPERTIES
    LiveGivesUp
