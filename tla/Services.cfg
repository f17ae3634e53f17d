SPECIFICATION MCSpec
CONSTANTS
  Created = {"NEW", "EVALUATING"}
  MaxRuns = 2
  Handlers = 2
  Gigs = {a, b, c, d}
  MinSubmissions = 3
  RateNeeded = 60
  MinSamples = 3
  DeclineBelow = 20
  MaxCredits = 4
  Callers = {a, b}
  Local = 1
  Cloud = 1
  Attempts = 2
  Threshold = 2
  DailyCalls = 2
  Budget = 2
  MaxCalls = 1
  MaxEdits = 3
INVARIANTS StatusIsEarned StopIsPrompt LastWordIsHeard WinsAreHalf
  DeadProviderIsLeftAlone DailyCallsHold BudgetHolds
  EditIsOnItsWay
PROPERTIES RunsEnd EditsLand RampIsEarned
CHECK_DEADLOCK FALSE
