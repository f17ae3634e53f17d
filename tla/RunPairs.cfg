SPECIFICATION FairSpec
CONSTANTS
  o1 = o1
  o2 = o2
  t1 = t1
  t2 = t2
  Nobody = Nobody
  Threads <- TwoThreads
  Opps <- TwoOpps
  Slots = 2
  Large <- SecondOpp
  Submittable <- OneOpp
  Remembered <- None
  StagesMayRaise = TRUE
  LedgerMayFail = FALSE
  RepliesMayBeLost = FALSE
  MaxRuns = 2
  MaxCrashes = 1
INVARIANTS
  RunningHasARun
PROPERTIES
  SlotsReturn
