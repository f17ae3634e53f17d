SPECIFICATION Spec
CONSTANTS
  o1 = o1
  o2 = o2
  t1 = t1
  t2 = t2
  Nobody = Nobody
  Threads <- TwoThreads
  Opps <- TwoOpps
  Slots = 1
  Large <- None
  Submittable <- OneOpp
  Remembered <- SecondOpp
  StagesMayRaise = TRUE
  LedgerMayFail = TRUE
  RepliesMayBeLost = TRUE
  MaxRuns = 3
  MaxCrashes = 2
INVARIANTS
  TypeOK
  KeyMeansSubmitted
PROPERTIES
  MarkedIsNeverResubmitted
