SPECIFICATION RampSpec
CONSTANTS
  Gigs = {a, b, c, d}
  MinSubmissions = 3
  RateNeeded = 60
  MinSamples = 3
  DeclineBelow = 20
  MaxCredits = 4
INVARIANTS ColdStartIsNotDeclined
CHECK_DEADLOCK FALSE
