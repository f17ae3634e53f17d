\* One opportunity, every kind of evidence, no dropped save, one crash.
SPECIFICATION Spec
CONSTANTS
  o1 = o1
  NoEvidence = NoEvidence
  EvIds <- OneIds
  Opps <- OneOpp
  Evidences <- OneEvidence
  Methods <- TwoMethods
  MarkStages = {"researched", "queued", "applied", "in_progress"}
  Outcomes = {"completed", "submitted"}
  Amounts = {0, 1}
  SavesMayFail = FALSE
  MaxCrashes = 1
INVARIANTS TypeOK PaidIsProvable StageIsDurable BookingIsDurable PaidStageIsBooked
PROPERTIES BookingNeedsCurrentEvidence
