SPECIFICATION Spec
CONSTANTS
  MaxItems = 2
  Retained = 1
  SavesMayFail = FALSE
  LoadMayFail = FALSE
  MaxRestarts = 1
  OwnedMax = 1
  Texts = {fine, other, bad}
  Broken = {bad}
  NoText = nothing
CHECK_DEADLOCK FALSE
INVARIANTS TypeOK UnansweredIsListed GuardApprovalIsReal
PROPERTIES FileIsGated WaitingIsKept DecisionIsFinal RequestsAreKept HistoryIsBounded
