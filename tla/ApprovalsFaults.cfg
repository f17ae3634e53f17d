SPECIFICATION Spec
CONSTANTS
  MaxItems = 2
  Retained = 1
  SavesMayFail = TRUE
  LoadMayFail = TRUE
  MaxRestarts = 2
  Kinds = {"action", "aliased", "order", "submission"}
CHECK_DEADLOCK FALSE
INVARIANTS TypeOK OneRunPerApproval
PROPERTIES RunsAreFresh FreshDecisionsStay
