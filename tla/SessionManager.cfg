CONSTANTS
  SessionIDs = {1, 2, 3}
  KeepEnded = 1
  RequireApproval = TRUE
  SupervisorFaults = {"refused"}
  MaxClock = 2
SPECIFICATION Spec
INVARIANTS TypeOK StateMatchesTree
PROPERTIES LiveNeverForgotten
CHECK_DEADLOCK FALSE
