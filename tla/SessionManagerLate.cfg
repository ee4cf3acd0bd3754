CONSTANTS
  SessionIDs = {1}
  KeepEnded = 1
  RequireApproval = FALSE
  SupervisorFaults = {"refused", "late"}
  MaxClock = 1
SPECIFICATION Spec
INVARIANT StateMatchesTree
CHECK_DEADLOCK FALSE
