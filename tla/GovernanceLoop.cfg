CONSTANTS
  Sessions = {s1}
  InitialModes = {"monitor", "interactive", "enforce"}
  TimeoutAllows = FALSE
  KillMayFail = TRUE
  FreezeFaults = {"refused", "late"}
  ThawFaults = {}
  ControlCap = 1
  MaxRequests = 2
  MaxEvents = 3
SPECIFICATION FairSpec
INVARIANTS TypeOK NoQuestionAfterDenial DenialNeverLost EndedIsContained
  EarlierRequestsAnswered EndRecordedOnce SuspendedIsAwaited
PROPERTIES FrozenIsSettled DenialEnds
CHECK_DEADLOCK FALSE
