CONSTANTS
  Sessions = {s1}
  InitialModes = {"interactive"}
  TimeoutAllows = FALSE
  KillMayFail = FALSE
  FreezeFaults = {}
  ThawFaults = {}
  ControlCap = 1
  MaxRequests = 2
  MaxEvents = 2
SPECIFICATION Spec
INVARIANT FrozenWhileAsked
CHECK_DEADLOCK FALSE
