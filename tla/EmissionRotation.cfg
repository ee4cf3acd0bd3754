CONSTANTS
  MaxRecords = 4
  MaxBytes = 3
  LineBytes = {2}
  FileLimits = {1}
  CreateFailsUnder = {1}
  StatFailsUnder = {}
  MaxFaults = 1
  MaxStops = 0
  Subscribers = {c1}
  HubCap = 1
SPECIFICATION Spec
INVARIANT NothingLost
CHECK_DEADLOCK FALSE
