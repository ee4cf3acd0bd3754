CONSTANTS
  MaxRecords = 4
  MaxBytes = 3
  LineBytes = {2}
  FileLimits = {0, 1, 2}
  CreateFailsUnder = {0}
  StatFailsUnder = {1, 2}
  MaxFaults = 1
  MaxStops = 2
  Subscribers = {c1}
  HubCap = 1
SPECIFICATION Spec
INVARIANTS TypeOK OrderIsKept NothingLost StreamHasNoGap
PROPERTIES PowerLossTakesTheTail
CHECK_DEADLOCK FALSE
