CONSTANTS
  Sessions = {s1}
  PIDs = {1}
  Images = {a}
  RingCap = 2
  OutCap = 1
  MaxStarts = 1
  MaxRecords = 2
SPECIFICATION Spec
INVARIANT CompleteHasNoGap
CHECK_DEADLOCK FALSE
