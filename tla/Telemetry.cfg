CONSTANTS
  Sessions = {s1}
  PIDs = {1, 2}
  Images = {a}
  RingCap = 1
  OutCap = 1
  MaxStarts = 3
  MaxRecords = 3
SPECIFICATION FairSpec
INVARIANTS TypeOK LossesAreAccounted NothingUncounted TrackerAgrees DepthIsSound
PROPERTIES RingIsDrained CloseEnds
CHECK_DEADLOCK FALSE
