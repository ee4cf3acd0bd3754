CONSTANTS
  Sessions = {s1}
  RequireApproval = TRUE
  MaxConcurrent = 1
  MaxRestarts = 0
SPECIFICATION FairSpec
PROPERTY AbandonedIsEnded
CHECK_DEADLOCK FALSE
