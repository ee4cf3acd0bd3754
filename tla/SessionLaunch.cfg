CONSTANTS
  Sessions = {s1}
  RequireApproval = TRUE
  MaxConcurrent = 1
  MaxRestarts = 1
SPECIFICATION FairSpec
INVARIANTS TypeOK AgentIsHeldUntilGoverned ActiveIsObserved LeftoversAreHeld NoGroupLost
PROPERTIES OrphanIsEnded
CHECK_DEADLOCK FALSE
