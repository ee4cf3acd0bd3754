CONSTANTS
  Sessions = {s1}
  RequireApproval = FALSE
  MaxConcurrent = 1
  MaxRestarts = 0
SPECIFICATION Spec
INVARIANT NoAgentLeftBehind
CHECK_DEADLOCK FALSE
