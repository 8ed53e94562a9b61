CONSTANTS
  Exec = {x1}
  Project = {p1}
  Timeout = 3
  Grace = 2
  Ttl = 2
  MaxCrashes = 1
SPECIFICATION FairSpec
INVARIANT SuccessIsReal AnsweredIsClean
PROPERTY ExecReturns JobsGo
CHECK_DEADLOCK FALSE
