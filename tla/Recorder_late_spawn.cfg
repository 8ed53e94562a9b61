CONSTANTS
  EM = EM
  Role = {EM}
  FirstRole = EM
  PerProjectLimit <- MCLimit
  GlobalLimit <- MCLimit
  MaxConcurrentProjects = 1
  Project = {p1, p2}
  Name = {}
  Placeholder = Placeholder
  Agent = {a1, a2}
  CountedAtLaunch = TRUE
  MaxTokens = 2
  MaxHistory = 3
  MaxEvents = 4
  MaxFaults = 0
  Outages = FALSE
  Restarts = 0
SPECIFICATION Spec
INVARIANT StoppedStaysStopped
SYMMETRY Symmetry
CHECK_DEADLOCK FALSE
