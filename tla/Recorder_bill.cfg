CONSTANTS
  EM = EM
  Role = {EM}
  FirstRole = EM
  PerProjectLimit <- MCLimit
  GlobalLimit <- MCLimit
  MaxConcurrentProjects = 1
  Project = {p1, p2}
  Name = {}
  Placeholder = Placeholder
  Agent = {a1, a2}
  CountedAtLaunch = FALSE
  MaxTokens = 2
  MaxHistory = 4
  MaxEvents = 3
  MaxFaults = 1
  Outages = TRUE
  Restarts = 1
SPECIFICATION FairSpec
INVARIANT TypeOK BillMatchesHistory HistoryInOrder StoppedByHistory
PROPERTY OverBudgetIsStopped OverBudgetIsClosed
CHECK_DEADLOCK FALSE
