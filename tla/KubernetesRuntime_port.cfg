CONSTANTS
  EM = EM
  Role = {EM}
  FirstRole = EM
  PerProjectLimit <- MCLimit
  GlobalLimit <- MCLimit
  MaxConcurrentProjects = 1
  Project = {p1, p2}
  Name = {}
  Placeholder = Placeholder
  Job = {j1, j2}
  Poller = {q1, q2}
  BackoffLimit = 1
SPECIFICATION Spec
INVARIANT CensusAgrees TerminalReportsSettle
PROPERTY ImplementsPort
SYMMETRY Symmetry
