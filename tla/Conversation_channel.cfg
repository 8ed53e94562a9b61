CONSTANTS
  EM = EM
  BE = BE
  Role = {EM, BE}
  FirstRole = EM
  PerProjectLimit <- MCLimit
  GlobalLimit <- MCLimit
  MaxConcurrentProjects = 1
  Project = {p1, p2}
  Name = {}
  Placeholder = Placeholder
  Agent = {a1, a2}
  CountedAtLaunch = FALSE
  Assignments = {"nothing"}
  Poster = {r1}
  MaxLog = 2
  MaxMessages = 3
  MaxLosses = 1
SPECIFICATION Spec
INVARIANT HeardInOrder RequestActedOnOnce 
CHECK_DEADLOCK FALSE
SYMMETRY Symmetry
