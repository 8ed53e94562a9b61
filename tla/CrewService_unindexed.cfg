CONSTANTS
  EM = EM
  BE = BE
  Reviewer = Reviewer
  Role <- MCRole
  FirstRole = EM
  PerProjectLimit <- MCPerProject
  GlobalLimit <- MCGlobal
  MaxConcurrentProjects = 1
  Project = {p1, p2}
  Name = {n1}
  Placeholder = Placeholder
  Agent = {a1, a2, a3}
  CountedAtLaunch = TRUE
  Call = {c1, c2}
  Kinds <- MCAllKinds
  Overrides = {}
  MaxRequests = 3
  Faults = FALSE
SPECIFICATION Spec
INVARIANT ActiveIsOpen
SYMMETRY Symmetry
CHECK_DEADLOCK FALSE
