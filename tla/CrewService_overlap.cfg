CONSTANTS
  EM = EM
  BE = BE
  Reviewer = Reviewer
  Role <- MCRole
  FirstRole = EM
  PerProjectLimit <- MCPerProject
  GlobalLimit <- MCGlobal
  MaxConcurrentProjects = 1
  Project = {p1, p2, p3}
  Name = {n1}
  Placeholder = Placeholder
  Agent = {a1, a2, a3, a4}
  CountedAtLaunch = TRUE
  Call = {c1, c2}
  Kinds <- MCAllKinds
  Overrides = {EM}
  MaxRequests = 4
  Faults = TRUE
SPECIFICATION Spec
INVARIANT TypeOK OvershootBounded OpenBounded IndexBacked RunningWasStaffed
PROPERTY ClosedStaysClosed
SYMMETRY Symmetry
CHECK_DEADLOCK FALSE
