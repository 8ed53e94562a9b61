CONSTANTS
  EM = EM
  Role = {EM}
  FirstRole = EM
  PerProjectLimit <- MCLimit
  GlobalLimit <- MCLimit
  MaxConcurrentProjects = 1
  Project = {p1, p2}
  Name = {}
  Placeholder = Placeholder
  Caller = {c1, c2, c3}
SPECIFICATION CallersSpec
INVARIANT ListsWhatIsOpen OpenIsIndexed ClosedLeavesIndex
SYMMETRY Symmetry
