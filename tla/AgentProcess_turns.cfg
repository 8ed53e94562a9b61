CONSTANTS
  MaxTools = 2
  Ceiling = 2
  MaxTurns = 1
  MaxFailures = 2
  MaxQueue = 1
  MaxRecords = 2
SPECIFICATION FairSpec
INVARIANT TypeOK TrailPaired Billed Accounted
PROPERTY TurnEnds Shipped
CHECK_DEADLOCK FALSE
