CONSTANTS
  Project = {p1, p2}
  Socket = {s1, s2, s3}
  HistoryLimit = 2
  MaxStarts = 2
  MaxEvents = 4
  MaxDrops = 1
SPECIFICATION FairSpec
INVARIANT TypeOK OneSocket ShownInOrder
PROPERTY Reconnects
CHECK_DEADLOCK FALSE
