SPECIFICATION FairSpec
CONSTANTS
  n1 = n1
  h1 = h1
  p1 = p1
  p2 = p2
  Nodes = {n1}
  Homework = {}
  Pages = {p1}
  MaxDisturbances = 0
  MaxReopens = 0
PROPERTY FinishedWorkCounts
CHECK_DEADLOCK FALSE
