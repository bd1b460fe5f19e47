SPECIFICATION FairSpec
CONSTANTS
  n1 = n1
  h1 = h1
  p1 = p1
  p2 = p2
  Nodes = {n1}
  Homework = {}
  Pages = {p1}
  MaxDisturbances = 1
  MaxReopens = 0
PROPERTY CompletedByTheLearner
CHECK_DEADLOCK FALSE
