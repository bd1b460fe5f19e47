SPECIFICATION Spec
CONSTANTS
  w1 = w1
  w2 = w2
  j1 = j1
  j2 = j2
  g1 = g1
  g2 = g2
  g3 = g3
  Jobs = {j1, j2}
  Kind <- LearnerAndImpact
  Targets <- OneAndTwo
  Workers = {w1, w2}
  NoWorker = NoWorker
  FaultBudget = 1
  Stalling = {}
INVARIANT AtLeastOnce
CHECK_DEADLOCK FALSE
