SPECIFICATION FairSpec
CONSTANTS
  w1 = w1
  w2 = w2
  j1 = j1
  j2 = j2
  g1 = g1
  g2 = g2
  g3 = g3
  Jobs = {j1, j2}
  Kind <- RecalculateAndNotify
  Targets <- TwoAndOne
  Workers = {w1, w2}
  NoWorker = NoWorker
  FaultBudget = 2
  Stalling = {j2}
INVARIANT AtMostOnce
PROPERTY CheckpointHonoured
PROPERTY DeferredEventsRun
CHECK_DEADLOCK FALSE
