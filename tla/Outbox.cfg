SPECIFICATION FairSpec
CONSTANTS
  d1 = d1
  d2 = d2
  t1 = t1
  t2 = t2
  Events = {1, 2, 3}
  Topics = {t1, t2}
  Consumers <- ThreeConsumers
  Gaps = {3}
  Poison = {1}
  Dispatchers = {d1, d2}
  MaxAttempts = 2
  BatchLimit = 2
  FaultBudget = 2
  Slow = {2}
PROPERTY DeliveryContract
PROPERTY HealthyDelivered
PROPERTY BrokenQuarantined
CHECK_DEADLOCK FALSE
