SPECIFICATION FairSpec
CONSTANTS
  w1 = w1
  w2 = w2
  p1 = p1
  p2 = p2
  Slots <- TwoOrgs
  Order <- ElsewhereFirst
  ScanLimit = 1
  Workers = {w1}
  Producers = {p1}
  Teacher = Teacher
  Causes = {"no_policy"}
  MaxAttempts = 1
  FaultBudget = 2
  ManualTests <- DailyOnly
  LostReports <- DailyOnly
PROPERTY EveryDueTestSettles
CHECK_DEADLOCK FALSE
