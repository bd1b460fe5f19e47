SPECIFICATION Spec
CONSTANTS
  w1 = w1
  w2 = w2
  j1 = j1
  j2 = j2
  o1 = o1
  SystemOrg = SystemOrg
  NoWorker = NoWorker
  Jobs = {j1, j2}
  Workers = {w1, w2}
  Orgs = {o1}
  Org <- TwoJobsOrg
  Priority <- TwoJobsPriority
  Switchable = {j1}
  MaxAttempts = 1
  Limit = 2
  MaxPerOrg = 2
  MaxCopies = 2
  FaultBudget = 2
  Lapsing = {j2}
SYMMETRY WorkerSymmetry
INVARIANT ExclusiveExecution
INVARIANT AttemptsMatchClaim
PROPERTY NoStaleWrite
PROPERTY SettledIsFinal
