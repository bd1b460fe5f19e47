SPECIFICATION Spec
CONSTANTS
  w1 = w1
  w2 = w2
  j1 = j1
  j2 = j2
  o1 = o1
  SystemOrg = SystemOrg
  NoWorker = NoWorker
  Jobs = {j1}
  Workers = {w1, w2}
  Orgs = {o1}
  Org <- OneJobOrg
  Priority <- OneJobPriority
  Switchable = {j1}
  MaxAttempts = 1
  Limit = 1
  MaxPerOrg = 1
  MaxCopies = 2
  FaultBudget = 1
  Lapsing = {j1}
PROPERTY OnlyOwnersWrite
