SPECIFICATION Spec
CONSTANTS
  r1 = r1
  r2 = r2
  e1 = e1
  a1 = a1
  LastDay = 4
  Holidays = {}
  DayCapacity = 1
  Checkpoints = {}
  MaxAutoMoves = 1
  RouteLength = 2
  Cancellations = {e1}
  CancelledDay <- CancelledDays
  Runs = {r1, r2}
  MaxRequests = 3
  Overrides <- TwoOverrides
  Absences = {a1}
  AbsentDay <- AbsentDays
INVARIANT ClosedSlotsStayClosed
CHECK_DEADLOCK FALSE
SYMMETRY RunSymmetry
