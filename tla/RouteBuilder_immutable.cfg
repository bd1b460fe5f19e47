SPECIFICATION Spec
CONSTANTS
  r1 = r1
  r2 = r2
  Items = {1, 2}
  ItemLimit = 10
  Kind <- Kinds
  ConceptsOf <- Concepts
  MinutesOf <- Minutes
  ConceptEdges <- Edges
  AvailableMinutes = 150
  WeeklyMinutes = 60
  Weeks = 2
  MaxNodesBetweenCheckpoints = 1
  Requests = {r1, r2}
  NeedsPayload = {2}
  MaxVersions = 2
  MaxLock = 5
CHECK_DEADLOCK FALSE
SYMMETRY RequestSymmetry
INVARIANT PublishedIsImmutable
