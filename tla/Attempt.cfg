SPECIFICATION Spec
CONSTANTS
  q1 = q1
  q2 = q2
  d1 = d1
  d2 = d2
  t1 = t1
  t2 = t2
  Questions = {q1, q2}
  ByHand = {}
  MultiBlank = {q2}
  Unreadable = {}
  Given = {"correct", "needs_review"}
  Ruled = {"correct", "partial"}
  Older = {}
  PassMark = 4
  Devices = {d1, d2}
  Teachers = {t1, t2}
  MaxSeq = 1
  MaxVersion = 3
  MaxDays = 1
  MaxLost = 1
  MaxReviewing = 1
VIEW WhileItMatters
SYMMETRY RequestSymmetry
INVARIANT FinalizedAddsUp
INVARIANT GradedAsSubmitted
INVARIANT SubmissionsAreProcessed
INVARIANT MasteryFollows
PROPERTY DecisionsAreKept
PROPERTY PlannedReviewsStay
CHECK_DEADLOCK FALSE
