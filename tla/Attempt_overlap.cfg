SPECIFICATION Spec
CONSTANTS
  q1 = q1
  q2 = q2
  d1 = d1
  d2 = d2
  t1 = t1
  t2 = t2
  Questions = {q1, q2}
  ByHand = {q1}
  MultiBlank = {}
  Unreadable = {q2}
  Given = {"correct"}
  Ruled = {"correct", "partial"}
  Older = {q1}
  PassMark = 4
  Devices = {d1}
  Teachers = {t1, t2}
  MaxSeq = 1
  MaxVersion = 3
  MaxDays = 1
  MaxLost = 0
  MaxReviewing = 1
INVARIANT ResolvedMeansFinal
CHECK_DEADLOCK FALSE
