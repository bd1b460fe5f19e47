SPECIFICATION FairSpec
CONSTANTS
  n1 = n1
  h1 = h1
  p1 = p1
  p2 = p2
  Nodes = {n1, h1}
  Homework = {h1}
  Pages = {p1, p2}
  MaxDisturbances = 1
  MaxReopens = 1
INVARIANT OneCompletionEvent
PROPERTY DenominatorNeverGrows
PROPERTY CompletionsKept
PROPERTY SettledDaysClose
