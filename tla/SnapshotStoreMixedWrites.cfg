CONSTANTS
  Page = {p1}
  NoPage = NoPage
  Writer = {w1, w2}
  Reader = {}
  MaxVersion = 2
SPECIFICATION Spec
INVARIANT FinishedWriteIsWhole
CHECK_DEADLOCK FALSE
