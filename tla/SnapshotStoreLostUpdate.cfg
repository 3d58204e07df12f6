CONSTANTS
  Page = {p1, p2}
  NoPage = NoPage
  Writer = {w1, w2}
  Reader = {}
  MaxVersion = 1
SPECIFICATION Spec
INVARIANT AckedRevisionsIndexed
CHECK_DEADLOCK FALSE
