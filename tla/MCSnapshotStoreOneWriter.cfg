CONSTANTS
  Page = {p1, p2}
  NoPage = NoPage
  Writer = {w1}
  Reader = {r1}
  MaxVersion = 2
SPECIFICATION Spec
SYMMETRY Symmetric
INVARIANTS TypeOK FinishedWriteIsWhole MetaNotAhead PublishedArticleExists NoPartialIndex AckedRevisionsIndexed
CHECK_DEADLOCK FALSE
