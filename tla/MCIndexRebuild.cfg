CONSTANTS
  Page = {p1, p2}
  NoPage = NoPage
  Writer = {w1, tool}
  Rebuilder = tool
  Reader = {}
  MaxVersion = 2
SPECIFICATION RebuildSpec
SYMMETRY Symmetric
INVARIANTS RebuildRestores
CHECK_DEADLOCK FALSE
