CONSTANTS
  Page = {p1}
  NoPage = NoPage
  Writer = {w1}
  Reader = {r1}
  MaxVersion = 2
SPECIFICATION Spec
INVARIANT OpensOneVersion
CHECK_DEADLOCK FALSE
