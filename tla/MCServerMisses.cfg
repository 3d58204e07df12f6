CONSTANTS
  Page = {p1}
  Request = {r1, r2}
  Endpoint = {"rev_id", "page_id", "title", "title_rev"}
  Alias = {FALSE, TRUE}
  Spam <- mc_second_spam
  MaxRevision = 2
  MaxFailures = 1
  LongErrors = TRUE
SPECIFICATION Spec
SYMMETRY Symmetric
INVARIANTS OneTaskPerPage IndexMissStillServes
CHECK_DEADLOCK FALSE
