CONSTANTS
  Page = {p1}
  Request = {r1, r2}
  Endpoint = {"page_id", "whocolor_rev"}
  Alias = {FALSE}
  Spam <- mc_no_spam
  MaxRevision = 2
  MaxFailures = 0
  LongErrors = FALSE
SPECIFICATION Spec
INVARIANT LatestNeverGoesBack
CHECK_DEADLOCK FALSE
