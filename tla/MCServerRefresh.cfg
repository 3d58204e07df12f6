CONSTANTS
  Page = {p1, p2}
  Request = {r1, r2}
  Endpoint = {"title"}
  Alias = {FALSE}
  Spam <- mc_no_spam
  MaxRevision = 1
  MaxFailures = 0
  LongErrors = FALSE
SPECIFICATION Spec
INVARIANT NextRequestHitsDisk
CHECK_DEADLOCK FALSE
