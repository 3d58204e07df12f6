CONSTANTS
  Page = {p1}
  Request = {r1, r2}
  Endpoint = {"title_rev"}
  Alias = {FALSE}
  Spam <- mc_no_spam
  MaxRevision = 2
  MaxFailures = 0
  LongErrors = FALSE
SPECIFICATION Spec
INVARIANT BadRequestMeansGone
CHECK_DEADLOCK FALSE
