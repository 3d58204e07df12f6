CONSTANTS
  Page = {p1}
  Request = {r1, r2}
  Endpoint = {"rev_id"}
  Alias = {FALSE}
  Spam <- mc_no_spam
  MaxRevision = 2
  MaxFailures = 0
  LongErrors = FALSE
SPECIFICATION FairSpec
PROPERTY ProcessingIsTemporary
CHECK_DEADLOCK FALSE
