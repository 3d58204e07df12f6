CONSTANTS
  Page = {p1}
  Request = {r1}
  Endpoint = {"whocolor_rev"}
  Alias = {FALSE}
  Spam <- mc_no_spam
  MaxRevision = 2
  MaxFailures = 0
  LongErrors = FALSE
SPECIFICATION FairSpec
PROPERTY ProcessingIsTemporary
CHECK_DEADLOCK FALSE
