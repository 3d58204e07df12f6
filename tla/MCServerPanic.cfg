CONSTANTS
  Page = {p1}
  Request = {r1, r2}
  Endpoint = {"page_id"}
  Alias = {FALSE}
  Spam <- mc_second_spam
  MaxRevision = 2
  MaxFailures = 1
  LongErrors = TRUE
SPECIFICATION FairSpec
PROPERTY SlotReleased
CHECK_DEADLOCK FALSE
