CONSTANTS
  Page = {p1}
  Request = {r1, r2}
  Endpoint = {"page_id", "whocolor_rev"}
  Alias = {FALSE}
  Spam <- mc_second_spam
  MaxRevision = 2
  MaxFailures = 1
  LongErrors = FALSE
SPECIFICATION FairSpec
PROPERTIES SlotReleased MissIsBuilt
CHECK_DEADLOCK FALSE
