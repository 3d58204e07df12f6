CONSTANTS
  Page = {p1}
  Request = {r1}
  Endpoint = {"whocolor"}
  Alias = {TRUE}
  Spam <- mc_no_spam
  MaxRevision = 1
  MaxFailures = 0
  LongErrors = FALSE
SPECIFICATION Spec
INVARIANT RebuildsOnlyMissing
CHECK_DEADLOCK FALSE
