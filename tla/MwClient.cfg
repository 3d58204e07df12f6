CONSTANTS
  Caller = {"collect_all_revisions", "fetch_window", "request_json_post", "request_text"}
  MaxRevision = 4
  Rvlimit = 2
  retry_max_attempts = 2
  retry_budget = 3
  RetryAfter = {1, 2, 5}
  AttemptCap = 6
SPECIFICATION FairSpec
INVARIANTS WindowIsWhole SendsBounded
PROPERTY CallReturns
CHECK_DEADLOCK FALSE
