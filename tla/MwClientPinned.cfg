CONSTANTS
  Caller = {"fetch_window", "request_json_post", "request_text"}
  MaxRevision = 2
  Rvlimit = 1
  retry_max_attempts = 3
  retry_budget = 3
  RetryAfter = {0}
  AttemptCap = 7
SPECIFICATION FairSpec
PROPERTY CallReturns
CHECK_DEADLOCK FALSE
