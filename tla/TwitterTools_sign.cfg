\* One call of any tool.
CONSTANTS
  Ids = {i1, i2}
  Calls = {c1}
  RetryKinds = {"connection", "rate_limit", "auth", "forbidden", "not_found"}
  MaxAttempts = 1
SPECIFICATION Spec
INVARIANTS
  AuthIsEarned
