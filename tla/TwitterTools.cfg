\* One step, which may call any tool three times, and others who publish and
\* delete; a workflow that calls again after the kinds that are safe.
CONSTANTS
  Ids = {i1, i2}
  Calls = {c1}
  RetryKinds = {"connection", "rate_limit", "auth", "forbidden", "not_found"}
  MaxAttempts = 3
SPECIFICATION Spec
INVARIANTS
  AtMostOnce
  OkTellsTruth
  BatchIsComplete
  NotFoundIsHonest
