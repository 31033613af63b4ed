SPECIFICATION Spec
CONSTANTS
  Calls = {c1}
  MAX_BULK_ITEMS = 3
  POLL_INITIAL = 3
  POLL_MAX = 4
  POLL_BUDGET = 5
  HTTP_TIMEOUT = 1
INVARIANTS
  CacheIsTrue
  FailedBatchIsOver
PROPERTIES
  CallReturns
  KeepsPromise
CHECK_DEADLOCK FALSE
