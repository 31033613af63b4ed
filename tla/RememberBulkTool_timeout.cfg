SPECIFICATION Spec
CONSTANTS
  Calls = {c1}
  c1 = c1
  MAX_BULK_ITEMS = 2
  POLL_INITIAL = 1
  POLL_MAX = 2
  POLL_BUDGET = 2
  HTTP_TIMEOUT = 0
INVARIANTS TimeoutIsHonest
CHECK_DEADLOCK FALSE
