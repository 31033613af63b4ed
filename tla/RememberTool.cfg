SPECIFICATION Spec
CONSTANTS
  Calls = {c1, c2}
  POLL_INITIAL = 3
  POLL_MAX = 4
  POLL_BUDGET = 5
  HTTP_TIMEOUT = 1
INVARIANTS
  TimeoutIsHonest
  PollBounded
PROPERTIES
  CallReturns
  KeepsPromise
CHECK_DEADLOCK FALSE
