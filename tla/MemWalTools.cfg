SPECIFICATION Spec
CONSTANTS
  Calls = {c1, c2}
  Namespaces = {"work"}
  MAX_FACTS = 1
INVARIANTS
  RefusalDidNothing
  AuthFailureIsNotReplay
  ForgetClears
  NamespaceIsTheOneNamed
  AnalyzeCountsItsJobs
  HealthIsHonest
PROPERTIES
  CallReturns
CHECK_DEADLOCK FALSE
