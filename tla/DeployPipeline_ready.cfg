SPECIFICATION Spec
CONSTANTS
  r1 = r1
  r2 = r2
  c0 = c0
  c1 = c1
  c2 = c2
  math = math
  math1 = math1
  add1 = add1
  mul1 = mul1
  Runs = {r1, r2}
  Commits = {c0, c1, c2}
  Tools = {math}
  Versions = {math1}
  Fqns = {add1, mul1}
  ToolOf <- CheckedToolOf
  VersionOf <- CheckedVersionOf
  CommitOf <- CheckedCommitOf
  Matrix <- CheckedMatrix
  Outdated = {}
  Earlier = c0
  MAX_TAG = 2
  Nothing = Nothing
INVARIANTS ReadyIsRegistered
CHECK_DEADLOCK FALSE
