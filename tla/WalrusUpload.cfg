SPECIFICATION Spec
CONSTANTS
  JsonCalls = {j1}
  FileCalls = {f1}
  Contents = {x, y}
  Gone = Gone
  RETRY_DELAY = 2
  MaxLag = 2
INVARIANTS
  OkIsStored
  MintsOnce
  ValidationIsOfInput
PROPERTIES
  UploadReturns
CHECK_DEADLOCK FALSE
