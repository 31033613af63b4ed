SPECIFICATION Spec
CONSTANTS
  Inputs <- CheckedInputs
  MAX_CHUNKS = 26
  MAX_ATTEMPTS = 3
  U32_RANGE = 54525953
INVARIANTS
  FinalizedIsWhole
  SegmentsWithinLimit
PROPERTIES
  UploadEnds
  KeepsPromise
CHECK_DEADLOCK FALSE
