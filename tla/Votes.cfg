SPECIFICATION Spec
CONSTANTS
  a = a
  b = b
  c = c
  Address = {a, b, c}
  Slot = {s1, s2}
  MaxIndex = 1
  MaxTime = 1
  Operations <- CallsOperations
  OwnerLists <- SomeOwners
  Masks <- NoSet
  Thresholds <- LowThresholds
  InitialChain <- CallsInitial
  ForeignPayload <- NoSet
  Authority <- NoSet
SYMMETRY Slots
INVARIANTS
  TypeOK
  NoDoomedSubmission
  NoNeedlessRefusal
  AutoExecuteGoesInert
  ReadyIffExecutable
PROPERTIES
  TruthfulResult
  ImplementsLifecycle
CHECK_DEADLOCK FALSE
