SPECIFICATION Spec
CONSTANTS
  a = a
  b = b
  c = c
  Address = {a, b, c}
  Slot = {s1, s2}
  MaxIndex = 2
  MaxTime = 0
  Operations <- ConfigOperations
  OwnerLists <- NoSet
  Masks <- ConfigMasks
  Thresholds <- SomeThresholds
  InitialChain <- ConfigInitial
  ForeignPayload <- NoSet
  Authority <- NoSet
SYMMETRY Slots
INVARIANTS
  NoDoomedSubmission
  VettedStaysViable
  LiveVotesCount
PROPERTIES
  ImplementsLifecycle
CHECK_DEADLOCK FALSE
