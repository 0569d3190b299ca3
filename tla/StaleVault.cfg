SPECIFICATION Spec
CONSTANTS
  a = a
  b = b
  c = c
  Address = {a, b, c}
  Slot = {s1}
  MaxIndex = 2
  MaxTime = 1
  Operations <- ForeignOperations
  OwnerLists <- NoSet
  Masks <- ConfigMasks
  Thresholds <- NoThresholds
  InitialChain <- ForeignInitial
  ForeignPayload <- ForeignPayloads
  Authority <- ImposedConfigurations
SYMMETRY Slots
INVARIANTS
  StaleIsDead
CHECK_DEADLOCK FALSE
