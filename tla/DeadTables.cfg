SPECIFICATION Spec
CONSTANTS
  a = a
  b = b
  c = c
  Address = {a, b, c}
  Slot = {s1, s2}
  MaxIndex = 1
  MaxTime = 1
  Operations <- VotesOperations
  OwnerLists <- NoSet
  Masks <- NoSet
  Thresholds <- NoThresholds
  InitialChain <- VotesInitial
  ForeignPayload <- NoSet
  Authority <- NoSet
SYMMETRY Slots
INVARIANTS
  ReadyMeansSubmits
CHECK_DEADLOCK FALSE
