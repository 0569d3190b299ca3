SPECIFICATION Spec
CONSTANTS
  a = a
  b = b
  Address = {a, b}
  MaxIndex = 3
  ChunkSize = 2
  MaxMoves = 3
  InitialChain <- TwoProposals
  NewPayload <- VaultOnly
  Requests <- SomeRequests
SYMMETRY Symmetry
INVARIANTS
  TypeOK
  EveryIdAnswered
  OneRequestOneMoment
  QuietReadsAgree
CHECK_DEADLOCK FALSE
