SPECIFICATION SessionSpec
CONSTANTS
  MaxTransactions = 2
  MaxBlocks = 2
  MaxForks = 1
  Path = {path}
  Account = {account, spare}
  None = None
INVARIANTS
  TypeOK
  AnswersStand
  FeeAtCommitment
  DuplicateOnlyIfSeen
  LiveIsCached
PROPERTIES
  LandedIsTold
CHECK_DEADLOCK FALSE
