SPECIFICATION Spec
CONSTANTS
  vault = vault
  system = system
  x = x
  e = e
  t1 = t1
  t2 = t2
  Key = {vault, system, x, e, t1, t2}
  Vault = vault
  SystemProgram = system
  Ephemeral = {e}
  TransferTo <- SomeRecipients
  Instructions <- SomeInstructions
  FeePayer = {vault, x}
  NoFeePayer = NoFeePayer
  LookupLists <- SomeLookups
  InitialTables <- SomeTables
INVARIANTS
  TypeOK
  MessageMeansItsInstructions
  NoUndueRole
  ProgramTakesTheAccounts
  OnlyTheVaultSigns
CHECK_DEADLOCK FALSE
