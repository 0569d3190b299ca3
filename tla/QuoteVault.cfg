SPECIFICATION Spec
CONSTANTS
  v0 = v0
  v1 = v1
  r = r
  VaultAt <- TwoVaults
  Address = {v0, v1, r, SystemProgram, TokenProgram, AtaProgram, Mint}
  Recipient = {r, v1}
  SystemProgram = SystemProgram
  TokenProgram = TokenProgram
  AtaProgram = AtaProgram
  Mint = Mint
  NoFeePayer = NoFeePayer
  Messages <- SomeMessages
  Owners = {1, 2}
  MaxMembers = 2
  CreationFee <- CreationFees
  Ceiling = {5691320, 5686320, 4000000}
  NoCeiling = NoCeiling
INVARIANT
  QuoteFitsAnyVault
CHECK_DEADLOCK FALSE
