------------------------ MODULE ProposalCostsProofs ------------------------
(***************************************************************************)
(* Proofs about what calls cost: for every message, every set of vaults,   *)
(* every membership, fee and ceiling.                                      *)
(***************************************************************************)
EXTENDS ProposalCosts, MessageCompilationProofs

(***************************************************************************)
(* Sizes.                                                                  *)
(***************************************************************************)

\* Every key an instruction can name.
Keys == Address \cup [mint : {Mint}, owner : Address]

\* Instructions over some keys are instructions over more.
LEMMA OverMore ==
  ASSUME NEW K, NEW M, K \subseteq M, NEW ins, ins \in Seq(InstructionOver(K))
  PROVE  ins \in Seq(InstructionOver(M))
<1>1. ASSUME NEW i \in 1 .. Len(ins) PROVE ins[i] \in InstructionOver(M)
  <2>1. ins[i] \in InstructionOver(K)
    BY ElementOfSeq
  <2> DEFINE a == ins[i].accounts
  <2>2. /\ ins[i] = [program |-> ins[i].program, accounts |-> a, data |-> ins[i].data]
        /\ ins[i].program \in K /\ ins[i].data \in Nat /\ a \in Seq([address : K, role : Role])
    BY <2>1 DEF InstructionOver
  <2>3. \A j \in 1 .. Len(a) : a[j] \in [address : M, role : Role]
    <3>1. \A j \in 1 .. Len(a) : a[j] \in [address : K, role : Role]
      BY ONLY <2>2, ElementOfSeq
    <3> QED BY <3>1
  <2> HIDE DEF a
  <2>4. a \in Seq([address : M, role : Role])
    <3>1. a \in Seq([address : K, role : Role])
      BY <2>2
    <3> QED BY ONLY <3>1, <2>3, Retyped
  <2> QED BY <2>2, <2>4 DEF InstructionOver
<1> QED BY <1>1, Retyped

\* The vaults and the recipients are addresses, and their token accounts keys.
LEMMA WhoIsAKey ==
  /\ \A v \in DOMAIN VaultAt : VaultAt[v] \in Address
  /\ 0 \in DOMAIN VaultAt /\ DefaultVault = VaultAt[0]
  /\ Address \subseteq Keys
  /\ \A owner \in Address : Ata(owner) \in Keys
<1> QED BY VaultAssumption DEF Keys, Ata, DefaultVault

\* What callers propose, and the transfers made for them, are instructions.
LEMMA InstructionsTyped ==
  ASSUME NEW vault \in Address
  PROVE  /\ \A tx \in Transaction : InstructionsOf(vault, tx) \in Seq(InstructionOver(Keys))
         /\ \A to \in Recipient, held \in BOOLEAN :
              TransferInstructions(vault, to, held) \in Seq(InstructionOver(Keys))
<1>1. vault \in Keys /\ Recipient \subseteq Keys /\ SystemProgram \in Keys /\ Mint \in Keys
      /\ TokenProgram \in Keys /\ AtaProgram \in Keys
  BY AddressAssumption, WhoIsAKey
<1>2. /\ ReadOnly \in Role /\ Writable \in Role /\ WritableSigner \in Role
  BY DEF ReadOnly, Writable, WritableSigner, Role
<1> DEFINE M == [address : Keys, role : Role]
<1>3. \A key \in Keys, role \in Role : Meta(key, role) \in M
  BY DEF Meta
<1> HIDE DEF M
<1>4. ASSUME NEW tx \in Transaction
      PROVE  InstructionsOf(vault, tx) \in Seq(InstructionOver(Keys))
  <2>1. CASE tx.kind = "sol"
    <3>1. tx.to \in Recipient /\ InstructionsOf(vault, tx) = Transfer(vault, tx.to)
      BY <2>1 DEF InstructionsOf, Transaction
    <3> DEFINE metas == <<Meta(vault, WritableSigner), Meta(tx.to, Writable)>>
               instruction == [program |-> SystemProgram, accounts |-> metas, data |-> 12]
    <3>2. metas \in Seq(M)
      <4>1. Meta(vault, WritableSigner) \in M /\ Meta(tx.to, Writable) \in M
        BY <1>1, <1>2, <1>3, <3>1
      <4> QED BY <4>1
    <3>3. Transfer(vault, tx.to) = <<instruction>>
      BY DEF Transfer
    <3> HIDE DEF metas
    <3>4. instruction \in InstructionOver(Keys)
      BY <1>1, <3>2 DEF InstructionOver, M
    <3> HIDE DEF instruction
    <3> QED BY <3>1, <3>3, <3>4
  <2>2. CASE tx.kind # "sol"
    <3>1. tx.message \in Messages /\ InstructionsOf(vault, tx) = tx.message.instructions
      BY <2>2 DEF InstructionsOf, Transaction
    <3>2. InstructionsOf(vault, tx) \in Seq(InstructionOver(Address))
      BY <3>1, MessagesAssumption
    <3>3. Address \subseteq Keys
      BY WhoIsAKey
    <3> QED BY ONLY <3>2, <3>3, OverMore
  <2> QED BY <2>1, <2>2
<1>5. ASSUME NEW to \in Recipient, NEW held \in BOOLEAN
      PROVE  TransferInstructions(vault, to, held) \in Seq(InstructionOver(Keys))
  <2>1. to \in Keys /\ Ata(vault) \in Keys /\ Ata(to) \in Keys
    BY AddressAssumption, WhoIsAKey
  <2>2. TokenTransfer(vault, to) \in InstructionOver(Keys)
    <3> DEFINE metas == <<Meta(Ata(vault), Writable), Meta(Ata(to), Writable),
                          Meta(vault, ReadOnly)>>
    <3>1. Meta(Ata(vault), Writable) \in M /\ Meta(Ata(to), Writable) \in M
          /\ Meta(vault, ReadOnly) \in M
      BY <1>1, <1>2, <1>3, <2>1
    <3>2. metas \in Seq(M)
      BY <3>1
    <3>3. TokenTransfer(vault, to) = [program |-> TokenProgram, accounts |-> metas, data |-> 9]
      BY DEF TokenTransfer
    <3> HIDE DEF metas
    <3> QED BY <1>1, <3>2, <3>3 DEF InstructionOver, M
  <2>3. CreateAta(vault, to) \in InstructionOver(Keys)
    <3> DEFINE metas == <<Meta(vault, WritableSigner), Meta(Ata(to), Writable),
                          Meta(to, ReadOnly), Meta(Mint, ReadOnly),
                          Meta(SystemProgram, ReadOnly), Meta(TokenProgram, ReadOnly)>>
    <3>1. /\ Meta(vault, WritableSigner) \in M /\ Meta(Ata(to), Writable) \in M
          /\ Meta(to, ReadOnly) \in M /\ Meta(Mint, ReadOnly) \in M
          /\ Meta(SystemProgram, ReadOnly) \in M /\ Meta(TokenProgram, ReadOnly) \in M
      BY <1>1, <1>2, <1>3, <2>1
    <3>2. metas \in Seq(M)
      BY <3>1
    <3>3. CreateAta(vault, to) = [program |-> AtaProgram, accounts |-> metas, data |-> 1]
      BY DEF CreateAta
    <3> HIDE DEF metas
    <3> QED BY <1>1, <3>2, <3>3 DEF InstructionOver, M
  <2> QED BY <2>2, <2>3 DEF TransferInstructions
<1> QED BY <1>4, <1>5

\* Whether or not the recipient has a token account.
LEMMA TransfersTyped ==
  ASSUME NEW vault \in Address, NEW to \in Recipient
  PROVE  TransferInstructions(vault, to, to \in holders) \in Seq(InstructionOver(Keys))
<1>1. \A held \in BOOLEAN : TransferInstructions(vault, to, held) \in Seq(InstructionOver(Keys))
  BY InstructionsTyped
<1>2. (to \in holders) \in BOOLEAN
  OBVIOUS
<1> QED BY <1>1, <1>2, Zenon

\* The size the code computes for a message, from the keys it compiles to, is what
\* the program allocates for it: the keys are those that occur, each of them once.
LEMMA SizeIsAllocated ==
  ASSUME NEW vault, vault \in Keys, NEW ins, ins \in Seq(InstructionOver(Keys))
  PROVE  /\ StoredSize(vault, ins) = AllocatedMessage(vault, ins)
         /\ AllocatedMessage(vault, ins) \in Nat
<1> DEFINE keys == Compiled(vault, ins, {}, <<>>).accountKeys
           N == Len(ins)
           size(instruction) == 1 + (4 + Len(instruction.accounts)) + (4 + instruction.data)
           bytes(instruction) == Len(instruction.accounts) + instruction.data
           s == [i \in DOMAIN ins |-> size(ins[i])]
           b == [i \in DOMAIN ins |-> bytes(ins[i])]
<1>1. keys \in Seq(Keys) /\ Once(keys) /\ ToSet(keys) = KeysOf(vault, ins)
  <2>1. \A payer, ephemeral, lookups :
          payer \in Keys =>
            LET m == Compiled(payer, ins, ephemeral, lookups)
            IN  /\ m.accountKeys \in Seq(Keys) /\ Once(m.accountKeys)
                /\ ToSet(m.accountKeys) = KeysOf(payer, ins)
    BY CompiledKeys
  <2> QED BY <2>1, Zenon
<1> HIDE DEF keys
<1>2. Len(keys) = Cardinality(KeysOf(vault, ins)) /\ Len(keys) \in Nat
  <2>1. Cardinality(ToSet(keys)) = Len(keys)
    BY ONLY <1>1, Counted
  <2> QED BY <1>1, <2>1, LenProperties
<1>3. /\ N \in Nat /\ DOMAIN ins = 1 .. N
      /\ \A i \in 1 .. N : Len(ins[i].accounts) \in Nat /\ ins[i].data \in Nat
  BY InstructionTypes
<1>4. \A i \in 1 .. N : s[i] = 9 + b[i] /\ s[i] \in Nat /\ b[i] \in Nat
  <2>1. ASSUME NEW i \in 1 .. N PROVE s[i] = 9 + b[i] /\ s[i] \in Nat /\ b[i] \in Nat
    <3> DEFINE a == Len(ins[i].accounts)
               d == ins[i].data
    <3>1. a \in Nat /\ d \in Nat
      BY <1>3
    <3>2. s[i] = 1 + (4 + a) + (4 + d) /\ b[i] = a + d
      BY <1>3
    <3> HIDE DEF a, d, s, b
    <3> QED BY ONLY <3>1, <3>2
  <2> QED BY <2>1
<1>5. s \in Seq(Nat) /\ Len(s) = N /\ b \in Seq(Nat) /\ Len(b) = N
  <2>1. DOMAIN s = 1 .. N /\ DOMAIN b = 1 .. N
    BY <1>3
  <2>2. s \in [1 .. N -> Nat] /\ b \in [1 .. N -> Nat]
    <3>1. s = [i \in 1 .. N |-> s[i]] /\ b = [i \in 1 .. N |-> b[i]]
      BY <1>3
    <3> HIDE DEF s, b, N
    <3> QED BY ONLY <1>4, <3>1
  <2> HIDE DEF s, b, N
  <2>3. s \in Seq(Nat) /\ b \in Seq(Nat)
    BY <1>3, <2>2, SeqDef
  <2> QED BY <1>3, <2>2, <2>3, LenProperties
<1>6. Total(s) = 9 * N + Total(b) /\ Total(b) \in Nat
  <2> HIDE DEF s, b, N
  <2>1. \A n \in 1 .. Len(b) : s[n] = 9 + b[n]
    BY <1>4, <1>5
  <2>2. s \in Seq(Nat) /\ b \in Seq(Nat) /\ Len(s) = Len(b)
    BY <1>5
  <2>3. Total(s) = 9 * Len(b) + Total(b) /\ Total(b) \in Nat
    BY ONLY <2>1, <2>2, NineMore
  <2> QED BY <1>5, <2>3
<1>7. StoredSize(vault, ins) = 3 + (4 + 32 * Len(keys)) + (4 + Total(s)) + 4
  BY DEF StoredSize, keys
<1>8. AllocatedMessage(vault, ins)
        = 15 + 32 * Cardinality(KeysOf(vault, ins)) + 9 * N + Total(b)
  BY DEF AllocatedMessage, KeysOf
<1> DEFINE k == Cardinality(KeysOf(vault, ins))
           ts == Total(s)
           tb == Total(b)
<1> HIDE DEF k, ts, tb, s, b, N
<1>9. k \in Nat /\ N \in Nat /\ tb \in Nat /\ ts = 9 * N + tb
  BY <1>2, <1>3, <1>6 DEF k, ts, tb
<1>10. /\ 3 + (4 + 32 * k) + (4 + ts) + 4 = 15 + 32 * k + 9 * N + tb
       /\ 15 + 32 * k + 9 * N + tb \in Nat
  BY ONLY <1>9
<1> QED BY <1>2, <1>7, <1>8, <1>10 DEF k, ts, tb

\* The list of actions a configuration change carries has a size.
LEMMA ActionsHaveASize == \A actions \in ActionList : ActionsSize(actions) \in Nat
<1> DEFINE Action == {"AddMember", "RemoveMember", "ChangeThreshold"}
<1>1. \A action \in Action : ActionSize(action) \in Nat
  BY DEF ActionSize
<1>2. ASSUME NEW actions \in ActionList PROVE ActionsSize(actions) \in Nat
  <2>1. actions \in Seq(Action)
    <3>1. "AddMember" \in Action /\ "RemoveMember" \in Action /\ "ChangeThreshold" \in Action
      OBVIOUS
    <3> HIDE DEF Action
    <3>2. \A x, y, z \in Action :
            <<x>> \in Seq(Action) /\ <<x, y>> \in Seq(Action) /\ <<x, y, z>> \in Seq(Action)
      OBVIOUS
    <3>3. /\ <<"AddMember">> \in Seq(Action) /\ <<"RemoveMember">> \in Seq(Action)
          /\ <<"ChangeThreshold">> \in Seq(Action)
          /\ <<"RemoveMember", "AddMember">> \in Seq(Action)
          /\ <<"AddMember", "ChangeThreshold">> \in Seq(Action)
          /\ <<"RemoveMember", "ChangeThreshold">> \in Seq(Action)
          /\ <<"RemoveMember", "AddMember", "ChangeThreshold">> \in Seq(Action)
      BY ONLY <3>1, <3>2
    <3> QED BY <3>3, Zenon DEF ActionList
  <2> HIDE DEF Action
  <2>2. Len(actions) \in Nat /\ DOMAIN actions = 1 .. Len(actions)
        /\ \A i \in 1 .. Len(actions) : actions[i] \in Action
    BY <2>1, Elements, ElementOfSeq
  <2> DEFINE s == [i \in DOMAIN actions |-> ActionSize(actions[i])]
  <2>3. s \in [1 .. Len(actions) -> Nat]
    BY <1>1, <2>2
  <2> HIDE DEF s
  <2>4. s \in Seq(Nat)
    BY <2>2, <2>3, SeqDef
  <2>5. Total(s) \in Nat
    BY <2>4, Sums, LenProperties
  <2>6. ActionsSize(actions) = 4 + Total(s)
    BY DEF ActionsSize, s
  <2> QED BY <2>5, <2>6
<1> QED BY <1>2

(***************************************************************************)
(* What is read, quoted and called for.                                    *)
(***************************************************************************)
ProposeRequest == [op : {"propose"}, tx : Transaction, vault : DOMAIN VaultAt]
TransferRequest == [op : {"proposeTransfer"}, to : Recipient, vault : DOMAIN VaultAt]
ConfigRequest == [op : {"proposeConfig"}, actions : ActionList]
DeployRequest == [op : {"deploy"}, owners : Owners]

ReadingTransfer ==
  [step : {"reading"}, request : TransferRequest,
   instructions : Seq(InstructionOver(Keys))]
ReadingDeploy == [step : {"reading"}, request : DeployRequest]
ReadMessage ==
  [step : {"read"}, members : 1 .. MaxMembers,
   request : ProposeRequest \cup TransferRequest, instructions : Seq(InstructionOver(Keys))]
ReadConfig ==
  [step : {"read"}, members : 1 .. MaxMembers, request : ConfigRequest]
ReadDeploy ==
  [step : {"read"}, creationFee : CreationFee, request : DeployRequest]

Reading == ReadingTransfer \cup ReadingDeploy
Read == ReadMessage \cup ReadConfig \cup ReadDeploy

QuoteRequest ==
  [op : {"deploy"}, owners : Owners] \cup [op : {"propose"}, tx : Transaction]
    \cup [op : {"proposeTransfer"}, to : Recipient]
QuoteReading ==
  [step : {"reading"}, request : [op : {"proposeTransfer"}, to : Recipient],
   members : 1 .. MaxMembers, fresh : BOOLEAN]
QuoteRead ==
  [step : {"quoted"}, request : QuoteRequest, fee : {n \in Nat : n > SignatureFee},
   fresh : BOOLEAN]

World ==
  /\ members \in 0 .. MaxMembers /\ creationFee \in CreationFee /\ holders \subseteq Recipient
  /\ maxFee \in Ceiling \cup {NoCeiling}

\* What a call read is what there is.
ReadsHold(c) ==
  /\ c.request.op = "deploy" => c.creationFee = creationFee
  /\ c.request.op # "deploy" => c.members = members

\* What a quote of a message says.
MessageFee(vault, instructions, memberCount) ==
  QuoteProposal(VaultTransactionSize(StoredSize(vault, instructions)), memberCount)

\* The fee of a message: something, and more than the signature.
LEMMA MessageFees ==
  ASSUME NEW vault, vault \in Keys, NEW ins, ins \in Seq(InstructionOver(Keys)),
         NEW m, m \in Nat
  PROVE  /\ MessageFee(vault, ins, m) \in Nat /\ MessageFee(vault, ins, m) > SignatureFee
         /\ MessageFee(vault, ins, m)
              = Rent(87 + AllocatedMessage(vault, ins)) + AllocatedProposal(m) + SignatureFee
         /\ Rent(87 + AllocatedMessage(vault, ins)) \in Int /\ AllocatedProposal(m) \in Int
<1> DEFINE a == AllocatedMessage(vault, ins)
<1>1. StoredSize(vault, ins) = a /\ a \in Nat
  BY SizeIsAllocated
<1> HIDE DEF a
<1>2. MessageFee(vault, ins, m) = (128 + (83 + 4 + a)) * 6960 + (128 + (70 + 96 * m)) * 6960 + 5000
  BY <1>1 DEF MessageFee, QuoteProposal, QuoteProposalRent, VaultTransactionSize, Rent,
     SignatureFee
<1>3. /\ Rent(87 + a) = (128 + (87 + a)) * 6960
      /\ AllocatedProposal(m) = (128 + (8 + 32 + 8 + 9 + 1 + 3 * 4 + 3 * 32 * m)) * 6960
  BY DEF Rent, AllocatedProposal
<1>4. /\ (128 + (83 + 4 + a)) * 6960 = (128 + (87 + a)) * 6960
      /\ (128 + (70 + 96 * m)) * 6960
           = (128 + (8 + 32 + 8 + 9 + 1 + 3 * 4 + 3 * 32 * m)) * 6960
      /\ (128 + (83 + 4 + a)) * 6960 + (128 + (70 + 96 * m)) * 6960 + 5000 \in Nat
      /\ (128 + (83 + 4 + a)) * 6960 + (128 + (70 + 96 * m)) * 6960 + 5000 > 5000
      /\ (128 + (87 + a)) * 6960 \in Int
      /\ (128 + (8 + 32 + 8 + 9 + 1 + 3 * 4 + 3 * 32 * m)) * 6960 \in Int
  BY ONLY <1>1, m \in Nat
<1>5. SignatureFee = 5000
  BY DEF SignatureFee
<1> QED BY <1>2, <1>3, <1>4, <1>5 DEF a

\* What a call computes once its reads are done: something, more than a signature,
\* and what the program debits but for what moved since.
LEMMA FeeAndCharge ==
  ASSUME World, NEW c \in Read
  PROVE  /\ FeeOf(c) \in Nat /\ FeeOf(c) > SignatureFee /\ Moved(c) \in Int
         /\ Charge(c) = FeeOf(c) + Moved(c)
         /\ ReadsHold(c) => Moved(c) = 0
<1>1. members \in Nat /\ creationFee \in Nat
  BY AmountsAssumption DEF World
<1> DEFINE then == AllocatedProposal(c.members)
           now == AllocatedProposal(members)
<1>2. CASE c \in ReadMessage
  <2> DEFINE vault == VaultAt[c.request.vault]
             a == Rent(87 + AllocatedMessage(vault, c.instructions))
  <2>1. /\ c.request.op \in {"propose", "proposeTransfer"} /\ c.request.vault \in DOMAIN VaultAt
        /\ c.members \in 1 .. MaxMembers /\ c.instructions \in Seq(InstructionOver(Keys))
    BY <1>2 DEF ReadMessage, ProposeRequest, TransferRequest
  <2>2. vault \in Keys /\ c.members \in Nat
    BY <2>1, AmountsAssumption, WhoIsAKey
  <2>3. FeeOf(c) = MessageFee(vault, c.instructions, c.members)
    BY <2>1 DEF FeeOf, MessageFee
  <2>4. Charge(c) = (a + now) + SignatureFee
    BY <2>1 DEF Charge, Allocated
  <2>5. Moved(c) = now - then /\ (ReadsHold(c) => then = now)
    BY <2>1 DEF ReadsHold, Moved
  <2> HIDE DEF vault
  <2>6. /\ FeeOf(c) \in Nat /\ FeeOf(c) > SignatureFee
        /\ FeeOf(c) = a + then + SignatureFee
        /\ a \in Int /\ then \in Int /\ now \in Int
    BY <1>1, <2>1, <2>2, <2>3, MessageFees
  <2>7. SignatureFee = 5000
    BY DEF SignatureFee
  <2> HIDE DEF a, then, now
  <2> QED BY ONLY <2>4, <2>5, <2>6, <2>7
<1>3. CASE c \in ReadConfig
  <2>1. c.request.op = "proposeConfig" /\ c.request.actions \in ActionList
        /\ c.members \in 1 .. MaxMembers
    BY <1>3 DEF ReadConfig, ConfigRequest
  <2> DEFINE a == ActionsSize(c.request.actions)
             m == c.members
  <2>2. a \in Nat /\ m \in Nat
    BY <2>1, AmountsAssumption, ActionsHaveASize
  <2>3. FeeOf(c) = (128 + (81 + a)) * 6960 + (128 + (70 + 96 * m)) * 6960 + 5000
    BY <2>1 DEF FeeOf, QuoteProposal, QuoteProposalRent, ConfigTransactionSize, Rent,
       SignatureFee
  <2>4. Charge(c) = ((128 + (81 + a)) * 6960 + now) + 5000
    BY <2>1 DEF Charge, Allocated, Rent, SignatureFee
  <2>5. Moved(c) = now - then /\ (ReadsHold(c) => then = now)
    BY <2>1 DEF ReadsHold, Moved
  <2>6. /\ SignatureFee = 5000
        /\ then = (128 + (8 + 32 + 8 + 9 + 1 + 3 * 4 + 3 * 32 * m)) * 6960
        /\ now = (128 + (8 + 32 + 8 + 9 + 1 + 3 * 4 + 3 * 32 * members)) * 6960
    BY DEF SignatureFee, AllocatedProposal, Rent
  <2> HIDE DEF a, m, then, now
  <2> QED BY ONLY <1>1, <2>2, <2>3, <2>4, <2>5, <2>6
<1>4. CASE c \in ReadDeploy
  <2>1. c.request.op = "deploy" /\ c.request.owners \in Owners /\ c.creationFee \in CreationFee
    BY <1>4 DEF ReadDeploy, DeployRequest
  <2> DEFINE o == c.request.owners
             f == c.creationFee
  <2>2. o \in Nat /\ f \in Nat
    <3>1. Owners \subseteq Nat /\ CreationFee \subseteq Nat
      BY AmountsAssumption, OwnersAssumption
    <3> QED BY ONLY <2>1, <3>1
  <2>3. FeeOf(c) = (128 + (132 + 33 * o)) * 6960 + f + 2 * 5000
    BY <2>1 DEF FeeOf, QuoteDeployFrom, MultisigAccountSize, Rent, SignatureFee
  <2>4. Charge(c) = (128 + (132 + 33 * o)) * 6960 + (creationFee + 2 * 5000)
    BY <2>1 DEF Charge, Allocated, Rent, SignatureFee
  <2>5. Moved(c) = creationFee - f /\ (ReadsHold(c) => f = creationFee)
    BY <2>1 DEF ReadsHold, Moved
  <2>6. SignatureFee = 5000
    BY DEF SignatureFee
  <2> HIDE DEF o, f
  <2> QED BY ONLY <1>1, <2>2, <2>3, <2>4, <2>5, <2>6
<1> QED BY <1>2, <1>3, <1>4 DEF Read

(***************************************************************************)
(* The inductive invariant.                                                *)
(***************************************************************************)

\* The instructions a call would be made of if it read the token accounts now.
InstructionsNow(request) ==
  IF request.op = "propose" THEN InstructionsOf(VaultAt[request.vault], request.tx)
  ELSE TransferInstructions(VaultAt[request.vault], request.to, request.to \in holders)

\* What a quote would say if it were asked for now.
QuoteNow(request) ==
  IF request.op = "deploy"
  THEN QuoteDeployFrom(creationFee, Rent(MultisigAccountSize(request.owners)))
  ELSE IF request.op = "propose"
  THEN MessageFee(DefaultVault, InstructionsOf(DefaultVault, request.tx), members)
  ELSE MessageFee(DefaultVault,
                  TransferInstructions(DefaultVault, request.to, request.to \in holders), members)

\* While a call runs there is no outcome.
CallInv == call # None => call \in Reading \cup Read /\ outcome = None

\* Nothing is called while a quote is read.  A fresh quote is what would be quoted
\* now, and a call made after it read, and is made of, what is there now.
QuoteInv ==
  quote # None =>
    /\ quote \in QuoteReading \cup QuoteRead
    /\ quote \in QuoteReading => call = None /\ outcome = None
    /\ quote \in QuoteReading /\ quote.fresh => quote.members = members
    /\ quote.request.op # "deploy" => members > 0
    /\ quote \in QuoteRead /\ quote.fresh => quote.fee = QuoteNow(quote.request)
    /\ quote.fresh /\ call # None =>
         /\ call \in Read => ReadsHold(call)
         /\ call.request.op \in {"propose", "proposeTransfer"} =>
              call.instructions = InstructionsNow(call.request)

OutcomeInv ==
  outcome # None =>
    /\ outcome.step \in {"refused", "landed"} /\ outcome.request \in Request
    /\ outcome.fee \in Nat /\ outcome.moved \in Int
    /\ (outcome.step = "refused") <=> AboveCeiling(outcome.request.op, outcome.fee)
    /\ outcome.charge = outcome.fee + outcome.moved
    /\ AtDefaultVault /\ outcome.quoted # 0 => outcome.quoted = outcome.charge

IInv == World /\ CallInv /\ QuoteInv /\ OutcomeInv

\* A call or a quote is not the absence of one, and is read or being read.
LEMMA Steps ==
  /\ \A c \in Reading : c.step = "reading" /\ c # None
  /\ \A c \in Read : c.step = "read" /\ c # None
  /\ \A q \in QuoteReading : q.step = "reading" /\ q # None
  /\ \A q \in QuoteRead : q.step = "quoted" /\ q # None
  /\ None.step = "none"
<1> QED BY DEF Reading, Read, ReadingTransfer, ReadingDeploy, ReadMessage, ReadConfig, ReadDeploy,
           QuoteReading, QuoteRead, None

\* What a request of each kind says.
LEMMA Requests ==
  /\ \A r \in DeployRequest : r \in Request /\ r.op = "deploy" /\ r.owners \in Owners
  /\ \A r \in ConfigRequest : r \in Request /\ r.op = "proposeConfig" /\ r.actions \in ActionList
  /\ \A r \in ProposeRequest : r \in Request /\ r.op = "propose" /\ r.tx \in Transaction
                                 /\ r.vault \in DOMAIN VaultAt
  /\ \A r \in TransferRequest : r \in Request /\ r.op = "proposeTransfer" /\ r.to \in Recipient
                                  /\ r.vault \in DOMAIN VaultAt
  /\ \A r \in DeployRequest : "vault" \notin DOMAIN r
  /\ \A r \in ProposeRequest \cup TransferRequest : "vault" \in DOMAIN r
<1>1. /\ \A r \in DeployRequest : r \in Request /\ r.op = "deploy" /\ r.owners \in Owners
                                    /\ "vault" \notin DOMAIN r
      /\ \A r \in ConfigRequest : r \in Request /\ r.op = "proposeConfig" /\ r.actions \in ActionList
  BY DEF DeployRequest, ConfigRequest, Request
<1>2. \A r \in ProposeRequest : r \in Request /\ r.op = "propose" /\ r.tx \in Transaction
                                  /\ r.vault \in DOMAIN VaultAt /\ "vault" \in DOMAIN r
  BY DEF ProposeRequest, Request
<1>3. \A r \in TransferRequest : r \in Request /\ r.op = "proposeTransfer" /\ r.to \in Recipient
                                   /\ r.vault \in DOMAIN VaultAt /\ "vault" \in DOMAIN r
  BY DEF TransferRequest, Request
<1> QED BY <1>1, <1>2, <1>3

\* What a call that ends was quoted, for the default vault and since nothing moved,
\* is what it computes: it has read, in another order, what the quote read.
LEMMA QuotedIsFee ==
  ASSUME World, CallInv, QuoteInv, call \in Read,
         "vault" \in DOMAIN call.request => call.request.vault = 0,
         QuotedFor(call.request) # 0
  PROVE  ReadsHold(call) /\ QuotedFor(call.request) = FeeOf(call)
<1>1. /\ quote.step = "quoted" /\ quote.fresh /\ QuotedFor(call.request) = quote.fee
      /\ \A field \in DOMAIN quote.request :
           field \in DOMAIN call.request /\ quote.request[field] = call.request[field]
  BY DEF QuotedFor
<1>2. call # None /\ quote # None /\ quote \in QuoteRead
  BY <1>1, Steps DEF QuoteInv
<1>3. /\ quote.request \in QuoteRequest /\ quote.fee = QuoteNow(quote.request)
      /\ call.request.op \in {"propose", "proposeTransfer"} =>
           call.instructions = InstructionsNow(call.request)
  BY <1>1, <1>2 DEF QuoteInv, QuoteRead
<1>4. ReadsHold(call)
  BY <1>1, <1>2 DEF QuoteInv
<1>5. CASE quote.request \in [op : {"deploy"}, owners : Owners]
  <2>1. call.request.op = "deploy" /\ call.request.owners = quote.request.owners
        /\ quote.request.op = "deploy"
    BY <1>1, <1>5
  <2>2. call.creationFee = creationFee
    BY <1>4, <2>1 DEF ReadsHold
  <2>3. FeeOf(call) = quote.fee
    BY <1>3, <2>1, <2>2 DEF FeeOf, QuoteNow
  <2> QED BY <1>1, <1>4, <2>3
<1>6. CASE quote.request \in [op : {"propose"}, tx : Transaction]
  <2>1. call.request.op = "propose" /\ call.request.tx = quote.request.tx
        /\ quote.request.op = "propose"
    BY <1>1, <1>6
  <2>2. call.members = members
    BY <1>4, <2>1 DEF ReadsHold
  <2>3. call.request \in ProposeRequest
    BY <2>1, Requests DEF Read, ReadMessage, ReadConfig, ReadDeploy
  <2>4. VaultAt[call.request.vault] = DefaultVault
    BY <2>3, Requests DEF DefaultVault
  <2>5. call.instructions = InstructionsOf(DefaultVault, quote.request.tx)
    BY <1>3, <2>1, <2>4 DEF InstructionsNow
  <2>6. FeeOf(call) = MessageFee(DefaultVault, call.instructions, members)
    BY <2>1, <2>2, <2>4 DEF FeeOf, MessageFee
  <2>7. quote.fee = MessageFee(DefaultVault, InstructionsOf(DefaultVault, quote.request.tx), members)
    BY <1>3, <2>1 DEF QuoteNow
  <2> QED BY <1>1, <1>4, <2>5, <2>6, <2>7
<1>7. CASE quote.request \in [op : {"proposeTransfer"}, to : Recipient]
  <2>1. call.request.op = "proposeTransfer" /\ call.request.to = quote.request.to
        /\ quote.request.op = "proposeTransfer"
    BY <1>1, <1>7
  <2>2. call.members = members
    BY <1>4, <2>1 DEF ReadsHold
  <2>3. call.request \in TransferRequest
    BY <2>1, Requests DEF Read, ReadMessage, ReadConfig, ReadDeploy
  <2>4. VaultAt[call.request.vault] = DefaultVault
    BY <2>3, Requests DEF DefaultVault
  <2> DEFINE now == TransferInstructions(DefaultVault, quote.request.to,
                                         quote.request.to \in holders)
  <2>5. call.instructions = now
    BY <1>3, <2>1, <2>4 DEF InstructionsNow
  <2>6. FeeOf(call) = MessageFee(DefaultVault, call.instructions, members)
    BY <2>1, <2>2, <2>4 DEF FeeOf, MessageFee
  <2>7. quote.fee = MessageFee(DefaultVault, now, members)
    BY <1>3, <2>1 DEF QuoteNow
  <2> QED BY <1>1, <1>4, <2>5, <2>6, <2>7
<1> QED BY <1>3, <1>5, <1>6, <1>7 DEF QuoteRequest

\* Initially nothing was quoted or called.
LEMMA InitIInv == Init => IInv
<1> QED BY DEF Init, IInv, World, CallInv, QuoteInv, OutcomeInv

(***************************************************************************)
(* Quotes keep the invariant.                                              *)
(***************************************************************************)

\* A quote that is asked for and answered at once.
LEMMA QuoteIInv ==
  ASSUME IInv, Quoting, NEW request \in QuoteRequest, NEW fee,
         fee \in Nat, fee > SignatureFee, request.op # "deploy" => members > 0,
         fee = QuoteNow(request), quote' = Quoted(request, fee),
         UNCHANGED <<worldVars, maxFee, call, outcome>>
  PROVE  IInv'
<1>1. call = None /\ outcome = None
  BY DEF Quoting
<1>2. /\ members' = members /\ creationFee' = creationFee /\ holders' = holders
      /\ maxFee' = maxFee /\ call' = None /\ outcome' = None
  BY <1>1 DEF worldVars
<1>3. World' /\ CallInv' /\ OutcomeInv'
  BY <1>2 DEF IInv, World, CallInv, OutcomeInv
<1>4. quote' \in QuoteRead /\ quote'.request = request /\ quote'.fee = fee
  BY DEF Quoted, QuoteRead
<1>5. quote'.step = "quoted" /\ quote' \notin QuoteReading
  BY <1>4, Steps
<1>6. QuoteNow(request)' = QuoteNow(request)
  BY <1>2 DEF QuoteNow
<1>7. QuoteInv'
  BY <1>2, <1>4, <1>5, <1>6 DEF QuoteInv
<1> QED BY <1>3, <1>7 DEF IInv

\* quoteDeploy
LEMMA QuoteDeployIInv ==
  ASSUME IInv, NEW owners \in Owners, QuoteDeploy(owners)
  PROVE  IInv'
<1> DEFINE request == [op |-> "deploy", owners |-> owners]
           fee == QuoteDeployFrom(creationFee, Rent(MultisigAccountSize(owners)))
<1>1. request \in QuoteRequest /\ request.op = "deploy" /\ fee = QuoteNow(request)
  BY DEF QuoteRequest, QuoteNow
<1>2. fee \in Nat /\ fee > SignatureFee
  <2>1. Owners \subseteq Nat /\ CreationFee \subseteq Nat
    BY AmountsAssumption, OwnersAssumption
  <2>2. owners \in Nat /\ creationFee \in Nat
    BY <2>1 DEF IInv, World
  <2>3. fee = (128 + (132 + 33 * owners)) * 6960 + creationFee + 2 * 5000
    BY DEF QuoteDeployFrom, MultisigAccountSize, Rent, SignatureFee
  <2>4. SignatureFee = 5000
    BY DEF SignatureFee
  <2> HIDE DEF fee
  <2> QED BY ONLY <2>2, <2>3, <2>4
<1>3. Quoting /\ quote' = Quoted(request, fee) /\ UNCHANGED <<worldVars, maxFee, call, outcome>>
  BY DEF QuoteDeploy
<1> HIDE DEF request, fee
<1> QED BY <1>1, <1>2, <1>3, QuoteIInv

\* quotePropose
LEMMA QuoteProposeIInv ==
  ASSUME IInv, NEW tx \in Transaction, QuotePropose(tx)
  PROVE  IInv'
<1> DEFINE request == [op |-> "propose", tx |-> tx]
           fee == MessageFee(DefaultVault, InstructionsOf(DefaultVault, tx), members)
<1>1. request \in QuoteRequest /\ request.op = "propose" /\ fee = QuoteNow(request)
  BY DEF QuoteRequest, QuoteNow
<1>2. fee \in Nat /\ fee > SignatureFee
  <2>1. members \in Nat
    BY AmountsAssumption DEF IInv, World
  <2>2. DefaultVault \in Address /\ DefaultVault \in Keys
    BY WhoIsAKey
  <2>3. InstructionsOf(DefaultVault, tx) \in Seq(InstructionOver(Keys))
    BY <2>2, InstructionsTyped
  <2> QED BY ONLY <2>1, <2>2, <2>3, MessageFees
<1>3. /\ Quoting /\ quote' = Quoted(request, fee) /\ members > 0
      /\ UNCHANGED <<worldVars, maxFee, call, outcome>>
  BY DEF QuotePropose, MessageFee
<1> HIDE DEF request, fee
<1> QED BY <1>1, <1>2, <1>3, QuoteIInv

\* quoteTransfer, up to its first read.
LEMMA QuoteTransferIInv ==
  ASSUME IInv, NEW to \in Recipient, QuoteTransfer(to)
  PROVE  IInv'
<1>1. /\ call = None /\ outcome = None /\ members > 0
      /\ members' = members /\ creationFee' = creationFee /\ holders' = holders
      /\ maxFee' = maxFee /\ call' = call /\ outcome' = outcome
      /\ quote' = [step |-> "reading", request |-> [op |-> "proposeTransfer", to |-> to],
                   members |-> members, fresh |-> TRUE]
  BY DEF QuoteTransfer, Quoting, worldVars
<1>2. World' /\ CallInv' /\ OutcomeInv'
  BY <1>1 DEF IInv, World, CallInv, OutcomeInv
<1>3. quote' \in QuoteReading /\ quote'.members = members
  BY <1>1, AmountsAssumption DEF QuoteReading, IInv, World
<1>4. quote' \notin QuoteRead
  BY <1>3, Steps
<1>5. QuoteInv'
  BY <1>1, <1>3, <1>4 DEF QuoteInv
<1> QED BY <1>2, <1>5 DEF IInv

\* quoteTransfer, once it has looked at the token accounts.
LEMMA FinishQuoteIInv ==
  ASSUME IInv, FinishQuote
  PROVE  IInv'
<1> DEFINE to == quote.request.to
           instructions == TransferInstructions(DefaultVault, to, to \in holders)
           fee == MessageFee(DefaultVault, instructions, quote.members)
<1>1. /\ quote.step = "reading"
      /\ quote' = [Quoted(quote.request, fee) EXCEPT !.fresh = quote.fresh]
      /\ members' = members /\ creationFee' = creationFee /\ holders' = holders
      /\ maxFee' = maxFee /\ call' = call /\ outcome' = outcome
  BY DEF FinishQuote, worldVars, MessageFee
<1>2. quote # None /\ quote \in QuoteReading /\ call = None /\ outcome = None
  BY <1>1, Steps DEF IInv, QuoteInv
<1>3. /\ quote.request \in [op : {"proposeTransfer"}, to : Recipient] /\ quote.fresh \in BOOLEAN
      /\ quote.members \in 1 .. MaxMembers
  BY <1>2 DEF QuoteReading
<1>4. quote.fresh => quote.members = members
  BY <1>2 DEF IInv, QuoteInv
<1>5. quote.request.op = "proposeTransfer" /\ to \in Recipient /\ members > 0
  BY <1>2, <1>3 DEF IInv, QuoteInv
<1>6. fee \in Nat /\ fee > SignatureFee
  <2>1. quote.members \in Nat
    BY <1>3, AmountsAssumption
  <2>2. DefaultVault \in Address /\ DefaultVault \in Keys
    BY WhoIsAKey
  <2>3. instructions \in Seq(InstructionOver(Keys))
    BY <1>5, <2>2, TransfersTyped
  <2> HIDE DEF instructions
  <2> QED BY ONLY <2>1, <2>2, <2>3, MessageFees
<1>7. quote.fresh => fee = QuoteNow(quote.request)
  BY <1>4, <1>5 DEF QuoteNow
<1> HIDE DEF fee
<1>8. /\ quote' \in QuoteRead /\ quote'.request = quote.request /\ quote'.fee = fee
      /\ quote'.fresh = quote.fresh
  BY <1>1, <1>3, <1>6 DEF Quoted, QuoteRead, QuoteRequest
<1>9. quote' \notin QuoteReading
  BY <1>8, Steps
<1>10. World' /\ CallInv' /\ OutcomeInv'
  BY <1>1, <1>2 DEF IInv, World, CallInv, OutcomeInv
<1>11. \A request : QuoteNow(request)' = QuoteNow(request)
  BY <1>1 DEF QuoteNow
<1>12. QuoteInv'
  BY <1>1, <1>2, <1>5, <1>7, <1>8, <1>9, <1>11 DEF QuoteInv
<1> QED BY <1>10, <1>12 DEF IInv

(***************************************************************************)
(* Calls keep the invariant.                                               *)
(***************************************************************************)

\* A call that starts: made of what is there.
LEMMA CallIInv ==
  ASSUME IInv, Calling, UNCHANGED <<worldVars, maxFee, quote, outcome>>,
         call' \in Reading \cup Read, call' \in Read => ReadsHold(call'),
         call'.request.op \in {"propose", "proposeTransfer"} =>
           call'.instructions = InstructionsNow(call'.request)
  PROVE  IInv'
<1>1. /\ quote.step # "reading" /\ outcome = None
      /\ members' = members /\ creationFee' = creationFee /\ holders' = holders
      /\ maxFee' = maxFee /\ quote' = quote /\ outcome' = None
  BY DEF Calling, worldVars
<1>2. World' /\ OutcomeInv'
  BY <1>1 DEF IInv, World, OutcomeInv
<1>3. CallInv'
  BY <1>1 DEF CallInv
<1>4. QuoteInv'
  <2>1. quote \notin QuoteReading
    BY <1>1, Steps
  <2>2. \A request : QuoteNow(request)' = QuoteNow(request)
    BY <1>1 DEF QuoteNow
  <2>3. InstructionsNow(call'.request) = InstructionsNow(call.request)'
    BY <1>1 DEF InstructionsNow
  <2>4. ReadsHold(call)' <=> ReadsHold(call')
    BY <1>1 DEF ReadsHold
  <2> QED BY <1>1, <2>1, <2>2, <2>3, <2>4 DEF IInv, QuoteInv
<1> QED BY <1>2, <1>3, <1>4 DEF IInv

\* propose
LEMMA ProposeIInv ==
  ASSUME IInv, NEW tx \in Transaction, NEW vault \in DOMAIN VaultAt, Propose(tx, vault)
  PROVE  IInv'
<1> DEFINE request == [op |-> "propose", tx |-> tx, vault |-> vault]
           instructions == InstructionsOf(VaultAt[vault], tx)
<1>1. /\ Calling /\ members > 0 /\ UNCHANGED <<worldVars, maxFee, quote, outcome>>
      /\ call' = [step |-> "read", members |-> members, request |-> request,
                  instructions |-> instructions]
  BY DEF Propose
<1>2. request \in ProposeRequest /\ request.op = "propose"
  BY DEF ProposeRequest
<1>3. instructions \in Seq(InstructionOver(Keys)) /\ instructions = InstructionsNow(request)
  <2>1. VaultAt[vault] \in Address
    BY WhoIsAKey
  <2>2. InstructionsOf(VaultAt[vault], tx) \in Seq(InstructionOver(Keys))
    BY <2>1, InstructionsTyped
  <2> QED BY <2>2 DEF InstructionsNow
<1>4. members \in 1 .. MaxMembers
  BY <1>1, AmountsAssumption DEF IInv, World
<1> HIDE DEF request, instructions
<1>5. call' \in ReadMessage /\ call'.members = members
      /\ call'.request = request /\ call'.instructions = instructions
  BY <1>1, <1>2, <1>3, <1>4 DEF ReadMessage
<1>6. ReadsHold(call') /\ call' \in Read
  BY <1>2, <1>5 DEF ReadsHold, Read
<1> QED BY <1>1, <1>3, <1>5, <1>6, CallIInv

\* addOwner, removeOwner, swapOwner and changeThreshold
LEMMA ProposeConfigIInv ==
  ASSUME IInv, NEW actions \in ActionList, ProposeConfig(actions)
  PROVE  IInv'
<1> DEFINE request == [op |-> "proposeConfig", actions |-> actions]
<1>1. /\ Calling /\ members > 0 /\ UNCHANGED <<worldVars, maxFee, quote, outcome>>
      /\ call' = [step |-> "read", members |-> members, request |-> request]
  BY DEF ProposeConfig
<1>2. request \in ConfigRequest /\ request.op = "proposeConfig"
  BY DEF ConfigRequest
<1>3. members \in 1 .. MaxMembers
  BY <1>1, AmountsAssumption DEF IInv, World
<1> HIDE DEF request
<1>4. call' \in ReadConfig /\ call'.members = members /\ call'.request = request
  BY <1>1, <1>2, <1>3 DEF ReadConfig
<1>5. ReadsHold(call') /\ call' \in Read
  BY <1>2, <1>4 DEF ReadsHold, Read
<1> QED BY <1>1, <1>2, <1>4, <1>5, CallIInv

\* proposeTransfer, up to the multisig's members.
LEMMA ProposeTransferIInv ==
  ASSUME IInv, NEW to \in Recipient, NEW vault \in DOMAIN VaultAt, ProposeTransfer(to, vault)
  PROVE  IInv'
<1> DEFINE request == [op |-> "proposeTransfer", to |-> to, vault |-> vault]
           instructions == TransferInstructions(VaultAt[vault], to, to \in holders)
<1>1. /\ Calling /\ UNCHANGED <<worldVars, maxFee, quote, outcome>>
      /\ call' = [step |-> "reading", request |-> request,
                  instructions |-> instructions]
  BY DEF ProposeTransfer
<1>2. request \in TransferRequest /\ request.op = "proposeTransfer"
  BY DEF TransferRequest
<1>3. instructions \in Seq(InstructionOver(Keys)) /\ instructions = InstructionsNow(request)
  <2>1. VaultAt[vault] \in Address
    BY WhoIsAKey
  <2>2. instructions \in Seq(InstructionOver(Keys))
    BY <2>1, TransfersTyped
  <2>3. instructions = InstructionsNow(request)
    BY DEF InstructionsNow
  <2> QED BY <2>2, <2>3
<1> HIDE DEF request, instructions
<1>4. call' \in ReadingTransfer /\ call'.request = request /\ call'.instructions = instructions
  BY <1>1, <1>2, <1>3 DEF ReadingTransfer
<1>5. call' \in Reading /\ call' \notin Read
  BY <1>4, Steps DEF Reading
<1> QED BY <1>1, <1>3, <1>4, <1>5, CallIInv

\* deploy, up to the creation fee.
LEMMA DeployIInv ==
  ASSUME IInv, NEW owners \in Owners, Deploy(owners)
  PROVE  IInv'
<1> DEFINE request == [op |-> "deploy", owners |-> owners]
<1>1. /\ Calling /\ UNCHANGED <<worldVars, maxFee, quote, outcome>>
      /\ call' = [step |-> "reading", request |-> request]
  BY DEF Deploy
<1>2. request \in DeployRequest /\ request.op = "deploy"
  BY DEF DeployRequest
<1> HIDE DEF request
<1>3. call' \in ReadingDeploy /\ call'.request = request
  BY <1>1, <1>2 DEF ReadingDeploy
<1>4. call' \in Reading /\ call' \notin Read
  BY <1>3, Steps DEF Reading
<1> QED BY <1>1, <1>2, <1>3, <1>4, CallIInv

\* The second read of proposeTransfer and of deploy.
LEMMA FinishReadsIInv ==
  ASSUME IInv, FinishReads
  PROVE  IInv'
<1>1. /\ call.step = "reading"
      /\ members' = members /\ creationFee' = creationFee /\ holders' = holders
      /\ maxFee' = maxFee /\ quote' = quote /\ outcome' = outcome
  BY DEF FinishReads, worldVars
<1>2. call # None /\ call \in Reading /\ outcome = None
  BY <1>1, Steps DEF IInv, CallInv
<1>3. /\ call' \in Read /\ call'.request = call.request
      /\ ReadsHold(call')
      /\ call.request.op \in {"propose", "proposeTransfer"} =>
           call'.instructions = call.instructions
  <2>1. CASE call.request.op = "proposeTransfer"
    <3>1. call \in ReadingTransfer
      BY <1>2, <2>1, Requests DEF Reading, ReadingDeploy
    <3>2. /\ members > 0
          /\ call' = [step |-> "read", members |-> members,
                      request |-> call.request, instructions |-> call.instructions]
      BY <2>1 DEF FinishReads
    <3>3. members \in 1 .. MaxMembers
      BY <3>2, AmountsAssumption DEF IInv, World
    <3>4. call' \in ReadMessage
      BY <3>1, <3>2, <3>3 DEF ReadingTransfer, ReadMessage
    <3> QED BY <2>1, <3>2, <3>4 DEF Read, ReadsHold
  <2>2. CASE call.request.op # "proposeTransfer"
    <3>1. /\ call.request.op = "deploy"
          /\ call' = [step |-> "read", creationFee |-> creationFee,
                      request |-> call.request]
      BY <2>2 DEF FinishReads
    <3>2. call \in ReadingDeploy
      BY <1>2, <2>2, Requests DEF Reading, ReadingTransfer
    <3>3. call' \in ReadDeploy
      BY <3>1, <3>2 DEF ReadingDeploy, ReadDeploy, IInv, World
    <3> QED BY <3>1, <3>3 DEF Read, ReadsHold
  <2> QED BY <2>1, <2>2
<1>4. World' /\ OutcomeInv'
  BY <1>1, <1>2 DEF IInv, World, OutcomeInv
<1>5. CallInv'
  BY <1>1, <1>2, <1>3 DEF CallInv
<1>6. QuoteInv'
  <2>1. quote # None => quote \notin QuoteReading
    BY <1>2 DEF IInv, QuoteInv
  <2>2. \A request : QuoteNow(request)' = QuoteNow(request)
    BY <1>1 DEF QuoteNow
  <2>3. InstructionsNow(call.request)' = InstructionsNow(call.request)
    BY <1>1, <1>3 DEF InstructionsNow
  <2>4. ReadsHold(call)' <=> ReadsHold(call')
    BY <1>1 DEF ReadsHold
  <2> QED BY <1>1, <1>2, <1>3, <2>1, <2>2, <2>3, <2>4 DEF IInv, QuoteInv
<1> QED BY <1>4, <1>5, <1>6 DEF IInv

(***************************************************************************)
(* Outcomes keep it, and so does everyone else.                            *)
(***************************************************************************)

\* The request of a call is one a caller can make.
LEMMA RequestOfCall == \A c \in Reading \cup Read : c.request \in Request
<1> QED BY Requests DEF Reading, Read, ReadingTransfer, ReadingDeploy, ReadMessage, ReadConfig,
           ReadDeploy

\* What is reported of a call that has read, when it is refused or lands.
LEMMA OutcomeOf ==
  ASSUME IInv, call \in Read, NEW step \in {"refused", "landed"}, maxFee' = maxFee,
         step = "refused" <=> AboveCeiling(call.request.op, FeeOf(call)),
         outcome' = Outcome(step, Charge(call))
  PROVE  OutcomeInv'
<1>1. /\ outcome'.step = step /\ outcome'.request = call.request /\ outcome'.moved = Moved(call)
      /\ outcome'.fee = FeeOf(call) /\ outcome'.charge = Charge(call)
      /\ outcome'.quoted = QuotedFor(call.request)
  BY DEF Outcome
<1>2. call # None /\ call.request \in Request
  BY Steps, RequestOfCall
<1>3. /\ FeeOf(call) \in Nat /\ Moved(call) \in Int /\ Charge(call) = FeeOf(call) + Moved(call)
      /\ ReadsHold(call) => Moved(call) = 0
  BY FeeAndCharge DEF IInv
<1>4. ReadsHold(call) => FeeOf(call) = Charge(call)
  BY <1>3
<1>5. ("vault" \in DOMAIN call.request => call.request.vault = 0) /\ QuotedFor(call.request) # 0
        => QuotedFor(call.request) = Charge(call)
  BY <1>4, QuotedIsFee DEF IInv
<1>6. AtDefaultVault' <=> ("vault" \in DOMAIN call.request => call.request.vault = 0)
  BY <1>1 DEF AtDefaultVault
<1>7. (outcome'.step = "refused") <=> AboveCeiling(outcome.request.op, outcome.fee)'
  <2>1. AboveCeiling(outcome.request.op, outcome.fee)'
          <=> AboveCeiling(call.request.op, FeeOf(call))
    BY <1>1 DEF AboveCeiling
  <2> QED BY <1>1, <2>1
<1>8. /\ outcome'.fee \in Nat /\ outcome'.step \in {"refused", "landed"}
      /\ outcome'.request \in Request
      /\ outcome'.moved \in Int /\ outcome'.charge = outcome'.fee + outcome'.moved
  BY <1>1, <1>2, <1>3
<1>9. AtDefaultVault' /\ outcome'.quoted # 0 => outcome'.quoted = outcome'.charge
  BY <1>1, <1>5, <1>6
<1> QED BY <1>7, <1>8, <1>9 DEF OutcomeInv

\* A call in progress is read before it ends.
LEMMA ReadCall ==
  ASSUME IInv, call.step = "read"
  PROVE  call \in Read /\ call # None /\ outcome = None
<1> QED BY Steps DEF IInv, CallInv

\* MaximumFeeExceededError
LEMMA RefuseIInv ==
  ASSUME IInv, Refuse
  PROVE  IInv'
<1>1. /\ call.step = "read" /\ AboveCeiling(call.request.op, FeeOf(call))
      /\ outcome' = Outcome("refused", Charge(call)) /\ call' = None
      /\ members' = members /\ creationFee' = creationFee /\ holders' = holders
      /\ maxFee' = maxFee /\ quote' = quote
  BY DEF Refuse, worldVars
<1>2. call \in Read /\ call # None
  BY <1>1, ReadCall
<1>3. OutcomeInv'
  BY <1>1, <1>2, OutcomeOf
<1>4. World' /\ CallInv'
  BY <1>1 DEF IInv, World, CallInv
<1>5. QuoteInv'
  <2>1. quote # None => quote \notin QuoteReading
    BY <1>2 DEF IInv, QuoteInv
  <2>2. \A request : QuoteNow(request)' = QuoteNow(request)
    BY <1>1 DEF QuoteNow
  <2> QED BY <1>1, <2>1, <2>2 DEF IInv, QuoteInv
<1> QED BY <1>3, <1>4, <1>5 DEF IInv

\* The transaction lands; that of a deploy makes the members.
LEMMA LandIInv ==
  ASSUME IInv, Land
  PROVE  IInv'
<1>1. /\ call.step = "read" /\ ~AboveCeiling(call.request.op, FeeOf(call))
      /\ (call.request.op = "deploy") = (members = 0)
      /\ outcome' = Outcome("landed", Charge(call)) /\ call' = None
      /\ members' = IF members = 0 THEN call.request.owners ELSE members
      /\ creationFee' = creationFee /\ holders' = holders
      /\ maxFee' = maxFee /\ quote' = quote
  BY DEF Land
<1>2. call \in Read /\ call # None
  BY <1>1, ReadCall
<1>3. OutcomeInv'
  BY <1>1, <1>2, OutcomeOf
<1>4. members' \in 0 .. MaxMembers /\ (members = 0 \/ members' = members)
  <2>1. CASE members = 0
    <3>1. call.request \in DeployRequest
      BY <1>1, <1>2, <2>1, Requests DEF Read, ReadMessage, ReadConfig, ReadDeploy
    <3>2. call.request.owners \in Owners
      BY <3>1, Requests
    <3>3. members' \in Owners
      BY <1>1, <2>1, <3>2
    <3> QED BY <2>1, <3>3, OwnersAssumption, AmountsAssumption
  <2>2. CASE members # 0
    BY <1>1, <2>2 DEF IInv, World
  <2> QED BY <2>1, <2>2
<1>5. World' /\ CallInv'
  BY <1>1, <1>4 DEF IInv, World, CallInv
<1>6. QuoteInv'
  <2>1. quote # None => quote \notin QuoteReading
    BY <1>2 DEF IInv, QuoteInv
  <2>2. CASE quote # None /\ quote.request.op = "deploy"
    <3>1. QuoteNow(quote.request)' = QuoteNow(quote.request)
      BY <1>1, <2>2 DEF QuoteNow
    <3> QED BY <1>1, <2>1, <2>2, <3>1 DEF IInv, QuoteInv
  <2>3. CASE quote # None /\ quote.request.op # "deploy"
    <3>1. members > 0 /\ members' = members
      <4>1. members > 0
        BY <2>3 DEF IInv, QuoteInv
      <4>2. members # 0
        BY <4>1
      <4> QED BY <1>4, <4>1, <4>2
    <3>2. \A request : QuoteNow(request)' = QuoteNow(request)
      BY <1>1, <3>1 DEF QuoteNow
    <3> QED BY <1>1, <2>1, <2>3, <3>1, <3>2 DEF IInv, QuoteInv
  <2>4. CASE quote = None
    BY <1>1, <2>4 DEF QuoteInv
  <2> QED BY <2>2, <2>3, <2>4
<1> QED BY <1>3, <1>5, <1>6 DEF IInv

\* The call throws, or its transaction never lands.
LEMMA DropIInv ==
  ASSUME IInv, Drop
  PROVE  IInv'
<1>1. /\ call # None /\ call' = None
      /\ members' = members /\ creationFee' = creationFee /\ holders' = holders
      /\ maxFee' = maxFee /\ quote' = quote /\ outcome' = outcome
  BY DEF Drop, worldVars
<1>2. World' /\ CallInv' /\ OutcomeInv'
  BY <1>1 DEF IInv, World, CallInv, OutcomeInv
<1>3. QuoteInv'
  <2>1. quote # None => quote \notin QuoteReading
    BY <1>1 DEF IInv, QuoteInv
  <2>2. \A request : QuoteNow(request)' = QuoteNow(request)
    BY <1>1 DEF QuoteNow
  <2> QED BY <1>1, <2>1, <2>2 DEF IInv, QuoteInv
<1> QED BY <1>2, <1>3 DEF IInv

\* A quote that went stale keeps what it says of the request.
LEMMA StaleRecords ==
  /\ quote = None => StaleQuote = None
  /\ quote \in QuoteReading => /\ StaleQuote \in QuoteReading /\ ~StaleQuote.fresh
                               /\ StaleQuote.request = quote.request
  /\ quote \in QuoteRead => /\ StaleQuote \in QuoteRead /\ ~StaleQuote.fresh
                            /\ StaleQuote.request = quote.request
<1>1. quote # None => StaleQuote = [quote EXCEPT !.fresh = FALSE]
  BY DEF StaleQuote
<1>2. \A q \in QuoteReading : /\ [q EXCEPT !.fresh = FALSE] \in QuoteReading
                              /\ ~[q EXCEPT !.fresh = FALSE].fresh
                              /\ [q EXCEPT !.fresh = FALSE].request = q.request
  BY DEF QuoteReading
<1>3. \A q \in QuoteRead : /\ [q EXCEPT !.fresh = FALSE] \in QuoteRead
                           /\ ~[q EXCEPT !.fresh = FALSE].fresh
                           /\ [q EXCEPT !.fresh = FALSE].request = q.request
  BY DEF QuoteRead
<1>4. quote \in QuoteReading \cup QuoteRead => quote # None
  BY Steps
<1>5. quote = None => StaleQuote = None
  BY DEF StaleQuote
<1> QED BY <1>1, <1>2, <1>3, <1>4, <1>5, Zenon

\* A quote that went stale promises nothing any more.
LEMMA StaleQuoteIInv ==
  ASSUME IInv, quote' = StaleQuote, outcome' = outcome,
         call = None => call' = None, members > 0 => members' > 0
  PROVE  QuoteInv'
<1>1. CASE quote = None
  BY <1>1, StaleRecords DEF QuoteInv
<1>2. CASE quote # None
  <2>1. quote \in QuoteReading \cup QuoteRead
    BY <1>2 DEF IInv, QuoteInv
  <2>2. ~quote'.fresh /\ quote'.request = quote.request /\ quote' \in QuoteReading \cup QuoteRead
        /\ (quote' \in QuoteReading => quote \in QuoteReading)
    <3>1. CASE quote \in QuoteReading
      BY <3>1, StaleRecords
    <3>2. CASE quote \in QuoteRead
      BY <3>2, StaleRecords, Steps
    <3> QED BY <2>1, <3>1, <3>2
  <2> QED BY <1>2, <2>2 DEF IInv, QuoteInv
<1> QED BY <1>1, <1>2

\* A member joins or leaves, or the creation fee changes.
LEMMA MoveIInv ==
  ASSUME IInv, Move
  PROVE  IInv'
<1>1. /\ outcome = None /\ Moves /\ quote' = StaleQuote /\ call' = call
      /\ holders' = holders /\ maxFee' = maxFee /\ outcome' = outcome
  BY DEF Move
<1>2. /\ members' \in 0 .. MaxMembers /\ creationFee' \in CreationFee
      /\ members > 0 => members' > 0
  <2>1. members \in 0 .. MaxMembers /\ creationFee \in CreationFee
    BY DEF IInv, World
  <2>2. CASE members' \in {members - 1, members + 1} \cap 1 .. MaxMembers
             /\ creationFee' = creationFee
    BY <2>1, <2>2
  <2>3. CASE members' = members /\ creationFee' \in CreationFee
    BY <2>1, <2>3
  <2> QED BY <1>1, <2>2, <2>3 DEF Moves
<1>3. World' /\ OutcomeInv'
  BY <1>1, <1>2 DEF IInv, World, OutcomeInv
<1>4. CallInv'
  BY <1>1 DEF IInv, CallInv
<1>5. QuoteInv'
  BY <1>1, <1>2, StaleQuoteIInv
<1> QED BY <1>3, <1>4, <1>5 DEF IInv

\* A token account is opened or closed.
LEMMA MoveAccountsIInv ==
  ASSUME IInv, MoveAccounts
  PROVE  IInv'
<1>1. /\ outcome = None /\ quote' = StaleQuote /\ members' = members
      /\ creationFee' = creationFee /\ maxFee' = maxFee /\ call' = call /\ outcome' = outcome
  BY DEF MoveAccounts
<1>2. holders' \subseteq Recipient
  BY DEF MoveAccounts, IInv, World
<1>3. World' /\ OutcomeInv'
  BY <1>1, <1>2 DEF IInv, World, OutcomeInv
<1>4. CallInv'
  BY <1>1 DEF IInv, CallInv
<1>5. QuoteInv'
  BY <1>1, StaleQuoteIInv
<1> QED BY <1>3, <1>4, <1>5 DEF IInv

\* A step that changes nothing.
LEMMA StutterIInv == IInv /\ UNCHANGED vars => IInv'
<1> SUFFICES ASSUME IInv, UNCHANGED vars PROVE IInv'
  OBVIOUS
<1>1. /\ members' = members /\ creationFee' = creationFee /\ holders' = holders
      /\ maxFee' = maxFee /\ quote' = quote /\ call' = call /\ outcome' = outcome
  BY DEF vars, worldVars
<1>2. World' /\ CallInv'
  BY <1>1 DEF IInv, World, CallInv
<1>3. OutcomeInv'
  BY <1>1 DEF IInv, OutcomeInv, AboveCeiling, AtDefaultVault
<1>4. QuoteInv'
  <2>1. /\ \A request : QuoteNow(request)' = QuoteNow(request)
        /\ InstructionsNow(call.request)' = InstructionsNow(call.request)
        /\ ReadsHold(call)' <=> ReadsHold(call)
    BY <1>1 DEF QuoteNow, InstructionsNow, ReadsHold
  <2> QED BY <1>1, <2>1 DEF IInv, QuoteInv
<1> QED BY <1>2, <1>3, <1>4 DEF IInv

\* Every step keeps the invariant.
LEMMA StepIInv == IInv /\ [Next]_vars => IInv'
<1> SUFFICES ASSUME IInv, Next PROVE IInv'
  BY StutterIInv
<1>1. CASE \E owners \in Owners : QuoteDeploy(owners) \/ Deploy(owners)
  BY <1>1, QuoteDeployIInv, DeployIInv
<1>2. CASE \E tx \in Transaction : QuotePropose(tx)
  BY <1>2, QuoteProposeIInv
<1>3. CASE \E tx \in Transaction, vault \in DOMAIN VaultAt : Propose(tx, vault)
  BY <1>3, ProposeIInv
<1>4. CASE \E to \in Recipient : QuoteTransfer(to)
  BY <1>4, QuoteTransferIInv
<1>5. CASE \E to \in Recipient, vault \in DOMAIN VaultAt : ProposeTransfer(to, vault)
  BY <1>5, ProposeTransferIInv
<1>6. CASE \E actions \in ActionList : ProposeConfig(actions)
  BY <1>6, ProposeConfigIInv
<1>7. CASE FinishQuote \/ FinishReads \/ Refuse \/ Land \/ Drop \/ Move \/ MoveAccounts
  BY <1>7, FinishQuoteIInv, FinishReadsIInv, RefuseIInv, LandIInv, DropIInv, MoveIInv,
     MoveAccountsIInv
<1> QED BY <1>1, <1>2, <1>3, <1>4, <1>5, <1>6, <1>7 DEF Next

\* The invariant holds in every reachable state.
LEMMA Inductive == Spec => []IInv
<1> QED BY InitIInv, StepIInv, PTL DEF Spec

(***************************************************************************)
(* The theorems.                                                           *)
(***************************************************************************)

\* Membership, fee and token accounts stay within what they can be, what is quoted
\* or computed is more than a signature, and only calls with a ceiling are refused.
THEOREM TypeCorrect == Spec => []TypeOK
<1>1. ASSUME IInv
      PROVE  /\ quote.step \in {"none", "reading", "quoted"}
             /\ quote.step = "quoted" => quote.fee > SignatureFee
  BY <1>1, Steps DEF IInv, QuoteInv, QuoteRead
<1>2. ASSUME IInv, call # None
      PROVE  call.request \in Request /\ (call.step = "read" => FeeOf(call) > SignatureFee)
  <2>1. call.request \in Request
    BY <1>2, RequestOfCall DEF IInv, CallInv
  <2>2. ASSUME call.step = "read" PROVE FeeOf(call) > SignatureFee
    <3>1. call \in Read
      BY <1>2, <2>2, ReadCall
    <3> QED BY <1>2, <3>1, FeeAndCharge DEF IInv
  <2> QED BY <2>1, <2>2
<1>3. ASSUME IInv
      PROVE  /\ outcome # None => outcome.request \in Request
             /\ outcome.step = "refused" =>
                  outcome.request.op \in {"deploy", "proposeTransfer"} /\ maxFee # NoCeiling
  BY <1>3, Steps DEF IInv, OutcomeInv, AboveCeiling
<1>4. IInv => TypeOK
  BY <1>1, <1>2, <1>3 DEF IInv, World, TypeOK
<1> QED BY Inductive, <1>4, PTL

\* A quote and the call it quotes agree to the lamport, for whatever is proposed from
\* the default vault, unless the membership, the fee or a token account moved since.
THEOREM QuotesAreExact == Spec => []QuoteIsTheCharge
<1>1. IInv => QuoteIsTheCharge
  BY Steps DEF IInv, OutcomeInv, QuoteIsTheCharge, Landed
<1> QED BY Inductive, <1>1, PTL

\* What a call computes and reports is what it is debited, from whichever vault, but
\* for what the charge moved by after it read: the sizes it computes are those the
\* program allocates.
THEOREM FeesAreExact == Spec => []FeeIsTheCharge
<1>1. IInv => FeeIsTheCharge
  BY Steps DEF IInv, OutcomeInv, FeeIsTheCharge, Landed
<1> QED BY Inductive, <1>1, PTL

\* Nobody is debited more than the ceiling they configured and what the charge moved
\* by after the call read.
THEOREM CeilingsHold == Spec => []CeilingHolds
<1>1. ASSUME IInv, Landed, outcome.request.op \in {"deploy", "proposeTransfer"},
             maxFee # NoCeiling
      PROVE  outcome.charge <= maxFee + outcome.moved
  <2>1. outcome # None /\ outcome.step # "refused"
    BY <1>1, Steps DEF Landed
  <2>2. outcome.fee \in Nat /\ outcome.moved \in Int /\ outcome.charge = outcome.fee + outcome.moved
        /\ ~AboveCeiling(outcome.request.op, outcome.fee)
    BY <1>1, <2>1 DEF IInv, OutcomeInv
  <2>3. ~(outcome.fee > maxFee)
    BY <1>1, <2>2 DEF AboveCeiling
  <2>4. maxFee \in Nat
    BY <1>1, AmountsAssumption DEF IInv, World
  <2> QED BY ONLY <2>2, <2>3, <2>4
<1>2. IInv => CeilingHolds
  BY <1>1 DEF CeilingHolds
<1> QED BY Inductive, <1>2, PTL

\* A call is refused only if what it read cost more than the ceiling.
THEOREM RefusalsAreDue == Spec => []RefusedOnlyAbove
<1>1. ASSUME IInv, outcome.step = "refused"
      PROVE  outcome.charge - outcome.moved > maxFee
  <2>1. outcome # None
    BY <1>1, Steps
  <2>2. /\ outcome.fee \in Nat /\ outcome.moved \in Int
        /\ outcome.charge = outcome.fee + outcome.moved
        /\ AboveCeiling(outcome.request.op, outcome.fee)
    BY <1>1, <2>1 DEF IInv, OutcomeInv
  <2>3. outcome.fee > maxFee
    BY <2>2 DEF AboveCeiling
  <2>4. outcome.charge - outcome.moved = outcome.fee
    BY ONLY <2>2
  <2> QED BY <2>3, <2>4
<1>2. IInv => RefusedOnlyAbove
  BY <1>1 DEF RefusedOnlyAbove
<1> QED BY Inductive, <1>2, PTL
=============================================================================
