---------------------------- MODULE ProposalCosts ----------------------------
(***************************************************************************)
(* What a call costs: what a quote says, what the call checks against its  *)
(* ceiling and reports, and what the program debits when the transaction   *)
(* lands.  The three are computed from different reads, between which      *)
(* members join and leave, the creation fee moves and token accounts are   *)
(* opened and closed.                                                      *)
(*                                                                         *)
(* Sizes are in bytes and amounts in lamports, as in the code.             *)
(***************************************************************************)
EXTENDS MessageCompilation

CONSTANTS
  Address,        \* addresses, those of token accounts apart
  VaultAt,        \* the vault addresses, by index, from 0
  Recipient,      \* who callers pay: vaults too
  Mint, TokenProgram, AtaProgram,
  Messages,       \* the messages callers propose
  Owners,         \* the owner counts callers deploy with
  MaxMembers,     \* bound: how large the membership gets
  CreationFee,    \* the creation fees the protocol asks
  Ceiling,        \* the ceilings a configuration sets
  NoCeiling       \* ... none

ASSUME VaultAssumption == 0 \in DOMAIN VaultAt /\ VaultAt \in [DOMAIN VaultAt -> Address]
ASSUME OwnersAssumption == Owners \subseteq 1 .. MaxMembers
ASSUME AddressAssumption ==
  {Mint, SystemProgram, TokenProgram, AtaProgram} \cup Recipient \subseteq Address
ASSUME MessagesAssumption ==
  \A message \in Messages : message.instructions \in Seq(InstructionOver(Address))
ASSUME AmountsAssumption ==
  /\ MaxMembers \in Nat /\ CreationFee \subseteq Nat /\ Ceiling \subseteq Nat
  /\ NoCeiling \notin Ceiling

VARIABLES
  members,      \* how many members the multisig holds, 0 before it is deployed
  creationFee,  \* the protocol's creation fee
  holders,      \* the recipients that have a token account
  maxFee,       \* createMaxFee or transferMaxFee, whichever the call is subject to
  quote,        \* the quote the caller asked for
  call,         \* the call in progress
  outcome       \* how it ended

worldVars == <<members, creationFee, holders>>
vars == <<worldVars, maxFee, quote, call, outcome>>

None == [step |-> "none"]
DefaultVault == VaultAt[0]

(***************************************************************************)
(* What is proposed.                                                       *)
(***************************************************************************)
Transaction ==
  [kind : {"sol"}, to : Recipient] \cup [kind : {"message"}, message : Messages]

Acceptable(vault, tx) ==
  tx.kind = "message" => Proposable(vault, tx.message.instructions, tx.message.feePayer)

InstructionsOf(vault, tx) ==
  IF tx.kind = "sol" THEN Transfer(vault, tx.to) ELSE tx.message.instructions

Ata(owner) == [mint |-> Mint, owner |-> owner]

CreateAta(vault, to) ==
  [program |-> AtaProgram,
   accounts |-> <<Meta(vault, WritableSigner), Meta(Ata(to), Writable), Meta(to, ReadOnly),
                  Meta(Mint, ReadOnly), Meta(SystemProgram, ReadOnly),
                  Meta(TokenProgram, ReadOnly)>>,
   data |-> 1]

TokenTransfer(vault, to) ==
  [program |-> TokenProgram,
   accounts |-> <<Meta(Ata(vault), Writable), Meta(Ata(to), Writable), Meta(vault, ReadOnly)>>,
   data |-> 9]

TransferInstructions(vault, to, held) ==
  IF held THEN <<TokenTransfer(vault, to)>>
  ELSE <<CreateAta(vault, to), TokenTransfer(vault, to)>>

\* The lists addOwner, removeOwner, swapOwner and changeThreshold propose.
ActionList ==
  {<<"AddMember">>, <<"RemoveMember">>, <<"RemoveMember", "AddMember">>, <<"ChangeThreshold">>}
    \cup {<<"AddMember", "ChangeThreshold">>, <<"RemoveMember", "ChangeThreshold">>,
          <<"RemoveMember", "AddMember", "ChangeThreshold">>}

Request ==
  [op : {"propose"}, tx : Transaction, vault : DOMAIN VaultAt]
    \cup [op : {"proposeTransfer"}, to : Recipient, vault : DOMAIN VaultAt]
    \cup [op : {"proposeConfig"}, actions : ActionList]
    \cup [op : {"deploy"}, owners : Owners]

(***************************************************************************)
(* Sizes and amounts.                                                      *)
(***************************************************************************)
\* Mutant: the size the instruction carries the message in, with shorter counts.
StoredSizeAsSent(vault, instructions) ==
  LET keys == Compiled(vault, instructions, {}, <<>>).accountKeys
      size(instruction) == 1 + (1 + Len(instruction.accounts)) + (2 + instruction.data)
  IN  3 + (1 + 32 * Len(keys))
        + (1 + Total([i \in DOMAIN instructions |-> size(instructions[i])])) + 1

\* The header and three vectors with their counts; no lookups.
StoredSize(vault, instructions) ==
  LET keys == Compiled(vault, instructions, {}, <<>>).accountKeys
      size(instruction) == 1 + (4 + Len(instruction.accounts)) + (4 + instruction.data)
  IN  3 + (4 + 32 * Len(keys))
        + (4 + Total([i \in DOMAIN instructions |-> size(instructions[i])])) + 4

ActionSize(action) ==
  CASE action = "AddMember" -> 1 + 33
    [] action = "RemoveMember" -> 1 + 32
    [] action = "ChangeThreshold" -> 1 + 2

ActionsSize(actions) == 4 + Total([i \in DOMAIN actions |-> ActionSize(actions[i])])

\* The accounts a proposal creates beside the proposal itself.
VaultTransactionSize(messageSize) == 83 + 4 + messageSize
ConfigTransactionSize(actionsSize) == 81 + actionsSize
MultisigAccountSize(memberCount) == 132 + 33 * memberCount

\* getMinimumBalanceForRentExemption
Rent(size) == (128 + size) * 6960

SignatureFee == 5000

QuoteProposalRent(transactionSize, memberCount) ==
  Rent(transactionSize) + Rent(70 + 96 * memberCount)

QuoteProposal(transactionSize, memberCount) ==
  QuoteProposalRent(transactionSize, memberCount) + SignatureFee

\* Mutant: one signature only.
QuoteDeployFromOneSignature(fee, rent) == rent + fee + SignatureFee

\* The creation is signed by the create key as well.
QuoteDeployFrom(fee, rent) == rent + fee + 2 * SignatureFee

\* Of a call whose reads are done.
FeeOf(c) ==
  CASE c.request.op = "deploy" ->
         QuoteDeployFrom(c.creationFee, Rent(MultisigAccountSize(c.request.owners)))
    [] c.request.op = "proposeConfig" ->
         QuoteProposal(ConfigTransactionSize(ActionsSize(c.request.actions)), c.members)
    [] OTHER ->
         QuoteProposal(VaultTransactionSize(StoredSize(VaultAt[c.request.vault], c.instructions)),
                       c.members)

(***************************************************************************)
(* What the program debits: the rent of the accounts it allocates for what *)
(* the transaction carries and for the members there are, the creation fee *)
(* there is, and the cluster's price of the signatures.                    *)
(***************************************************************************)
AllocatedMessage(vault, instructions) ==
  LET keys == {vault} \cup {instruction.program : instruction \in ToSet(instructions)}
                \cup {meta.address : meta \in Metas(instructions)}
      bytes(instruction) == Len(instruction.accounts) + instruction.data
  IN  15 + 32 * Cardinality(keys) + 9 * Len(instructions)
        + Total([i \in DOMAIN instructions |-> bytes(instructions[i])])

AllocatedProposal(memberCount) == Rent(8 + 32 + 8 + 9 + 1 + 3 * 4 + 3 * 32 * memberCount)

Allocated(c) ==
  CASE c.request.op = "deploy" -> Rent(132 + 33 * c.request.owners)
    [] c.request.op = "proposeConfig" ->
         Rent(81 + ActionsSize(c.request.actions)) + AllocatedProposal(members)
    [] OTHER ->
         Rent(87 + AllocatedMessage(VaultAt[c.request.vault], c.instructions))
           + AllocatedProposal(members)

Charge(c) ==
  Allocated(c)
    + (IF c.request.op = "deploy" THEN creationFee + 2 * SignatureFee ELSE SignatureFee)

\* History: how much more, or less, it is debited than when it read.
Moved(c) ==
  IF c.request.op = "deploy" THEN creationFee - c.creationFee
  ELSE AllocatedProposal(members) - AllocatedProposal(c.members)

(***************************************************************************)
(* Quotes.  They know no vault index: the default vault stands for all.    *)
(***************************************************************************)
Init ==
  /\ members \in 0 .. MaxMembers
  /\ creationFee \in CreationFee
  /\ holders \in SUBSET Recipient
  /\ maxFee \in Ceiling \cup {NoCeiling}
  /\ quote = None /\ call = None /\ outcome = None

\* The caller quotes before it calls, and looks at one outcome.
Quoting == call = None /\ outcome = None

Quoted(request, fee) ==
  [step |-> "quoted", request |-> request, fee |-> fee, fresh |-> TRUE]

QuoteDeploy(owners) ==
  /\ Quoting
  /\ quote' = Quoted([op |-> "deploy", owners |-> owners],
                     QuoteDeployFrom(creationFee, Rent(MultisigAccountSize(owners))))
  /\ UNCHANGED <<worldVars, maxFee, call, outcome>>

QuotePropose(tx) ==
  /\ Quoting
  /\ members > 0
  /\ Acceptable(DefaultVault, tx)
  /\ LET storedSize == StoredSize(DefaultVault, InstructionsOf(DefaultVault, tx))
     IN  quote' = Quoted([op |-> "propose", tx |-> tx],
                         QuoteProposal(VaultTransactionSize(storedSize), members))
  /\ UNCHANGED <<worldVars, maxFee, call, outcome>>

\* quoteTransfer reads the multisig first and the token accounts then.
QuoteTransfer(to) ==
  /\ Quoting
  /\ members > 0
  /\ quote' = [step |-> "reading", request |-> [op |-> "proposeTransfer", to |-> to],
               members |-> members, fresh |-> TRUE]
  /\ UNCHANGED <<worldVars, maxFee, call, outcome>>

FinishQuote ==
  /\ quote.step = "reading"
  /\ LET to == quote.request.to
         storedSize == StoredSize(DefaultVault,
                                  TransferInstructions(DefaultVault, to, to \in holders))
         fee == QuoteProposal(VaultTransactionSize(storedSize), quote.members)
     IN  quote' = [Quoted(quote.request, fee) EXCEPT !.fresh = quote.fresh]
  /\ UNCHANGED <<worldVars, maxFee, call, outcome>>

(***************************************************************************)
(* Calls.                                                                  *)
(***************************************************************************)
Calling == quote.step # "reading" /\ call = None /\ outcome = None

Propose(tx, vault) ==
  /\ Calling
  /\ Acceptable(VaultAt[vault], tx)
  /\ members > 0
  /\ call' = [step |-> "read", members |-> members,
              request |-> [op |-> "propose", tx |-> tx, vault |-> vault],
              instructions |-> InstructionsOf(VaultAt[vault], tx)]
  /\ UNCHANGED <<worldVars, maxFee, quote, outcome>>

ProposeConfig(actions) ==
  /\ Calling
  /\ members > 0
  /\ call' = [step |-> "read", members |-> members,
              request |-> [op |-> "proposeConfig", actions |-> actions]]
  /\ UNCHANGED <<worldVars, maxFee, quote, outcome>>

\* proposeTransfer reads the token accounts first and the multisig then.
ProposeTransfer(to, vault) ==
  /\ Calling
  /\ call' = [step |-> "reading",
              request |-> [op |-> "proposeTransfer", to |-> to, vault |-> vault],
              instructions |-> TransferInstructions(VaultAt[vault], to, to \in holders)]
  /\ UNCHANGED <<worldVars, maxFee, quote, outcome>>

\* deploy looks for the multisig first and at the creation fee then.
Deploy(owners) ==
  /\ Calling
  /\ members = 0
  /\ call' = [step |-> "reading",
              request |-> [op |-> "deploy", owners |-> owners]]
  /\ UNCHANGED <<worldVars, maxFee, quote, outcome>>

FinishReads ==
  /\ call.step = "reading"
  /\ \/ /\ call.request.op = "proposeTransfer"
        /\ members > 0
        /\ call' = [step |-> "read", members |-> members,
                    request |-> call.request, instructions |-> call.instructions]
     \/ /\ call.request.op = "deploy"
        /\ call' = [step |-> "read", creationFee |-> creationFee, request |-> call.request]
  /\ UNCHANGED <<worldVars, maxFee, quote, outcome>>

\* Mutant: the signature is not counted.
AboveCeilingByRent(op, fee) ==
  op \in {"deploy", "proposeTransfer"} /\ maxFee # NoCeiling /\ fee - SignatureFee > maxFee

\* Mutant: the ceiling itself is refused.
AboveCeilingAtOnce(op, fee) ==
  op \in {"deploy", "proposeTransfer"} /\ maxFee # NoCeiling /\ fee >= maxFee

\* Mutant: every call has it.
AboveCeilingOfAnyCall(op, fee) == maxFee # NoCeiling /\ fee > maxFee

\* The other calls have no ceiling.
AboveCeiling(op, fee) ==
  op \in {"deploy", "proposeTransfer"} /\ maxFee # NoCeiling /\ fee > maxFee

\* The quote's fee, if nothing has moved since it was asked for.
QuotedFor(request) ==
  IF quote.step = "quoted" /\ quote.fresh
       /\ \A field \in DOMAIN quote.request : field \in DOMAIN request
                                                /\ quote.request[field] = request[field]
  THEN quote.fee ELSE 0

Outcome(step, debit) ==
  [step |-> step, request |-> call.request, fee |-> FeeOf(call), charge |-> debit,
   moved |-> Moved(call), quoted |-> QuotedFor(call.request)]

\* MaximumFeeExceededError; the charge is what the call would have cost.
Refuse ==
  /\ call.step = "read"
  /\ AboveCeiling(call.request.op, FeeOf(call))
  /\ outcome' = Outcome("refused", Charge(call))
  /\ call' = None
  /\ UNCHANGED <<worldVars, maxFee, quote>>

Land ==
  /\ call.step = "read"
  /\ ~AboveCeiling(call.request.op, FeeOf(call))
  /\ (call.request.op = "deploy") = (members = 0)
  /\ outcome' = Outcome("landed", Charge(call))
  /\ members' = IF members = 0 THEN call.request.owners ELSE members
  /\ call' = None
  /\ UNCHANGED <<creationFee, holders, maxFee, quote>>

\* The call throws, or its transaction is dropped or fails.
Drop ==
  /\ call # None
  /\ call' = None
  /\ UNCHANGED <<worldVars, maxFee, quote, outcome>>

(***************************************************************************)
(* Everyone else.                                                          *)
(***************************************************************************)
\* History: something the quote read has changed since.
StaleQuote == IF quote = None THEN None ELSE [quote EXCEPT !.fresh = FALSE]

\* What a call computes from its reads no longer holds.  The token accounts are not
\* part of it: a call stores, and pays for, the message it made of those it read.
Moves ==
  \/ /\ members' \in {members - 1, members + 1} \cap 1 .. MaxMembers
     /\ UNCHANGED creationFee
  \/ /\ creationFee' \in CreationFee \ {creationFee}
     /\ UNCHANGED members

Move ==
  /\ outcome = None
  /\ Moves
  /\ quote' = StaleQuote
  /\ UNCHANGED <<holders, maxFee, call, outcome>>

MoveAccounts ==
  /\ outcome = None
  /\ \E to \in Recipient :
       holders' = IF to \in holders THEN holders \ {to} ELSE holders \cup {to}
  /\ quote' = StaleQuote
  /\ UNCHANGED <<members, creationFee, maxFee, call, outcome>>

Next ==
  \/ \E owners \in Owners : QuoteDeploy(owners) \/ Deploy(owners)
  \/ \E tx \in Transaction : QuotePropose(tx)
  \/ \E tx \in Transaction, vault \in DOMAIN VaultAt : Propose(tx, vault)
  \/ \E to \in Recipient : QuoteTransfer(to)
  \/ \E to \in Recipient, vault \in DOMAIN VaultAt : ProposeTransfer(to, vault)
  \/ \E actions \in ActionList : ProposeConfig(actions)
  \/ FinishQuote
  \/ FinishReads
  \/ Refuse
  \/ Land
  \/ Drop
  \/ Move
  \/ MoveAccounts

Spec == Init /\ [][Next]_vars

(***************************************************************************)
(* Properties.                                                             *)
(***************************************************************************)

\* The values the variables take: nothing is free, and the reads of a call that
\* has finished them are those its kind needs.
TypeOK ==
  /\ members \in 0 .. MaxMembers /\ creationFee \in CreationFee
  /\ holders \subseteq Recipient
  /\ quote.step \in {"none", "reading", "quoted"}
  /\ quote.step = "quoted" => quote.fee > SignatureFee
  /\ call # None => call.request \in Request /\ (call.step = "read" => FeeOf(call) > SignatureFee)
  /\ outcome # None => outcome.request \in Request
  /\ outcome.step = "refused" =>
       outcome.request.op \in {"deploy", "proposeTransfer"} /\ maxFee # NoCeiling

Landed == outcome.step = "landed"
AtDefaultVault == "vault" \in DOMAIN outcome.request => outcome.request.vault = 0

\* A quote and the call it quotes agree: for the default vault, and unless
\* something it depends on moved since, the call is debited what was quoted,
\* though the quote reads in another order than the call.
QuoteIsTheCharge ==
  Landed /\ AtDefaultVault /\ outcome.quoted # 0 => outcome.quoted = outcome.charge

\* What a call computes, and reports as its fee, is what it is debited, whatever
\* it proposes and from whichever vault, but for exactly what the members who joined
\* or left, or a new creation fee, made of the charge after it read them: nothing
\* else it read, or read earlier, shows in the difference.
FeeIsTheCharge == Landed => outcome.charge = outcome.fee + outcome.moved

\* Nobody is debited more than the ceiling and what the charge moved by after the
\* call read: the check guards against everything else.
CeilingHolds ==
  Landed /\ outcome.request.op \in {"deploy", "proposeTransfer"} /\ maxFee # NoCeiling
    => outcome.charge <= maxFee + outcome.moved

\* A call is refused only if what it read cost more than the ceiling.
RefusedOnlyAbove ==
  outcome.step = "refused" => outcome.charge - outcome.moved > maxFee

\* What the comment on quotePropose says: exact for any transaction propose
\* accepts.  It is sized for the default vault, and a message that names another
\* vault, or pays one, compiles to other keys there.
QuoteFitsAnyVault ==
  Landed /\ outcome.request.op = "propose" /\ outcome.quoted # 0
    => outcome.quoted = outcome.charge
=============================================================================
