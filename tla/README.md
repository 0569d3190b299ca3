# A model of wdk-protocol-multisig-squads

This package lets a wallet own a share of a Squads v4 multisig on Solana. It
keeps next to no state of its own: a call reads accounts from a node, decides,
submits one transaction and returns. What is hard is what happens between that
read and the moment the transaction lands, and the agreement between the checks
written here and the program on chain, which is not part of this repository.

Paths below are relative to the repository's `src/` unless they name a module.
ACC is `src/wallet-account-multisig-solana-squads.js`, RO is
`src/wallet-account-read-only-multisig-solana-squads.js`, LAY is
`src/helpers/layouts.js`.

## Inventory

| part | state | operations | what is hard | what makes it correct |
|---|---|---|---|---|
| signing account (ACC) | configuration, a signer; nothing that changes between calls | `deploy`, `propose`, `proposeTransfer`, `approveProposal`, `rejectProposal`, `executeProposal`, `addOwner`, `removeOwner`, `swapOwner`, `changeThreshold` | a decision on a snapshot, applied later to other accounts; results returned before anything has landed | what it submits is accepted unless the accounts moved; what it refuses would be refused; results are true once landed; checked changes stay applicable |
| read-only account (RO) | configuration, resolved address | `isReadyToExecute`, `getProposals`, balances | answers assembled from several requests; agreement with `executeProposal` | answers belong to the right id and to one moment; readiness means executability |
| finality (RO `getTransaction`, `getTransactionReceipt`) | none; `waitForTransaction` of the base class polls it | status, then receipt | two requests at two commitments, lagging nodes, forks, a submission that fails for the caller and lands all the same | what is told stands; what has landed is told; a blind retry makes no second proposal |
| amounts (RO `quote...`, `_toTransferInstructions`; ACC `deploy`, `proposeTransfer`) | none | quote, compare with a ceiling, report | sizes and rents computed without the program; reads in different orders, before the debit | quote, reported fee and debit agree; the ceiling binds and refuses nothing below it |
| identity (RO constructor, `toMultisigPda`, `_withConfig`; ACC `deploy`, `toReadOnlyAccount`) | the configuration and the address resolved from it | construction, copying, overriding | three ways to name a multisig, resolved in four places | they all resolve to the same multisig |
| messages (RO `_compileTransactionMessage`, ACC `_resolveExecutionAccounts`) | none | compile, store, resolve | positions and counts that stand for roles, read back by another member | the execution hands the program the accounts and roles it asks for |
| Squads program | multisig, proposal and transaction accounts | create, vote, execute, close | external; others use it too | the client's picture of it |
| wire formats (LAY), address derivation (`src/helpers/program-derived-address.js`) | none | encode, decode, derive | byte layouts | tested byte by byte in `tests/wire-format.test.js` |
| wallet manager (`src/wallet-manager-multisig-solana-squads.js`) | accounts by path | `getAccount`, `getAccountByPath`, `dispose`, `getFeeRates` | a disposed account stays cached | disposing the wallet leaves no key behind |

Interaction: the manager makes signing accounts; a signing account extends the
read-only one and hands transactions to `WalletAccountSolana` (a dependency),
which returns when a node has taken them. Accounts share nothing but the chain.

## Modules

| module | stands for |
|---|---|
| `SquadsProgram` | the instructions of the program, as pure operators on one record that holds the accounts of one multisig: `Can...` says whether an instruction is accepted, `Created`, `Approved`, `Rejected`, `Executed`, `Deployed` what it leaves; `Accepts` and `Outcome` lift them to transactions of several instructions, all or nothing |
| `MultisigClient` | what each call of the signing account decides from one snapshot: `...Allowed` (does it throw), `Submission` (the transaction), `ResultOf` (what it returns), and `ReadyToExecute` |
| `MultisigAccount` | the state machine: several accounts call at once (`Submit`), transactions land on whatever the accounts hold by then (`Land`) or never (`Drop`), the clock ticks, and others act |
| `ProposalLifecycle` | the abstract promise: the life of a proposal and who may change the rules, without votes, clocks, calls or transactions |
| `MultisigLifecycle` | the refinement mapping from `MultisigAccount` to it |
| `SquadsProgramProofs` | what each instruction keeps of the accounts, used by the proofs of every module built on them |
| `MultisigAccountProofs` | proofs about these, the refinement included |
| `MessageCompilation` | from a proposed transaction to the message a vault transaction stores, as pure operators |
| `MessageCompilationProofs` | what compiling yields for instruction lists of any length, used by the next two |
| `TransactionMessage`, `TransactionMessageProofs` | that message from the proposal to the accounts of its execution |
| `ProposalReads`, `ProposalReadsProofs` | `getProposals` against a chain that moves between its requests |
| `AccountIdentity`, `AccountIdentityProofs` | which multisig an account object stands for |
| `TransactionFinality` | a cluster that confirms, finalizes and abandons blocks, and the two requests of `getTransaction` |
| `WalletManager` | the cache of accounts and `dispose` |
| `WalletSession`, `WalletSessionProofs` | both composed: a caller that proposes, waits and proposes again |
| `ProposalCosts`, `ProposalCostsProofs` | quotes, ceilings and debits in lamports |
| `MC...` | instances for TLC |

`MultisigAccount` extends `MultisigClient`, which extends `SquadsProgram`;
`ProposalReads` and `ProposalLifecycle` extend `SquadsProgram`.
`TransactionMessage` and `ProposalCosts` extend `MessageCompilation`.
`WalletSession` extends `TransactionFinality` and instantiates `WalletManager`.
`AccountIdentity` stands alone: it is about one object's own computation.

### State and code

* `chain` is what `_decodeMultisigAccount`, `_decodeProposalAccount` and
  `_decodeTransactionAccount` yield for all accounts of one multisig. A mask is
  the set of its bits and an absent member has none; a member without any
  permission is therefore not represented (this package never adds one).
* `now` is the clock sysvar, read in the same request
  (`_getMultisigProposalAndTransaction`).
* `flight` holds, per call that has read, the transaction it submitted and the
  result it returned. `Submit` reads and decides in one step, because the code
  reads all it decides on in one request. The exception is the lookup tables,
  read in a second request by `_getLookupTableAddresses`: it is taken together
  with the first, which only moves the moment of their closing. `fresh` and
  `vetted` are history variables.
* `ids`, `threshold`, `offset` and `answers` in `ProposalReads` are the local
  variables of `getProposals`; `offset` counts ids read, `ChunkSize` is
  `MAX.multipleAccounts`.
* `account` in `AccountIdentity` is the object: its configuration, program and
  address. Deriving an address is the record of program and create key, which
  is injective, never a create key (one is on the curve, the other off it) and
  carries the program that owns the account.

* `stage`, `request` and `told` in `TransactionFinality` are the caller's side of
  `waitForTransaction`: a status whose receipt is still to be asked for, and the
  last answer. The cluster's side is external: a chain of the blocks that hold
  proposals, two marks on it, and the transactions that may still land. A call
  of `propose` is one step there, its read and its submission: what can happen
  between the two can as well happen between the submission and the landing, and
  the read may be of a node that lags.
* `_accounts` in `WalletManager` is the field of that name; `live` is which
  signers still hold a key.
* `quote`, `call` and `outcome` in `ProposalCosts` are one quote, one call and its
  end; `fresh`, `quoted` and `moved` are history. `maxFee` stands for `createMaxFee` or
  `transferMaxFee`. Amounts are the code's; the rent formula is the one
  `tests/integration/module.test.js` finds on a validator, and what the program
  allocates is computed apart from what the code predicts.
* `message` in `TransactionMessage` is the vault transaction account, `accounts` what
  `_resolveExecutionAccounts` returned last. They are compared with the lookup tables
  there are now; what came from a table closed since has nothing to be compared
  with, and the program refuses that transaction.

### External definitions

The program's binary is a test fixture and its source is elsewhere, so
`SquadsProgram` is written from how the code uses it: the checks the client
makes before it submits, the errors its comments and messages name, and the
sequences `tests/integration/module.test.js` runs against the real program. It
executes more than this package does. A batch runs (RO:793 says so), by its last
transaction and in one step, like a vault transaction. A config transaction with an
action of a newer program version runs too: this package merely cannot decode it
(LAY:205); the model takes its effect to be some change of the configuration, so that
like every config transaction it makes the proposals before it stale.

The actions of other tools in `MultisigAccount` are of the same kind:

* `ForeignCreate`, `ForeignOpen`: batches, vault transactions with lookup tables,
  newer actions and configuration changes nobody checked, with a proposal or without.
  `proposalCreate` names the multisig and the proposal and no transaction account
  (ACC:773), so a proposal may also be opened where closed accounts were.
* `ForeignExecute`: any approved proposal, of whatever kind.
* `ForeignCancel`: an approved proposal, whether or not it went stale.
* `ForeignClose`: rent reclaim, of what is settled or stale (the test at
  `tests/wallet-account-multisig-solana-squads.test.js:2565` says when), either of
  the transaction account alone, so that an approved proposal outlives it, or of
  the proposal with it. Both ways lead to a proposal that is live by its own account and
  has no transaction: a stale approved one, or one opened again at that index,
  which members may vote on and approve. It is what `transaction.exists` guards against in
  `executeProposal` (ACC:498) and in `_buildVoteExecuteInstruction`.
* `ForeignCloseTables`, and a config authority (`AuthorityReconfigures`).

## Runs

| run | instance | question |
|---|---|---|
| `Votes` | 3 addresses, 1 proposal of seven kinds, owner lists with repetitions, 2 calls at once, time lock 0 or 1 | do the checks of deploys, proposals, votes and executions match the program, are the results true, does every landing belong to the life of one proposal |
| `Config` | 2 config proposals, adding, removing, thresholds; lookup tables play no part | do checked changes stay applicable, do votes keep counting, does an old change never apply |
| `Foreign` | one call at a time, adding and swapping members too, beside other tools, a config authority, rent reclaim and, in one of its three multisigs, lookup tables | does the client get along with everybody else |
| `Message` | one or two instructions, every role on three accounts, ephemeral signers, three shapes of lookups, one that cannot be resolved | is the message what was proposed, and are the accounts what the program takes |
| `Reads` | 2 proposals, requests of 2, up to 4 ids with repetitions, 3 moves of the members during a call | does every id get its own answer, from which moment |
| `Identity` | 2 programs, 2 create keys, every configuration and override | do all names resolve alike |
| `Session` | one path, two attempts, two blocks that matter, one fork, every commitment | what may a caller believe, and what does a retry do |
| `Costs` | two vaults, one of them a recipient, 1 or 2 members, two creation fees, ceilings at the exact cost of a transfer and a deploy and one signature below it | do quote, reported fee, ceiling and debit agree |
| `StaleVault`, `DeadTables`, `Override`, `QuoteVault` | one property each | see the divergences below |

Bounds. Three addresses are the fewest that give a threshold strictly between
one and all, a member who cannot vote and an outsider. Two calls at once cover
every race between a pair; the properties of one call only mention its own
transaction, so a third call is one more disturbance of the same kind (the
proofs hold for any number). `MaxIndex` 2 gives a configuration change and a
proposal it makes stale; `MaxTime` 1 gives the last second of a time lock and the
one after. Two blocks let a first attempt fail because another member took its
index and a second one succeed, or both attempts land; one fork takes back either
or both; two accounts on one path are enough for one to be displaced by another.
One call after one quote is all `Costs` compares, and the addresses of `Costs` are
the keys its messages name. `MaxMoves` 3 gives a vote, an execution and one more change inside
one call of `getProposals`; requests of two ids with four to read give a first,
a last and a short request. Slots (and addresses in `Reads`, keys in
`Identity`) are symmetric: no property names one.

`CHECK_DEADLOCK FALSE` throughout: the callers need not call again, and at the
bounds (no index left, the clock at its end, every account closed) nothing may
remain to do. That is the model's end, not a wait in the code: the library
takes no lock and waits for nothing but a node's answer.

Fairness is assumed in `Session` only, and weak: the cluster goes on confirming and
finalizing the blocks it has, and `waitForTransaction` asks again every slot
(`defaultWaitInterval`) and finishes the answers it began. Nothing makes a
transaction land, a fork stay away or a caller give up. That is what `LandedIsTold`
needs: a processed answer or a missing receipt must not end or stall the wait.
Elsewhere nothing must eventually happen: a submitted transaction may be lost and
no member is obliged to vote.

Properties, by what they are about:

* `NoDoomedSubmission`: guards are sufficient. A submitted transaction is
  accepted as long as nothing it depends on has moved. The one exception is a
  config transaction nobody checked: neither `executeProposal` nor
  `approveProposal` looks at its actions.
* `NoNeedlessRefusal`: guards are necessary, for the plain calls, with one exception it
  states: `executeProposal` refuses a batch and a newer config action, and the program
  executes both. Votes on them are not refused.
* `AutoExecuteGoesInert`, `ReadyIffExecutable`: the three places that decide
  whether a proposal runs agree with each other and with the program. Not everything the
  program would execute reads as ready: a batch does not (as RO:793 says), and a newer
  config action makes the read throw. `ReadyIffExecutable` claims it of vault and config
  transactions (`Runnable`), and the converse of everything.
* `VettedStaysViable`: a change that was checked when its proposal landed stays
  applicable as long as it can run, however many votes and changes land first.
* `LiveVotesCount`: why comparing `approved.length + 1` with the threshold
  read next to it is right.
* `TruthfulResult`: the result, returned before the transaction lands, is true
  when it lands. The confirmations and the threshold are those of the snapshot
  and may be off if something moved; `proposalId` and `status` may not.
* `MessageMeansItsInstructions`, `NoUndueRole`, `ProgramTakesTheAccounts`,
  `OnlyTheVaultSigns`: compiling and resolving are inverse enough.
* `EveryIdAnswered`, `OneRequestOneMoment`, `QuietReadsAgree`: what a caller of
  `getProposals` may rely on. Across requests the answers may be of different
  moments, and after a configuration change the threshold may not fit; without
  one it does.
* `DeployCreatesItsOwn`, `CopyStandsForTheSame`, `QuoteReadsTheNamed`.
* `ImplementsLifecycle`: `MultisigAccount` implements `ProposalLifecycle`, in which
  what is settled stays settled or is closed (`SettledIsFinal`) and the rules change only by a
  proposal that is executed, never an old one (`OnlyProposalsReconfigure`). The mapping
  (`Stage`) counts a proposal as closed once its transaction is gone: opening one again
  at that index, voting on it and approving it are stutters, since nothing can come of
  them. An execution by another tool is a step like any other.
* `AnswersStand`, `FeeAtCommitment`: an answer of two requests is still one
  answer. A confirmed block may be abandoned in principle, so 'confirmed' is a
  promise only as long as none has been; 'final' is one for ever.
* `DuplicateOnlyIfSeen`: the library has no idempotence key, but the index a call
  read acts as one. Of two attempts both become proposals only if the second one's
  read had counted the first, which its caller could have seen too. An account
  at commitment 'processed' loses this: the proposals it numbered from may be
  abandoned.
* `LiveIsCached`, `LandedIsTold`, `QuoteIsTheCharge`, `FeeIsTheCharge`,
  `CeilingHolds`, `RefusedOnlyAbove`. The ceiling is checked against what was read:
  a member who joins, or a creation fee that rises, before the transaction lands
  carries the debit above it. The properties say by how much: `moved` is the
  difference these two make to the charge, and the debit exceeds the reported fee by
  exactly that and the ceiling by no more. Token accounts that open or close
  meanwhile, and everything read earlier, make none.

### Divergences

Four comments say more than the code does; the code looks intended in at least
the first.

1. RO:140 says stale proposals "can no longer be voted on or executed". An
   approved vault proposal can, and `executeProposal` submits it (`StaleVault`).
2. RO:792 says ready means `executeProposal` would submit rather than throw. It
   throws once a lookup table of the message is gone (`DeadTables`).
3. RO:861 says an override is merged over the account's configuration. For an
   account that only knows a `createKeySecret` the resolved address is merged
   first and wins over an overriding `createKeySecret` or `programId`
   (`Override`).
4. RO:862 says a quote is exact for any transaction `propose` accepts. It is sized
   for vault 0; a message that names or pays the vault it spends from has other
   keys when proposed from another vault (`QuoteVault`).

One more, without a run of its own: ACC:364 says dead lookup tables are the one
error `autoExecute` can surface. A config action of a newer program is another;
`AutoExecuteGoesInert` therefore excepts both.

## Proofs

`MultisigAccountProofs` shows, for any addresses, masks, thresholds, payloads,
numbers of calls and bounds (a finite set of addresses is assumed, and initial
chains that are well formed, viable and without votes):

* `TypeCorrect` and, on top of it, `Invariant`: the inductive invariant joins
  the types, the freshness of transactions and the vetted changes.
  Freshness is needed because `NoDoomedSubmission` speaks of a decision taken
  in the past: the invariant says that a fresh transaction is still one its call
  would submit, and `GuardsSuffice` turns that into acceptance.
  `VettedStaysViable` is inductive because a configuration only changes
  together with `staleTransactionIndex`, which is the monotonicity the
  `...Evolves` lemmas state and carry through every instruction.
* `CheckedChangesApply`: the client's check of a change on a list of members
  implies the program's on sets.
* `RefusalsAreNeeded`, `ReadyMeansExecutable`, `AutoExecuteIsInert`: from the
  types alone, by comparing the two sets of guards, with the exceptions the
  properties state (batches, newer config actions, dead lookup tables).
* `VotesAlwaysCount`: every instruction keeps the votes of live proposals
  consistent (the `...Sound` lemmas); a configuration change makes all of them
  stale.

* `ResultsAreTrue`: the result a call returned is true when its transaction lands.
  Its invariant, `ResultInv`, relates each transaction under way to the snapshot its
  result was computed from; a landing then either finds the proposal of that index in
  the state the result names, or fails.
* `ProposalsLiveTheirLife`, the refinement: initial states map to initial states, and
  each landing, of one or several instructions, to one step of `ProposalLifecycle` or
  to a stutter, for any number of calls. The `...Lives` lemmas take the actions one by one;
  `ClosedStutters` is why what happens at a closed index does not show.
* `SettledProposalsStay` and `MembersGovern`, the two promises of `ProposalLifecycle`, of
  every behaviour of `MultisigAccount`: by the refinement each of its steps is one of
  the few abstract ones, and those are enough to see both.

`AccountIdentityProofs` shows the three properties of identity for any programs
and create keys, assuming only that create keys and derived addresses differ.
The invariant adds that the account is always what some configuration
constructs, since a copy and a quote construct again.

`WalletSessionProofs` is about any number of attempts, blocks, forks and accounts on a
path. Its invariant `SessionInv` joins the types with three facts. `Once`: a
transaction is not sent yet, in the pool, or in one block. `Answers`: what has been
told, and a status whose receipt is still out, is true of the blocks, or a
confirmed block has been abandoned since. `Successes` and `Numbered`: a creation
that succeeded was for the index then next, and for every call there is a height
at which it was numbered, which lasts as long as the account reads only blocks that
do. From these `AnswersAlwaysStand` and `FeesAreCommitted` are immediate, and
`BlindRetriesCollide` follows by counting: a success of an earlier attempt that the
later one had not counted would take the index the later one was numbered with.
None of them is inductive alone, since a fork moves blocks under answers already
given and numbers already taken.

`ProposalReadsProofs` is about any list of ids, any size of a request and any number of
moves, assuming that the accounts the call finds are `Sound`, which the
`...Sound` lemmas show every instruction keeps. `Progress` says whole requests have been answered,
`Sourced` that each answer shows a proposal of some accounts the call saw, and
`History` that these accounts are sound and that their rules changed only with a
larger `staleTransactionIndex`. The lemma behind it is `MoveRules`: a move leaves the
threshold, or raises that index strictly. `OneRequestOneMoment` is inductive with the
arithmetic of `Multiples`: a request neither overlaps the ones before it nor
replaces an answer that counts as theirs.

`MessageCompilationProofs` is about instruction lists of any length over any keys. The
definitions go through sequences element by element (`OnceEach`, `Total`, flattening), as
recursive functions. The library's induction rules take an operator and cannot be
used, so two lemmas state what is needed in first-order form: `Induction` (a set of
numbers that holds 0 and every successor is all of them) and `Recursion` (a first value
and a step define a function, by well-founded recursion). With them `OnceEachOf` shows
that the elements are kept, once and in the order of their first appearance,
`Flattened` where each element of a list of lists ends up, and `TotalIs` that sums are
what they should be. `CompiledKeys` is what everything after it uses: the keys of a
compiled message are exactly those mentioned, each once, the payer first, and from the
three counts of the header the role of each can be read off its position.

`TransactionMessageProofs` shows all five invariants of `TransactionMessage`, for any keys,
instruction lists, ephemeral signers, lookups and lookup tables. What is assumed is that
the vault is not an ephemeral signer, that "no fee payer" is not a key, and that the
lists hold what their types say. The inductive invariant says that what is stored is the
compilation of what was proposed (`StoredIsCompiled`), that what this package stores needs
the vault's signature only and no table (`ByClientNeedsTheVault`), and that the last
execution's accounts are what the program takes. The last is needed because tables
close after an execution was built; `TakesWithoutTable` is why that does no harm.
`PrivilegesAsked` and `MessagesMeanWhatIsProposed` then follow from `CompiledKeys` and
`CompiledInstructions`, `NobodyElseSigns` from `OneSigner`, and `ExecutionsPassTheAccounts`
from `ResolvedTakes`: resolving, which walks the header by position, and the program,
which does too, agree on every position, of the message and of what it loads.

`ProposalCostsProofs` shows all five invariants of `ProposalCosts`, for any addresses,
vaults, messages, memberships, fees and ceilings. What is assumed is that the vaults and
recipients are addresses, apart from token accounts, that vault 0 exists, that deploys
name at least one owner and that amounts are natural numbers. `SizeIsAllocated`
is the arithmetic: the size computed from the compiled message, whose keys are counted by
position, is the one the program allocates, which is summed from the instructions
and the set of keys they name. `FeeAndCharge` says that the debit is the computed fee
and what moved, of which `FeesAreExact`, `CeilingsHold` and `RefusalsAreDue` are
consequences. The inductive invariant says that a fresh quote is what would be quoted now
(`QuoteNow` in `QuoteInv`), and that what a call made after it has read is still so
(`ReadsHold`), though the quote and the call read in different orders; a quote that
started before something moved is not fresh any more. `QuotesAreExact` follows by
`QuotedIsFee`.

Only model-checked: the liveness property `LandedIsTold`, since liveness under fairness
and ENABLED are beyond the prover. Every other property of a passing run is a theorem.
The four properties of the runs that expect a violation are false.

## Not modelled

Balances, `getMultisigInfo`, `getNonce`: one read, returned. `getFeeRates`: the
largest recent fee times a constant. Memos, rent payers (who pays, not how much; a
sponsoring fee payer adds a signature the quotes do not count), providers and
their failover. Instruction data beyond its length. A token without a mint, which
only makes a call throw. The derivation of addresses and its search for a bump.
Widths: counts and positions are single bytes, indexes 64 bits; the codecs check
their ranges. Draft proposals and the executing status, which every guard treats
as a status it does not know; a batch that is executed in part. Time lock, spending limit and rent collector actions,
which no call of this package writes. Fields given explicitly as undefined in an
override. Rent growth of the multisig when an executed change adds a member, which
the executing member pays and no call quotes.

## Plan

1. `ProposalCosts` with several calls at once, whose quotes and ceilings share one
   membership.
2. An abstract specification of a session, of which `WalletSession` is the
   implementation: an attempt is answered at most once, and truly.
