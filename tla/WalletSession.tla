---------------------------- MODULE WalletSession ----------------------------
(***************************************************************************)
(* A caller with a wallet manager: it gets an account, proposes with it,   *)
(* waits for the transaction, and proposes again, after an error or a      *)
(* timeout as well, without knowing whether the first attempt will land.   *)
(*                                                                         *)
(* Composes WalletManager with TransactionFinality.  What is proposed is   *)
(* MultisigClient's subject; here a call is the read that numbers the      *)
(* proposal and the transaction it puts under way.  Other steps get in     *)
(* between that read and the landing while the transaction is in the pool. *)
(***************************************************************************)
EXTENDS TransactionFinality

CONSTANTS
  Path, Account, None   \* WalletManager's

ASSUME AccountAssumption == None \notin Account

VARIABLES
  _accounts, live,        \* WalletManager's
  seen                    \* per transaction: the earlier ones its call's read had counted

Manager == INSTANCE WalletManager

managerVars == <<_accounts, live>>
ownVars == <<managerVars, seen>>
vars == <<finalityVars, ownVars>>

SessionInit ==
  /\ FinalityInit
  /\ Manager!Init
  /\ seen = [k \in Transaction |-> {}]

(***************************************************************************)
(* propose.                                                                *)
(***************************************************************************)

\* Mutant: the multisig is read at its newest, whatever the account's commitment.
ReadCommitmentNewest == "processed"

ReadCommitment == commitment

\* The transactions that have created their proposal within the first n blocks.
CreatedWithin(n) == {k \in Transaction : \E b \in BlockOf(k) : b <= n /\ blocks[b].success}

\* The read the proposal is numbered from, of a node that may lag, and the
\* submission: the caller gets the hash and waits for the transaction, or it gets
\* an error that says nothing of the transaction, which may land all the same.  A
\* disposed account throws for want of a key.
Propose(account, k, answer) ==
  /\ account \in live
  /\ \A j \in Transaction : IF j < k THEN stage[j] \in {"left", "done"} ELSE stage[j] = "unsent"
  /\ \E n \in 0 .. Height(ReadCommitment) :
       /\ sent' = [sent EXCEPT ![k] = IndexAt(n) + 1]
       /\ seen' = [seen EXCEPT ![k] = CreatedWithin(n)]
  /\ pool' = pool \cup {k}
  /\ stage' = [stage EXCEPT ![k] = answer]
  /\ UNCHANGED <<commitment, clusterVars, request, told, managerVars>>

ClusterStep ==
  /\ \/ \E k \in Transaction : Include(k)
     \/ IncludeOther
     \/ \E k \in Transaction : Expire(k)
     \/ Confirm
     \/ Finalize
     \/ \E n \in 0 .. MaxBlocks : Fork(n)
  /\ UNCHANGED ownVars

PollStep ==
  /\ \/ \E k \in Transaction : AskStatus(k)
     \/ \E k \in Transaction, lags \in BOOLEAN : AskReceipt(k, lags)
     \/ \E k \in Transaction : GiveUp(k)
  /\ UNCHANGED ownVars

ManagerStep ==
  /\ \/ \E p \in Path : Manager!GetAccountByPath(p)
     \/ \E account \in Account : Manager!DisposeAccount(account)
     \/ Manager!DisposeWallet
  /\ UNCHANGED <<finalityVars, seen>>

SessionNext ==
  \/ \E account \in Account, k \in Transaction, answer \in {"waiting", "left"} :
       Propose(account, k, answer)
  \/ ClusterStep
  \/ PollStep
  \/ ManagerStep

\* The cluster goes on confirming and finalizing the blocks it has, and
\* waitForTransaction asks again every SLOT_TIME for as long as it waits.  Nothing
\* makes a transaction land, nor a caller give up.
Fairness ==
  /\ WF_vars(Confirm /\ UNCHANGED ownVars)
  /\ WF_vars(Finalize /\ UNCHANGED ownVars)
  /\ \A k \in Transaction :
       /\ WF_vars(AskStatus(k) /\ UNCHANGED ownVars)
       /\ WF_vars((\E lags \in BOOLEAN : AskReceipt(k, lags)) /\ UNCHANGED ownVars)

SessionSpec == SessionInit /\ [][SessionNext]_vars /\ Fairness

(***************************************************************************)
(* Properties.                                                             *)
(***************************************************************************)

\* The values the variables take.
TypeOK ==
  /\ commitment \in Commitment
  /\ \A b \in DOMAIN blocks : blocks[b].transaction \in {Others} \cup Transaction
  /\ finalized <= confirmed /\ confirmed <= Len(blocks) /\ Len(blocks) <= MaxBlocks
  /\ sent \in [Transaction -> 0 .. MaxBlocks + 1]
  /\ pool \subseteq Transaction
  /\ \A k \in Transaction :
       /\ stage[k] \in {"unsent", "waiting", "left", "done"}
       /\ told[k].finality \in {"none", "pending", "confirmed", "final"}
       /\ request[k] # Nothing => stage[k] = "waiting"
       /\ seen[k] \subseteq 1 .. k - 1
       /\ Cardinality(BlockOf(k)) <= (IF k \in pool THEN 0 ELSE 1)
  /\ Manager!TypeOK

\* What a caller was told of a transaction goes on being true: the block it was
\* told holds the transaction, with the outcome it was told.  Told 'final', this
\* is for ever; told 'confirmed', until the cluster abandons a confirmed block.
AnswersStand ==
  \A k \in Transaction :
    \/ told[k].finality \in {"none", "pending"}
    \/ told[k].finality = "confirmed" /\ reverted
    \/ /\ told[k].block <= Len(blocks)
       /\ blocks[told[k].block] = [transaction |-> k, success |-> told[k].success]

\* The answer made of two requests is one the cluster could have given at once:
\* where it carries a fee, the block it names has reached the account's commitment,
\* although the status is asked for without a commitment.
FeeAtCommitment ==
  \A k \in Transaction :
    \/ told[k].finality \in {"none", "pending"}
    \/ ~told[k].fee
    \/ reverted
    \/ told[k].block <= Height(commitment) /\ told[k].block \in BlockOf(k)

\* A second attempt that does not know of the first never becomes a second
\* proposal beside it: both exist only if the read of the second had counted the
\* first.  An account that reads at 'processed' is promised nothing, as what it
\* reads may be abandoned.
DuplicateOnlyIfSeen ==
  \/ commitment = "processed"
  \/ commitment = "confirmed" /\ reverted
  \/ \A k, l \in CreatedWithin(Len(blocks)) : k < l => k \in seen[l]

\* Disposing the wallet leaves no key behind: an account that still holds one is
\* the one its path is cached under, whatever was asked for and disposed before.
LiveIsCached == Manager!LiveIsCached

\* A caller that waits for a transaction the cluster has in a block is told it is
\* final, unless it gives up first or the block is abandoned.
LandedIsTold ==
  \A k \in Transaction :
    stage[k] = "waiting" /\ BlockOf(k) # {}
      ~> stage[k] \in {"done", "left"} \/ BlockOf(k) = {}
=============================================================================
