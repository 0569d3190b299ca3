------------------------- MODULE TransactionFinality -------------------------
(***************************************************************************)
(* What becomes of the transactions an account submits, and what           *)
(* getTransaction tells a caller that waits for them.                      *)
(*                                                                         *)
(* The cluster extends a chain of blocks, confirms and finalizes a prefix  *)
(* of it, and may abandon the blocks that are not final yet: a transaction *)
(* in an abandoned block may land again.  getTransaction asks for the      *)
(* status of a signature and then, in a second request, for its receipt.   *)
(*                                                                         *)
(* Only the blocks that matter here are counted: each holds one            *)
(* transaction that creates a proposal, of this session (1, 2, ...) or of  *)
(* somebody else.                                                          *)
(***************************************************************************)
EXTENDS Naturals, Sequences, FiniteSets

CONSTANTS
  MaxTransactions,  \* bound: how many transactions the session submits
  MaxBlocks,        \* bound: how long the chain gets
  MaxForks          \* bound: how often blocks are abandoned

ASSUME FinalityAssumption ==
  /\ MaxTransactions \in Nat
  /\ MaxBlocks \in Nat
  /\ MaxForks \in Nat

VARIABLES
  commitment,  \* the account's commitment
  blocks,      \* the chain, as its newest node sees it
  confirmed,   \* how many of its blocks are confirmed
  finalized,   \* how many are final
  forks,       \* how often blocks have been abandoned
  reverted,    \* whether a confirmed one was among them
  sent,        \* per transaction: the proposal index it asks for
  pool,        \* the transactions that may still land
  stage,       \* per transaction: how far its caller is
  request,     \* per transaction: a status whose receipt is still to be asked for
  told         \* per transaction: the last answer of getTransaction

clusterVars == <<blocks, confirmed, finalized, forks, reverted>>
pollVars == <<stage, request, told>>
finalityVars == <<commitment, clusterVars, sent, pool, pollVars>>

Transaction == 1 .. MaxTransactions

\* The transactions of other members, none of which is followed.
Others == 0

Nothing == [finality |-> "none"]

Commitment == {"processed", "confirmed", "finalized"}

\* Mutant: a confirmed transaction is called final.
FINALITYHasty ==
  [processed |-> "pending", confirmed |-> "final", finalized |-> "final"]

\* Mutant: nothing is ever called final.
FINALITYNever ==
  [processed |-> "pending", confirmed |-> "confirmed", finalized |-> "confirmed"]

\* Mutant: the cluster's own words are passed on.
FINALITYRaw ==
  [processed |-> "processed", confirmed |-> "confirmed", finalized |-> "finalized"]

FINALITY ==
  [processed |-> "pending", confirmed |-> "confirmed", finalized |-> "final"]

FinalityInit ==
  /\ commitment \in Commitment
  /\ blocks = <<>>
  /\ confirmed = 0
  /\ finalized = 0
  /\ forks = 0
  /\ reverted = FALSE
  /\ sent = [k \in Transaction |-> 0]
  /\ pool = {}
  /\ stage = [k \in Transaction |-> "unsent"]
  /\ request = [k \in Transaction |-> Nothing]
  /\ told = [k \in Transaction |-> Nothing]

(***************************************************************************)
(* The cluster.                                                            *)
(***************************************************************************)

\* How many blocks a request at a commitment can see.
Height(level) ==
  CASE level = "processed" -> Len(blocks)
    [] level = "confirmed" -> confirmed
    [] level = "finalized" -> finalized

\* The multisig's transactionIndex after the first n blocks.
IndexAt(n) == Cardinality({b \in 1 .. n : blocks[b].success})

\* The block a transaction is in: a signature lands at most once.
BlockOf(k) == {b \in DOMAIN blocks : blocks[b].transaction = k}

\* A creation succeeds only for the index that is next.
Include(k) ==
  /\ k \in pool
  /\ Len(blocks) < MaxBlocks
  /\ blocks' = Append(blocks, [transaction |-> k,
                               success |-> sent[k] = IndexAt(Len(blocks)) + 1])
  /\ pool' = pool \ {k}
  /\ UNCHANGED <<commitment, confirmed, finalized, forks, reverted, sent, pollVars>>

IncludeOther ==
  /\ Len(blocks) < MaxBlocks
  /\ blocks' = Append(blocks, [transaction |-> Others, success |-> TRUE])
  /\ UNCHANGED <<commitment, confirmed, finalized, forks, reverted, sent, pool, pollVars>>

\* The transaction is dropped: refused, lost on its way, or its blockhash expired.
Expire(k) ==
  /\ k \in pool
  /\ pool' = pool \ {k}
  /\ UNCHANGED <<commitment, clusterVars, sent, pollVars>>

Confirm ==
  /\ confirmed < Len(blocks)
  /\ confirmed' = confirmed + 1
  /\ UNCHANGED <<commitment, blocks, finalized, forks, reverted, sent, pool, pollVars>>

Finalize ==
  /\ finalized < confirmed
  /\ finalized' = finalized + 1
  /\ UNCHANGED <<commitment, blocks, confirmed, forks, reverted, sent, pool, pollVars>>

\* The blocks after the n-th are abandoned; their transactions may land again.
Fork(n) ==
  /\ forks < MaxForks
  /\ n \in finalized .. Len(blocks) - 1
  /\ blocks' = SubSeq(blocks, 1, n)
  /\ pool' = pool \cup {k \in Transaction : BlockOf(k) \cap n + 1 .. Len(blocks) # {}}
  /\ confirmed' = IF n < confirmed THEN n ELSE confirmed
  /\ reverted' = (reverted \/ n < confirmed)
  /\ forks' = forks + 1
  /\ UNCHANGED <<commitment, finalized, sent, pollVars>>

(***************************************************************************)
(* getTransaction, as waitForTransaction polls it.                         *)
(***************************************************************************)

Status(b) ==
  IF b <= finalized THEN "finalized" ELSE IF b <= confirmed THEN "confirmed" ELSE "processed"

\* The status request.  With no status it throws NoSuchElementError, on which the
\* caller polls again; a pending transaction is told at once.
AskStatus(k) ==
  /\ stage[k] = "waiting"
  /\ request[k] = Nothing
  /\ \E b \in BlockOf(k) :
       LET finality == FINALITY[Status(b)]
       IN  IF finality = "pending"
           THEN /\ told' = [told EXCEPT ![k] = [finality |-> finality]]
                /\ UNCHANGED request
           ELSE /\ request' = [request EXCEPT ![k] =
                     [finality |-> finality, success |-> blocks[b].success, block |-> b,
                      fee |-> FALSE]]
                /\ UNCHANGED told
  /\ UNCHANGED <<commitment, clusterVars, sent, pool, stage>>

\* Mutant: the receipt is asked for at a fixed commitment.
ReceiptCommitmentFixed == "confirmed"

\* Receipts are not served below 'confirmed'.
ReceiptCommitment == IF commitment = "processed" THEN "confirmed" ELSE commitment

\* The receipt request of getTransactionReceipt, to a node that may lag behind the
\* one that told the status: then there is none, and the answer carries no fee.
AskReceipt(k, lags) ==
  /\ request[k] # Nothing
  /\ LET receipt == ~lags /\ \E b \in BlockOf(k) : b <= Height(ReceiptCommitment)
     IN  told' = [told EXCEPT ![k] = [request[k] EXCEPT !.fee = receipt]]
  /\ request' = [request EXCEPT ![k] = Nothing]
  /\ stage' = [stage EXCEPT ![k] =
       IF request[k].finality = "final" THEN "done" ELSE "waiting"]
  /\ UNCHANGED <<commitment, clusterVars, sent, pool>>

\* waitForTransaction times out between two polls.
GiveUp(k) ==
  /\ stage[k] = "waiting"
  /\ request[k] = Nothing
  /\ stage' = [stage EXCEPT ![k] = "left"]
  /\ UNCHANGED <<commitment, clusterVars, sent, pool, request, told>>
=============================================================================
