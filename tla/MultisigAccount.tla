-------------------------- MODULE MultisigAccount --------------------------
(***************************************************************************)
(* Several account objects of the client library working on one multisig.  *)
(*                                                                         *)
(* A call reads the accounts it needs in one request, decides on that      *)
(* snapshot, submits ONE transaction and returns as soon as the node has   *)
(* taken it.  The transaction lands later, on whatever the accounts hold   *)
(* by then, or never lands.  Between the read and the landing every other  *)
(* call, other tools of the members, a config authority and rent reclaim   *)
(* may have moved the accounts.  A slot is one call that has read and      *)
(* whose transaction has neither landed nor been given up.                 *)
(***************************************************************************)
EXTENDS MultisigClient

CONSTANTS
  Slot,            \* bound: how many calls overlap
  InitialChain,    \* the accounts the calls may find
  ForeignPayload,  \* what members propose with other tools
  Authority,       \* the configurations a config authority may impose
  MaxTime          \* bound: the last clock reading

ASSUME InitialChainAssumption ==
  \A c \in InitialChain :
    /\ WellFormed(c)
    /\ c.created => Viable(c.masks, c.threshold)
    /\ \A i \in Index : /\ c.props[i].status \in {"none", "active"}
                        /\ c.props[i].approved = {} /\ c.props[i].rejected = {}
ASSUME ForeignPayloadAssumption == ForeignPayload \subseteq Payload
ASSUME AuthorityAssumption ==
  \A k \in Authority :
    /\ k \in [masks : [Address -> Mask], threshold : Nat, timeLock : Nat]
    /\ Viable(k.masks, k.threshold)
ASSUME MaxTimeAssumption == MaxTime \in Nat
ASSUME CallArgumentsAssumption ==
  /\ \A owners \in OwnerLists : owners \in Seq(Address)
  /\ Masks \subseteq Mask
  /\ Thresholds \subseteq Nat \cup {Keep}

VARIABLES
  chain,    \* the multisig's accounts
  now,      \* the cluster clock
  flight,   \* per busy slot: the transaction under way and the result returned
  vetted    \* history: the config proposals whose change was checked
            \* against the members that were in force when they landed

vars == <<chain, now, flight, vetted>>

\* `fresh` is history too: nothing the transaction depends on has changed
\* since the call read it.
Flight == [tx : Transaction, result : Result, fresh : BOOLEAN]

Busy == DOMAIN flight

Init ==
  /\ chain \in InitialChain
  /\ now = 0
  /\ flight = [s \in {} |-> {}]
  /\ vetted = {}

(***************************************************************************)
(* What a transaction depends on: the configuration and the lookup tables, *)
(* the next free index if it creates a proposal, else its own proposal.    *)
(***************************************************************************)
Configuration(c) ==
  <<c.created, c.controlled, c.masks, c.threshold, c.timeLock, c.staleTransactionIndex>>

Disturbs(c, d, tx) ==
  \/ Configuration(c) # Configuration(d)
  \/ c.tables # d.tables
  \/ tx.op = "create" /\ c.transactionIndex # d.transactionIndex
  \/ tx.op \in {"approve", "reject", "execute"} /\ c.props[tx.index] # d.props[tx.index]

Refreshed(c, d) ==
  [s \in Busy |-> [flight[s] EXCEPT !.fresh = @ /\ ~Disturbs(c, d, flight[s].tx)]]

Without(s, pending) == [t \in Busy \ {s} |-> pending[t]]

(***************************************************************************)
(* The client.                                                             *)
(***************************************************************************)
Within(call) ==
  call.op \in {"propose", "addOwner", "removeOwner", "swapOwner", "changeThreshold"}
    => chain.transactionIndex < MaxIndex

\* A call that throws has no effect and is not a step.
Submit(s) ==
  /\ s \notin Busy
  /\ \E signer \in Address, call \in Call :
       /\ Allowed(chain, now, signer, call)
       /\ Within(call)
       /\ flight' = [t \in Busy \cup {s} |->
            IF t = s THEN [tx |-> Submission(chain, signer, call),
                           result |-> ResultOf(chain, signer, call), fresh |-> TRUE]
            ELSE flight[t]]
  /\ UNCHANGED <<chain, now, vetted>>

Land(s) ==
  /\ s \in Busy
  /\ LET tx == flight[s].tx IN
       /\ Accepts(chain, tx, now)
       /\ chain' = Outcome(chain, tx, now)
       /\ vetted' = IF /\ tx.op = "create" /\ tx.payload.kind = "config"
                       /\ flight[s].fresh
                    THEN vetted \cup {tx.index} ELSE vetted
  /\ flight' = Without(s, Refreshed(chain, chain'))
  /\ UNCHANGED now

\* The program refuses the transaction, the node refuses to forward it, its
\* blockhash expires, its payer is short of funds, or its message fails.
Drop(s) ==
  /\ s \in Busy
  /\ flight' = Without(s, flight)
  /\ UNCHANGED <<chain, now, vetted>>

(***************************************************************************)
(* Everyone else.                                                          *)
(***************************************************************************)
Tick ==
  /\ now < MaxTime
  /\ now' = now + 1
  /\ UNCHANGED <<chain, flight, vetted>>

Interfere(d) ==
  /\ chain' = d
  /\ flight' = Refreshed(chain, d)
  /\ UNCHANGED <<now, vetted>>

\* Another tool creates a batch, a vault transaction that reads lookup tables
\* or a config change nobody checked, with its proposal or without.
ForeignCreate ==
  \E signer \in Address, payload \in ForeignPayload, index \in Index :
    /\ CanCreate(chain, signer, index, payload)
    /\ \E status \in {"active", "none"} :
         Interfere(Update(Created(chain, index, payload), index,
                          [Opened(payload) EXCEPT !.status = status]))

\* It opens a proposal where none is: for a transaction that was created without
\* one, or at the index of accounts that were closed.  The instruction names the
\* multisig and the proposal, not the transaction, so it does not miss the latter.
ForeignOpen ==
  \E signer \in Address, index \in Index :
    /\ chain.props[index].status = "none"
    /\ index \in 1 .. chain.transactionIndex
    /\ index > chain.staleTransactionIndex
    /\ "initiate" \in chain.masks[signer]
    /\ Interfere(Update(chain, index, [chain.props[index] EXCEPT !.status = "active"]))

\* It executes what is approved, whatever its kind: a batch or a config action
\* of a newer program as well.
ForeignExecute ==
  \E signer \in Address, index \in Index :
    CanExecute(chain, signer, index, now) /\ Interfere(Executed(chain, index))

\* The voters cancel an approved proposal, stale or not.
ForeignCancel ==
  \E index \in Index :
    /\ chain.props[index].status = "approved"
    /\ Interfere(Update(chain, index,
                        [chain.props[index] EXCEPT !.status = "cancelled", !.since = 0]))

\* What is left at an index whose transaction account is closed: the proposal may
\* outlive it, or is closed with it (the record then keeps the payload as history).
Remains(p) == {[p EXCEPT !.open = FALSE], [NoProposal EXCEPT !.payload = p.payload]}

\* Rent reclaim closes the accounts of a settled or stale proposal.
ForeignClose ==
  \E index \in 1 .. chain.transactionIndex :
    LET p == chain.props[index] IN
    /\ p.open
    /\ p.status \in {"rejected", "executed", "cancelled"} \/ index <= chain.staleTransactionIndex
    /\ \E rest \in Remains(p) : Interfere(Update(chain, index, rest))

WithoutTables(c) == [c EXCEPT !.tables = FALSE]

ForeignCloseTables ==
  chain.tables /\ Interfere(WithoutTables(chain))

\* Mutant: earlier proposals stay live.
ImposedQuietly(c, k) ==
  [c EXCEPT !.masks = k.masks, !.threshold = k.threshold, !.timeLock = k.timeLock]

Imposed(c, k) ==
  [c EXCEPT !.masks = k.masks, !.threshold = k.threshold, !.timeLock = k.timeLock,
            !.staleTransactionIndex = c.transactionIndex]

AuthorityReconfigures ==
  \E k \in Authority :
    /\ chain.created /\ chain.controlled
    /\ Interfere(Imposed(chain, k))

Environment ==
  \/ Tick
  \/ ForeignCreate
  \/ ForeignOpen
  \/ ForeignExecute
  \/ ForeignCancel
  \/ ForeignClose
  \/ ForeignCloseTables
  \/ AuthorityReconfigures

Next ==
  \/ \E s \in Slot : Submit(s) \/ Land(s) \/ Drop(s)
  \/ Environment

Spec == Init /\ [][Next]_vars

(***************************************************************************)
(* Properties.                                                             *)
(***************************************************************************)

\* The values the variables take.
TypeOK ==
  /\ WellFormed(chain)
  /\ now \in 0 .. MaxTime
  /\ Busy \subseteq Slot
  /\ \A s \in Busy : flight[s] \in Flight
  /\ vetted \subseteq 1 .. chain.transactionIndex

\* The transaction executes a config proposal whose change was never checked
\* against the members in force.
RunsUnvetted(tx) ==
  /\ tx.op = "execute" \/ (tx.op = "approve" /\ tx.run)
  /\ chain.props[tx.index].payload.kind = "config"
  /\ tx.index \notin vetted

\* The guards are sufficient: a transaction the client submits is accepted by
\* the program unless something it depends on has moved since the call read
\* it.  Votes on other proposals, other proposals and the clock never doom it.
\* The one exception is a config change nobody checked: executeProposal and
\* approveProposal do not look at the actions they run.
NoDoomedSubmission ==
  \A s \in Busy :
    flight[s].fresh /\ ~RunsUnvetted(flight[s].tx) => Accepts(chain, flight[s].tx, now)

\* A change that addOwner, removeOwner, swapOwner or changeThreshold found
\* viable stays applicable as long as its proposal can be executed at all,
\* whatever was voted, proposed and executed since.  (A call that lost a race
\* against a config change is not vetted, and its proposal may be inapplicable.)
VettedStaysViable ==
  \A i \in vetted :
    i > chain.staleTransactionIndex =>
      Applicable(chain.masks, chain.threshold, chain.props[i].payload.change)

\* A call whose transaction is a single instruction or the bare proposal.
Plain(call) ==
  \/ call.op \in {"rejectProposal", "executeProposal"}
  \/ call.op \in {"propose", "approveProposal"} /\ ~call.autoExecute

\* The client knows how to execute what the proposal holds.  The program also
\* runs batches and the config actions of its newer versions; executeProposal
\* and isReadyToExecute answer for neither.
Runnable(i) == chain.props[i].payload.kind \in {"vault", "config"}

\* The guards are necessary: what rejectProposal, executeProposal, and propose
\* and approveProposal without autoExecute refuse, the program refuses as well,
\* but for the kinds executeProposal refuses as such, a batch and a newer config
\* action.  Votes on those are refused no more than the program refuses them.
NoNeedlessRefusal ==
  \A signer \in Address : \A call \in {k \in Call : Plain(k)} :
    ~Allowed(chain, now, signer, call)
      => \/ ~Accepts(chain, Submission(chain, signer, call), now)
         \/ call.op = "executeProposal" /\ ~Runnable(call.index)

\* approveProposal submits the plain vote and refuses it with autoExecute.
AutoExecuteRefuses(signer, i) ==
  LET plain == [op |-> "approveProposal", index |-> i, autoExecute |-> FALSE]
  IN  /\ ApproveAllowed(chain, signer, plain)
      /\ ~ApproveAllowed(chain, signer, [plain EXCEPT !.autoExecute = TRUE])

\* autoExecute goes inert rather than throw: it costs a vote only where the
\* stored message reads a lookup table that is gone, or the transaction account
\* holds a config action of a newer program.
AutoExecuteGoesInert ==
  \A signer \in Address, i \in Index :
    LET payload == chain.props[i].payload IN
    AutoExecuteRefuses(signer, i)
      => payload.kind = "newer" \/ (payload.tables /\ ~chain.tables)

\* isReadyToExecute agrees with executeProposal and with the program: what the
\* program would execute reads as ready, unless it is a batch (never ready) or a
\* newer config action (which makes the read throw), and what reads as ready is
\* submitted for any member that may execute, dead lookup tables aside.
ReadyIffExecutable ==
  \A signer \in Holders(chain.masks, "execute"), i \in Index :
    LET execute == [op |-> "executeProposal", index |-> i] IN
    /\ CanExecute(chain, signer, i, now) /\ Runnable(i) => ReadyToExecute(chain, now, i)
    /\ ReadyToExecute(chain, now, i) /\ (chain.props[i].payload.tables => chain.tables)
         => ExecuteAllowed(chain, now, signer, execute)

\* Votes and configuration stay consistent as long as a proposal is live: only
\* current voters have voted, nobody on both sides, and the status says on
\* which side of the threshold the approvals are.  This is what lets
\* approveProposal compare `approved.length + 1` with the threshold it reads.
LiveVotesCount ==
  \A i \in Index :
    i > chain.staleTransactionIndex => VotesCount(chain, chain.props[i])

\* The step lands the transaction of slot s (giving it up leaves the chain).
Lands(s) == s \in Busy /\ s \notin DOMAIN flight' /\ chain' # chain

\* The result a call returned before its transaction landed is true once it
\* lands: the proposal it names is the one the call proposed, 'executed' means
\* executed and 'pending' means not; and the confirmations and threshold are
\* right too unless something the transaction depends on moved in between.
TruthfulResult ==
  [][\A s \in Busy : Lands(s) /\ flight[s].result.status # "hash" =>
       LET result == flight[s].result
           p == chain'.props[result.proposalId]
       IN  /\ result.status = "executed" <=> p.status = "executed"
           /\ flight[s].tx.op = "create" =>
                /\ p.payload = flight[s].tx.payload
                /\ chain.props[result.proposalId].status = "none"
           /\ flight[s].fresh =>
                /\ result.confirmations = Cardinality(p.approved)
                /\ result.threshold = chain.threshold]_vars

(***************************************************************************)
(* What comments of the source say of the program and the code does not do.*)
(***************************************************************************)

\* The comment on SquadsMultisigAccount.staleTransactionIndex: proposals at or
\* below it can no longer be voted on or executed.  executeProposal submits an
\* approved vault proposal all the same, and the program executes it.
StaleIsDead ==
  \A signer \in Address, i \in Index :
    ExecuteAllowed(chain, now, signer, [op |-> "executeProposal", index |-> i])
      => i > chain.staleTransactionIndex

\* The comment on isReadyToExecute: ready means executeProposal would submit the
\* proposal rather than throw.  It throws, for every member, once a lookup table
\* of the stored message is gone; isReadyToExecute does not look.
ReadyMeansSubmits ==
  \A i \in Index :
    ReadyToExecute(chain, now, i)
      => \E signer \in Address :
           ExecuteAllowed(chain, now, signer, [op |-> "executeProposal", index |-> i])
=============================================================================
