--------------------------- MODULE MultisigClient ---------------------------
(***************************************************************************)
(* What the client library decides from ONE read of the chain: for each    *)
(* call of WalletAccountMultisigSolanaSquads, whether it throws, the       *)
(* transaction it submits otherwise, and the result it returns.  Nothing   *)
(* here has state: the account object keeps none between calls.            *)
(*                                                                         *)
(* c is the snapshot the call read, now the cluster clock read with it,    *)
(* signer the address of the account's signer.                             *)
(***************************************************************************)
EXTENDS SquadsProgram, Sequences

CONSTANTS
  Operations,   \* the calls callers make
  OwnerLists,   \* the owner lists callers pass to deploy
  Masks,        \* the permission masks callers pass to addOwner
  Thresholds    \* the thresholds callers pass; Keep stands for none

(***************************************************************************)
(* The calls.                                                              *)
(***************************************************************************)
DeployCall == [op : {"deploy"}, owners : OwnerLists, threshold : Thresholds \ {Keep}]
ProposeCall == [op : {"propose"}, autoExecute : BOOLEAN]
ApproveCall == [op : {"approveProposal"}, index : Index, autoExecute : BOOLEAN]
RejectCall == [op : {"rejectProposal"}, index : Index]
ExecuteCall == [op : {"executeProposal"}, index : Index]
AddCall == [op : {"addOwner"}, owner : Address, mask : Masks, threshold : Thresholds]
RemoveCall == [op : {"removeOwner"}, owner : Address, threshold : Thresholds]
SwapCall == [op : {"swapOwner"}, owner : Address, newOwner : Address, threshold : Thresholds]
ThresholdCall == [op : {"changeThreshold"}, threshold : Thresholds \ {Keep}]

ConfigCall == AddCall \cup RemoveCall \cup SwapCall \cup ThresholdCall

Call == {call \in DeployCall \cup ProposeCall \cup ApproveCall \cup RejectCall
                    \cup ExecuteCall \cup ConfigCall : call.op \in Operations}

(***************************************************************************)
(* Checks the calls share.                                                 *)
(***************************************************************************)
HoldsPermission(c, signer, permission) == permission \in c.masks[signer]

ValidThreshold(threshold, voterCount) == threshold \in 1 .. voterCount

\* Mutant: only the threshold is checked.
ViableThreshold(masks, threshold) ==
  ValidThreshold(threshold, Cardinality(Holders(masks, "vote")))

ViableMembers(masks, threshold) ==
  /\ Members(masks) # {}
  /\ \A permission \in Permission : Holders(masks, permission) # {}
  /\ ValidThreshold(threshold, Cardinality(Holders(masks, "vote")))

\* threshold ?? multisig.threshold
InForce(c, threshold) == IF threshold = Keep THEN c.threshold ELSE threshold

\* Mutant: the time lock is forgotten.
CanExecuteUnlocked(c, signer, confirmations, need) ==
  confirmations >= c.threshold /\ need \subseteq c.masks[signer]

CanAutoExecute(c, signer, confirmations, need) ==
  /\ confirmations >= c.threshold
  /\ c.timeLock = 0
  /\ need \subseteq c.masks[signer]

Votable(c, signer, index) ==
  /\ c.created
  /\ HoldsPermission(c, signer, "vote")
  /\ c.props[index].status = "active"
  /\ index > c.staleTransactionIndex

\* Reading the transaction account does not throw.  A plain vote does not read it.
Readable(c, index) == c.props[index].open => c.props[index].payload.kind # "newer"

\* The execution instruction can be built rather than throw: from an account
\* that is there, for a config transaction that is not stale or a vault
\* transaction whose tables resolve.
ExecutionBuilds(c, index) ==
  LET payload == c.props[index].payload IN
  /\ c.props[index].open
  /\ \/ payload.kind = "config" /\ index > c.staleTransactionIndex
     \/ payload.kind = "vault" /\ (payload.tables => c.tables)

(***************************************************************************)
(* Deploying and proposing.                                                *)
(***************************************************************************)
OwnerSet(owners) == {owners[i] : i \in DOMAIN owners}
OwnerMasks(owners) == [a \in Address |-> IF a \in OwnerSet(owners) THEN Permission ELSE {}]

\* Mutant: owners may repeat.
DeployRepeatedly(c, call) ==
  call.owners # <<>> /\ ValidThreshold(call.threshold, Len(call.owners)) /\ ~c.created

DeployAllowed(c, call) ==
  /\ call.owners # <<>>
  /\ Cardinality(OwnerSet(call.owners)) = Len(call.owners)
  /\ ValidThreshold(call.threshold, Len(call.owners))
  /\ ~c.created

\* Mutant: a config authority is taken to rule out every proposal.
ProposeAutonomously(c, signer) ==
  c.created /\ ~c.controlled /\ HoldsPermission(c, signer, "initiate")

ProposeAllowed(c, signer) == c.created /\ HoldsPermission(c, signer, "initiate")

ProposeExecutes(c, signer, call) ==
  call.autoExecute /\ CanAutoExecute(c, signer, 1, {"vote", "execute"})

(***************************************************************************)
(* Voting and executing.                                                   *)
(***************************************************************************)
\* The confirmations a vote leaves.  Mutants: the vote itself is not counted; a
\* rejection is taken to withdraw an approval always.
SoFar(p) == Cardinality(p.approved)
AfterApproval(p) == Cardinality(p.approved) + 1
OneLess(p, signer) == Cardinality(p.approved) - 1
AfterRejection(p, signer) ==
  Cardinality(p.approved) - (IF signer \in p.approved THEN 1 ELSE 0)

\* Mutant: a transaction account that is closed is taken for one still there.
ApproveExecutesClosed(c, signer, call) ==
  LET p == c.props[call.index] IN
  /\ call.autoExecute
  /\ CanAutoExecute(c, signer, AfterApproval(p), {"execute"})
  /\ p.payload.kind \in {"config", "vault"}

\* autoExecute applies; inert for a batch and for a closed transaction account.
ApproveExecutes(c, signer, call) ==
  LET p == c.props[call.index] IN
  /\ call.autoExecute
  /\ CanAutoExecute(c, signer, AfterApproval(p), {"execute"})
  /\ p.open
  /\ p.payload.kind \in {"config", "vault"}

ApproveAllowed(c, signer, call) ==
  /\ call.autoExecute => Readable(c, call.index)
  /\ Votable(c, signer, call.index)
  /\ signer \notin c.props[call.index].approved
  /\ ApproveExecutes(c, signer, call) => ExecutionBuilds(c, call.index)

\* Mutant: a signer may reject twice.
RejectRepeatedly(c, signer, call) == Votable(c, signer, call.index)

RejectAllowed(c, signer, call) ==
  /\ Votable(c, signer, call.index)
  /\ signer \notin c.props[call.index].rejected

\* Mutant: the time lock lasts one second too long.
ExecuteLate(c, now, signer, call) ==
  LET p == c.props[call.index] IN
  /\ c.created /\ HoldsPermission(c, signer, "execute") /\ p.status = "approved"
  /\ c.timeLock - (now - p.since) < 0
  /\ p.open /\ Readable(c, call.index) /\ ExecutionBuilds(c, call.index)

ExecuteAllowed(c, now, signer, call) ==
  LET p == c.props[call.index] IN
  /\ c.created
  /\ HoldsPermission(c, signer, "execute")
  /\ p.status = "approved"
  /\ c.timeLock - (now - p.since) <= 0
  /\ p.open
  /\ Readable(c, call.index)
  /\ ExecutionBuilds(c, call.index)

\* Mutant: a stale vault transaction is not ready either.
ReadyUnlessStale(c, now, index) ==
  LET p == c.props[index] IN
  /\ c.created /\ p.status = "approved" /\ p.open
  /\ p.payload.kind \in {"vault", "config"} /\ index > c.staleTransactionIndex
  /\ now - p.since >= c.timeLock

\* Mutant: the time lock lasts one second too long.
ReadyLate(c, now, index) ==
  LET p == c.props[index] IN
  /\ c.created /\ p.status = "approved" /\ p.open
  /\ \/ p.payload.kind = "vault"
     \/ p.payload.kind = "config" /\ index > c.staleTransactionIndex
  /\ now - p.since > c.timeLock

\* Of the read-only account: no signer is involved.  FALSE also stands for the
\* error a transaction account that cannot be decoded raises.
ReadyToExecute(c, now, index) ==
  LET p == c.props[index] IN
  /\ c.created
  /\ p.status = "approved"
  /\ p.open
  /\ \/ p.payload.kind = "vault"
     \/ p.payload.kind = "config" /\ index > c.staleTransactionIndex
  /\ now - p.since >= c.timeLock

(***************************************************************************)
(* Configuration changes.                                                  *)
(***************************************************************************)
\* Mutant: any member may propose a change.
AnyMemberReconfigures(c, signer) == c.created /\ ~c.controlled /\ c.masks[signer] # {}

MayReconfigure(c, signer) ==
  c.created /\ ~c.controlled /\ HoldsPermission(c, signer, "initiate")

AddAllowed(c, call) ==
  /\ call.mask # {}
  /\ call.owner \notin Members(c.masks)
  /\ ViableMembers([c.masks EXCEPT ![call.owner] = call.mask], InForce(c, call.threshold))

RemoveAllowed(c, call) ==
  /\ call.owner \in Members(c.masks)
  /\ ViableMembers([c.masks EXCEPT ![call.owner] = {}], InForce(c, call.threshold))

\* Mutant: the new member may already be one.
SwapForAnyone(c, call) ==
  /\ call.owner # call.newOwner /\ call.owner \in Members(c.masks)
  /\ ViableMembers([c.masks EXCEPT ![call.owner] = {}, ![call.newOwner] = c.masks[call.owner]],
                   InForce(c, call.threshold))

SwapAllowed(c, call) ==
  /\ call.owner # call.newOwner
  /\ call.owner \in Members(c.masks)
  /\ call.newOwner \notin Members(c.masks)
  /\ ViableMembers([c.masks EXCEPT ![call.owner] = {}, ![call.newOwner] = c.masks[call.owner]],
                   InForce(c, call.threshold))

ThresholdAllowed(c, call) ==
  call.threshold # c.threshold /\ ViableMembers(c.masks, call.threshold)

ConfigAllowed(c, signer, call) ==
  /\ MayReconfigure(c, signer)
  /\ \/ call.op = "addOwner" /\ AddAllowed(c, call)
     \/ call.op = "removeOwner" /\ RemoveAllowed(c, call)
     \/ call.op = "swapOwner" /\ SwapAllowed(c, call)
     \/ call.op = "changeThreshold" /\ ThresholdAllowed(c, call)

\* The actions the config transaction carries.
ChangeOf(c, call) ==
  LET joins(owner, mask) == [NoChange.in EXCEPT ![owner] = mask]
      change(out, in) == [out |-> out, in |-> in, threshold |-> call.threshold]
  IN  CASE call.op = "addOwner" -> change({}, joins(call.owner, call.mask))
        [] call.op = "removeOwner" -> change({call.owner}, NoChange.in)
        [] call.op = "swapOwner" ->
             change({call.owner}, joins(call.newOwner, c.masks[call.owner]))
        [] OTHER -> change({}, NoChange.in)

(***************************************************************************)
(* The call as a whole: does it submit, what, and what does it return.     *)
(***************************************************************************)
Allowed(c, now, signer, call) ==
  \/ call.op = "deploy" /\ DeployAllowed(c, call)
  \/ call.op = "propose" /\ ProposeAllowed(c, signer)
  \/ call.op = "approveProposal" /\ ApproveAllowed(c, signer, call)
  \/ call.op = "rejectProposal" /\ RejectAllowed(c, signer, call)
  \/ call.op = "executeProposal" /\ ExecuteAllowed(c, now, signer, call)
  \/ ConfigAllowed(c, signer, call)

\* A transaction record with the fields its operation does not use blanked.
Bare(op, signer, index) ==
  [op |-> op, signer |-> signer, index |-> index, payload |-> VaultPayload,
   run |-> FALSE, masks |-> NoChange.in, threshold |-> 0]

NextIndex(c) == c.transactionIndex + 1

Submission(c, signer, call) ==
  CASE call.op = "deploy" ->
         [Bare("deploy", signer, 0) EXCEPT !.masks = OwnerMasks(call.owners),
                                           !.threshold = call.threshold]
    [] call.op = "propose" ->
         [Bare("create", signer, NextIndex(c)) EXCEPT !.run = ProposeExecutes(c, signer, call)]
    [] call.op = "approveProposal" ->
         [Bare("approve", signer, call.index) EXCEPT !.run = ApproveExecutes(c, signer, call)]
    [] call.op = "rejectProposal" -> Bare("reject", signer, call.index)
    [] call.op = "executeProposal" -> Bare("execute", signer, call.index)
    [] OTHER ->
         [Bare("create", signer, NextIndex(c)) EXCEPT
            !.payload = ConfigPayload(ChangeOf(c, call))]

\* deploy and executeProposal return no proposal, only the transaction's hash.
Result == [proposalId : Nat, confirmations : Nat, threshold : Nat,
           status : {"pending", "executed", "hash"}]

\* Mutant: the result does not tell an execution.
ReportPending(c, index, confirmations, executes) ==
  [proposalId |-> index, confirmations |-> confirmations, threshold |-> c.threshold,
   status |-> "pending"]

Report(c, index, confirmations, executes) ==
  [proposalId |-> index, confirmations |-> confirmations, threshold |-> c.threshold,
   status |-> IF executes THEN "executed" ELSE "pending"]

HashOnly == [proposalId |-> 0, confirmations |-> 0, threshold |-> 0, status |-> "hash"]

ResultOf(c, signer, call) ==
  CASE call.op = "propose" ->
         LET executes == ProposeExecutes(c, signer, call)
         IN  Report(c, NextIndex(c), IF executes THEN 1 ELSE 0, executes)
    [] call.op = "approveProposal" ->
         Report(c, call.index, AfterApproval(c.props[call.index]),
                ApproveExecutes(c, signer, call))
    [] call.op = "rejectProposal" ->
         Report(c, call.index, AfterRejection(c.props[call.index], signer), FALSE)
    [] call.op \in {"deploy", "executeProposal"} -> HashOnly
    [] OTHER -> Report(c, NextIndex(c), 0, FALSE)
=============================================================================
