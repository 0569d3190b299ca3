--------------------------- MODULE SquadsProgram ---------------------------
(***************************************************************************)
(* The Squads v4 on-chain program, as far as the client library depends on *)
(* it: what each instruction requires of the multisig, proposal and        *)
(* transaction accounts, and what it leaves in them.  The program is not   *)
(* part of this repository (its binary is a test fixture); the guards here *)
(* are the ones the client's checks, error messages and integration tests  *)
(* rely on.  Everything is a pure operator on a record that holds the      *)
(* accounts of ONE multisig.                                               *)
(*                                                                         *)
(* A permission mask (1 initiate, 2 vote, 4 execute) is the set of its     *)
(* bits, and an address that is no member is one whose mask is empty.  A   *)
(* member that holds no permission at all is therefore not represented.    *)
(***************************************************************************)
EXTENDS Integers, FiniteSets

CONSTANTS
  Address,    \* the keys that can be members
  MaxIndex    \* bound: the highest transaction index the model allocates

ASSUME AddressAssumption == IsFiniteSet(Address)
ASSUME MaxIndexAssumption == MaxIndex \in Nat

Permission == {"initiate", "vote", "execute"}
Mask == SUBSET Permission
Index == 0 .. MaxIndex

\* "This field of a config change is absent": the threshold stays as it is.
Keep == -1

(***************************************************************************)
(* The accounts.                                                           *)
(*                                                                         *)
(* A config change is the list of actions a config transaction stores,     *)
(* reduced to its effect: members that leave, members that join with their *)
(* mask, and the new threshold.  `tables` says whether a vault message     *)
(* reads address lookup tables; only other tools store such messages.      *)
(***************************************************************************)
Change == [out : SUBSET Address, in : [Address -> Mask], threshold : Nat \cup {Keep}]
NoChange == [out |-> {}, in |-> [a \in Address |-> {}], threshold |-> Keep]

\* "newer": a config transaction with an action this package cannot decode; the
\* program can, and `change` is what the action does.
Kind == {"vault", "config", "batch", "newer"}
Payload == [kind : Kind, change : Change, tables : BOOLEAN]
VaultPayload == [kind |-> "vault", change |-> NoChange, tables |-> FALSE]
ConfigPayload(change) == [kind |-> "config", change |-> change, tables |-> FALSE]
IsConfig(payload) == payload.kind \in {"config", "newer"}

\* "none": no proposal account at that index.  `since` is the timestamp of
\* the status, kept only where a guard reads it (0 elsewhere); `open` says
\* whether the transaction account exists.
Status == {"none", "active", "rejected", "approved", "executed", "cancelled"}
Proposal == [status : Status, payload : Payload, approved : SUBSET Address,
             rejected : SUBSET Address, since : Nat, open : BOOLEAN]
NoProposal == [status |-> "none", payload |-> VaultPayload, approved |-> {},
               rejected |-> {}, since |-> 0, open |-> FALSE]

\* `controlled`: a config authority, not the members, changes the members.
\* `tables`: whether the lookup tables stored messages refer to still exist.
Chain == [created : BOOLEAN, controlled : BOOLEAN, masks : [Address -> Mask],
          threshold : Nat, timeLock : Nat, transactionIndex : Nat,
          staleTransactionIndex : Nat, props : [Index -> Proposal], tables : BOOLEAN]

\* Indexes are allocated one by one, and a config change makes every earlier
\* proposal stale.
WellFormed(c) ==
  /\ c \in Chain
  /\ c.staleTransactionIndex <= c.transactionIndex
  /\ c.transactionIndex <= MaxIndex
  /\ ~c.created => c.transactionIndex = 0
  /\ \A i \in Index : c.props[i].status # "none" => i \in 1 .. c.transactionIndex

Holders(masks, permission) == {a \in Address : permission \in masks[a]}
Members(masks) == {a \in Address : masks[a] # {}}

(***************************************************************************)
(* Configuration.  The program checks the multisig it is about to store:   *)
(* someone can vote, propose and execute, and the threshold is reachable.  *)
(***************************************************************************)
Viable(masks, threshold) ==
  /\ \A permission \in Permission : Holders(masks, permission) # {}
  /\ threshold \in 1 .. Cardinality(Holders(masks, "vote"))

Reconfigured(masks, change) ==
  [a \in Address |-> IF change.in[a] # {} THEN change.in[a]
                     ELSE IF a \in change.out THEN {} ELSE masks[a]]

NewThreshold(threshold, change) ==
  IF change.threshold = Keep THEN threshold ELSE change.threshold

\* A removed address must be a member, an added one must not be one (any more).
Applicable(masks, threshold, change) ==
  /\ change.out \subseteq Members(masks)
  /\ Members(change.in) \cap (Members(masks) \ change.out) = {}
  /\ Viable(Reconfigured(masks, change), NewThreshold(threshold, change))

\* Mutant: earlier proposals stay live.
AppliedQuietly(c, change) ==
  [c EXCEPT !.masks = Reconfigured(c.masks, change),
            !.threshold = NewThreshold(c.threshold, change)]

Applied(c, change) ==
  [c EXCEPT !.masks = Reconfigured(c.masks, change),
            !.threshold = NewThreshold(c.threshold, change),
            !.staleTransactionIndex = c.transactionIndex]

(***************************************************************************)
(* Instructions.                                                           *)
(***************************************************************************)
Update(c, index, proposal) == [c EXCEPT !.props[index] = proposal]

CanDeploy(c, masks, threshold) == ~c.created /\ Viable(masks, threshold)

Deployed(c, masks, threshold) ==
  [c EXCEPT !.created = TRUE, !.masks = masks, !.threshold = threshold]

\* vaultTransactionCreate or configTransactionCreate, then proposalCreate with
\* draft: false.  The accounts sit at addresses derived from the index, so a
\* transaction that names any other index than the next one is refused.
CanCreate(c, signer, index, payload) ==
  /\ c.created
  /\ "initiate" \in c.masks[signer]
  /\ index = c.transactionIndex + 1
  /\ index > c.staleTransactionIndex
  /\ IsConfig(payload) => ~c.controlled

Opened(payload) ==
  [NoProposal EXCEPT !.status = "active", !.payload = payload, !.open = TRUE]

Created(c, index, payload) ==
  [Update(c, index, Opened(payload)) EXCEPT !.transactionIndex = index]

CanVote(c, signer, index) ==
  /\ c.created
  /\ "vote" \in c.masks[signer]
  /\ c.props[index].status = "active"
  /\ index > c.staleTransactionIndex

CanApprove(c, signer, index) ==
  CanVote(c, signer, index) /\ signer \notin c.props[index].approved

CanReject(c, signer, index) ==
  CanVote(c, signer, index) /\ signer \notin c.props[index].rejected

\* A vote replaces the signer's earlier one; the vote that reaches the
\* threshold settles the proposal.
Approved(c, signer, index, now) ==
  LET p == c.props[index]
      ayes == p.approved \cup {signer}
      settled == Cardinality(ayes) >= c.threshold
  IN  Update(c, index,
        [p EXCEPT !.approved = ayes, !.rejected = p.rejected \ {signer},
                  !.status = IF settled THEN "approved" ELSE "active",
                  !.since = IF settled THEN now ELSE 0])

\* So many rejections that the voters left can no longer reach the threshold.
Cutoff(c) == Cardinality(Holders(c.masks, "vote")) - c.threshold + 1

Rejected(c, signer, index) ==
  LET p == c.props[index]
      noes == p.rejected \cup {signer}
  IN  Update(c, index,
        [p EXCEPT !.rejected = noes, !.approved = p.approved \ {signer},
                  !.status = IF Cardinality(noes) >= Cutoff(c)
                             THEN "rejected" ELSE "active"])

\* Mutant: a stale config transaction is executed all the same.
CanExecuteStale(c, signer, index, now) ==
  LET p == c.props[index] IN
  /\ c.created /\ "execute" \in c.masks[signer] /\ p.status = "approved" /\ p.open
  /\ now - p.since >= c.timeLock
  /\ IF IsConfig(p.payload) THEN Applicable(c.masks, c.threshold, p.payload.change)
     ELSE p.payload.tables => c.tables

\* vaultTransactionExecute, configTransactionExecute, and the execution of the
\* last transaction of a batch, which this package never submits.  An approved
\* vault transaction or batch outlives a config change, a config one does not.
CanExecute(c, signer, index, now) ==
  LET p == c.props[index] IN
  /\ c.created
  /\ "execute" \in c.masks[signer]
  /\ p.status = "approved"
  /\ p.open
  /\ now - p.since >= c.timeLock
  /\ \/ ~IsConfig(p.payload) /\ (p.payload.tables => c.tables)
     \/ /\ IsConfig(p.payload)
        /\ index > c.staleTransactionIndex
        /\ Applicable(c.masks, c.threshold, p.payload.change)

\* Mutant: an executed proposal stays approved.
ExecutedRepeatably(c, index) ==
  LET p == c.props[index]
  IN  IF IsConfig(p.payload) THEN Applied(c, p.payload.change) ELSE c

Executed(c, index) ==
  LET p == c.props[index]
      done == Update(c, index, [p EXCEPT !.status = "executed", !.since = 0])
  IN  IF IsConfig(p.payload) THEN Applied(done, p.payload.change) ELSE done

(***************************************************************************)
(* A transaction the client submits, and its effect.  Instructions of one  *)
(* transaction take effect together or not at all: `run` appends to a      *)
(* creation an approval and the execution, to an approval the execution.   *)
(***************************************************************************)
Op == {"deploy", "create", "approve", "reject", "execute"}
Transaction == [op : Op, signer : Address, index : Index, payload : Payload,
                run : BOOLEAN, masks : [Address -> Mask], threshold : Nat]

Accepts(c, tx, now) ==
  \/ tx.op = "deploy" /\ CanDeploy(c, tx.masks, tx.threshold)
  \/ /\ tx.op = "create"
     /\ CanCreate(c, tx.signer, tx.index, tx.payload)
     /\ tx.run => LET d == Created(c, tx.index, tx.payload) IN
          /\ CanApprove(d, tx.signer, tx.index)
          /\ CanExecute(Approved(d, tx.signer, tx.index, now), tx.signer, tx.index, now)
  \/ /\ tx.op = "approve"
     /\ CanApprove(c, tx.signer, tx.index)
     /\ tx.run =>
          CanExecute(Approved(c, tx.signer, tx.index, now), tx.signer, tx.index, now)
  \/ tx.op = "reject" /\ CanReject(c, tx.signer, tx.index)
  \/ tx.op = "execute" /\ CanExecute(c, tx.signer, tx.index, now)

\* Meaningful where Accepts holds.
Outcome(c, tx, now) ==
  LET proposed == IF tx.op = "create" THEN Created(c, tx.index, tx.payload) ELSE c
      approves == tx.op = "approve" \/ (tx.op = "create" /\ tx.run)
      voted == IF approves THEN Approved(proposed, tx.signer, tx.index, now) ELSE proposed
  IN  CASE tx.op = "deploy" -> Deployed(c, tx.masks, tx.threshold)
        [] tx.op = "reject" -> Rejected(c, tx.signer, tx.index)
        [] tx.op = "execute" -> Executed(c, tx.index)
        [] OTHER -> IF tx.run THEN Executed(voted, tx.index) ELSE voted

\* The votes on proposal p count under the configuration of c.
VotesCount(c, p) ==
  /\ p.approved \cup p.rejected \subseteq Holders(c.masks, "vote")
  /\ p.approved \cap p.rejected = {}
  /\ p.status = "active" => /\ Cardinality(p.approved) < c.threshold
                            /\ Cardinality(p.rejected) < Cutoff(c)
  /\ p.status \in {"approved", "executed"} => Cardinality(p.approved) >= c.threshold

\* Nobody has voted on a proposal that is not there, and the votes on a live one
\* count.
SoundProposal(c, i, p) ==
  /\ p.status = "none" => p.approved = {} /\ p.rejected = {}
  /\ i > c.staleTransactionIndex => VotesCount(c, p)

\* Every live proposal's votes count, and a deployed multisig has members that can
\* vote, propose and execute and a threshold they can reach.
Sound(c) ==
  /\ WellFormed(c)
  /\ c.created => Viable(c.masks, c.threshold)
  /\ \A i \in Index : SoundProposal(c, i, c.props[i])
=============================================================================
