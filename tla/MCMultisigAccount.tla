------------------------- MODULE MCMultisigAccount -------------------------
(***************************************************************************)
(* Instances of MultisigAccount for TLC.                                   *)
(***************************************************************************)
EXTENDS MultisigLifecycle, TLC

CONSTANTS a, b, c   \* three addresses

Slots == Permutations(Slot)

Everything == Permission

\* A deployed multisig with no proposal yet.
Multisig(masks, threshold, timeLock) ==
  [created |-> TRUE, controlled |-> FALSE, masks |-> masks, threshold |-> threshold,
   timeLock |-> timeLock, transactionIndex |-> 0, staleTransactionIndex |-> 0,
   props |-> [i \in Index |-> NoProposal], tables |-> TRUE]

Undeployed ==
  [Multisig(NoChange.in, 0, 0) EXCEPT !.created = FALSE]

Controlled(chainRecord) == [chainRecord EXCEPT !.controlled = TRUE]

\* The same multisig with one proposal open for votes.
WithProposal(chainRecord, payload) == Created(chainRecord, 1, payload)

FullMasks == [x \in Address |-> Everything]
\* a does everything, b only votes, c proposes and executes but does not vote.
SplitMasks == a :> Everything @@ b :> {"vote"} @@ c :> {"initiate", "execute"}
\* a does everything, b votes, c is no member.
PairMasks == a :> Everything @@ b :> {"vote"} @@ c :> {}

BatchPayload == [VaultPayload EXCEPT !.kind = "batch"]
\* An action of a newer program that also lowers the threshold.
NewerPayload == [ConfigPayload([NoChange EXCEPT !.threshold = 1]) EXCEPT !.kind = "newer"]
TablesPayload == [VaultPayload EXCEPT !.tables = TRUE]
\* Adding a member that is already one, a change the program refuses to run.
BadChange == [NoChange EXCEPT !.in = [NoChange.in EXCEPT ![a] = Everything]]

(***************************************************************************)
(* Deploying, proposing, voting and executing: on a multisig that does not *)
(* exist yet, on fresh ones, and on ones with a proposal open for votes.   *)
(***************************************************************************)
NoSet == {}
SomeOwners == {<<>>, <<a>>, <<a, b>>, <<b, a>>, <<a, a>>}
LowThresholds == {0, 1, 2}
FreshInitial ==
  {Undeployed} \cup {Multisig(m, t, 0) : m \in {FullMasks, SplitMasks}, t \in 1 .. 2}
VotesInitial ==
  {WithProposal(Multisig(FullMasks, 2, 0), VaultPayload),
   WithProposal(Multisig(FullMasks, 2, 1), VaultPayload),
   WithProposal(Multisig(SplitMasks, 2, 0), VaultPayload),
   WithProposal(Multisig(FullMasks, 2, 0), TablesPayload),
   WithProposal(Multisig(FullMasks, 1, 0), BatchPayload),
   WithProposal(Multisig(FullMasks, 2, 0), NewerPayload),
   WithProposal(Multisig(FullMasks, 3, 0), VaultPayload)}
CallsInitial == FreshInitial \cup VotesInitial
VotesOperations == {"approveProposal", "rejectProposal", "executeProposal"}
CallsOperations == VotesOperations \cup {"deploy", "propose"}

(***************************************************************************)
(* Configuration changes.                                                  *)
(***************************************************************************)
ConfigInitial == {WithoutTables(Multisig(PairMasks, 1, 0))}
ConfigOperations ==
  {"addOwner", "removeOwner", "changeThreshold", "approveProposal", "executeProposal"}
ConfigMasks == {{"vote"}}
NoThresholds == {Keep}
SomeThresholds == {Keep, 2}

(***************************************************************************)
(* Other tools, rent reclaim and a config authority.                       *)
(***************************************************************************)
ForeignInitial ==
  {Multisig(SplitMasks, 1, 0), WithoutTables(Multisig(PairMasks, 1, 0)),
   WithoutTables(Controlled(Multisig(SplitMasks, 1, 1)))}
ForeignPayloads ==
  {TablesPayload, BatchPayload, NewerPayload, ConfigPayload(BadChange)}
ImposedConfigurations ==
  {[masks |-> SplitMasks, threshold |-> 2, timeLock |-> 0],
   [masks |-> [SplitMasks EXCEPT ![b] = Everything], threshold |-> 1, timeLock |-> 1]}
ForeignOperations ==
  {"addOwner", "swapOwner", "propose", "approveProposal", "executeProposal"}
=============================================================================
