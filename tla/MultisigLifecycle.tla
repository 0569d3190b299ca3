-------------------------- MODULE MultisigLifecycle --------------------------
(***************************************************************************)
(* MultisigAccount implements ProposalLifecycle: forget the votes, the     *)
(* clock, the calls and the transactions under way, and every landing is   *)
(* one step in the life of one proposal, or none.  A proposal whose        *)
(* transaction account is closed counts as closed: it may be opened and    *)
(* voted on once more, but nothing it held can be executed.                *)
(***************************************************************************)
EXTENDS MultisigAccount

\* The status of the proposal at an index, as long as its transaction is there.
Stage(c, i) ==
  IF i \in 1 .. c.transactionIndex /\ ~c.props[i].open THEN "closed" ELSE c.props[i].status

Lifecycle == INSTANCE ProposalLifecycle WITH
  deployed <- chain.created,
  controlled <- chain.controlled,
  config <- [masks |-> chain.masks, threshold |-> chain.threshold],
  top <- chain.transactionIndex,
  stale <- chain.staleTransactionIndex,
  stage <- [i \in Index |-> Stage(chain, i)],
  payload <- [i \in Index |-> chain.props[i].payload]

\* Whatever the accounts of this package submit, and whatever lands meanwhile,
\* the proposals of the multisig live the life their members are promised.
ImplementsLifecycle == Lifecycle!Spec
=============================================================================
