-------------------------- MODULE MCProposalReads --------------------------
(***************************************************************************)
(* An instance of ProposalReads for TLC.                                   *)
(***************************************************************************)
EXTENDS ProposalReads, TLC

CONSTANTS a, b   \* two addresses

Symmetry == Permutations(Address)

FullMasks == [x \in Address |-> Permission]

Multisig ==
  [created |-> TRUE, controlled |-> FALSE, masks |-> FullMasks, threshold |-> 2,
   timeLock |-> 0, transactionIndex |-> 0, staleTransactionIndex |-> 0,
   props |-> [i \in Index |-> NoProposal], tables |-> TRUE]

\* A change that lowers the threshold to one, then a vault transaction.
LowerThreshold == ConfigPayload([NoChange EXCEPT !.threshold = 1])

TwoProposals ==
  {Created(Created(Multisig, 1, LowerThreshold), 2, VaultPayload)}
VaultOnly == {VaultPayload}

\* One request or two, out of order, with repetitions across and within
\* requests, and with an id nothing was ever created under.
SomeRequests ==
  {<<>>, <<1>>, <<1, 2, 3>>, <<3, 2, 1>>, <<2, 1, 2>>, <<2, 2, 1, 2>>}
=============================================================================
