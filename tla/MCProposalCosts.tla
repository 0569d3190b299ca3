--------------------------- MODULE MCProposalCosts ---------------------------
(***************************************************************************)
(* An instance of ProposalCosts for TLC: two vaults, a recipient that is   *)
(* one of them, messages only one vault, or either, can propose.           *)
(***************************************************************************)
EXTENDS ProposalCosts, TLC

CONSTANTS v0, v1, r   \* addresses

TwoVaults == 0 :> v0 @@ 1 :> v1

Message(program, accounts, feePayer) ==
  [instructions |-> <<[program |-> program, accounts |-> accounts, data |-> 3]>>,
   feePayer |-> feePayer]

\* The first takes either vault, the second and third only the one that signs.
SomeMessages ==
  {Message(TokenProgram, <<Meta(v1, ReadOnly), Meta(r, Writable)>>, NoFeePayer),
   Message(SystemProgram, <<Meta(v1, WritableSigner), Meta(v0, Writable)>>, NoFeePayer),
   Message(SystemProgram, <<>>, v0)}

\* A transfer that opens the token account of a stranger, proposed to one member,
\* costs exactly one of the ceilings; so does a deploy with one owner at the higher
\* fee.
TransferCost == 5691320
CreationFees == {0, TransferCost - 2049280}
=============================================================================
