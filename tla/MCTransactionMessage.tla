----------------------- MODULE MCTransactionMessage -----------------------
(***************************************************************************)
(* An instance of TransactionMessage for TLC.                              *)
(***************************************************************************)
EXTENDS TransactionMessage

CONSTANTS vault, system, x, e, t1, t2   \* addresses

AllRoles == Role

\* What an instruction can ask of one or two accounts.  x is an ordinary
\* account, e an ephemeral signer, and the vault can be asked for in any role.
AccountLists ==
  LET metas == [address : {vault, x, e}, role : AllRoles]
  IN  {<<>>} \cup {<<m>> : m \in metas} \cup {<<m, n>> : m \in metas, n \in metas}

OneInstruction == {<<[program |-> p, accounts |-> a, data |-> 0]>> : p \in {system, x}, a \in AccountLists}

\* A second instruction that asks for one account, whose program the first one
\* may have named as an account.
SecondInstruction ==
  {<<[program |-> p, accounts |-> <<m>>, data |-> 0]>> :
     p \in {x, t1}, m \in {Meta(x, ReadOnly), Meta(e, Writable), Meta(vault, ReadOnly),
                           Meta(e, WritableSigner)}}

SomeInstructions ==
  {<<>>} \cup OneInstruction
    \cup {one \o two : one \in OneInstruction, two \in SecondInstruction}

\* t1 holds three addresses, t2 one; a message may read a position t2 lacks.
SomeTables == {[t \in {t1, t2} |-> IF t = t1 THEN <<x, system, e>> ELSE <<vault>>]}

Reads(table, writable, readonly) ==
  [table |-> table, writable |-> writable, readonly |-> readonly]

SomeLookups ==
  {<<>>,
   <<Reads(t1, <<3, 1>>, <<2>>)>>,
   <<Reads(t1, <<2>>, <<1, 3>>), Reads(t2, <<>>, <<1>>)>>,
   <<Reads(t2, <<1>>, <<2>>)>>}

SomeRecipients == {vault, x}
=============================================================================
