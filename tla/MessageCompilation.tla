------------------------- MODULE MessageCompilation -------------------------
(***************************************************************************)
(* How the transaction a caller proposes becomes the message a vault       *)
(* transaction stores: instructions compiled into a list of keys, a header *)
(* that says by position which keys sign and which are written, and        *)
(* instructions that name keys by position.                                *)
(*                                                                         *)
(* Positions count from 1 here, from 0 in the code.  Of an instruction's   *)
(* data only the length is kept, in bytes.                                 *)
(***************************************************************************)
EXTENDS Integers, FiniteSets, SequencesExt

CONSTANTS
  SystemProgram,  \* the program of a SOL transfer
  NoFeePayer      \* the caller names no fee payer

(***************************************************************************)
(* What callers propose.                                                   *)
(***************************************************************************)
Role == [signer : BOOLEAN, writable : BOOLEAN]
ReadOnly == [signer |-> FALSE, writable |-> FALSE]
Writable == [signer |-> FALSE, writable |-> TRUE]
WritableSigner == [signer |-> TRUE, writable |-> TRUE]

Meta(key, role) == [address |-> key, role |-> role]

\* The instructions over a set of keys.
InstructionOver(K) ==
  [program : K, accounts : Seq([address : K, role : Role]), data : Nat]

\* { to, value }: one SOL transfer from the vault.
Transfer(vault, to) ==
  <<[program |-> SystemProgram,
     accounts |-> <<Meta(vault, WritableSigner), Meta(to, Writable)>>,
     data |-> 12]>>

Metas(instructions) ==
  UNION {ToSet(instruction.accounts) : instruction \in ToSet(instructions)}

\* Mutant: other signers pass.
PayableByVault(vault, instructions, feePayer) ==
  instructions # <<>> /\ feePayer \in {NoFeePayer, vault}

\* The vault pays, and only the vault signs.
Proposable(vault, instructions, feePayer) ==
  /\ instructions # <<>>
  /\ feePayer \in {NoFeePayer, vault}
  /\ \A meta \in Metas(instructions) : meta.role.signer => meta.address = vault

(***************************************************************************)
(* Compilation.                                                            *)
(***************************************************************************)

\* The payer, then each instruction's program and accounts.
Mentioned(payer, instructions) ==
  LET mentioned(instruction) ==
        <<instruction.program>>
          \o [j \in DOMAIN instruction.accounts |-> instruction.accounts[j].address]
  IN  <<payer>> \o FlattenSeq([i \in DOMAIN instructions |-> mentioned(instructions[i])])

\* Mutant: a key is entered every time it is mentioned.
OnceEachRepeated(s, S) == SelectSeq(s, LAMBDA x : x \in S)

\* The elements of s that are in S, each of them once, where it first appears.
OnceEach(s, S) ==
  LET noted[n \in 0 .. Len(s)] ==
        IF n = 0 THEN <<>>
        ELSE LET before == noted[n - 1]
             IN  IF s[n] \in S \ ToSet(before) THEN Append(before, s[n]) ELSE before
  IN  noted[Len(s)]

\* Mutant: the weakest role any instruction asks for the key.
WeakestRoleOf(payer, instructions, key) ==
  LET roles == {meta.role : meta \in {m \in Metas(instructions) : m.address = key}}
  IN  [signer |-> key = payer \/ (roles # {} /\ \A role \in roles : role.signer),
       writable |-> key = payer \/ (roles # {} /\ \A role \in roles : role.writable)]

\* The strongest role any instruction asks for the key.
RoleOf(payer, instructions, key) ==
  LET roles == {meta.role : meta \in {m \in Metas(instructions) : m.address = key}}
  IN  [signer |-> key = payer \/ \E role \in roles : role.signer,
       writable |-> key = payer \/ \E role \in roles : role.writable]

\* The keys of one role, as the entries hold them.
Group(payer, instructions, role) ==
  LET mentioned == Mentioned(payer, instructions)
  IN  OnceEach(mentioned,
               {key \in ToSet(mentioned) : RoleOf(payer, instructions, key) = role})

\* The counts of keys that sign and are written, sign only, are written only.
\* Mutant: every signer counts as written.
HeaderOfSigners(both, signed, written) ==
  [numSigners |-> both + signed, numWritableSigners |-> both + signed,
   numWritableNonSigners |-> written]

Header(both, signed, written) ==
  [numSigners |-> both + signed, numWritableSigners |-> both,
   numWritableNonSigners |-> written]

\* An instruction names its program and its accounts by their positions.
CompiledInstruction(keys, instruction) ==
  LET position(key) == CHOOSE i \in DOMAIN keys : keys[i] = key
  IN  [programIdIndex |-> position(instruction.program),
       accountIndexes |-> [j \in DOMAIN instruction.accounts |->
                             position(instruction.accounts[j].address)]]

Compiled(payer, instructions, ephemeral, lookups) ==
  LET group(signer, writable) ==
        Group(payer, instructions, [signer |-> signer, writable |-> writable])
      keys == group(TRUE, TRUE) \o group(TRUE, FALSE)
                \o group(FALSE, TRUE) \o group(FALSE, FALSE)
      header == Header(Len(group(TRUE, TRUE)), Len(group(TRUE, FALSE)), Len(group(FALSE, TRUE)))
  IN  [numSigners |-> header.numSigners,
       numWritableSigners |-> header.numWritableSigners,
       numWritableNonSigners |-> header.numWritableNonSigners,
       accountKeys |-> keys,
       instructions |-> [i \in DOMAIN instructions |-> CompiledInstruction(keys, instructions[i])],
       ephemeral |-> ephemeral,
       lookups |-> lookups]

\* The sum of a sequence of sizes.
Total(s) ==
  LET sum[n \in 0 .. Len(s)] == IF n = 0 THEN 0 ELSE sum[n - 1] + s[n]
  IN  sum[Len(s)]
=============================================================================
