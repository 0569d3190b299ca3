------------------------- MODULE TransactionMessage -------------------------
(***************************************************************************)
(* The message a vault transaction stores, from the instructions a caller  *)
(* proposes to the accounts an execution passes to the program.            *)
(*                                                                         *)
(* propose compiles instructions into a list of keys, a header that says   *)
(* by position which keys sign and which are written, and instructions     *)
(* that name keys by position.  Whoever executes the proposal later reads  *)
(* only that form back and must hand the program the same accounts, in its *)
(* order, with the signatures the program itself gives taken off.  Other   *)
(* tools store messages too; theirs may need other signers, signers the    *)
(* program makes up (ephemeral ones), and address lookup tables.           *)
(*                                                                         *)
(* Positions count from 1 here, from 0 in the code.                        *)
(***************************************************************************)
EXTENDS MessageCompilation

CONSTANTS
  Key,            \* addresses
  Vault,          \* the vault the message executes from
  Ephemeral,      \* the ephemeral signers other tools' messages may need
  TransferTo,     \* the recipients of the SOL transfers callers propose
  Instructions,   \* the instruction lists callers and other tools use
  FeePayer,       \* the fee payers callers name
  LookupLists,    \* the lookups other tools' messages make
  InitialTables   \* the lookup tables: for each the addresses it holds

ASSUME KeyAssumption ==
  /\ {Vault, SystemProgram} \cup Ephemeral \cup TransferTo \cup FeePayer \subseteq Key
  /\ NoFeePayer \notin Key /\ Vault \notin Ephemeral

ASSUME InstructionsAssumption == \A list \in Instructions : list \in Seq(InstructionOver(Key))

Lookup == [table : Key, writable : Seq(Nat \ {0}), readonly : Seq(Nat \ {0})]

ASSUME LookupAssumption ==
  /\ \A lookups \in LookupLists : lookups \in Seq(Lookup)
  /\ \A held \in InitialTables :
       DOMAIN held \subseteq Key /\ \A table \in DOMAIN held : held[table] \in Seq(Key)

VARIABLES
  proposed,   \* the instructions the stored message was compiled from
  byClient,   \* whether this package stored it
  message,    \* the stored message, once there is one
  accounts,   \* the accounts of the last execution built from it
  tables      \* the lookup tables that exist

vars == <<proposed, byClient, message, accounts, tables>>

(***************************************************************************)
(* Execution.                                                              *)
(***************************************************************************)
SignedForByProgram(m) == {Vault} \cup m.ephemeral

\* Mutant: the last key that is only written is passed read-only.
ResolvedShort(m, i) ==
  [signer |-> i <= m.numSigners /\ m.accountKeys[i] \notin SignedForByProgram(m),
   writable |-> \/ i <= m.numWritableSigners
                \/ i > m.numSigners /\ i - m.numSigners < m.numWritableNonSigners]

ResolvedRole(m, i) ==
  [signer |-> i <= m.numSigners /\ m.accountKeys[i] \notin SignedForByProgram(m),
   writable |-> \/ i <= m.numWritableSigners
                \/ i > m.numSigners /\ i - m.numSigners <= m.numWritableNonSigners]

\* Every table exists and holds the positions the message reads.
TablesResolve(m) ==
  \A lookup \in ToSet(m.lookups) :
    /\ lookup.table \in DOMAIN tables
    /\ ToSet(lookup.writable) \cup ToSet(lookup.readonly)
         \subseteq DOMAIN tables[lookup.table]

Resolved(m) ==
  LET load(lookup, positions, role) ==
        [j \in DOMAIN positions |-> Meta(tables[lookup.table][positions[j]], role)]
      loads(lookup) == load(lookup, lookup.writable, Writable)
                         \o load(lookup, lookup.readonly, ReadOnly)
  IN  [l \in DOMAIN m.lookups |-> Meta(m.lookups[l].table, ReadOnly)]
        \o [i \in DOMAIN m.accountKeys |-> Meta(m.accountKeys[i], ResolvedRole(m, i))]
        \o FlattenSeq([l \in DOMAIN m.lookups |-> loads(m.lookups[l])])

(***************************************************************************)
(* The steps.                                                              *)
(***************************************************************************)
NoMessage == [accountKeys |-> <<>>]
Stored == message # NoMessage

Init ==
  /\ proposed = <<>>
  /\ byClient = FALSE
  /\ message = NoMessage
  /\ accounts = <<>>
  /\ tables \in InitialTables

Store(instructions, client, ephemeral, lookups) ==
  /\ proposed' = instructions
  /\ byClient' = client
  /\ message' = Compiled(Vault, instructions, ephemeral, lookups)
  /\ UNCHANGED tables

\* With autoExecute the execution is built from the compiled message before it
\* is stored; without, nothing is executed yet.
ProposeInstructions(instructions, autoExecute) ==
  /\ Store(instructions, TRUE, {}, <<>>)
  /\ accounts' = IF autoExecute THEN Resolved(message') ELSE <<>>

ProposeTransfer ==
  ~Stored /\ \E to \in TransferTo, autoExecute \in BOOLEAN :
    ProposeInstructions(Transfer(Vault, to), autoExecute)

ProposeMessage ==
  ~Stored /\ \E instructions \in Instructions, feePayer \in FeePayer \cup {NoFeePayer},
                autoExecute \in BOOLEAN :
    /\ Proposable(Vault, instructions, feePayer)
    /\ ProposeInstructions(instructions, autoExecute)

\* Another tool: any signers, any lookups.
ForeignStore ==
  ~Stored /\ \E instructions \in Instructions, lookups \in LookupLists :
    /\ instructions # <<>>
    /\ \E ephemeral \in {{}, Ephemeral} : Store(instructions, FALSE, ephemeral, lookups)
    /\ UNCHANGED accounts

\* executeProposal, and approveProposal with autoExecute.
Execute ==
  /\ Stored
  /\ TablesResolve(message)
  /\ accounts' = Resolved(message)
  /\ UNCHANGED <<proposed, byClient, message, tables>>

\* The owner of a lookup table closes it.
CloseTable ==
  \E table \in DOMAIN tables :
    /\ tables' = [t \in DOMAIN tables \ {table} |-> tables[t]]
    /\ UNCHANGED <<proposed, byClient, message, accounts>>

Next == ProposeTransfer \/ ProposeMessage \/ ForeignStore \/ Execute \/ CloseTable

Spec == Init /\ [][Next]_vars

(***************************************************************************)
(* How the chain reads a stored message and the accounts of an execution.  *)
(***************************************************************************)
HeaderRole(m, i) ==
  [signer |-> i <= m.numSigners,
   writable |-> \/ i <= m.numWritableSigners
                \/ i \in m.numSigners + 1 .. m.numSigners + m.numWritableNonSigners]

Grants(granted, asked) ==
  (asked.signer => granted.signer) /\ (asked.writable => granted.writable)

\* vaultTransactionExecute: the tables, then the message's keys, then what each
\* lookup loads, each with the privileges the message gives it, except that
\* nobody else can sign for the vault and the ephemeral signers.  A table that is
\* no longer held has nothing to compare with.
ProgramTakes(m, metas, held) ==
  LET keyAt(i) == metas[Len(m.lookups) + i]
      loadedBefore(l) ==
        Total([k \in 1 .. l - 1 |-> Len(m.lookups[k].writable) + Len(m.lookups[k].readonly)])
      loadAt(l, j) == metas[Len(m.lookups) + Len(m.accountKeys) + loadedBefore(l) + j]
      holds(lookup, position, meta) ==
        lookup.table \in DOMAIN held
          => meta.address = held[lookup.table][position]
  IN  /\ Len(metas) = Len(m.lookups) + Len(m.accountKeys)
                        + loadedBefore(Len(m.lookups) + 1)
      /\ \A l \in DOMAIN m.lookups : metas[l].address = m.lookups[l].table
      /\ \A i \in DOMAIN m.accountKeys :
           LET role == HeaderRole(m, i) IN
           /\ keyAt(i).address = m.accountKeys[i]
           /\ role.writable => keyAt(i).role.writable
           /\ keyAt(i).role.signer
                <=> role.signer /\ m.accountKeys[i] \notin SignedForByProgram(m)
      /\ \A l \in DOMAIN m.lookups :
           LET lookup == m.lookups[l] IN
           /\ \A j \in DOMAIN lookup.writable :
                /\ holds(lookup, lookup.writable[j], loadAt(l, j))
                /\ loadAt(l, j).role.writable
           /\ \A j \in DOMAIN lookup.readonly :
                holds(lookup, lookup.readonly[j], loadAt(l, Len(lookup.writable) + j))

(***************************************************************************)
(* Properties.                                                             *)
(***************************************************************************)

\* The values the variables take: no key appears twice in a message, and the
\* counts of the header stay within it.
TypeOK ==
  /\ byClient \in BOOLEAN
  /\ Stored =>
       /\ ToSet(message.accountKeys) \subseteq Key
       /\ IsInjective(message.accountKeys)
       /\ message.numWritableSigners \in 1 .. message.numSigners
       /\ message.numSigners + message.numWritableNonSigners
            \in 1 .. Len(message.accountKeys)
  /\ \A meta \in ToSet(accounts) : meta.address \in Key /\ meta.role \in Role

\* A stored message means what was proposed: every instruction names its own
\* program and accounts, in order, each with at least the role it asks for, and
\* the vault comes first.
MessageMeansItsInstructions ==
  Stored =>
    /\ message.accountKeys[1] = Vault
    /\ Len(message.instructions) = Len(proposed)
    /\ \A i \in DOMAIN proposed :
         LET ix == message.instructions[i]
             asked == proposed[i].accounts
         IN  /\ message.accountKeys[ix.programIdIndex] = proposed[i].program
             /\ Len(ix.accountIndexes) = Len(asked)
             /\ \A j \in DOMAIN asked :
                  /\ message.accountKeys[ix.accountIndexes[j]] = asked[j].address
                  /\ Grants(HeaderRole(message, ix.accountIndexes[j]), asked[j].role)

\* No key is given a privilege nobody asked for: it signs or is written only if
\* some instruction says so, or it is the vault that pays.
NoUndueRole ==
  Stored =>
    \A i \in DOMAIN message.accountKeys :
      HeaderRole(message, i) = RoleOf(Vault, proposed, message.accountKeys[i])

\* The accounts an execution passes are the ones the program wants, whoever
\* stored the message, and whether it is run at once or read back later.
ProgramTakesTheAccounts ==
  accounts # <<>> => ProgramTakes(message, accounts, tables)

\* A message that propose accepts never needs a signature the executing member
\* cannot give: the vault is its only signer, so nothing else has to sign.
OnlyTheVaultSigns ==
  Stored /\ byClient =>
    message.numSigners = 1 /\ \A meta \in ToSet(accounts) : ~meta.role.signer
=============================================================================
