-------------------------- MODULE AccountIdentity --------------------------
(***************************************************************************)
(* Which multisig an account object stands for.  A configuration names it  *)
(* by its address, by the create key the address derives from, or by the   *)
(* secret of that key, and the address depends on the program as well.     *)
(* The object resolves the name once, when it is constructed; deploy,      *)
(* toReadOnlyAccount and the quotes under a config override resolve it     *)
(* again, each in its own way.                                             *)
(***************************************************************************)
EXTENDS FiniteSets

CONSTANTS
  Program,         \* Squads programs: the default one, forks, local deployments
  DefaultProgram,  \* SQUADS_PROGRAM_ADDRESS, the default
  CreateKey,       \* create keys; a secret is identified with its key
  Absent           \* a field the configuration leaves out

\* The multisig address a create key derives under a program: it is off the
\* curve and a create key is on it, so the two never look alike.
Pda == [program : Program, key : CreateKey]
Address == CreateKey \cup Pda

ASSUME ProgramAssumption == DefaultProgram \in Program
ASSUME AbsentAssumption == Absent \notin Program \cup Address
ASSUME CurveAssumption == CreateKey \cap Pda = {}

Configuration ==
  [programId : Program \cup {Absent}, multisigPdaOrCreateKey : Address \cup {Absent},
   createKeySecret : CreateKey \cup {Absent}]

VARIABLES
  account,    \* the account object in use
  original,   \* history: the signing account it is, or is a read-only copy of
  deployed,   \* the multisigs on the chain
  created,    \* history: the multisigs the account's deploy created
  quoted      \* history: the overrides quoted under, with the multisig read

vars == <<account, original, deployed, created, quoted>>

Or(field, otherwise) == IF field = Absent THEN otherwise ELSE field

(***************************************************************************)
(* Construction.                                                           *)
(***************************************************************************)
\* Mutant: a create key is taken for the address.
AsGiven(program, identity) == identity

ToMultisigPda(program, identity) ==
  IF identity \in CreateKey THEN [program |-> program, key |-> identity] ELSE identity

Constructed(config, signs) ==
  LET program == Or(config.programId, DefaultProgram)
      identity == Or(config.multisigPdaOrCreateKey, config.createKeySecret)
  IN  [config |-> config, programId |-> program, signs |-> signs,
       address |-> ToMultisigPda(program, identity)]

(***************************************************************************)
(* A config override, merged over the account's configuration.  An account *)
(* whose name it does not change keeps the name it has, or its address.    *)
(***************************************************************************)
\* Mutant: merged the other way round.
Underridden(config, override) ==
  [field \in DOMAIN config |-> Or(config[field], override[field])]

Overridden(config, override) ==
  [field \in DOMAIN config |-> Or(override[field], config[field])]

Pinned(a, override) ==
  IF override.multisigPdaOrCreateKey # Absent THEN a.config
  ELSE [a.config EXCEPT !.multisigPdaOrCreateKey = Or(@, a.address)]

WithConfig(a, override) == Constructed(Overridden(Pinned(a, override), override), FALSE)

\* getAddress throws on an account that names no multisig.
Quotable(a, override) ==
  override.multisigPdaOrCreateKey # Absent \/ a.address # Absent

(***************************************************************************)
(* The steps.                                                              *)
(***************************************************************************)
Init ==
  /\ \E config \in Configuration : account = Constructed(config, TRUE)
  /\ original = account
  /\ deployed = {} /\ created = {} /\ quoted = {}

\* isDeployed: the account at the address belongs to this account's program.
IsDeployed(a) == a.address \in deployed /\ a.address.program = a.programId

\* The address the createKeySecret derives.
ExpectedPda(a) == ToMultisigPda(a.programId, a.config.createKeySecret)

\* Mutant: the configured multisig may be another one.
MayDeployBeside(a) == a.signs /\ a.config.createKeySecret # Absent /\ ~IsDeployed(a)

MayDeploy(a) ==
  /\ a.signs
  /\ a.config.createKeySecret # Absent
  /\ a.address \in {Absent, ExpectedPda(a)}
  /\ ~IsDeployed(a)

Deploy ==
  /\ MayDeploy(account)
  /\ deployed' = deployed \cup {ExpectedPda(account)}
  /\ created' = created \cup {ExpectedPda(account)}
  /\ UNCHANGED <<account, original, quoted>>

\* Someone else deploys a multisig.
ForeignDeploy ==
  \E pda \in Pda \ deployed :
    /\ deployed' = deployed \cup {pda}
    /\ UNCHANGED <<account, original, created, quoted>>

\* Mutant: the copy does not name the address.
SecretlessConfig(a) == [a.config EXCEPT !.createKeySecret = Absent]

\* The copy carries the address and no secret; getAddress throws without one.
CopiedConfig(a) ==
  [a.config EXCEPT !.createKeySecret = Absent, !.multisigPdaOrCreateKey = a.address]

ToReadOnlyAccount ==
  /\ account.signs
  /\ account.address # Absent
  /\ account' = Constructed(CopiedConfig(account), FALSE)
  /\ UNCHANGED <<original, deployed, created, quoted>>

\* quotePropose or quoteTransfer under an override: it throws unless the account
\* it reads exists and is a multisig of the program.
Quote ==
  \E override \in Configuration :
    /\ Quotable(account, override)
    /\ LET target == WithConfig(account, override) IN
         /\ IsDeployed(target)
         /\ quoted' = {[override |-> override, multisig |-> target.address]}
    /\ UNCHANGED <<account, original, deployed, created>>

Next == Deploy \/ ForeignDeploy \/ ToReadOnlyAccount \/ Quote

Spec == Init /\ [][Next]_vars

(***************************************************************************)
(* Properties.                                                             *)
(***************************************************************************)

\* The values the variables take: a resolved name is a multisig address.
TypeOK ==
  /\ account.config \in Configuration /\ account.programId \in Program
  /\ account.address \in Pda \cup {Absent}
  /\ deployed \subseteq Pda /\ created \subseteq deployed

\* deploy creates the multisig the account goes on to use, and none beside it:
\* two names in one configuration are never resolved to different multisigs.
DeployCreatesItsOwn == created \subseteq {original.address}

\* A read-only copy, which has lost the secret, stands for the same multisig of
\* the same program.
CopyStandsForTheSame ==
  account.address = original.address /\ account.programId = original.programId

\* A quote under an override that names a multisig reads that one, under the
\* program the override or the account names; a quote under an override that
\* names neither multisig, secret nor program reads the account's own, also on
\* a read-only copy.
QuoteReadsTheNamed ==
  \A q \in quoted :
    LET name == q.override.multisigPdaOrCreateKey
        program == Or(q.override.programId, account.programId)
    IN  /\ name # Absent => q.multisig = ToMultisigPda(program, name)
        /\ q.override = [field \in DOMAIN q.override |-> Absent]
             => q.multisig = original.address

\* What the comment on quotePropose says: the override is merged over the
\* account's configuration.  An account that only knows a createKeySecret keeps
\* its address under an override of that secret, or of the program it derives
\* from, and is quoted (or refused) for the old multisig.
OverrideIsMerged ==
  \A q \in quoted :
    q.multisig = Constructed(Overridden(account.config, q.override), FALSE).address
=============================================================================
