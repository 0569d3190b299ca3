----------------------- MODULE AccountIdentityProofs -----------------------
(***************************************************************************)
(* Proofs about AccountIdentity, for any programs, create keys and         *)
(* configurations.                                                         *)
(***************************************************************************)
EXTENDS AccountIdentity, TLAPS

\* What an account is constructed from is what it holds; its address is a
\* multisig address, and is missing only if the configuration names nothing.
LEMMA ConstructedAccount ==
  ASSUME NEW config \in Configuration, NEW signs
  PROVE  /\ Constructed(config, signs).config = config
         /\ Constructed(config, signs).signs = signs
         /\ Constructed(config, signs).programId = Or(config.programId, DefaultProgram)
         /\ Constructed(config, signs).programId \in Program
         /\ Constructed(config, signs).address
              = ToMultisigPda(Or(config.programId, DefaultProgram),
                              Or(config.multisigPdaOrCreateKey, config.createKeySecret))
         /\ Constructed(config, signs).address \in Pda \cup {Absent}
         /\ config.createKeySecret # Absent => Constructed(config, signs).address # Absent
<1> DEFINE program == Or(config.programId, DefaultProgram)
           identity == Or(config.multisigPdaOrCreateKey, config.createKeySecret)
<1>1. program \in Program
  BY ProgramAssumption DEF Or, Configuration
<1>2. identity \in Address \cup {Absent}
  BY DEF Or, Configuration, Address
<1>3. config.createKeySecret # Absent => identity # Absent
  BY DEF Or
<1> HIDE DEF program, identity
<1>4. ToMultisigPda(program, identity) \in Pda \cup {Absent}
  BY <1>1, <1>2 DEF ToMultisigPda, Pda, Address
<1>5. identity # Absent => ToMultisigPda(program, identity) # Absent
  BY <1>1, <1>2, AbsentAssumption DEF ToMultisigPda, Pda, Address
<1> QED
  BY <1>1, <1>3, <1>4, <1>5 DEF Constructed, program, identity

\* An address is already resolved.
LEMMA AddressStays ==
  ASSUME NEW pda \in Pda, NEW program
  PROVE  ToMultisigPda(program, pda) = pda
BY CurveAssumption DEF ToMultisigPda

\* A read-only copy is constructed from a configuration, and has the address and
\* the program of the account it was made from.
LEMMA CopySame ==
  ASSUME NEW config \in Configuration, NEW a, a = Constructed(config, TRUE),
         a.address # Absent
  PROVE  /\ CopiedConfig(a) \in Configuration
         /\ Constructed(CopiedConfig(a), FALSE).address = a.address
         /\ Constructed(CopiedConfig(a), FALSE).programId = a.programId
<1> DEFINE copy == CopiedConfig(a)
<1>1. /\ a.config = config /\ a.address \in Pda
      /\ a.programId = Or(config.programId, DefaultProgram)
  BY ConstructedAccount
<1>2. /\ copy \in Configuration
      /\ copy.programId = config.programId
      /\ copy.multisigPdaOrCreateKey = a.address
  BY <1>1 DEF CopiedConfig, Configuration, Address
<1> HIDE DEF copy
<1>3. Or(copy.multisigPdaOrCreateKey, copy.createKeySecret) = a.address
  BY <1>1, <1>2 DEF Or
<1>4. /\ Constructed(copy, FALSE).address
           = ToMultisigPda(Or(copy.programId, DefaultProgram), a.address)
      /\ Constructed(copy, FALSE).programId = Or(copy.programId, DefaultProgram)
  <2>1. copy \in Configuration
    BY <1>2
  <2>2. /\ Constructed(copy, FALSE).address
             = ToMultisigPda(Or(copy.programId, DefaultProgram),
                             Or(copy.multisigPdaOrCreateKey, copy.createKeySecret))
        /\ Constructed(copy, FALSE).programId = Or(copy.programId, DefaultProgram)
    BY <2>1, ConstructedAccount, Zenon
  <2> QED
    BY <2>2, <1>3
<1>5. Constructed(copy, FALSE).address = a.address
  BY <1>1, <1>4, AddressStays
<1>6. Constructed(copy, FALSE).programId = a.programId
  BY <1>1, <1>2, <1>4
<1> QED
  BY <1>2, <1>5, <1>6 DEF copy

\* The account an override yields: a configuration in its own right, with the
\* multisig and the program the override names where it names them.
LEMMA OverrideTarget ==
  ASSUME NEW config \in Configuration, NEW signs, NEW override \in Configuration,
         NEW a, a = Constructed(config, signs), Quotable(a, override)
  PROVE  LET name == override.multisigPdaOrCreateKey
             program == Or(override.programId, a.programId)
             target == WithConfig(a, override)
         IN  /\ target.address \in Pda \cup {Absent}
             /\ name # Absent => target.address = ToMultisigPda(program, name)
             /\ override = [field \in DOMAIN override |-> Absent]
                  => target.address = a.address
<1> DEFINE name == override.multisigPdaOrCreateKey
           pinned == Pinned(a, override)
           merged == Overridden(pinned, override)
<1>1. /\ a.config = config /\ a.address \in Pda \cup {Absent}
      /\ a.programId = Or(config.programId, DefaultProgram)
      /\ a.address = ToMultisigPda(a.programId,
                       Or(config.multisigPdaOrCreateKey, config.createKeySecret))
  BY ConstructedAccount
<1>2. /\ pinned \in Configuration
      /\ pinned.programId = config.programId
      /\ name = Absent =>
           pinned.multisigPdaOrCreateKey = Or(config.multisigPdaOrCreateKey, a.address)
  BY <1>1 DEF Pinned, Configuration, Or, Address
<1> HIDE DEF pinned
<1>3. /\ merged \in Configuration
      /\ merged.programId = Or(override.programId, pinned.programId)
      /\ merged.multisigPdaOrCreateKey = Or(name, pinned.multisigPdaOrCreateKey)
  BY <1>2 DEF Overridden, Configuration, Or
<1>4. WithConfig(a, override) = Constructed(merged, FALSE)
  BY DEF WithConfig, pinned
<1> HIDE DEF merged
<1>5. Or(merged.programId, DefaultProgram) = Or(override.programId, a.programId)
  BY <1>1, <1>2, <1>3 DEF Or
<1>6. /\ WithConfig(a, override).address \in Pda \cup {Absent}
      /\ WithConfig(a, override).address
           = ToMultisigPda(Or(override.programId, a.programId),
                           Or(merged.multisigPdaOrCreateKey, merged.createKeySecret))
  <2>1. merged \in Configuration
    BY <1>3
  <2>2. /\ Constructed(merged, FALSE).address \in Pda \cup {Absent}
        /\ Constructed(merged, FALSE).address
             = ToMultisigPda(Or(merged.programId, DefaultProgram),
                             Or(merged.multisigPdaOrCreateKey, merged.createKeySecret))
    BY <2>1, ConstructedAccount, Zenon
  <2> QED
    BY <2>2, <1>4, <1>5
<1>7. ASSUME name # Absent
      PROVE  WithConfig(a, override).address
               = ToMultisigPda(Or(override.programId, a.programId), name)
  BY <1>3, <1>6, <1>7 DEF Or
<1>8. ASSUME override = [field \in DOMAIN override |-> Absent]
      PROVE  WithConfig(a, override).address = a.address
  <2>1. name = Absent /\ override.programId = Absent
    BY <1>8 DEF Configuration
  <2>2. a.address \in Pda
    BY <1>1, <2>1 DEF Quotable
  <2>3. /\ Or(override.programId, a.programId) = a.programId
        /\ merged.multisigPdaOrCreateKey = Or(config.multisigPdaOrCreateKey, a.address)
    BY <1>2, <1>3, <2>1 DEF Or
  <2>4. CASE config.multisigPdaOrCreateKey = Absent
    <3>1. Or(merged.multisigPdaOrCreateKey, merged.createKeySecret) = a.address
      BY <2>2, <2>3, <2>4, AbsentAssumption DEF Or, Address
    <3> QED
      BY <1>6, <2>2, <2>3, <3>1, AddressStays
  <2>5. CASE config.multisigPdaOrCreateKey # Absent
    <3>1. /\ Or(merged.multisigPdaOrCreateKey, merged.createKeySecret)
               = config.multisigPdaOrCreateKey
          /\ Or(config.multisigPdaOrCreateKey, config.createKeySecret)
               = config.multisigPdaOrCreateKey
      BY <2>3, <2>5 DEF Or
    <3> QED
      BY <1>1, <1>6, <2>3, <3>1
  <2> QED
    BY <2>4, <2>5
<1> QED
  BY <1>6, <1>7, <1>8

(***************************************************************************)
(* The invariant.                                                          *)
(***************************************************************************)

\* The account is what its configuration constructs, and is the signing account
\* itself or a copy of it.
Resolved ==
  /\ \E config \in Configuration, signs \in BOOLEAN : account = Constructed(config, signs)
  /\ \E config \in Configuration : original = Constructed(config, TRUE)
  /\ account.signs => account = original

IInv == TypeOK /\ Resolved /\ CopyStandsForTheSame /\ DeployCreatesItsOwn /\ QuoteReadsTheNamed

\* The account as constructed stands for itself and has created nothing.
LEMMA InitInvariant == Init => IInv
<1> SUFFICES ASSUME Init PROVE IInv
  OBVIOUS
<1>1. PICK config \in Configuration : account = Constructed(config, TRUE)
  BY DEF Init
<1>2. /\ account.config = config /\ account.programId \in Program
      /\ account.address \in Pda \cup {Absent}
  BY <1>1, ConstructedAccount
<1>3. original = account /\ deployed = {} /\ created = {} /\ quoted = {}
  BY DEF Init
<1>4. TypeOK
  BY <1>2, <1>3 DEF TypeOK
<1>5. Resolved
  BY <1>1, <1>3 DEF Resolved
<1> QED
  BY <1>3, <1>4, <1>5
    DEF IInv, CopyStandsForTheSame, DeployCreatesItsOwn, QuoteReadsTheNamed

\* Every step keeps the invariant: deploy because its guard compares the two
\* names, the copy because it carries the address, a quote because an override
\* that names nothing is pinned.
LEMMA NextInvariant == IInv /\ [Next]_vars => IInv'
<1> SUFFICES ASSUME IInv, [Next]_vars PROVE IInv'
  OBVIOUS
<1>1. /\ TypeOK /\ Resolved /\ CopyStandsForTheSame
      /\ DeployCreatesItsOwn /\ QuoteReadsTheNamed
  BY DEF IInv
<1>2. CASE Deploy
  <2>1. /\ UNCHANGED <<account, original, quoted>>
        /\ MayDeploy(account)
        /\ deployed' = deployed \cup {ExpectedPda(account)}
        /\ created' = created \cup {ExpectedPda(account)}
    BY <1>2 DEF Deploy
  <2>2. PICK config \in Configuration : original = Constructed(config, TRUE)
    BY <1>1 DEF Resolved
  <2>3. account = original
    BY <1>1, <2>1 DEF Resolved, MayDeploy
  <2>4. /\ account.config = config
        /\ config.createKeySecret # Absent => account.address # Absent
        /\ account.address \in Pda \cup {Absent}
    BY <2>2, <2>3, ConstructedAccount
  <2>5. /\ account.config.createKeySecret # Absent
        /\ account.address \in {Absent, ExpectedPda(account)}
    BY <2>1 DEF MayDeploy
  <2>6. ExpectedPda(account) = original.address /\ ExpectedPda(account) \in Pda
    BY <2>3, <2>4, <2>5
  <2>7. TypeOK'
    BY <1>1, <2>1, <2>6 DEF TypeOK
  <2>8. DeployCreatesItsOwn'
    BY <1>1, <2>1, <2>6 DEF DeployCreatesItsOwn
  <2> QED
    BY <1>1, <2>1, <2>7, <2>8
      DEF IInv, Resolved, CopyStandsForTheSame, QuoteReadsTheNamed
<1>3. CASE ForeignDeploy
  <2>1. PICK pda \in Pda : /\ deployed' = deployed \cup {pda}
                           /\ UNCHANGED <<account, original, created, quoted>>
    BY <1>3 DEF ForeignDeploy
  <2> QED
    BY <1>1, <2>1 DEF IInv, TypeOK, Resolved, CopyStandsForTheSame,
                      DeployCreatesItsOwn, QuoteReadsTheNamed
<1>4. CASE ToReadOnlyAccount
  <2>1. /\ account.signs /\ account.address # Absent
        /\ account' = Constructed(CopiedConfig(account), FALSE)
        /\ UNCHANGED <<original, deployed, created, quoted>>
    BY <1>4 DEF ToReadOnlyAccount
  <2>2. PICK config \in Configuration : original = Constructed(config, TRUE)
    BY <1>1 DEF Resolved
  <2>3. account = original
    BY <1>1, <2>1 DEF Resolved
  <2>4. /\ CopiedConfig(account) \in Configuration
        /\ account'.address = account.address
        /\ account'.programId = account.programId
    BY <2>1, <2>2, <2>3, CopySame
  <2>5. account'.config = CopiedConfig(account) /\ account'.signs = FALSE
    BY <2>1, <2>4, ConstructedAccount
  <2>6. TypeOK'
    BY <1>1, <2>1, <2>4, <2>5 DEF TypeOK
  <2>7. Resolved'
    BY <2>1, <2>2, <2>4, <2>5 DEF Resolved
  <2>8. CopyStandsForTheSame' /\ DeployCreatesItsOwn'
    BY <1>1, <2>1, <2>4 DEF CopyStandsForTheSame, DeployCreatesItsOwn
  <2>9. QuoteReadsTheNamed'
    BY <1>1, <2>1, <2>4 DEF QuoteReadsTheNamed
  <2> QED
    BY <2>6, <2>7, <2>8, <2>9 DEF IInv
<1>5. CASE Quote
  <2>1. PICK override \in Configuration :
          /\ Quotable(account, override)
          /\ quoted' = {[override |-> override,
                         multisig |-> WithConfig(account, override).address]}
          /\ UNCHANGED <<account, original, deployed, created>>
    BY <1>5 DEF Quote
  <2>2. PICK config \in Configuration, signs \in BOOLEAN :
          account = Constructed(config, signs)
    BY <1>1 DEF Resolved
  <2>3. /\ override.multisigPdaOrCreateKey # Absent =>
             WithConfig(account, override).address
               = ToMultisigPda(Or(override.programId, account.programId),
                               override.multisigPdaOrCreateKey)
        /\ override = [field \in DOMAIN override |-> Absent] =>
             WithConfig(account, override).address = account.address
    BY <2>1, <2>2, OverrideTarget
  <2>4. account.address = original.address
    BY <1>1 DEF CopyStandsForTheSame
  <2>5. QuoteReadsTheNamed'
    BY <2>1, <2>3, <2>4 DEF QuoteReadsTheNamed
  <2> QED
    BY <1>1, <2>1, <2>5
      DEF IInv, TypeOK, Resolved, CopyStandsForTheSame, DeployCreatesItsOwn
<1>6. CASE UNCHANGED vars
  BY <1>1, <1>6 DEF vars, IInv, TypeOK, Resolved, CopyStandsForTheSame,
                    DeployCreatesItsOwn, QuoteReadsTheNamed
<1> QED
  BY <1>2, <1>3, <1>4, <1>5, <1>6 DEF Next

\* An account object resolves to one multisig, however it is used.
THEOREM AccountInvariant == Spec => []IInv
BY InitInvariant, NextInvariant, PTL DEF Spec

\* deploy never creates a multisig beside the one the account operates on.
THEOREM DeployCreatesTheAccountsMultisig == Spec => []DeployCreatesItsOwn
BY AccountInvariant, PTL DEF IInv

\* A read-only copy stands for the multisig of the account it was made from.
THEOREM CopiesStandForTheSame == Spec => []CopyStandsForTheSame
BY AccountInvariant, PTL DEF IInv

\* A quote under an override reads the multisig the override names, or the
\* account's own when it names nothing.
THEOREM QuotesReadTheNamed == Spec => []QuoteReadsTheNamed
BY AccountInvariant, PTL DEF IInv

\* What an account object holds, and that it is resolved from its construction on.
THEOREM IdentityTypes == Spec => []TypeOK
BY AccountInvariant, PTL DEF IInv
=============================================================================
