----------------------- MODULE MultisigAccountProofs -----------------------
(***************************************************************************)
(* Proofs about MultisigAccount, for any set of addresses, any number of   *)
(* overlapping calls, any arguments and any bounds: what a call submits is *)
(* not doomed, what it refuses had to be refused, what it returns is true, *)
(* and the proposals live the life that ProposalLifecycle promises.        *)
(***************************************************************************)
EXTENDS MultisigLifecycle, SquadsProgramProofs

(***************************************************************************)
(* What a call submits and returns has its type.                           *)
(***************************************************************************)

\* The arguments of each call have the types the signatures state.
LEMMA CallArguments ==
  ASSUME NEW call \in Call
  PROVE  /\ call.op = "deploy" => /\ call.owners \in Seq(Address)
                                  /\ call.threshold \in Nat
         /\ call.op \in {"approveProposal", "rejectProposal", "executeProposal"} =>
              call.index \in Index
         /\ call.op = "addOwner" => /\ call.owner \in Address /\ call.mask \in Mask
                                    /\ call.threshold \in Nat \cup {Keep}
         /\ call.op = "removeOwner" => /\ call.owner \in Address
                                       /\ call.threshold \in Nat \cup {Keep}
         /\ call.op = "swapOwner" => /\ call.owner \in Address /\ call.newOwner \in Address
                                     /\ call.threshold \in Nat \cup {Keep}
         /\ call.op = "changeThreshold" => call.threshold \in Nat
         /\ call.op \in {"deploy", "propose", "approveProposal", "rejectProposal",
                         "executeProposal", "addOwner", "removeOwner", "swapOwner",
                         "changeThreshold"}
         /\ call.op \in {"propose", "approveProposal"} => call.autoExecute \in BOOLEAN
BY CallArgumentsAssumption
DEF Call, DeployCall, ProposeCall, ApproveCall, RejectCall, ExecuteCall, ConfigCall,
    AddCall, RemoveCall, SwapCall, ThresholdCall

\* Joining one member, in the terms of a change.
LEMMA JoinType ==
  ASSUME NEW owner \in Address, NEW mask \in Mask
  PROVE  /\ [NoChange.in EXCEPT ![owner] = mask] \in [Address -> Mask]
         /\ NoChange.in \in [Address -> Mask]
         /\ \A a \in Address : NoChange.in[a] = {}
         /\ \A a \in Address : [NoChange.in EXCEPT ![owner] = mask][a]
                                 = IF a = owner THEN mask ELSE {}
BY DEF NoChange, Mask

\* The key lemma of configuration changes: whatever addOwner, removeOwner,
\* swapOwner and changeThreshold accept on the members they read, the program
\* can apply to those members.  Its own checks are _requireViableMembers on the
\* resulting members, and the membership tests on the addresses involved.
THEOREM CheckedChangesApply ==
  ASSUME NEW c, WellFormed(c), NEW signer \in Address, NEW call \in Call,
         ConfigAllowed(c, signer, call)
  PROVE  /\ ChangeOf(c, call) \in Change
         /\ Applicable(c.masks, c.threshold, ChangeOf(c, call))
<1> DEFINE change == ChangeOf(c, call)
<1>0. c.masks \in [Address -> Mask] /\ c.threshold \in Nat
  BY DEF WellFormed, Chain
<1>1. CASE call.op = "addOwner"
  <2>1. /\ call.owner \in Address /\ call.mask \in Mask
        /\ call.threshold \in Nat \cup {Keep}
    BY <1>1, CallArguments
  <2>2. AddAllowed(c, call)
    BY <1>1 DEF ConfigAllowed
  <2>3. change = [out |-> {}, in |-> [NoChange.in EXCEPT ![call.owner] = call.mask],
                  threshold |-> call.threshold]
    BY <1>1 DEF ChangeOf
  <2>4. change \in Change
    BY <2>1, <2>3, JoinType DEF Change
  <2>5. Reconfigured(c.masks, change) = [c.masks EXCEPT ![call.owner] = call.mask]
    BY <1>0, <2>1, <2>2, <2>3, JoinType DEF Reconfigured, AddAllowed
  <2>6. NewThreshold(c.threshold, change) = InForce(c, call.threshold)
    BY <2>3 DEF NewThreshold, InForce
  <2>7. Viable(Reconfigured(c.masks, change), NewThreshold(c.threshold, change))
    BY <2>2, <2>5, <2>6 DEF AddAllowed, ViableMembers, ValidThreshold, Viable
  <2>8. Members(change.in) = {call.owner} /\ change.out = {}
    BY <2>1, <2>2, <2>3, JoinType DEF Members, AddAllowed
  <2> QED
    BY <2>2, <2>4, <2>7, <2>8 DEF Applicable, AddAllowed
<1>2. CASE call.op = "removeOwner"
  <2>1. call.owner \in Address /\ call.threshold \in Nat \cup {Keep}
    BY <1>2, CallArguments
  <2>2. RemoveAllowed(c, call)
    BY <1>2 DEF ConfigAllowed
  <2>3. change = [out |-> {call.owner}, in |-> NoChange.in, threshold |-> call.threshold]
    BY <1>2 DEF ChangeOf
  <2>4. /\ NoChange.in \in [Address -> Mask]
        /\ \A a \in Address : NoChange.in[a] = {}
    BY DEF NoChange, Mask
  <2>5. change \in Change
    BY <2>1, <2>3, <2>4 DEF Change
  <2>6. Reconfigured(c.masks, change) = [c.masks EXCEPT ![call.owner] = {}]
    <3>1. change.out = {call.owner} /\ \A x \in Address : change.in[x] = {}
      BY <2>3, <2>4
    <3> HIDE DEF change
    <3> QED
      BY <1>0, <2>1, <3>1 DEF Reconfigured
  <2>7. NewThreshold(c.threshold, change) = InForce(c, call.threshold)
    BY <2>3 DEF NewThreshold, InForce
  <2>8. Viable(Reconfigured(c.masks, change), NewThreshold(c.threshold, change))
    BY <2>2, <2>6, <2>7 DEF RemoveAllowed, ViableMembers, ValidThreshold, Viable
  <2>9. Members(change.in) = {} /\ change.out = {call.owner}
    BY <2>3, <2>4 DEF Members
  <2> QED
    BY <2>2, <2>5, <2>8, <2>9 DEF Applicable, RemoveAllowed
<1>3. CASE call.op = "swapOwner"
  <2>1. /\ call.owner \in Address /\ call.newOwner \in Address
        /\ call.threshold \in Nat \cup {Keep}
    BY <1>3, CallArguments
  <2>2. SwapAllowed(c, call)
    BY <1>3 DEF ConfigAllowed
  <2> DEFINE mask == c.masks[call.owner]
  <2>3. mask \in Mask /\ mask # {}
    BY <1>0, <2>1, <2>2 DEF SwapAllowed, Members
  <2>4. change = [out |-> {call.owner}, in |-> [NoChange.in EXCEPT ![call.newOwner] = mask],
                  threshold |-> call.threshold]
    BY <1>3 DEF ChangeOf
  <2>5. Viable([c.masks EXCEPT ![call.owner] = {}, ![call.newOwner] = mask],
               InForce(c, call.threshold))
    BY <2>2 DEF SwapAllowed, ViableMembers, ValidThreshold, Viable
  <2> HIDE DEF mask
  <2>6. change \in Change
    BY <2>1, <2>3, <2>4, JoinType DEF Change
  <2>7. Reconfigured(c.masks, change)
          = [c.masks EXCEPT ![call.owner] = {}, ![call.newOwner] = mask]
    <3>1. call.owner # call.newOwner
      BY <2>2 DEF SwapAllowed
    <3>2. \A x \in Address :
            change.in[x] = IF x = call.newOwner THEN mask ELSE {}
      BY <2>1, <2>3, <2>4, JoinType
    <3>3. change.out = {call.owner}
      BY <2>4
    <3> HIDE DEF change
    <3> QED
      BY <1>0, <2>1, <2>3, <3>1, <3>2, <3>3 DEF Reconfigured
  <2>8. NewThreshold(c.threshold, change) = InForce(c, call.threshold)
    BY <2>4 DEF NewThreshold, InForce
  <2>9. Members(change.in) = {call.newOwner} /\ change.out = {call.owner}
    BY <2>1, <2>3, <2>4, JoinType DEF Members
  <2> QED
    BY <2>2, <2>5, <2>6, <2>7, <2>8, <2>9 DEF Applicable, SwapAllowed
<1>4. CASE call.op = "changeThreshold"
  <2>1. call.threshold \in Nat
    BY <1>4, CallArguments
  <2>2. ThresholdAllowed(c, call)
    BY <1>4 DEF ConfigAllowed
  <2>3. change = [out |-> {}, in |-> NoChange.in, threshold |-> call.threshold]
    BY <1>4 DEF ChangeOf
  <2>4. /\ NoChange.in \in [Address -> Mask]
        /\ \A a \in Address : NoChange.in[a] = {}
    BY DEF NoChange, Mask
  <2>5. change \in Change
    BY <2>1, <2>3, <2>4 DEF Change
  <2>6. Reconfigured(c.masks, change) = c.masks
    BY <1>0, <2>3, <2>4 DEF Reconfigured
  <2>7. NewThreshold(c.threshold, change) = call.threshold
    BY <2>1, <2>3 DEF NewThreshold, Keep
  <2>8. Viable(Reconfigured(c.masks, change), NewThreshold(c.threshold, change))
    BY <2>2, <2>6, <2>7 DEF ThresholdAllowed, ViableMembers, ValidThreshold, Viable
  <2>9. Members(change.in) = {} /\ change.out = {}
    BY <2>3, <2>4 DEF Members
  <2> QED
    BY <2>5, <2>8, <2>9 DEF Applicable
<1> QED
  BY <1>1, <1>2, <1>3, <1>4 DEF ConfigAllowed

\* A blank transaction record is a transaction record.
LEMMA BareType ==
  ASSUME NEW op \in Op, NEW signer \in Address, NEW index \in Index
  PROVE  /\ Bare(op, signer, index) \in Transaction
         /\ Bare(op, signer, index).op = op /\ Bare(op, signer, index).signer = signer
         /\ Bare(op, signer, index).index = index /\ ~Bare(op, signer, index).run
         /\ Bare(op, signer, index).payload = VaultPayload
BY BlankTypes DEF Bare, Transaction, Change

\* The members multisigCreateV2 stores form a map of masks.
LEMMA OwnerMasksType ==
  ASSUME NEW owners \in Seq(Address)
  PROVE  OwnerMasks(owners) \in [Address -> Mask]
BY DEF OwnerMasks, Mask

\* What each call submits is a transaction.  The index a call proposes under
\* exists as long as the model has one.
LEMMA SubmissionType ==
  ASSUME NEW c, WellFormed(c), NEW t, NEW signer \in Address, NEW call \in Call,
         Allowed(c, t, signer, call),
         call.op \in {"propose", "addOwner", "removeOwner", "swapOwner", "changeThreshold"}
           => c.transactionIndex < MaxIndex
  PROVE  Submission(c, signer, call) \in Transaction
<1>1. 0 \in Index
  BY MaxIndexAssumption DEF Index
<1>2. c.transactionIndex < MaxIndex => NextIndex(c) \in Index
  BY MaxIndexAssumption DEF Index, NextIndex, WellFormed, Chain
<1>3. CASE call.op = "deploy"
  <2>1. OwnerMasks(call.owners) \in [Address -> Mask] /\ call.threshold \in Nat
    BY <1>3, CallArguments, OwnerMasksType
  <2> DEFINE bare == Bare("deploy", signer, 0)
             masks == OwnerMasks(call.owners)
  <2>2. Submission(c, signer, call)
          = [bare EXCEPT !.masks = masks, !.threshold = call.threshold]
    BY <1>3 DEF Submission
  <2>3. bare \in Transaction
    BY <1>1, BareType DEF Op
  <2> HIDE DEF bare, masks
  <2>4. masks \in [Address -> Mask]
    BY <2>1 DEF masks
  <2> QED
    BY <2>1, <2>2, <2>3, <2>4 DEF Transaction
<1>4. CASE call.op = "propose"
  <2> DEFINE bare == Bare("create", signer, NextIndex(c))
             run == ProposeExecutes(c, signer, call)
  <2>1. run \in BOOLEAN
    BY DEF ProposeExecutes
  <2>2. Submission(c, signer, call) = [bare EXCEPT !.run = run]
    BY <1>4 DEF Submission
  <2>3. bare \in Transaction
    BY <1>2, <1>4, BareType DEF Op
  <2> HIDE DEF bare, run
  <2> QED
    BY <2>1, <2>2, <2>3 DEF Transaction
<1>5. CASE call.op = "approveProposal"
  <2> DEFINE bare == Bare("approve", signer, call.index)
             run == ApproveExecutes(c, signer, call)
  <2>1. run \in BOOLEAN
    BY DEF ApproveExecutes
  <2>2. Submission(c, signer, call) = [bare EXCEPT !.run = run]
    BY <1>5 DEF Submission
  <2>3. bare \in Transaction
    BY <1>5, CallArguments, BareType DEF Op
  <2> HIDE DEF bare, run
  <2> QED
    BY <2>1, <2>2, <2>3 DEF Transaction
<1>6. CASE call.op = "rejectProposal"
  BY <1>6, CallArguments, BareType DEF Submission, Op
<1>7. CASE call.op = "executeProposal"
  BY <1>7, CallArguments, BareType DEF Submission, Op
<1>8. CASE call.op \in {"addOwner", "removeOwner", "swapOwner", "changeThreshold"}
  <2>1. ConfigAllowed(c, signer, call)
    BY <1>8 DEF Allowed
  <2>2. ConfigPayload(ChangeOf(c, call)) \in Payload
    BY <2>1, CheckedChangesApply DEF ConfigPayload, Payload, Kind
  <2> DEFINE bare == Bare("create", signer, NextIndex(c))
             payload == ConfigPayload(ChangeOf(c, call))
  <2>3. Submission(c, signer, call) = [bare EXCEPT !.payload = payload]
    BY <1>8 DEF Submission
  <2>4. bare \in Transaction
    BY <1>2, <1>8, BareType DEF Op
  <2> HIDE DEF bare, payload
  <2>5. payload \in Payload
    BY <2>2 DEF payload
  <2> QED
    BY <2>3, <2>4, <2>5 DEF Transaction
<1> QED
  BY <1>3, <1>4, <1>5, <1>6, <1>7, <1>8, CallArguments

\* What each call returns is a result: no count it reports is negative.
LEMMA ResultType ==
  ASSUME NEW c, WellFormed(c), NEW signer \in Address, NEW call \in Call
  PROVE  ResultOf(c, signer, call) \in Result
<1>1. c.threshold \in Nat /\ NextIndex(c) \in Nat
  BY DEF WellFormed, Chain, NextIndex
<1>2. \A index \in Nat, confirmations \in Nat, executes \in BOOLEAN :
        Report(c, index, confirmations, executes) \in Result
  BY <1>1 DEF Report, Result
<1>3. HashOnly \in Result
  BY DEF HashOnly, Result
<1>4. Index \subseteq Nat
  BY MaxIndexAssumption DEF Index
<1>5. \A i \in Index : c.props[i].approved \in SUBSET Address
  BY DEF WellFormed, Chain, Proposal
<1>6. CASE call.op = "propose"
  <2>1. ProposeExecutes(c, signer, call) \in BOOLEAN
    BY DEF ProposeExecutes
  <2>2. ResultOf(c, signer, call)
          = Report(c, NextIndex(c), IF ProposeExecutes(c, signer, call) THEN 1 ELSE 0,
                   ProposeExecutes(c, signer, call))
    BY <1>6 DEF ResultOf
  <2> QED
    BY <1>1, <1>2, <2>1, <2>2
<1>7. CASE call.op = "approveProposal"
  <2>1. ApproveExecutes(c, signer, call) \in BOOLEAN
    BY DEF ApproveExecutes
  <2>2. call.index \in Index
    BY <1>7, CallArguments
  <2>3. Cardinality(c.props[call.index].approved) + 1 \in Nat
    BY <1>5, <2>2, AddressSetsFinite
  <2>4. ResultOf(c, signer, call)
          = Report(c, call.index, Cardinality(c.props[call.index].approved) + 1,
                   ApproveExecutes(c, signer, call))
    BY <1>7 DEF ResultOf, AfterApproval
  <2> QED
    BY <1>2, <1>4, <2>1, <2>2, <2>3, <2>4
<1>8. CASE call.op = "rejectProposal"
  <2> DEFINE ayes == c.props[call.index].approved
             n == Cardinality(ayes) - (IF signer \in ayes THEN 1 ELSE 0)
  <2>1. call.index \in Index
    BY <1>8, CallArguments
  <2>2. IsFiniteSet(ayes) /\ Cardinality(ayes) \in Nat
    BY <1>5, <2>1, AddressSetsFinite
  <2>3. signer \in ayes => Cardinality(ayes) # 0
    BY <2>2, FS_EmptySet
  <2>4. n \in Nat
    BY <2>2, <2>3
  <2>5. ResultOf(c, signer, call) = Report(c, call.index, n, FALSE)
    BY <1>8 DEF ResultOf, AfterRejection
  <2> HIDE DEF n
  <2> QED
    BY <1>2, <1>4, <2>1, <2>4, <2>5
<1>9. CASE call.op \in {"deploy", "executeProposal"}
  BY <1>3, <1>9 DEF ResultOf
<1>10. CASE call.op \in {"addOwner", "removeOwner", "swapOwner", "changeThreshold"}
  <2>1. ResultOf(c, signer, call) = Report(c, NextIndex(c), 0, FALSE)
    BY <1>10 DEF ResultOf
  <2> QED
    BY <1>1, <1>2, <2>1
<1> QED
  BY <1>6, <1>7, <1>8, <1>9, <1>10, CallArguments

(***************************************************************************)
(* Type correctness.                                                       *)
(***************************************************************************)

\* What rent reclaim leaves at an index: a proposal without a transaction, with the
\* status and the votes it had, or no proposal at all.
LEMMA RemainsType ==
  ASSUME NEW p \in Proposal, NEW q \in Remains(p)
  PROVE  /\ q \in Proposal /\ q.payload = p.payload /\ ~q.open
         /\ \/ q.status = p.status /\ q.approved = p.approved /\ q.rejected = p.rejected
            \/ q.status = "none" /\ q.approved = {} /\ q.rejected = {}
<1>1. CASE q = [p EXCEPT !.open = FALSE]
  BY <1>1 DEF Proposal
<1>2. CASE q = [NoProposal EXCEPT !.payload = p.payload]
  <2>1. p.payload \in Payload
    BY DEF Proposal
  <2> QED
    BY <1>2, <2>1, BlankTypes DEF Proposal, Status, NoProposal
<1> QED
  BY <1>1, <1>2 DEF Remains

\* What others do evolves the accounts as well, and refreshes the calls under
\* way; only the clock moves without touching either.
LEMMA EnvironmentEvolves ==
  ASSUME WellFormed(chain), now \in Nat, Environment, ~Tick
  PROVE  /\ Evolves(chain, chain')
         /\ flight' = Refreshed(chain, chain')
         /\ UNCHANGED <<now, vetted>>
<1>1. chain \in Chain /\ 1 .. chain.transactionIndex \subseteq Index
  BY MaxIndexAssumption DEF WellFormed, Chain, Index
<1>2. \A i \in Index : chain.props[i] \in Proposal
  BY <1>1 DEF Chain
<1>3. CASE ForeignCreate
  <2>1. PICK signer \in Address, payload \in ForeignPayload, index \in Index :
          /\ CanCreate(chain, signer, index, payload)
          /\ \E status \in {"active", "none"} :
               Interfere(Update(Created(chain, index, payload), index,
                                [Opened(payload) EXCEPT !.status = status]))
    BY <1>3 DEF ForeignCreate
  <2>2. PICK status \in {"active", "none"} :
          Interfere(Update(Created(chain, index, payload), index,
                           [Opened(payload) EXCEPT !.status = status]))
    BY <2>1
  <2> DEFINE created == Created(chain, index, payload)
             q == [Opened(payload) EXCEPT !.status = status]
  <2>3. payload \in Payload
    BY ForeignPayloadAssumption
  <2>4. Evolves(chain, created)
    BY <2>1, <2>3, CreatedEvolves
  <2>5. q \in Proposal /\ q.payload = payload
    BY <2>3, OpenedType DEF Proposal, Status
  <2>6. /\ created.props[index] = Opened(payload)
        /\ created.transactionIndex = index
        /\ index \in 1 .. index
    <3>1. index = chain.transactionIndex + 1 /\ chain.transactionIndex \in Nat
      BY <1>1, <2>1 DEF CanCreate, Chain
    <3>2. index \in 1 .. index
      BY <3>1
    <3> QED
      BY <1>1, <2>3, <3>2, CreatedFields, CreatedProposals
  <2>7. created.props[index].payload = payload
    BY <2>3, <2>6, OpenedType
  <2> HIDE DEF created, q
  <2>8. WellFormed(created)
    BY <2>4 DEF Evolves
  <2>9. Evolves(created, Update(created, index, q))
    BY <2>5, <2>6, <2>7, <2>8, UpdateEvolves
  <2>10. Interfere(Update(created, index, q))
    BY <2>2 DEF created, q
  <2> QED
    BY <2>4, <2>9, <2>10, EvolvesTransitive DEF Interfere
<1>4. CASE ForeignOpen
  <2>1. PICK index \in Index :
          /\ index \in 1 .. chain.transactionIndex
          /\ Interfere(Update(chain, index, [chain.props[index] EXCEPT !.status = "active"]))
    BY <1>4 DEF ForeignOpen
  <2> DEFINE p == chain.props[index]
             q == [p EXCEPT !.status = "active"]
  <2>2. q \in Proposal /\ q.payload = p.payload
    <3>1. p \in Proposal
      BY <1>2
    <3> HIDE DEF p
    <3> QED BY <3>1 DEF Proposal, Status
  <2> QED
    BY <2>1, <2>2, UpdateEvolves DEF Interfere
<1>5. CASE ForeignCancel
  <2>1. PICK index \in Index :
          /\ chain.props[index].status = "approved"
          /\ Interfere(Update(chain, index,
               [chain.props[index] EXCEPT !.status = "cancelled", !.since = 0]))
    BY <1>5 DEF ForeignCancel
  <2> DEFINE p == chain.props[index]
             q == [p EXCEPT !.status = "cancelled", !.since = 0]
  <2>2. q \in Proposal /\ q.payload = p.payload
    <3>1. p \in Proposal
      BY <1>2
    <3> HIDE DEF p
    <3> QED BY <3>1 DEF Proposal, Status
  <2>3. index \in 1 .. chain.transactionIndex
    BY <2>1 DEF WellFormed
  <2> QED
    BY <2>1, <2>2, <2>3, UpdateEvolves DEF Interfere
<1>6. CASE ForeignClose
  <2>1. PICK index \in 1 .. chain.transactionIndex :
          \E q \in Remains(chain.props[index]) : Interfere(Update(chain, index, q))
    BY <1>6 DEF ForeignClose
  <2>2. PICK q \in Remains(chain.props[index]) : Interfere(Update(chain, index, q))
    BY <2>1
  <2>3. index \in Index /\ chain.props[index] \in Proposal
    BY <1>1, <1>2, <2>1
  <2>4. q \in Proposal /\ q.payload = chain.props[index].payload
    BY <2>3, RemainsType
  <2> QED
    BY <2>1, <2>2, <2>3, <2>4, UpdateEvolves DEF Interfere
<1>7. CASE ForeignCloseTables
  <2> DEFINE d == WithoutTables(chain)
  <2>1. Interfere(d)
    BY <1>7 DEF ForeignCloseTables
  <2>2. /\ d \in Chain /\ d.created = chain.created
        /\ d.props = chain.props /\ d.masks = chain.masks
        /\ d.threshold = chain.threshold
        /\ d.transactionIndex = chain.transactionIndex
        /\ d.staleTransactionIndex = chain.staleTransactionIndex
    BY <1>1 DEF WithoutTables, Chain
  <2> HIDE DEF d
  <2>3. chain.transactionIndex <= d.transactionIndex
    BY <1>1, <2>2 DEF Chain
  <2> QED
    BY <2>1, <2>2, <2>3 DEF Interfere, Evolves, WellFormed
<1>8. CASE AuthorityReconfigures
  <2>1. PICK k \in Authority : chain.created /\ Interfere(Imposed(chain, k))
    BY <1>8 DEF AuthorityReconfigures
  <2> DEFINE d == Imposed(chain, k)
  <2>2. /\ k.masks \in [Address -> Mask] /\ k.threshold \in Nat /\ k.timeLock \in Nat
    BY AuthorityAssumption
  <2>3. /\ d \in Chain /\ d.created = chain.created
        /\ d.props = chain.props
        /\ d.transactionIndex = chain.transactionIndex
        /\ d.staleTransactionIndex = chain.transactionIndex
    BY <1>1, <2>2 DEF Imposed, Chain
  <2> HIDE DEF d
  <2>4. chain.transactionIndex \in Nat
    BY <1>1 DEF Chain
  <2>5. Interfere(d)
    BY <2>1 DEF d
  <2> QED
    BY <2>3, <2>4, <2>5 DEF Interfere, Evolves, WellFormed
<1>9. CASE ForeignExecute
  <2>1. PICK signer \in Address, index \in Index :
          CanExecute(chain, signer, index, now) /\ Interfere(Executed(chain, index))
    BY <1>9 DEF ForeignExecute
  <2> QED
    BY <2>1, ExecutedEvolves DEF Interfere
<1> QED
  BY <1>3, <1>4, <1>5, <1>6, <1>7, <1>8, <1>9 DEF Environment

\* Refreshing touches nothing of a call under way but its history flag.
LEMMA RefreshedFlight ==
  ASSUME \A s \in Busy : flight[s] \in Flight, NEW c, NEW d
  PROVE  /\ DOMAIN Refreshed(c, d) = Busy
         /\ \A s \in Busy :
              /\ Refreshed(c, d)[s] \in Flight
              /\ Refreshed(c, d)[s].tx = flight[s].tx
              /\ Refreshed(c, d)[s].result = flight[s].result
              /\ Refreshed(c, d)[s].fresh
                   => flight[s].fresh /\ ~Disturbs(c, d, flight[s].tx)
<1> SUFFICES ASSUME NEW s \in Busy
             PROVE  /\ Refreshed(c, d)[s] \in Flight
                    /\ Refreshed(c, d)[s].tx = flight[s].tx
                    /\ Refreshed(c, d)[s].result = flight[s].result
                    /\ Refreshed(c, d)[s].fresh
                         => flight[s].fresh /\ ~Disturbs(c, d, flight[s].tx)
  BY DEF Refreshed
<1> DEFINE f == flight[s]
           still == f.fresh /\ ~Disturbs(c, d, f.tx)
<1>1. Refreshed(c, d)[s] = [f EXCEPT !.fresh = still]
  BY DEF Refreshed
<1>2. f \in Flight
  OBVIOUS
<1>3. still \in BOOLEAN
  OBVIOUS
<1> HIDE DEF f, still
<1>4. /\ [f EXCEPT !.fresh = still] \in Flight
      /\ [f EXCEPT !.fresh = still].tx = f.tx
      /\ [f EXCEPT !.fresh = still].result = f.result
      /\ [f EXCEPT !.fresh = still].fresh = still
  BY <1>2, <1>3 DEF Flight
<1> QED
  BY <1>1, <1>4 DEF f, still

\* The types hold of the accounts a call may find.
LEMMA InitType == Init => TypeOK
<1> SUFFICES ASSUME Init PROVE TypeOK
  OBVIOUS
<1>1. WellFormed(chain)
  BY InitialChainAssumption DEF Init
<1>2. now \in 0 .. MaxTime
  BY MaxTimeAssumption DEF Init
<1>3. Busy = {}
  BY DEF Init, Busy
<1> QED
  BY <1>1, <1>2, <1>3 DEF Init, TypeOK

\* A call that submits becomes busy with a transaction and a result.
LEMMA SubmitType ==
  ASSUME TypeOK, NEW s \in Slot, Submit(s)
  PROVE  TypeOK'
<1>1. PICK signer \in Address, call \in Call :
        /\ Allowed(chain, now, signer, call)
        /\ Within(call)
        /\ flight' = [t \in Busy \cup {s} |->
             IF t = s THEN [tx |-> Submission(chain, signer, call),
                            result |-> ResultOf(chain, signer, call), fresh |-> TRUE]
             ELSE flight[t]]
  BY DEF Submit
<1>2. /\ Submission(chain, signer, call) \in Transaction
      /\ ResultOf(chain, signer, call) \in Result
  BY <1>1, SubmissionType, ResultType DEF TypeOK, Within
<1>3. /\ Busy' = Busy \cup {s}
      /\ \A t \in Busy' : flight'[t] \in Flight
  BY <1>1, <1>2 DEF Busy, Flight, TypeOK
<1> QED
  BY <1>3 DEF Submit, TypeOK

\* A transaction that lands evolves the accounts as the program does, refreshes
\* the calls under way and frees its slot; a checked config change is vetted.
LEMMA LandEvolves ==
  ASSUME TypeOK, NEW s \in Slot, Land(s)
  PROVE  /\ flight[s].tx \in Transaction
         /\ Accepts(chain, flight[s].tx, now)
         /\ chain' = Outcome(chain, flight[s].tx, now)
         /\ Evolves(chain, chain')
         /\ flight' = Without(s, Refreshed(chain, chain'))
         /\ now' = now
         /\ \A i \in vetted' \ vetted :
              /\ i = flight[s].tx.index
              /\ flight[s].tx.op = "create" /\ flight[s].fresh
              /\ flight[s].tx.payload.kind = "config"
         /\ vetted \subseteq vetted'
<1>1. flight[s].tx \in Transaction
  BY DEF Land, TypeOK, Flight
<1>2. now \in Nat
  BY MaxTimeAssumption DEF TypeOK
<1>3. /\ Accepts(chain, flight[s].tx, now)
      /\ chain' = Outcome(chain, flight[s].tx, now)
  BY DEF Land
<1>4. Evolves(chain, chain')
  BY <1>1, <1>2, <1>3, OutcomeEvolves DEF TypeOK
<1>5. /\ flight' = Without(s, Refreshed(chain, chain'))
      /\ now' = now
      /\ vetted' = IF /\ flight[s].tx.op = "create" /\ flight[s].tx.payload.kind = "config"
                      /\ flight[s].fresh
                   THEN vetted \cup {flight[s].tx.index} ELSE vetted
  BY DEF Land
<1> QED
  BY <1>1, <1>3, <1>4, <1>5

\* The types are preserved when a transaction lands.
LEMMA LandType ==
  ASSUME TypeOK, NEW s \in Slot, Land(s)
  PROVE  TypeOK'
<1> DEFINE tx == flight[s].tx
           later == Refreshed(chain, chain')
<1>1. /\ tx \in Transaction
      /\ Accepts(chain, tx, now)
      /\ chain' = Outcome(chain, tx, now)
      /\ Evolves(chain, chain')
      /\ flight' = Without(s, later)
      /\ now' = now
      /\ \A i \in vetted' \ vetted : i = tx.index /\ tx.op = "create"
  BY LandEvolves
<1>2. WellFormed(chain')
  BY <1>1 DEF Evolves
<1>3. DOMAIN later = Busy /\ \A t \in Busy : later[t] \in Flight
  BY RefreshedFlight DEF TypeOK
<1> HIDE DEF later
<1>4. Busy' \subseteq Busy /\ \A t \in Busy' : flight'[t] \in Flight
  BY <1>1, <1>3 DEF Without, Busy
<1>5. vetted' \subseteq 1 .. chain'.transactionIndex
  <2> SUFFICES ASSUME NEW i \in vetted' PROVE i \in 1 .. chain'.transactionIndex
    OBVIOUS
  <2>1. CASE i \in vetted
    <3>1. i \in 1 .. chain.transactionIndex
      BY <2>1 DEF TypeOK
    <3>2. chain.transactionIndex <= chain'.transactionIndex
      BY <1>1 DEF Evolves
    <3>3. chain.transactionIndex \in Nat /\ chain'.transactionIndex \in Nat
      BY <1>2 DEF TypeOK, WellFormed, Chain
    <3> QED BY ONLY <3>1, <3>2, <3>3
  <2>2. CASE i \notin vetted
    <3>1. now \in Nat
      BY MaxTimeAssumption DEF TypeOK
    <3> QED
      BY <1>1, <2>2, <3>1, OutcomeEvolves DEF TypeOK
  <2> QED
    BY <2>1, <2>2
<1> QED
  BY <1>1, <1>2, <1>4, <1>5 DEF TypeOK

\* And when a call is given up.
LEMMA DropType ==
  ASSUME TypeOK, NEW s \in Slot, Drop(s)
  PROVE  TypeOK'
BY DEF TypeOK, Drop, Without, Busy

\* And when others act.
LEMMA EnvironmentType ==
  ASSUME TypeOK, Environment
  PROVE  TypeOK'
<1>1. CASE Tick
  <2>1. now' \in 0 .. MaxTime
    BY <1>1, MaxTimeAssumption DEF TypeOK, Tick
  <2> QED
    BY <1>1, <2>1 DEF TypeOK, Tick, Busy
<1>2. CASE ~Tick
  <2> DEFINE later == Refreshed(chain, chain')
  <2>1. Evolves(chain, chain') /\ flight' = later /\ UNCHANGED <<now, vetted>>
    BY <1>2, EnvironmentEvolves, MaxTimeAssumption DEF TypeOK
  <2>2. DOMAIN later = Busy /\ \A t \in Busy : later[t] \in Flight
    BY RefreshedFlight DEF TypeOK
  <2> HIDE DEF later
  <2>3. Busy' = Busy /\ \A t \in Busy' : flight'[t] \in Flight
    BY <2>1, <2>2 DEF Busy
  <2>4. vetted' \subseteq 1 .. chain'.transactionIndex
    BY <2>1 DEF TypeOK, Evolves, WellFormed, Chain
  <2> QED
    BY <2>1, <2>3, <2>4 DEF TypeOK, Evolves
<1> QED
  BY <1>1, <1>2

\* The accounts stay well-formed and every call under way has a well-typed
\* transaction and result, however calls, other tools, rent reclaim and a
\* config authority interleave.
THEOREM TypeCorrect == Spec => []TypeOK
<1>1. TypeOK /\ [Next]_vars => TypeOK'
  <2> SUFFICES ASSUME TypeOK, [Next]_vars PROVE TypeOK'
    OBVIOUS
  <2>1. ASSUME NEW s \in Slot, Submit(s) PROVE TypeOK'
    BY <2>1, SubmitType
  <2>2. ASSUME NEW s \in Slot, Land(s) PROVE TypeOK'
    BY <2>2, LandType
  <2>3. ASSUME NEW s \in Slot, Drop(s) PROVE TypeOK'
    BY <2>3, DropType
  <2>4. CASE Environment
    BY <2>4, EnvironmentType
  <2>5. CASE UNCHANGED vars
    BY <2>5 DEF vars, TypeOK, Busy
  <2> QED
    BY <2>1, <2>2, <2>3, <2>4, <2>5 DEF Next
<1> QED
  BY <1>1, InitType, PTL DEF Spec

(***************************************************************************)
(* The guards are sufficient.                                              *)
(***************************************************************************)

\* Adding an address that is not in the set adds one.
LEMMA OneMore ==
  ASSUME NEW S \in SUBSET Address, NEW signer \in Address, signer \notin S
  PROVE  Cardinality(S \cup {signer}) = Cardinality(S) + 1
BY AddressSetsFinite, FS_AddElement

\* Distinct owners, each with every permission, make a viable multisig for any
\* threshold up to their number.
LEMMA OwnersViable ==
  ASSUME NEW owners \in Seq(Address), owners # <<>>, NEW threshold,
         Cardinality(OwnerSet(owners)) = Len(owners),
         ValidThreshold(threshold, Len(owners))
  PROVE  Viable(OwnerMasks(owners), threshold)
<1>1. OwnerSet(owners) \subseteq Address /\ OwnerSet(owners) # {}
  BY DEF OwnerSet
<1>2. \A permission \in Permission :
        Holders(OwnerMasks(owners), permission) = OwnerSet(owners)
  BY <1>1 DEF Holders, OwnerMasks
<1>3. "vote" \in Permission
  BY DEF Permission
<1> QED
  BY <1>1, <1>2, <1>3 DEF Viable, ValidThreshold

\* d is c with the signer's approval of the proposal, given at time t.
ApprovalOf(c, d, signer, index, t) ==
  /\ d.created = c.created /\ d.masks = c.masks /\ d.threshold = c.threshold
  /\ d.timeLock = c.timeLock /\ d.tables = c.tables
  /\ d.staleTransactionIndex = c.staleTransactionIndex
  /\ d.props[index].payload = c.props[index].payload
  /\ d.props[index].open = c.props[index].open
  /\ IF Cardinality(c.props[index].approved \cup {signer}) >= c.threshold
     THEN d.props[index].status = "approved" /\ d.props[index].since = t
     ELSE d.props[index].status = "active"

\* What Approved leaves in each field.
LEMMA ApprovedFields ==
  ASSUME NEW c \in Chain, NEW signer \in Address, NEW index \in Index, NEW t \in Nat
  PROVE  ApprovalOf(c, Approved(c, signer, index, t), signer, index, t)
<1>1. PICK q \in Proposal :
        /\ Approved(c, signer, index, t) = Update(c, index, q)
        /\ q.approved = c.props[index].approved \cup {signer}
        /\ q.rejected = c.props[index].rejected \ {signer}
        /\ q.payload = c.props[index].payload
        /\ q.open = c.props[index].open
        /\ IF Cardinality(q.approved) >= c.threshold
           THEN q.status = "approved" /\ q.since = t
           ELSE q.status = "active" /\ q.since = 0
  BY ApprovedProposal
<1> QED
  BY <1>1, UpdateFields DEF ApprovalOf

\* An approval that reaches the threshold, on a multisig without a time lock,
\* leaves a proposal the signer can execute in the same transaction.
LEMMA ApprovalExecutes ==
  ASSUME NEW c \in Chain, NEW signer \in Address, NEW index \in Index, NEW t \in Nat,
         c.created, "execute" \in c.masks[signer],
         Cardinality(c.props[index].approved \cup {signer}) >= c.threshold,
         c.timeLock = 0, c.props[index].open,
         \/ /\ c.props[index].payload.kind = "vault"
            /\ c.props[index].payload.tables => c.tables
         \/ /\ c.props[index].payload.kind = "config"
            /\ index > c.staleTransactionIndex
            /\ Applicable(c.masks, c.threshold, c.props[index].payload.change)
  PROVE  CanExecute(Approved(c, signer, index, t), signer, index, t)
<1> DEFINE d == Approved(c, signer, index, t)
           p == c.props[index]
<1>1. /\ d.created = c.created /\ d.masks = c.masks /\ d.threshold = c.threshold
      /\ d.timeLock = c.timeLock /\ d.tables = c.tables
      /\ d.staleTransactionIndex = c.staleTransactionIndex
      /\ d.props[index].payload = p.payload /\ d.props[index].open = p.open
      /\ d.props[index].status = "approved" /\ d.props[index].since = t
  <2>1. ApprovalOf(c, d, signer, index, t)
    BY ApprovedFields
  <2> HIDE DEF d
  <2> QED
    BY <2>1 DEF ApprovalOf
<1> HIDE DEF d
<1>2. t - d.props[index].since >= d.timeLock
  BY <1>1
<1>3. CanExecute(d, signer, index, t)
  BY <1>1, <1>2 DEF CanExecute, IsConfig
<1> QED
  BY <1>3 DEF d

\* The call executes a config proposal it found.
RunsFound(c, signer, call) ==
  /\ \/ call.op = "executeProposal"
     \/ call.op = "approveProposal" /\ ApproveExecutes(c, signer, call)
  /\ c.props[call.index].payload.kind = "config"
  /\ call.index > c.staleTransactionIndex

\* What each call's guard says is what the program asks of the transaction it
\* submits, on the same accounts.  executeProposal and approveProposal with
\* autoExecute do not look at the config actions they run; the rest is checked.
THEOREM GuardsSuffice ==
  ASSUME NEW c, WellFormed(c), NEW t \in Nat, NEW signer \in Address, NEW call \in Call,
         Allowed(c, t, signer, call),
         RunsFound(c, signer, call)
           => Applicable(c.masks, c.threshold, c.props[call.index].payload.change),
         call.op \in {"propose", "addOwner", "removeOwner", "swapOwner", "changeThreshold"}
           => c.transactionIndex < MaxIndex
  PROVE  Accepts(c, Submission(c, signer, call), t)
<1> DEFINE tx == Submission(c, signer, call)
           next == NextIndex(c)
<1> SUFFICES Accepts(c, tx, t)
  OBVIOUS
<1>0. /\ c \in Chain
      /\ c.threshold \in Nat /\ c.transactionIndex \in Nat
      /\ c.staleTransactionIndex \in Nat /\ c.timeLock \in Nat
      /\ c.staleTransactionIndex <= c.transactionIndex
      /\ \A i \in Index : c.props[i] \in Proposal
  BY DEF WellFormed, Chain
<1>1. CASE call.op = "deploy"
  <2>1. DeployAllowed(c, call) /\ call.owners \in Seq(Address)
    BY <1>1, CallArguments DEF Allowed, ConfigAllowed
  <2>2. tx.op = "deploy" /\ tx.masks = OwnerMasks(call.owners) /\ tx.threshold = call.threshold
    BY <1>1 DEF Submission, Bare
  <2>3. CanDeploy(c, tx.masks, tx.threshold)
    BY <2>1, <2>2, OwnersViable DEF DeployAllowed, CanDeploy
  <2> QED
    BY <2>2, <2>3 DEF Accepts
<1>2. c.transactionIndex < MaxIndex => /\ next \in Index
                                       /\ next = c.transactionIndex + 1
                                       /\ next > c.staleTransactionIndex
  BY <1>0, MaxIndexAssumption DEF NextIndex, Index
<1>3. CASE call.op = "propose"
  <2>1. ProposeAllowed(c, signer)
    BY <1>3 DEF Allowed, ConfigAllowed
  <2>2. /\ tx.op = "create" /\ tx.signer = signer /\ tx.index = next
        /\ tx.payload = VaultPayload /\ tx.run = ProposeExecutes(c, signer, call)
    BY <1>3 DEF Submission, Bare
  <2> HIDE DEF tx
  <2>3. VaultPayload.kind = "vault" /\ ~VaultPayload.tables
    BY DEF VaultPayload
  <2>4. CanCreate(c, signer, next, VaultPayload)
    BY <1>2, <1>3, <2>1, <2>3 DEF CanCreate, ProposeAllowed, HoldsPermission, IsConfig
  <2> DEFINE d == Created(c, next, VaultPayload)
  <2>5. ASSUME ProposeExecutes(c, signer, call)
        PROVE  CanApprove(d, signer, next) /\ CanExecute(Approved(d, signer, next, t), signer, next, t)
    <3>1. /\ c.threshold <= 1 /\ c.timeLock = 0
          /\ "vote" \in c.masks[signer] /\ "execute" \in c.masks[signer]
      BY <1>0, <2>5 DEF ProposeExecutes, CanAutoExecute
    <3>2. next \in Index /\ VaultPayload \in Payload
      BY <1>2, <1>3, BlankTypes
    <3>3. /\ d.created = c.created /\ d.masks = c.masks /\ d.threshold = c.threshold
          /\ d.timeLock = c.timeLock /\ d.staleTransactionIndex = c.staleTransactionIndex
          /\ d.props[next] = Opened(VaultPayload)
      BY <1>0, <3>2, CreatedFields, CreatedProposals
    <3>4. d \in Chain
      BY <1>0, <3>2, CreatedFields
    <3>5. c.created
      BY <2>1 DEF ProposeAllowed
    <3> HIDE DEF d, next
    <3>6. /\ d.props[next].status = "active" /\ d.props[next].open
          /\ d.props[next].approved = {} /\ d.props[next].payload = VaultPayload
      BY <3>2, <3>3, OpenedType
    <3>7. CanApprove(d, signer, next)
      BY <1>2, <1>3, <3>1, <3>3, <3>5, <3>6 DEF CanApprove, CanVote
    <3>8. Cardinality({} \cup {signer}) = 1
      BY OneMore, FS_EmptySet
    <3>9. CanExecute(Approved(d, signer, next, t), signer, next, t)
      BY <2>3, <3>1, <3>2, <3>3, <3>4, <3>5, <3>6, <3>8, ApprovalExecutes
    <3> QED
      BY <3>7, <3>9
  <2> QED
    BY <2>2, <2>4, <2>5 DEF Accepts
<1>4. CASE call.op = "approveProposal"
  <2>1. ApproveAllowed(c, signer, call) /\ call.index \in Index
    BY <1>4, CallArguments DEF Allowed, ConfigAllowed
  <2>2. /\ tx.op = "approve" /\ tx.signer = signer /\ tx.index = call.index
        /\ tx.run = ApproveExecutes(c, signer, call)
    BY <1>4 DEF Submission, Bare
  <2> HIDE DEF tx
  <2>3. CanApprove(c, signer, call.index)
    BY <2>1 DEF ApproveAllowed, Votable, HoldsPermission, CanApprove, CanVote
  <2>4. ASSUME ApproveExecutes(c, signer, call)
        PROVE  CanExecute(Approved(c, signer, call.index, t), signer, call.index, t)
    <3> DEFINE p == c.props[call.index]
    <3>1. /\ Cardinality(p.approved) + 1 >= c.threshold /\ c.timeLock = 0
          /\ "execute" \in c.masks[signer] /\ p.open
      BY <2>4 DEF ApproveExecutes, CanAutoExecute, AfterApproval
    <3>2. /\ signer \notin p.approved /\ c.created
          /\ call.index > c.staleTransactionIndex
          /\ ExecutionBuilds(c, call.index)
      BY <2>1, <2>4 DEF ApproveAllowed, Votable
    <3>3. Cardinality(p.approved \cup {signer}) >= c.threshold
      BY <1>0, <2>1, <3>1, <3>2, OneMore DEF Proposal
    <3> QED
      BY <1>0, <1>4, <2>1, <2>4, <3>1, <3>2, <3>3, ApprovalExecutes DEF RunsFound, ExecutionBuilds
  <2> QED
    BY <2>2, <2>3, <2>4 DEF Accepts
<1>5. CASE call.op = "rejectProposal"
  <2>1. RejectAllowed(c, signer, call)
    BY <1>5 DEF Allowed, ConfigAllowed
  <2>2. tx.op = "reject" /\ tx.signer = signer /\ tx.index = call.index
    BY <1>5 DEF Submission, Bare
  <2> QED
    BY <2>1, <2>2 DEF Accepts, RejectAllowed, Votable, HoldsPermission, CanReject, CanVote
<1>6. CASE call.op = "executeProposal"
  <2>1. ExecuteAllowed(c, t, signer, call) /\ call.index \in Index
    BY <1>6, CallArguments DEF Allowed, ConfigAllowed
  <2>2. tx.op = "execute" /\ tx.signer = signer /\ tx.index = call.index
    BY <1>6 DEF Submission, Bare
  <2> HIDE DEF tx
  <2>3. t - c.props[call.index].since >= c.timeLock
    BY <1>0, <2>1 DEF ExecuteAllowed, Proposal
  <2>4. CanExecute(c, signer, call.index, t)
    BY <1>6, <2>1, <2>3
    DEF RunsFound, ExecuteAllowed, HoldsPermission, ExecutionBuilds, CanExecute, IsConfig
  <2> QED
    BY <2>2, <2>4 DEF Accepts
<1>7. CASE call.op \in {"addOwner", "removeOwner", "swapOwner", "changeThreshold"}
  <2>1. MayReconfigure(c, signer)
    BY <1>7 DEF Allowed, ConfigAllowed
  <2>2. tx.op = "create" /\ tx.signer = signer /\ tx.index = next /\ ~tx.run
    BY <1>7 DEF Submission, Bare
  <2> HIDE DEF tx
  <2>3. CanCreate(c, signer, next, tx.payload)
    BY <1>2, <1>7, <2>1 DEF CanCreate, MayReconfigure, HoldsPermission
  <2> QED
    BY <2>2, <2>3 DEF Accepts
<1> QED
  BY <1>1, <1>3, <1>4, <1>5, <1>6, <1>7, CallArguments

(***************************************************************************)
(* Undisturbed transactions stay acceptable.                               *)
(***************************************************************************)

\* The multisigs agree on what an approval of a proposal and its execution read.
SameFor(e, f, index) ==
  /\ e.created = f.created /\ e.masks = f.masks /\ e.threshold = f.threshold
  /\ e.timeLock = f.timeLock /\ e.staleTransactionIndex = f.staleTransactionIndex
  /\ e.tables = f.tables /\ e.props[index] = f.props[index]

\* An approval that executes the proposal now does so later as well: it starts
\* and ends the time lock in the same transaction.
LEMMA StableExecution ==
  ASSUME NEW e \in Chain, NEW f \in Chain, NEW signer \in Address, NEW index \in Index,
         NEW t \in Nat, NEW u \in Nat, SameFor(e, f, index),
         CanExecute(Approved(e, signer, index, t), signer, index, t)
  PROVE  CanExecute(Approved(f, signer, index, u), signer, index, u)
<1> DEFINE g == Approved(e, signer, index, t)
           h == Approved(f, signer, index, u)
           p == e.props[index]
           settles == Cardinality(p.approved \cup {signer}) >= e.threshold
<1>1. /\ g.created = e.created /\ g.masks = e.masks /\ g.threshold = e.threshold
      /\ g.timeLock = e.timeLock /\ g.tables = e.tables
      /\ g.staleTransactionIndex = e.staleTransactionIndex
      /\ g.props[index].payload = p.payload /\ g.props[index].open = p.open
      /\ IF settles THEN g.props[index].status = "approved" /\ g.props[index].since = t
                    ELSE g.props[index].status = "active"
  <2>1. ApprovalOf(e, g, signer, index, t)
    BY ApprovedFields
  <2> HIDE DEF g
  <2> QED
    BY <2>1 DEF ApprovalOf
<1>2. /\ h.created = f.created /\ h.masks = f.masks /\ h.threshold = f.threshold
      /\ h.timeLock = f.timeLock /\ h.tables = f.tables
      /\ h.staleTransactionIndex = f.staleTransactionIndex
      /\ h.props[index].payload = f.props[index].payload
      /\ h.props[index].open = f.props[index].open
      /\ IF Cardinality(f.props[index].approved \cup {signer}) >= f.threshold
         THEN h.props[index].status = "approved" /\ h.props[index].since = u
         ELSE h.props[index].status = "active"
  <2>1. ApprovalOf(f, h, signer, index, u)
    BY ApprovedFields
  <2> HIDE DEF h
  <2> QED
    BY <2>1 DEF ApprovalOf
<1> HIDE DEF g, h
<1>3. /\ h.created = g.created /\ h.masks = g.masks /\ h.threshold = g.threshold
      /\ h.timeLock = g.timeLock /\ h.tables = g.tables
      /\ h.staleTransactionIndex = g.staleTransactionIndex
      /\ h.props[index].payload = g.props[index].payload
      /\ h.props[index].open = g.props[index].open
  BY <1>1, <1>2 DEF SameFor
<1>4. CanExecute(g, signer, index, t)
  BY DEF g
<1>5. settles
  BY <1>1, <1>4 DEF CanExecute
<1>6. h.props[index].status = "approved" /\ h.props[index].since = u
  <2>1. f.props[index] = p /\ f.threshold = e.threshold
    BY DEF SameFor
  <2> QED
    BY <1>2, <1>5, <2>1
<1>7. g.props[index].since = t /\ g.timeLock \in Nat
  BY <1>1, <1>5 DEF Chain
<1>8. u - h.props[index].since >= h.timeLock
  BY <1>3, <1>4, <1>7, <1>6 DEF CanExecute
<1> HIDE DEF p, settles
<1>9. CanExecute(h, signer, index, u)
  BY <1>3, <1>4, <1>8, <1>6 DEF CanExecute
<1> QED
  BY <1>9 DEF h

\* Acceptance depends on nothing but the configuration, the tables, the next
\* index or the proposal itself; time only helps.
LEMMA StableAcceptance ==
  ASSUME NEW c \in Chain, NEW d \in Chain, NEW tx \in Transaction,
         NEW t \in Nat, NEW u \in Nat, t <= u,
         Accepts(c, tx, t), ~Disturbs(c, d, tx)
  PROVE  Accepts(d, tx, u)
<1> DEFINE i == tx.index
           a == tx.signer
<1>1. /\ d.created = c.created /\ d.controlled = c.controlled /\ d.masks = c.masks
      /\ d.threshold = c.threshold /\ d.timeLock = c.timeLock
      /\ d.staleTransactionIndex = c.staleTransactionIndex /\ d.tables = c.tables
  BY DEF Disturbs, Configuration
<1>2. /\ i \in Index /\ a \in Address /\ tx.payload \in Payload /\ tx.op \in Op
  BY DEF Transaction
<1>3. \A j \in Index : /\ c.props[j] \in Proposal /\ c.props[j].since \in Nat
                       /\ c.props[j].approved \in SUBSET Address
  BY DEF Chain, Proposal
<1>4. c.timeLock \in Nat /\ c.threshold \in Nat
  BY DEF Chain
<1>5. CASE tx.op = "deploy"
  BY <1>1, <1>5 DEF Accepts, CanDeploy
<1>6. CASE tx.op = "reject"
  BY <1>1, <1>6 DEF Accepts, Disturbs, CanReject, CanVote
<1>7. CASE tx.op = "execute"
  <2>1. CanExecute(c, a, i, t) /\ d.props[i] = c.props[i]
    BY <1>7 DEF Accepts, Disturbs
  <2>2. u - c.props[i].since >= c.timeLock
    BY <1>2, <1>3, <1>4, <2>1 DEF CanExecute
  <2>3. CanExecute(d, a, i, u)
    BY <1>1, <2>1, <2>2 DEF CanExecute
  <2> QED
    BY <1>7, <2>3 DEF Accepts
<1>8. ASSUME NEW e \in Chain, NEW f \in Chain, SameFor(e, f, i),
             CanExecute(Approved(e, a, i, t), a, i, t)
      PROVE  CanExecute(Approved(f, a, i, u), a, i, u)
  BY <1>2, <1>8, StableExecution
<1>9. CASE tx.op = "approve"
  <2>1. /\ CanApprove(c, a, i) /\ d.props[i] = c.props[i]
        /\ tx.run => CanExecute(Approved(c, a, i, t), a, i, t)
    BY <1>9 DEF Accepts, Disturbs
  <2>2. CanApprove(d, a, i)
    BY <1>1, <2>1 DEF CanApprove, CanVote
  <2>3. SameFor(c, d, i)
    BY <1>1, <2>1 DEF SameFor
  <2>4. tx.run => CanExecute(Approved(d, a, i, u), a, i, u)
    BY <1>8, <2>1, <2>3
  <2> QED
    BY <1>9, <2>2, <2>4 DEF Accepts
<1>10. CASE tx.op = "create"
  <2> DEFINE e == Created(c, i, tx.payload)
             f == Created(d, i, tx.payload)
  <2>1. /\ CanCreate(c, a, i, tx.payload)
        /\ tx.run => /\ CanApprove(e, a, i)
                     /\ CanExecute(Approved(e, a, i, t), a, i, t)
    BY <1>10 DEF Accepts
  <2>2. CanCreate(d, a, i, tx.payload)
    BY <1>1, <1>10, <2>1 DEF CanCreate, Disturbs
  <2>3. /\ e \in Chain
        /\ e.created = c.created /\ e.masks = c.masks /\ e.threshold = c.threshold
        /\ e.timeLock = c.timeLock /\ e.staleTransactionIndex = c.staleTransactionIndex
        /\ e.tables = c.tables /\ e.props[i] = Opened(tx.payload)
    BY <1>2, CreatedFields, CreatedProposals
  <2>4. /\ f \in Chain
        /\ f.created = d.created /\ f.masks = d.masks /\ f.threshold = d.threshold
        /\ f.timeLock = d.timeLock /\ f.staleTransactionIndex = d.staleTransactionIndex
        /\ f.tables = d.tables /\ f.props[i] = Opened(tx.payload)
    BY <1>2, CreatedFields, CreatedProposals
  <2> HIDE DEF e, f
  <2>5. tx.run => CanApprove(f, a, i)
    BY <1>1, <2>1, <2>3, <2>4 DEF CanApprove, CanVote
  <2>6. SameFor(e, f, i)
    BY <1>1, <2>3, <2>4 DEF SameFor
  <2>7. tx.run => CanExecute(Approved(f, a, i, u), a, i, u)
    BY <1>8, <2>1, <2>3, <2>4, <2>6
  <2> QED
    BY <1>10, <2>2, <2>5, <2>7 DEF Accepts, f
<1> QED
  BY <1>2, <1>5, <1>6, <1>7, <1>9, <1>10 DEF Op

(***************************************************************************)
(* The inductive invariant.                                                *)
(***************************************************************************)

\* A checked config change that is under way and undisturbed still applies to
\* the members in force.  This is what a landing hands over to VettedStaysViable.
FreshChangeApplies ==
  \A s \in Busy :
    LET tx == flight[s].tx IN
    flight[s].fresh /\ tx.op = "create" /\ tx.payload.kind = "config"
      => Applicable(chain.masks, chain.threshold, tx.payload.change)

IInv == TypeOK /\ FreshChangeApplies /\ VettedStaysViable /\ NoDoomedSubmission

\* A creation that lands leaves a proposal where there was none.
LEMMA CreationAppears ==
  ASSUME NEW c, WellFormed(c), NEW tx \in Transaction, NEW t \in Nat,
         Accepts(c, tx, t), tx.op = "create"
  PROVE  /\ c.props[tx.index].status = "none"
         /\ Outcome(c, tx, t).props[tx.index].status # "none"
<1> DEFINE created == Created(c, tx.index, tx.payload)
           voted == Approved(created, tx.signer, tx.index, t)
<1>1. /\ tx.index \in Index /\ tx.payload \in Payload /\ tx.signer \in Address
      /\ c \in Chain /\ c.transactionIndex \in Nat
  BY DEF Transaction, WellFormed, Chain
<1>2. CanCreate(c, tx.signer, tx.index, tx.payload)
  BY DEF Accepts
<1>3. c.props[tx.index].status = "none"
  BY <1>1, <1>2 DEF WellFormed, CanCreate
<1>4. created.props[tx.index].status = "active" /\ created \in Chain
  BY <1>1, CreatedFields, CreatedProposals, OpenedType
<1>5. Outcome(c, tx, t) = IF tx.run THEN Executed(voted, tx.index) ELSE created
  BY DEF Outcome
<1> HIDE DEF created
<1>6. voted \in Chain
  <2>1. PICK q \in Proposal : voted = Update(created, tx.index, q)
    BY <1>1, <1>4, ApprovedProposal
  <2> QED
    BY <1>1, <1>4, <2>1, UpdateFields
<1> HIDE DEF voted
<1>7. Executed(voted, tx.index).props[tx.index].status = "executed"
  <2> DEFINE p == voted.props[tx.index]
             q == [p EXCEPT !.status = "executed", !.since = 0]
             done == Update(voted, tx.index, q)
  <2>1. p \in Proposal
    BY <1>1, <1>6 DEF Chain
  <2>2. q \in Proposal /\ q.status = "executed"
    <3> HIDE DEF p
    <3> QED BY <2>1 DEF Proposal, Status
  <2>3. done.props[tx.index] = q /\ done \in Chain
    <3> HIDE DEF q
    <3> QED BY <1>1, <1>6, <2>2, UpdateFields
  <2>4. Executed(voted, tx.index) = IF IsConfig(p.payload)
                                    THEN Applied(done, p.payload.change) ELSE done
    BY DEF Executed
  <2> HIDE DEF done
  <2>5. Applied(done, p.payload.change).props = done.props
    BY <2>3 DEF Applied, Chain
  <2> QED
    BY <2>2, <2>3, <2>4, <2>5
<1> QED
  BY <1>3, <1>4, <1>5, <1>7

\* A step that submits nothing keeps what is known of the calls still under way,
\* because the ones it disturbs are no longer fresh.
LEMMA UndisturbedCalls ==
  ASSUME IInv, TypeOK', now <= now',
         Busy' \subseteq Busy,
         \A s \in Busy' :
           /\ flight'[s].tx = flight[s].tx
           /\ flight'[s].fresh => flight[s].fresh /\ ~Disturbs(chain, chain', flight[s].tx),
         \A i \in vetted' \ vetted : chain'.props[i].status # chain.props[i].status
  PROVE  FreshChangeApplies' /\ NoDoomedSubmission'
<1>1. chain \in Chain /\ chain' \in Chain /\ now \in Nat /\ now' \in Nat
  BY MaxTimeAssumption DEF IInv, TypeOK, WellFormed
<1>2. FreshChangeApplies'
  <2> SUFFICES ASSUME NEW s \in Busy', flight'[s].fresh,
                      flight'[s].tx.op = "create", flight'[s].tx.payload.kind = "config"
               PROVE  Applicable(chain'.masks, chain'.threshold, flight'[s].tx.payload.change)
    BY DEF FreshChangeApplies
  <2>1. Applicable(chain.masks, chain.threshold, flight[s].tx.payload.change)
    BY DEF IInv, FreshChangeApplies
  <2>2. chain'.masks = chain.masks /\ chain'.threshold = chain.threshold
    BY DEF Disturbs, Configuration
  <2> QED
    BY <2>1, <2>2
<1>3. NoDoomedSubmission'
  <2> SUFFICES ASSUME NEW s \in Busy', flight'[s].fresh, ~RunsUnvetted(flight[s].tx)'
               PROVE  Accepts(chain', flight'[s].tx, now')
    BY DEF NoDoomedSubmission
  <2> DEFINE tx == flight[s].tx
  <2>1. /\ s \in Busy /\ flight'[s].tx = tx /\ tx \in Transaction
        /\ flight[s].fresh /\ ~Disturbs(chain, chain', tx)
    BY DEF IInv, TypeOK, Flight
  <2>2. CASE ~RunsUnvetted(tx)
    <3>1. Accepts(chain, tx, now)
      BY <2>1, <2>2 DEF IInv, NoDoomedSubmission
    <3> QED
      BY <1>1, <2>1, <3>1, StableAcceptance
  <2>3. CASE RunsUnvetted(tx)
    <3>1. /\ tx.op = "execute" \/ (tx.op = "approve" /\ tx.run)
          /\ chain.props[tx.index].payload.kind = "config"
          /\ tx.index \notin vetted
      BY <2>3 DEF RunsUnvetted
    <3>2. chain'.props[tx.index] = chain.props[tx.index]
      BY <2>1, <3>1 DEF Disturbs
    <3>3. tx.index \in vetted'
      BY <2>1, <3>1, <3>2 DEF RunsUnvetted
    <3> QED
      BY <3>1, <3>2, <3>3
  <2> QED
    BY <2>2, <2>3
<1> QED
  BY <1>2, <1>3

\* A submission leaves the accounts alone; the call it starts is covered by its
\* own guards.
LEMMA SubmitPreserves ==
  ASSUME IInv, NEW s \in Slot, Submit(s)
  PROVE  IInv'
<1>1. TypeOK'
  BY SubmitType DEF IInv
<1>2. UNCHANGED <<chain, now, vetted>>
  BY DEF Submit
<1>3. PICK signer \in Address, call \in Call :
        /\ Allowed(chain, now, signer, call)
        /\ Within(call)
        /\ flight' = [t \in Busy \cup {s} |->
             IF t = s THEN [tx |-> Submission(chain, signer, call),
                            result |-> ResultOf(chain, signer, call), fresh |-> TRUE]
             ELSE flight[t]]
  BY DEF Submit
<1> DEFINE tx == Submission(chain, signer, call)
<1>4. /\ Busy' = Busy \cup {s}
      /\ flight'[s].tx = tx
      /\ \A t \in Busy \ {s} : flight'[t] = flight[t]
  BY <1>3 DEF Busy
<1>5. WellFormed(chain) /\ now \in Nat
  BY MaxTimeAssumption DEF IInv, TypeOK
<1>6. tx.op = "create" /\ tx.payload.kind = "config"
        => Applicable(chain.masks, chain.threshold, tx.payload.change)
  <2>1. CASE ConfigAllowed(chain, signer, call)
    <3>1. call.op \in {"addOwner", "removeOwner", "swapOwner", "changeThreshold"}
      BY <2>1 DEF ConfigAllowed
    <3>2. Applicable(chain.masks, chain.threshold, ChangeOf(chain, call))
      BY <1>5, <2>1, CheckedChangesApply
    <3>3. tx = [Bare("create", signer, NextIndex(chain)) EXCEPT
                  !.payload = ConfigPayload(ChangeOf(chain, call))]
      BY <3>1 DEF Submission
    <3>4. tx.payload.change = ChangeOf(chain, call)
      BY <3>3 DEF Bare, ConfigPayload
    <3> QED
      BY <3>2, <3>4
  <2>2. CASE ~ConfigAllowed(chain, signer, call)
    <3>1. call.op \in {"deploy", "propose", "approveProposal", "rejectProposal",
                       "executeProposal"}
      BY <1>3, <2>2 DEF Allowed
    <3>2. tx.payload = VaultPayload
      BY <3>1 DEF Submission, Bare
    <3> QED
      BY <3>2 DEF VaultPayload
  <2> QED
    BY <2>1, <2>2
<1>7. ~RunsUnvetted(tx) => Accepts(chain, tx, now)
  <2> SUFFICES ASSUME ~RunsUnvetted(tx) PROVE Accepts(chain, tx, now)
    OBVIOUS
  <2>1. ASSUME RunsFound(chain, signer, call)
        PROVE  Applicable(chain.masks, chain.threshold, chain.props[call.index].payload.change)
    <3>1. /\ tx.op = "execute" \/ (tx.op = "approve" /\ tx.run)
          /\ tx.index = call.index
      BY <2>1 DEF RunsFound, Submission, Bare
    <3>2. call.index \in vetted
      BY <2>1, <3>1 DEF RunsFound, RunsUnvetted
    <3> QED
      BY <2>1, <3>2 DEF RunsFound, IInv, VettedStaysViable
  <2> QED
    BY <1>3, <1>5, <2>1, GuardsSuffice DEF Within
<1> HIDE DEF tx
<1>8. FreshChangeApplies'
  BY <1>2, <1>4, <1>6 DEF IInv, FreshChangeApplies
<1>9. NoDoomedSubmission'
  <2> SUFFICES ASSUME NEW t \in Busy', flight'[t].fresh, ~RunsUnvetted(flight[t].tx)'
               PROVE  Accepts(chain', flight'[t].tx, now')
    BY DEF NoDoomedSubmission
  <2>1. ~RunsUnvetted(flight'[t].tx)
    BY <1>2 DEF RunsUnvetted
  <2>2. CASE t = s
    <3>1. flight'[t].tx = tx
      BY <1>4, <2>2
    <3>2. Accepts(chain, tx, now)
      BY <1>7, <2>1, <3>1
    <3> QED
      BY <1>2, <3>1, <3>2
  <2>3. CASE t # s
    <3>1. t \in Busy /\ flight'[t] = flight[t]
      BY <1>4, <2>3
    <3>2. Accepts(chain, flight[t].tx, now)
      BY <2>1, <3>1 DEF IInv, NoDoomedSubmission
    <3> QED
      BY <1>2, <3>1, <3>2
  <2> QED
    BY <2>2, <2>3
<1> QED
  BY <1>1, <1>2, <1>8, <1>9 DEF IInv, VettedStaysViable

\* A landing keeps vetted changes applicable: either it leaves the members and
\* the threshold alone, or it makes every proposal stale.
LEMMA LandPreserves ==
  ASSUME IInv, NEW s \in Slot, Land(s)
  PROVE  IInv'
<1> DEFINE tx == flight[s].tx
           later == Refreshed(chain, chain')
<1>1. TypeOK /\ TypeOK'
  BY LandType DEF IInv
<1>2. /\ tx \in Transaction
      /\ Accepts(chain, tx, now)
      /\ chain' = Outcome(chain, tx, now)
      /\ Evolves(chain, chain')
      /\ flight' = Without(s, later)
      /\ now' = now
      /\ \A i \in vetted' \ vetted :
           /\ i = tx.index /\ tx.op = "create" /\ flight[s].fresh
           /\ tx.payload.kind = "config"
  BY <1>1, LandEvolves
<1>3. WellFormed(chain) /\ now \in Nat /\ s \in Busy
  BY <1>1, MaxTimeAssumption DEF TypeOK, Land
<1>4. VettedStaysViable'
  <2> SUFFICES ASSUME NEW i \in vetted', i > chain'.staleTransactionIndex
               PROVE  Applicable(chain'.masks, chain'.threshold, chain'.props[i].payload.change)
    BY DEF VettedStaysViable
  <2>1. /\ i \in Nat /\ chain.transactionIndex \in Nat
        /\ chain.staleTransactionIndex \in Nat /\ chain'.staleTransactionIndex \in Nat
    BY <1>1 DEF TypeOK, WellFormed, Chain
  <2>2. CASE i \in vetted
    <3>1. i \in 1 .. chain.transactionIndex
      BY <1>1, <2>2 DEF TypeOK
    <3>2. /\ chain'.masks = chain.masks /\ chain'.threshold = chain.threshold
          /\ chain'.staleTransactionIndex = chain.staleTransactionIndex
          /\ chain'.props[i].payload = chain.props[i].payload
      BY <1>2, <2>1, <3>1 DEF Evolves
    <3> QED
      BY <2>2, <3>2 DEF IInv, VettedStaysViable
  <2>3. CASE i \notin vetted
    <3>1. Applicable(chain.masks, chain.threshold, tx.payload.change)
      BY <1>2, <1>3, <2>3 DEF IInv, FreshChangeApplies
    <3>2. /\ i = tx.index
          /\ chain'.props[i].payload = tx.payload
          /\ \/ chain'.masks = chain.masks /\ chain'.threshold = chain.threshold
             \/ chain'.staleTransactionIndex >= i
      BY <1>2, <1>3, <2>3, OutcomeEvolves
    <3> QED
      BY <2>1, <3>1, <3>2
  <2> QED
    BY <2>2, <2>3
<1>5. /\ DOMAIN later = Busy
      /\ \A t \in Busy :
           /\ later[t].tx = flight[t].tx
           /\ later[t].fresh => flight[t].fresh /\ ~Disturbs(chain, chain', flight[t].tx)
  BY <1>1, RefreshedFlight DEF TypeOK
<1> HIDE DEF later
<1>6. /\ Busy' \subseteq Busy
      /\ \A t \in Busy' :
           /\ flight'[t].tx = flight[t].tx
           /\ flight'[t].fresh => flight[t].fresh /\ ~Disturbs(chain, chain', flight[t].tx)
  BY <1>2, <1>5 DEF Without, Busy
<1>7. \A i \in vetted' \ vetted : chain'.props[i].status # chain.props[i].status
  BY <1>2, <1>3, CreationAppears
<1>8. FreshChangeApplies' /\ NoDoomedSubmission'
  BY <1>1, <1>2, <1>3, <1>6, <1>7, UndisturbedCalls
<1> QED
  BY <1>1, <1>4, <1>8 DEF IInv

\* Giving a call up disturbs nothing.
LEMMA DropPreserves ==
  ASSUME IInv, NEW s \in Slot, Drop(s)
  PROVE  IInv'
<1>1. TypeOK'
  BY DropType DEF IInv
<1>2. UNCHANGED <<chain, now, vetted>>
  BY DEF Drop
<1>3. Busy' \subseteq Busy /\ \A t \in Busy' : flight'[t] = flight[t]
  BY DEF Drop, Without, Busy
<1> QED
  BY <1>1, <1>2, <1>3
  DEF IInv, FreshChangeApplies, VettedStaysViable, NoDoomedSubmission, RunsUnvetted

\* What others do may make a vetted proposal stale and disturb calls, no more.
LEMMA EnvironmentPreserves ==
  ASSUME IInv, Environment
  PROVE  IInv'
<1>1. TypeOK /\ TypeOK'
  BY EnvironmentType DEF IInv
<1>2. CASE Tick
  <2>1. /\ UNCHANGED <<chain, flight, vetted>> /\ now' = now + 1
        /\ now \in Nat
    BY <1>1, <1>2, MaxTimeAssumption DEF Tick, TypeOK
  <2>2. Busy' = Busy
    BY <2>1 DEF Busy
  <2>3. \A t \in Busy : ~Disturbs(chain, chain', flight[t].tx)
    BY <2>1 DEF Disturbs, Configuration
  <2>4. FreshChangeApplies' /\ NoDoomedSubmission'
    BY <1>1, <2>1, <2>2, <2>3, UndisturbedCalls
  <2> QED
    BY <1>1, <2>1, <2>4 DEF IInv, VettedStaysViable
<1>3. CASE ~Tick
  <2> DEFINE later == Refreshed(chain, chain')
  <2>1. Evolves(chain, chain') /\ flight' = later /\ UNCHANGED <<now, vetted>>
    BY <1>1, <1>3, EnvironmentEvolves, MaxTimeAssumption DEF TypeOK
  <2>2. /\ DOMAIN later = Busy
        /\ \A t \in Busy :
             /\ later[t].tx = flight[t].tx
             /\ later[t].fresh => flight[t].fresh /\ ~Disturbs(chain, chain', flight[t].tx)
    BY <1>1, RefreshedFlight DEF TypeOK
  <2> HIDE DEF later
  <2>3. Busy' = Busy
    BY <2>1, <2>2 DEF Busy
  <2>4. now \in Nat /\ now <= now'
    BY <1>1, <2>1, MaxTimeAssumption DEF TypeOK
  <2>5. FreshChangeApplies' /\ NoDoomedSubmission'
    BY <1>1, <2>1, <2>2, <2>3, <2>4, UndisturbedCalls
  <2>6. VettedStaysViable'
    <3> SUFFICES ASSUME NEW i \in vetted, i > chain'.staleTransactionIndex
                 PROVE  Applicable(chain'.masks, chain'.threshold,
                                   chain'.props[i].payload.change)
      BY <2>1 DEF VettedStaysViable
    <3>1. /\ i \in 1 .. chain.transactionIndex /\ i \in Nat
          /\ chain.transactionIndex \in Nat
          /\ chain'.staleTransactionIndex \in Nat
      BY <1>1 DEF TypeOK, WellFormed, Chain
    <3>2. /\ chain'.masks = chain.masks /\ chain'.threshold = chain.threshold
          /\ chain'.staleTransactionIndex = chain.staleTransactionIndex
          /\ chain'.props[i].payload = chain.props[i].payload
      BY <2>1, <3>1 DEF Evolves
    <3> QED
      BY <3>2 DEF IInv, VettedStaysViable
  <2> QED
    BY <1>1, <2>5, <2>6 DEF IInv
<1> QED
  BY <1>2, <1>3

\* The invariant holds initially, where nothing is under way.
LEMMA InitInvariant == Init => IInv
<1> SUFFICES ASSUME Init PROVE IInv
  OBVIOUS
<1>1. Busy = {} /\ vetted = {}
  BY DEF Init, Busy
<1> QED
  BY <1>1, InitType DEF IInv, FreshChangeApplies, VettedStaysViable, NoDoomedSubmission

\* The invariant holds in every reachable state.
THEOREM Invariant == Spec => []IInv
<1>1. IInv /\ [Next]_vars => IInv'
  <2> SUFFICES ASSUME IInv, [Next]_vars PROVE IInv'
    OBVIOUS
  <2>1. ASSUME NEW s \in Slot, Submit(s) PROVE IInv'
    BY <2>1, SubmitPreserves
  <2>2. ASSUME NEW s \in Slot, Land(s) PROVE IInv'
    BY <2>2, LandPreserves
  <2>3. ASSUME NEW s \in Slot, Drop(s) PROVE IInv'
    BY <2>3, DropPreserves
  <2>4. CASE Environment
    BY <2>4, EnvironmentPreserves
  <2>5. CASE UNCHANGED vars
    BY <2>5 DEF vars, IInv, TypeOK, FreshChangeApplies, VettedStaysViable,
                NoDoomedSubmission, RunsUnvetted, Busy
  <2> QED
    BY <2>1, <2>2, <2>3, <2>4, <2>5 DEF Next
<1> QED
  BY <1>1, InitInvariant, PTL DEF Spec

\* addOwner, removeOwner, swapOwner and changeThreshold check the members a
\* change leaves; that check still holds whenever the proposal can be executed,
\* whatever landed in between.
THEOREM VettedChangesStayViable == Spec => []VettedStaysViable
BY Invariant, PTL DEF IInv

\* The program refuses nothing the client submits on accounts that stayed as
\* they were read, the changes nobody checked aside.
THEOREM SubmissionsAreNotDoomed == Spec => []NoDoomedSubmission
BY Invariant, PTL DEF IInv

(***************************************************************************)
(* The guards are necessary, and the read-only account agrees.             *)
(***************************************************************************)

\* executeProposal submits whatever the program would execute for the signer, of
\* the kinds it knows.
LEMMA ExecuteNecessary ==
  ASSUME NEW c, WellFormed(c), NEW t \in Nat, NEW signer \in Address, NEW index \in Index,
         NEW call, call.index = index, CanExecute(c, signer, index, t),
         c.props[index].payload.kind \in {"vault", "config"}
  PROVE  ExecuteAllowed(c, t, signer, call) /\ ReadyToExecute(c, t, index)
<1> DEFINE p == c.props[index]
<1>1. p \in Proposal /\ c.timeLock \in Nat
  BY DEF WellFormed, Chain
<1>2. p.since \in Nat
  BY <1>1 DEF Proposal
<1>3. /\ c.created /\ "execute" \in c.masks[signer]
      /\ p.status = "approved" /\ p.open
      /\ t - p.since >= c.timeLock
      /\ \/ p.payload.kind = "vault" /\ (p.payload.tables => c.tables)
         \/ p.payload.kind = "config" /\ index > c.staleTransactionIndex
  BY DEF CanExecute, IsConfig
<1>4. c.timeLock - (t - p.since) <= 0
  BY <1>1, <1>2, <1>3
<1>5. Readable(c, index) /\ ExecutionBuilds(c, index)
  BY <1>3 DEF Readable, ExecutionBuilds
<1> QED
  BY <1>3, <1>4, <1>5 DEF ExecuteAllowed, HoldsPermission, ReadyToExecute

\* rejectProposal, executeProposal, and propose and approveProposal without
\* autoExecute refuse nothing the program would take, but for executions of a
\* batch or of a newer config action.
THEOREM RefusalsAreNeeded == Spec => []NoNeedlessRefusal
<1>1. TypeOK => NoNeedlessRefusal
  <2> SUFFICES ASSUME TypeOK, NEW signer \in Address, NEW call \in Call, Plain(call),
                      Accepts(chain, Submission(chain, signer, call), now),
                      call.op = "executeProposal" => Runnable(call.index)
               PROVE  Allowed(chain, now, signer, call)
    BY DEF NoNeedlessRefusal
  <2> DEFINE tx == Submission(chain, signer, call)
  <2>1. WellFormed(chain) /\ now \in Nat
    BY MaxTimeAssumption DEF TypeOK
  <2>2. Accepts(chain, tx, now)
    OBVIOUS
  <2>3. CASE call.op = "propose"
    <3>1. /\ tx.op = "create" /\ tx.signer = signer
      BY <2>3 DEF Submission, Bare
    <3> HIDE DEF tx
    <3> QED
      BY <2>2, <2>3, <3>1 DEF Accepts, CanCreate, Allowed, ProposeAllowed, HoldsPermission
  <2>4. CASE call.op = "approveProposal"
    <3>1. tx.op = "approve" /\ tx.signer = signer /\ tx.index = call.index
      BY <2>4 DEF Submission, Bare
    <3>2. ~call.autoExecute
      BY <2>4 DEF Plain
    <3>3. ~ApproveExecutes(chain, signer, call)
      BY <3>2 DEF ApproveExecutes
    <3> HIDE DEF tx
    <3>4. CanApprove(chain, signer, call.index)
      BY <2>2, <3>1 DEF Accepts
    <3>5. Votable(chain, signer, call.index) /\ signer \notin chain.props[call.index].approved
      BY <3>4 DEF CanApprove, CanVote, Votable, HoldsPermission
    <3> QED
      BY <2>4, <3>2, <3>3, <3>5 DEF ApproveAllowed, Allowed
  <2>5. CASE call.op = "rejectProposal"
    <3>1. tx.op = "reject" /\ tx.signer = signer /\ tx.index = call.index
      BY <2>5 DEF Submission, Bare
    <3> HIDE DEF tx
    <3> QED
      BY <2>2, <2>5, <3>1
      DEF Accepts, CanReject, CanVote, RejectAllowed, Votable, HoldsPermission, Allowed
  <2>6. CASE call.op = "executeProposal"
    <3>1. /\ tx.op = "execute" /\ tx.signer = signer /\ tx.index = call.index
          /\ call.index \in Index
      BY <2>6, CallArguments DEF Submission, Bare
    <3> HIDE DEF tx
    <3>2. CanExecute(chain, signer, call.index, now)
      BY <2>2, <3>1 DEF Accepts
    <3>3. ExecuteAllowed(chain, now, signer, call)
      BY <2>1, <2>6, <3>1, <3>2, ExecuteNecessary DEF Runnable
    <3> QED
      BY <2>6, <3>3 DEF Allowed
  <2> QED
    BY <2>3, <2>4, <2>5, <2>6 DEF Plain
<1> QED
  BY <1>1, TypeCorrect, PTL

\* isReadyToExecute, executeProposal and the program agree on which vault and
\* config transactions can be executed, up to a lookup table that is gone.
THEOREM ReadyMeansExecutable == Spec => []ReadyIffExecutable
<1>1. TypeOK => ReadyIffExecutable
  <2> SUFFICES ASSUME TypeOK, NEW signer \in Holders(chain.masks, "execute"), NEW i \in Index
               PROVE  LET execute == [op |-> "executeProposal", index |-> i] IN
                      /\ CanExecute(chain, signer, i, now) /\ Runnable(i)
                           => ReadyToExecute(chain, now, i)
                      /\ /\ ReadyToExecute(chain, now, i)
                         /\ chain.props[i].payload.tables => chain.tables
                         => ExecuteAllowed(chain, now, signer, execute)
    BY DEF ReadyIffExecutable
  <2> DEFINE execute == [op |-> "executeProposal", index |-> i]
             p == chain.props[i]
  <2>1. WellFormed(chain) /\ now \in Nat
    BY MaxTimeAssumption DEF TypeOK
  <2>2. /\ signer \in Address /\ "execute" \in chain.masks[signer]
        /\ p \in Proposal /\ chain.timeLock \in Nat /\ execute.index = i
    BY <2>1 DEF Holders, WellFormed, Chain
  <2>3. p.since \in Nat
    BY <2>2 DEF Proposal
  <2>4. CanExecute(chain, signer, i, now) /\ Runnable(i) => ReadyToExecute(chain, now, i)
    BY <2>1, <2>2, ExecuteNecessary DEF Runnable
  <2>5. ASSUME ReadyToExecute(chain, now, i), p.payload.tables => chain.tables
        PROVE  ExecuteAllowed(chain, now, signer, execute)
    <3> HIDE DEF execute
    <3>1. /\ chain.created /\ p.status = "approved" /\ p.open
          /\ now - p.since >= chain.timeLock
          /\ \/ p.payload.kind = "vault"
             \/ p.payload.kind = "config" /\ i > chain.staleTransactionIndex
      BY <2>5 DEF ReadyToExecute
    <3>2. chain.timeLock - (now - p.since) <= 0
      BY <2>1, <2>2, <2>3, <3>1
    <3>3. Readable(chain, i) /\ ExecutionBuilds(chain, i)
      BY <2>5, <3>1 DEF Readable, ExecutionBuilds
    <3> QED
      BY <2>2, <3>1, <3>2, <3>3 DEF ExecuteAllowed, HoldsPermission
  <2> QED
    BY <2>4, <2>5
<1> QED
  BY <1>1, TypeCorrect, PTL

\* autoExecute takes a vote away from nobody, except where the execution of the
\* proposal cannot be built: a lookup table is gone or an action is unknown.
THEOREM AutoExecuteIsInert == Spec => []AutoExecuteGoesInert
<1>1. TypeOK => AutoExecuteGoesInert
  <2> SUFFICES ASSUME TypeOK, NEW signer \in Address, NEW i \in Index,
                      AutoExecuteRefuses(signer, i)
               PROVE  LET payload == chain.props[i].payload IN
                      payload.kind = "newer" \/ (payload.tables /\ ~chain.tables)
    BY DEF AutoExecuteGoesInert
  <2> DEFINE plain == [op |-> "approveProposal", index |-> i, autoExecute |-> FALSE]
             auto == [plain EXCEPT !.autoExecute = TRUE]
             payload == chain.props[i].payload
  <2>1. ApproveAllowed(chain, signer, plain) /\ ~ApproveAllowed(chain, signer, auto)
    BY DEF AutoExecuteRefuses
  <2>2. plain.index = i /\ auto.index = i /\ ~plain.autoExecute /\ auto.autoExecute
    OBVIOUS
  <2> HIDE DEF plain, auto
  <2>3. /\ Votable(chain, signer, i) /\ signer \notin chain.props[i].approved
    BY <2>1, <2>2 DEF ApproveAllowed
  <2>4. \/ ~Readable(chain, i)
        \/ ApproveExecutes(chain, signer, auto) /\ ~ExecutionBuilds(chain, i)
    BY <2>1, <2>2, <2>3 DEF ApproveAllowed
  <2>5. CASE ~Readable(chain, i)
    BY <2>5 DEF Readable
  <2>6. CASE ApproveExecutes(chain, signer, auto) /\ ~ExecutionBuilds(chain, i)
    <3>1. payload.kind \in {"config", "vault"} /\ chain.props[i].open
      BY <2>2, <2>6 DEF ApproveExecutes
    <3>2. i > chain.staleTransactionIndex
      BY <2>3 DEF Votable
    <3> QED
      BY <2>6, <3>1, <3>2 DEF ExecutionBuilds
  <2> QED
    BY <2>4, <2>5, <2>6
<1> QED
  BY <1>1, TypeCorrect, PTL

(***************************************************************************)
(* Votes count, whatever others do.                                        *)
(***************************************************************************)

\* Everything others do keeps the accounts sound.
LEMMA EnvironmentSound ==
  ASSUME Sound(chain), now \in Nat, Environment
  PROVE  Sound(chain')
<1>0. WellFormed(chain) /\ chain \in Chain
  BY DEF Sound, WellFormed
<1>1. \A i \in Index : chain.props[i] \in Proposal /\ SoundProposal(chain, i, chain.props[i])
  BY <1>0 DEF Chain, Sound
<1>2. CASE Tick
  BY <1>2 DEF Tick
<1>3. CASE ForeignCreate
  <2>1. PICK signer \in Address, payload \in ForeignPayload, index \in Index :
          /\ CanCreate(chain, signer, index, payload)
          /\ \E status \in {"active", "none"} :
               Interfere(Update(Created(chain, index, payload), index,
                                [Opened(payload) EXCEPT !.status = status]))
    BY <1>3 DEF ForeignCreate
  <2>2. PICK status \in {"active", "none"} :
          Interfere(Update(Created(chain, index, payload), index,
                           [Opened(payload) EXCEPT !.status = status]))
    BY <2>1
  <2> DEFINE created == Created(chain, index, payload)
             q == [Opened(payload) EXCEPT !.status = status]
  <2>3. payload \in Payload
    BY ForeignPayloadAssumption
  <2>4. Sound(created)
    BY <2>1, <2>3, CreatedSound
  <2>5. /\ q \in Proposal /\ q.status = status
        /\ q.approved = {} /\ q.rejected = {}
    BY <2>3, OpenedType DEF Proposal, Status
  <2>6. created.transactionIndex = index /\ index \in 1 .. index
    <3>1. index = chain.transactionIndex + 1 /\ chain.transactionIndex \in Nat
      BY <1>0, <2>1 DEF CanCreate, Chain
    <3>2. index \in 1 .. index
      BY <3>1
    <3> QED
      BY <1>0, <2>3, <3>2, CreatedFields
  <2>7. created.created
    BY <1>0, <2>1, <2>3, CreatedFields DEF CanCreate
  <2> HIDE DEF created, q
  <2>8. SoundProposal(created, index, q)
    <3>1. created \in Chain /\ Viable(created.masks, created.threshold)
      BY <2>4, <2>7 DEF Sound, WellFormed
    <3> QED
      BY <2>5, <3>1, NoVotesCount DEF SoundProposal
  <2>9. Sound(Update(created, index, q))
    BY <2>4, <2>5, <2>6, <2>8, UpdateSound
  <2> QED
    BY <2>2, <2>9 DEF Interfere, created, q
<1>4. CASE ForeignOpen
  <2>1. PICK signer \in Address, index \in Index :
          /\ chain.props[index].status = "none"
          /\ index \in 1 .. chain.transactionIndex
          /\ Interfere(Update(chain, index, [chain.props[index] EXCEPT !.status = "active"]))
    BY <1>4 DEF ForeignOpen
  <2> DEFINE p == chain.props[index]
             q == [p EXCEPT !.status = "active"]
  <2>2. /\ p \in Proposal /\ p.approved = {} /\ p.rejected = {}
    BY <1>1, <2>1 DEF SoundProposal
  <2>3. /\ q \in Proposal /\ q.status = "active" /\ q.approved = {} /\ q.rejected = {}
    <3> HIDE DEF p
    <3> QED BY <2>2 DEF Proposal, Status
  <2>4. chain.created
    BY <1>0, <2>1 DEF WellFormed
  <2> HIDE DEF q
  <2>5. SoundProposal(chain, index, q)
    <3>1. Viable(chain.masks, chain.threshold)
      BY <2>4 DEF Sound
    <3> QED
      BY <1>0, <2>3, <3>1, NoVotesCount DEF SoundProposal
  <2>6. Sound(Update(chain, index, q))
    BY <2>1, <2>3, <2>5, UpdateSound
  <2> QED
    BY <2>1, <2>6 DEF Interfere, q
<1>5. CASE ForeignCancel
  <2>1. PICK index \in Index :
          /\ chain.props[index].status = "approved"
          /\ Interfere(Update(chain, index,
               [chain.props[index] EXCEPT !.status = "cancelled", !.since = 0]))
    BY <1>5 DEF ForeignCancel
  <2> DEFINE p == chain.props[index]
             q == [p EXCEPT !.status = "cancelled", !.since = 0]
  <2>2. p \in Proposal /\ SoundProposal(chain, index, p)
    BY <1>1
  <2>3. /\ q \in Proposal /\ q.status = "cancelled"
        /\ q.approved = p.approved /\ q.rejected = p.rejected
    <3> HIDE DEF p
    <3> QED BY <2>2 DEF Proposal, Status
  <2>4. index \in 1 .. chain.transactionIndex
    BY <1>0, <2>1 DEF WellFormed
  <2> HIDE DEF q, p
  <2>5. SoundProposal(chain, index, q)
    BY <2>2, <2>3 DEF SoundProposal, VotesCount
  <2>6. Sound(Update(chain, index, q))
    BY <2>3, <2>4, <2>5, UpdateSound
  <2> QED
    BY <2>1, <2>6 DEF Interfere, q, p
<1>6. CASE ForeignClose
  <2>1. PICK index \in 1 .. chain.transactionIndex :
          \E q \in Remains(chain.props[index]) : Interfere(Update(chain, index, q))
    BY <1>6 DEF ForeignClose
  <2>2. PICK q \in Remains(chain.props[index]) : Interfere(Update(chain, index, q))
    BY <2>1
  <2> DEFINE p == chain.props[index]
  <2>3. index \in Index
    BY <1>0, <2>1, MaxIndexAssumption DEF WellFormed, Chain, Index
  <2>4. p \in Proposal /\ SoundProposal(chain, index, p)
    BY <1>1, <2>3
  <2>5. /\ q \in Proposal
        /\ \/ q.status = p.status /\ q.approved = p.approved /\ q.rejected = p.rejected
           \/ q.status = "none" /\ q.approved = {} /\ q.rejected = {}
    BY <2>4, RemainsType
  <2> HIDE DEF p
  <2>6. SoundProposal(chain, index, q)
    <3>1. CASE q.status = p.status /\ q.approved = p.approved /\ q.rejected = p.rejected
      BY <2>4, <3>1 DEF SoundProposal, VotesCount
    <3>2. CASE q.status = "none" /\ q.approved = {} /\ q.rejected = {}
      BY <3>2 DEF SoundProposal, VotesCount
    <3> QED
      BY <2>5, <3>1, <3>2
  <2>7. Sound(Update(chain, index, q))
    BY <2>1, <2>3, <2>5, <2>6, UpdateSound
  <2> QED
    BY <2>2, <2>7 DEF Interfere
<1>7. CASE ForeignCloseTables
  <2> DEFINE d == WithoutTables(chain)
  <2>1. chain' = d
    BY <1>7 DEF ForeignCloseTables, Interfere
  <2>2. /\ d \in Chain /\ d.created = chain.created
        /\ d.props = chain.props /\ d.masks = chain.masks
        /\ d.threshold = chain.threshold
        /\ d.transactionIndex = chain.transactionIndex
        /\ d.staleTransactionIndex = chain.staleTransactionIndex
    BY <1>0 DEF WithoutTables, Chain
  <2> HIDE DEF d
  <2>3. WellFormed(d)
    BY <1>0, <2>2 DEF WellFormed
  <2> QED
    BY <2>1, <2>2, <2>3 DEF Sound, SoundProposal, VotesCount, Cutoff
<1>8. CASE AuthorityReconfigures
  <2>1. PICK k \in Authority : chain.created /\ chain' = Imposed(chain, k)
    BY <1>8 DEF AuthorityReconfigures, Interfere
  <2> DEFINE d == Imposed(chain, k)
  <2>2. /\ k.masks \in [Address -> Mask] /\ k.threshold \in Nat /\ k.timeLock \in Nat
        /\ Viable(k.masks, k.threshold)
    BY AuthorityAssumption
  <2>3. /\ d \in Chain /\ d.created = chain.created
        /\ d.masks = k.masks /\ d.threshold = k.threshold
        /\ d.props = chain.props
        /\ d.transactionIndex = chain.transactionIndex
        /\ d.staleTransactionIndex = chain.transactionIndex
    BY <1>0, <2>2 DEF Imposed, Chain
  <2> HIDE DEF d
  <2>4. WellFormed(d)
    BY <1>0, <2>3 DEF WellFormed, Chain
  <2>5. d.created /\ Viable(d.masks, d.threshold)
    BY <2>1, <2>2, <2>3
  <2>6. Sound(d)
    BY <2>1, <2>3, <2>4, <2>5, ReconfigurationSound
  <2> QED
    BY <2>1, <2>6 DEF d
<1>9. CASE ForeignExecute
  <2>1. PICK signer \in Address, index \in Index :
          CanExecute(chain, signer, index, now) /\ chain' = Executed(chain, index)
    BY <1>9 DEF ForeignExecute, Interfere
  <2> QED
    BY <2>1, ExecutedSound
<1> QED
  BY <1>2, <1>3, <1>4, <1>5, <1>6, <1>7, <1>8, <1>9 DEF Environment

\* While a proposal is live its votes are those of current voters, nobody stands
\* on both sides, and the status says on which side of the threshold it is: the
\* count approveProposal compares with the threshold is never out of date.
THEOREM VotesAlwaysCount == Spec => []LiveVotesCount
<1>1. Init => Sound(chain)
  <2> SUFFICES ASSUME Init PROVE Sound(chain)
    OBVIOUS
  <2>1. /\ WellFormed(chain)
        /\ chain.created => Viable(chain.masks, chain.threshold)
        /\ \A i \in Index : /\ chain.props[i].status \in {"none", "active"}
                            /\ chain.props[i].approved = {} /\ chain.props[i].rejected = {}
    BY InitialChainAssumption DEF Init
  <2>2. ASSUME NEW i \in Index PROVE SoundProposal(chain, i, chain.props[i])
    <3>1. CASE chain.created
      BY <2>1, <3>1, NoVotesCount DEF SoundProposal, WellFormed
    <3>2. CASE ~chain.created
      <4>1. chain.props[i].status = "none"
        BY <2>1, <3>2 DEF WellFormed
      <4>2. VotesCount(chain, chain.props[i])
        BY <2>1, <4>1 DEF VotesCount
      <4> QED
        BY <2>1, <4>2 DEF SoundProposal
    <3> QED
      BY <3>1, <3>2
  <2> QED
    BY <2>1, <2>2 DEF Sound
<1>2. TypeOK /\ Sound(chain) /\ [Next]_vars => Sound(chain)'
  <2> SUFFICES ASSUME TypeOK, Sound(chain), [Next]_vars PROVE Sound(chain')
    OBVIOUS
  <2>1. ASSUME NEW s \in Slot, Submit(s) \/ Drop(s) PROVE Sound(chain')
    BY <2>1 DEF Submit, Drop
  <2>2. ASSUME NEW s \in Slot, Land(s) PROVE Sound(chain')
    <3>1. /\ flight[s].tx \in Transaction
          /\ Accepts(chain, flight[s].tx, now)
          /\ chain' = Outcome(chain, flight[s].tx, now)
          /\ now \in Nat
      BY <2>2, LandEvolves, MaxTimeAssumption DEF TypeOK
    <3> QED
      BY <3>1, OutcomeSound
  <2>3. CASE Environment
    BY <2>3, EnvironmentSound, MaxTimeAssumption DEF TypeOK
  <2>4. CASE UNCHANGED vars
    BY <2>4 DEF vars
  <2> QED
    BY <2>1, <2>2, <2>3, <2>4 DEF Next
<1>3. Sound(chain) => LiveVotesCount
  BY DEF Sound, SoundProposal, LiveVotesCount
<1> QED
  BY <1>1, <1>2, <1>3, TypeCorrect, PTL DEF Spec

(***************************************************************************)
(*                                                                         *)
(* MultisigAccount implements ProposalLifecycle.                           *)
(*                                                                         *)
(***************************************************************************)

(***************************************************************************)
(* What an instruction leaves, in the terms of the abstract specification. *)
(***************************************************************************)
SameMultisig(c, d) == d.created = c.created /\ d.controlled = c.controlled

SameRules(c, d) ==
  /\ d.masks = c.masks
  /\ d.threshold = c.threshold
  /\ d.staleTransactionIndex = c.staleTransactionIndex

SameAt(c, d, i) ==
  Stage(d, i) = Stage(c, i) /\ d.props[i].payload = c.props[i].payload

OnlyAt(c, d, index) == \A i \in Index \ {index} : SameAt(c, d, i)

\* The proposal d holds at index has run on the members of c.
Ran(c, d, index) ==
  LET payload == d.props[index].payload IN
  /\ Stage(d, index) = "executed"
  /\ IF IsConfig(payload)
     THEN /\ d.masks = Reconfigured(c.masks, payload.change)
          /\ d.threshold = NewThreshold(c.threshold, payload.change)
          /\ d.staleTransactionIndex = d.transactionIndex
     ELSE SameRules(c, d)

\* Stages are read from the account and the indexes given out.
LEMMA SameStage ==
  ASSUME NEW c, NEW d, NEW i, d.props[i] = c.props[i], d.transactionIndex = c.transactionIndex
  PROVE  SameAt(c, d, i)
BY DEF SameAt, Stage

\* An execution the program accepts runs the proposal and touches no other.
LEMMA ExecutedRan ==
  ASSUME NEW c, WellFormed(c), NEW signer \in Address, NEW index \in Index, NEW t \in Nat,
         CanExecute(c, signer, index, t)
  PROVE  LET d == Executed(c, index) IN
         /\ d \in Chain
         /\ SameMultisig(c, d)
         /\ OnlyAt(c, d, index)
         /\ d.transactionIndex = c.transactionIndex
         /\ d.props[index].payload = c.props[index].payload
         /\ d.props[index].approved = c.props[index].approved
         /\ d.props[index].status = "executed"
         /\ Ran(c, d, index)
<1> DEFINE p == c.props[index]
           q == [p EXCEPT !.status = "executed", !.since = 0]
           done == Update(c, index, q)
           d == Executed(c, index)
<1>0. c \in Chain /\ p \in Proposal /\ p.payload.change \in Change
  BY DEF WellFormed, Chain, Proposal, Payload
<1>1. /\ q \in Proposal /\ q.payload = p.payload /\ q.status = "executed"
      /\ q.approved = p.approved /\ q.open = p.open
  <2> HIDE DEF p
  <2> QED BY <1>0 DEF Proposal, Status
<1>2. p.open
  BY DEF CanExecute
<1>3. d = IF IsConfig(p.payload) THEN Applied(done, p.payload.change) ELSE done
  BY DEF Executed
<1>4. d \in Chain
  BY ExecutedEvolves DEF Evolves, WellFormed
<1> HIDE DEF q
<1>5. /\ done \in Chain
      /\ done.props[index] = q
      /\ \A i \in Index \ {index} : done.props[i] = c.props[i]
      /\ done.created = c.created /\ done.controlled = c.controlled
      /\ done.masks = c.masks /\ done.threshold = c.threshold
      /\ done.transactionIndex = c.transactionIndex
      /\ done.staleTransactionIndex = c.staleTransactionIndex
  BY <1>0, <1>1, UpdateFields
<1> HIDE DEF done, p, d
<1>6. CASE ~IsConfig(p.payload)
  <2>1. d = done
    BY <1>3, <1>6
  <2>2. OnlyAt(c, d, index)
    BY <1>5, <2>1, SameStage DEF OnlyAt
  <2>3. Stage(d, index) = "executed"
    BY <1>1, <1>2, <1>5, <2>1 DEF Stage
  <2> QED
    BY <1>1, <1>4, <1>5, <1>6, <2>1, <2>2, <2>3
    DEF SameMultisig, Ran, SameRules, d, p
<1>7. CASE IsConfig(p.payload)
  <2> DEFINE masks == Reconfigured(done.masks, p.payload.change)
             threshold == NewThreshold(done.threshold, p.payload.change)
  <2>1. masks = Reconfigured(c.masks, p.payload.change)
    BY <1>5
  <2>2. threshold = NewThreshold(c.threshold, p.payload.change)
    BY <1>5
  <2>3. d = [done EXCEPT !.masks = masks, !.threshold = threshold,
                         !.staleTransactionIndex = done.transactionIndex]
    BY <1>3, <1>7 DEF Applied
  <2> HIDE DEF masks, threshold
  <2>4. /\ d.created = done.created /\ d.controlled = done.controlled
        /\ d.masks = masks /\ d.threshold = threshold
        /\ d.transactionIndex = done.transactionIndex
        /\ d.staleTransactionIndex = done.transactionIndex
        /\ d.props = done.props
    BY <1>5, <2>3 DEF Chain
  <2>5. OnlyAt(c, d, index)
    BY <1>5, <2>4, SameStage DEF OnlyAt
  <2>6. Stage(d, index) = "executed"
    BY <1>1, <1>2, <1>5, <2>4 DEF Stage
  <2> QED
    BY <1>1, <1>4, <1>5, <1>7, <2>1, <2>2, <2>4, <2>5, <2>6
    DEF SameMultisig, Ran, d, p
<1> QED
  BY <1>6, <1>7 DEF d

(***************************************************************************)
(* From the accounts to the variables of the abstract specification.       *)
(***************************************************************************)

\* A step that touches one proposal moves one stage and one payload.
LEMMA OneStage ==
  ASSUME NEW index \in Index, OnlyAt(chain, chain', index)
  PROVE  /\ [i \in Index |-> Stage(chain', i)]
              = [[i \in Index |-> Stage(chain, i)]
                   EXCEPT ![index] = Stage(chain', index)]
         /\ [i \in Index |-> chain'.props[i].payload]
              = [[i \in Index |-> chain.props[i].payload]
                   EXCEPT ![index] = chain'.props[index].payload]
BY DEF OnlyAt, SameAt, Stage

\* A step after which every proposal has its stage and its payload.
LEMMA NoStage ==
  ASSUME \A i \in Index : SameAt(chain, chain', i)
  PROVE  /\ [i \in Index |-> Stage(chain', i)] = [i \in Index |-> Stage(chain, i)]
         /\ [i \in Index |-> chain'.props[i].payload] = [i \in Index |-> chain.props[i].payload]
BY DEF SameAt, Stage

\* The abstract specification has its own copy of the program's operators.
LEMMA SameOperators ==
  /\ Lifecycle!Index = Index /\ Lifecycle!Payload = Payload
  /\ Lifecycle!Mask = Mask
  /\ \A masks, change : Lifecycle!Reconfigured(masks, change) = Reconfigured(masks, change)
  /\ \A threshold, change :
       Lifecycle!NewThreshold(threshold, change) = NewThreshold(threshold, change)
  /\ \A content : Lifecycle!IsConfig(content) = IsConfig(content)
BY DEF Lifecycle!Index, Index, Lifecycle!Payload, Payload, Lifecycle!Mask, Mask,
       Lifecycle!Permission, Permission, Lifecycle!Kind, Kind, Lifecycle!Change, Change,
       Lifecycle!Keep, Keep, Lifecycle!Reconfigured, Reconfigured,
       Lifecycle!NewThreshold, NewThreshold, Lifecycle!IsConfig, IsConfig

\* A step that leaves the rules, the indexes, the stages and the payloads.
LEMMA Stutters ==
  ASSUME SameMultisig(chain, chain'), SameRules(chain, chain'),
         chain'.transactionIndex = chain.transactionIndex,
         \A i \in Index : SameAt(chain, chain', i)
  PROVE  UNCHANGED Lifecycle!vars
BY NoStage DEF SameMultisig, SameRules, Lifecycle!vars

\* A proposal has appeared at the next index.
LEMMA Proposes ==
  ASSUME NEW index \in Index, chain.created, index = chain.transactionIndex + 1,
         chain'.transactionIndex = index, chain'.props[index].payload \in Payload,
         SameMultisig(chain, chain'), SameRules(chain, chain'), OnlyAt(chain, chain', index),
         Stage(chain', index) \in {"none", "active"}
  PROVE  Lifecycle!Propose(index)
BY OneStage, SameOperators
DEF Lifecycle!Propose, Lifecycle!GivesOut, Lifecycle!Moves, SameMultisig, SameRules

\* A proposal has appeared at the next index and has run.
LEMMA ProposesAndExecutes ==
  ASSUME NEW index \in Index, chain.created, index = chain.transactionIndex + 1,
         chain'.transactionIndex = index, chain'.props[index].payload \in Payload,
         SameMultisig(chain, chain'), OnlyAt(chain, chain', index),
         Ran(chain, chain', index)
  PROVE  Lifecycle!ProposeAndExecute(index)
<1>1. Lifecycle!GivesOut(index)
  BY OneStage, SameOperators DEF Lifecycle!GivesOut, SameMultisig
<1>2. Lifecycle!Moves(index, "executed")
  BY OneStage, SameOperators DEF Lifecycle!Moves, Ran
<1>3. Lifecycle!Runs(chain'.props[index].payload, index)
  BY SameOperators DEF Lifecycle!Runs, Ran, SameRules
<1> QED
  BY <1>1, <1>2, <1>3, SameOperators DEF Lifecycle!ProposeAndExecute

\* One proposal has moved to another stage; nothing else has.
MovesOnly(index) ==
  /\ SameMultisig(chain, chain')
  /\ SameRules(chain, chain')
  /\ chain'.transactionIndex = chain.transactionIndex
  /\ OnlyAt(chain, chain', index)
  /\ chain'.props[index].payload = chain.props[index].payload

\* In the terms of the abstract specification.
LEMMA MovesStage ==
  ASSUME NEW index \in Index, MovesOnly(index)
  PROVE  /\ [i \in Index |-> Stage(chain', i)]
              = [[i \in Index |-> Stage(chain, i)]
                   EXCEPT ![index] = Stage(chain', index)]
         /\ [i \in Index |-> chain'.props[i].payload] = [i \in Index |-> chain.props[i].payload]
BY OneStage DEF MovesOnly

\* A proposal account has been opened for a transaction that had none.
LEMMA Opens ==
  ASSUME NEW index \in Index, MovesOnly(index), Stage(chain, index) = "none",
         index \in chain.staleTransactionIndex + 1 .. chain.transactionIndex,
         Stage(chain', index) = "active"
  PROVE  Lifecycle!Open(index)
BY MovesStage, SameOperators
DEF Lifecycle!Open, Lifecycle!Moves, MovesOnly, SameMultisig, SameRules

\* A vote has left the proposal open or decided it.
LEMMA Votes ==
  ASSUME NEW index \in Index, MovesOnly(index), Stage(chain, index) = "active",
         index > chain.staleTransactionIndex,
         Stage(chain', index) \in {"active", "approved", "rejected"}
  PROVE  Lifecycle!Decide(index) \/ UNCHANGED Lifecycle!vars
<1>1. CASE Stage(chain', index) = "active"
  <2>1. \A i \in Index : SameAt(chain, chain', i)
    BY <1>1 DEF MovesOnly, OnlyAt, SameAt
  <2> QED
    BY <2>1, Stutters DEF MovesOnly
<1>2. CASE Stage(chain', index) \in {"approved", "rejected"}
  BY <1>2, MovesStage, SameOperators
  DEF Lifecycle!Decide, Lifecycle!Moves, MovesOnly, SameMultisig, SameRules
<1> QED
  BY <1>1, <1>2

\* An approved proposal has been cancelled.
LEMMA Cancels ==
  ASSUME NEW index \in Index, MovesOnly(index), Stage(chain, index) = "approved",
         Stage(chain', index) = "cancelled"
  PROVE  Lifecycle!Cancel(index)
BY MovesStage, SameOperators
DEF Lifecycle!Cancel, Lifecycle!Moves, MovesOnly, SameMultisig, SameRules

\* The transaction of a proposal that is settled or stale has been closed.
LEMMA Closes ==
  ASSUME NEW index \in Index, MovesOnly(index),
         \/ Stage(chain, index) \in {"rejected", "executed", "cancelled"}
         \/ index \in 1 .. chain.staleTransactionIndex,
         Stage(chain', index) = "closed"
  PROVE  Lifecycle!Close(index)
BY MovesStage, SameOperators
DEF Lifecycle!Close, Lifecycle!Settled, Lifecycle!Moves, MovesOnly, SameMultisig, SameRules

\* What happens to a proposal without its transaction is no step of its life.
LEMMA ClosedStutters ==
  ASSUME NEW index \in Index, MovesOnly(index),
         Stage(chain, index) = "closed", Stage(chain', index) = "closed"
  PROVE  UNCHANGED Lifecycle!vars
<1>1. \A i \in Index : SameAt(chain, chain', i)
  BY DEF MovesOnly, OnlyAt, SameAt
<1> QED
  BY <1>1, Stutters DEF MovesOnly

\* A proposal has run, approved before or in the same transaction.
LEMMA Executes ==
  ASSUME NEW index \in Index, SameMultisig(chain, chain'), OnlyAt(chain, chain', index),
         chain'.transactionIndex = chain.transactionIndex,
         chain'.props[index].payload = chain.props[index].payload,
         Ran(chain, chain', index),
         \/ Stage(chain, index) = "approved"
         \/ Stage(chain, index) = "active" /\ index > chain.staleTransactionIndex,
         IsConfig(chain.props[index].payload) => index > chain.staleTransactionIndex
  PROVE  Lifecycle!Execute(index)
<1>1. /\ [i \in Index |-> Stage(chain', i)]
           = [[i \in Index |-> Stage(chain, i)]
                EXCEPT ![index] = Stage(chain', index)]
      /\ [i \in Index |-> chain'.props[i].payload] = [i \in Index |-> chain.props[i].payload]
  BY OneStage
<1>2. Lifecycle!Moves(index, "executed")
  BY <1>1, SameOperators DEF Lifecycle!Moves, Ran
<1>3. Lifecycle!Runs(chain.props[index].payload, chain.transactionIndex)
  BY SameOperators DEF Lifecycle!Runs, Ran, SameRules
<1> QED
  BY <1>1, <1>2, <1>3, SameOperators DEF Lifecycle!Execute, SameMultisig

(***************************************************************************)
(* Every landing is a step in the life of one proposal.                    *)
(***************************************************************************)

\* A write to one proposal that keeps its payload moves at most its stage.
LEMMA UpdateMoves ==
  ASSUME chain \in Chain, NEW index \in Index, NEW q \in Proposal,
         q.payload = chain.props[index].payload, chain' = Update(chain, index, q)
  PROVE  MovesOnly(index) /\ chain'.props[index] = q
BY UpdateFields, SameStage DEF MovesOnly, SameMultisig, SameRules, OnlyAt

\* An approval moves one proposal, to where the confirmations put it.
LEMMA ApprovedMoves ==
  ASSUME NEW c, WellFormed(c), NEW signer \in Address, NEW index \in Index, NEW t \in Nat
  PROVE  LET d == Approved(c, signer, index, t) IN
         /\ d \in Chain
         /\ SameMultisig(c, d) /\ SameRules(c, d) /\ OnlyAt(c, d, index)
         /\ d.transactionIndex = c.transactionIndex
         /\ d.props[index].payload = c.props[index].payload
         /\ d.props[index].approved = c.props[index].approved \cup {signer}
         /\ d.props[index].status \in {"active", "approved"}
         /\ d.props[index].open = c.props[index].open
<1>1. PICK q \in Proposal : /\ Approved(c, signer, index, t) = Update(c, index, q)
                            /\ q.payload = c.props[index].payload
                            /\ q.approved = c.props[index].approved \cup {signer}
                            /\ q.status \in {"active", "approved"}
                            /\ q.open = c.props[index].open
  BY ApprovedProposal DEF WellFormed
<1> QED
  BY <1>1, UpdateFields, SameStage DEF WellFormed, SameMultisig, SameRules, OnlyAt

\* A creation gives the next index a stage, and none other another one.
LEMMA CreatedMoves ==
  ASSUME NEW c \in Chain, NEW index \in Index, NEW payload \in Payload,
         index = c.transactionIndex + 1
  PROVE  LET d == Created(c, index, payload) IN
         /\ SameMultisig(c, d) /\ SameRules(c, d) /\ OnlyAt(c, d, index)
         /\ d.transactionIndex = index
         /\ d.props[index] = Opened(payload)
<1> DEFINE d == Created(c, index, payload)
<1>1. /\ SameMultisig(c, d) /\ SameRules(c, d)
      /\ d.transactionIndex = index
      /\ d.props[index] = Opened(payload)
      /\ \A i \in Index \ {index} : d.props[i] = c.props[i]
  BY CreatedFields, CreatedProposals DEF SameMultisig, SameRules
<1> HIDE DEF d
<1>2. ASSUME NEW i \in Index \ {index} PROVE SameAt(c, d, i)
  <2>1. c.transactionIndex \in Nat /\ i \in Int
    BY MaxIndexAssumption DEF Chain, Index
  <2>2. i \in 1 .. c.transactionIndex <=> i \in 1 .. d.transactionIndex
    BY <1>1, <1>2, <2>1
  <2> QED
    BY <1>1, <1>2, <2>2 DEF SameAt, Stage
<1> QED
  BY <1>1, <1>2 DEF OnlyAt, d

\* A vote, for the life of its proposal, which is over if its transaction is gone.
LEMMA VoteLives ==
  ASSUME WellFormed(chain), NEW index \in Index, MovesOnly(index),
         chain.props[index].status = "active", index > chain.staleTransactionIndex,
         chain'.props[index].open = chain.props[index].open,
         chain'.props[index].status \in {"active", "approved", "rejected"}
  PROVE  Lifecycle!Decide(index) \/ UNCHANGED Lifecycle!vars
<1>1. index \in 1 .. chain.transactionIndex
  BY DEF WellFormed
<1>2. CASE chain.props[index].open
  <2>1. /\ Stage(chain, index) = "active"
        /\ Stage(chain', index) \in {"active", "approved", "rejected"}
    BY <1>2 DEF Stage
  <2> QED
    BY <2>1, Votes
<1>3. CASE ~chain.props[index].open
  <2>1. Stage(chain, index) = "closed" /\ Stage(chain', index) = "closed"
    BY <1>1, <1>3 DEF Stage, MovesOnly
  <2> QED
    BY <2>1, ClosedStutters
<1> QED
  BY <1>2, <1>3

\* An execution, by a call or by another tool.
LEMMA ExecutionLives ==
  ASSUME TypeOK, NEW signer \in Address, NEW index \in Index,
         CanExecute(chain, signer, index, now), chain' = Executed(chain, index)
  PROVE  Lifecycle!Execute(index)
<1>1. now \in Nat /\ WellFormed(chain)
  BY MaxTimeAssumption DEF TypeOK
<1>2. /\ Stage(chain, index) = "approved"
      /\ IsConfig(chain.props[index].payload) => index > chain.staleTransactionIndex
  BY DEF CanExecute, Stage
<1> QED
  BY <1>1, <1>2, ExecutedRan, Executes

\* A deployment creates the multisig and leaves every proposal alone.
LEMMA LandsDeployment ==
  ASSUME TypeOK, NEW tx \in Transaction, tx.op = "deploy", Accepts(chain, tx, now),
         chain' = Outcome(chain, tx, now)
  PROVE  Lifecycle!Deploy
<1>1. chain' = [chain EXCEPT !.created = TRUE, !.masks = tx.masks, !.threshold = tx.threshold]
  BY DEF Outcome, Deployed
<1>2. tx.masks \in [Address -> Mask] /\ tx.threshold \in Nat /\ chain \in Chain
  BY DEF Transaction, TypeOK, WellFormed
<1>3. /\ chain'.created = TRUE /\ chain'.controlled = chain.controlled
      /\ chain'.masks = tx.masks /\ chain'.threshold = tx.threshold
      /\ chain'.transactionIndex = chain.transactionIndex
      /\ chain'.staleTransactionIndex = chain.staleTransactionIndex
      /\ chain'.props = chain.props
  BY <1>1, <1>2 DEF Chain
<1>4. \A i \in Index : SameAt(chain, chain', i)
  BY <1>3, SameStage
<1>5. ~chain.created
  BY DEF Accepts, CanDeploy
<1> QED
  BY <1>2, <1>3, <1>4, <1>5, NoStage, SameOperators DEF Lifecycle!Deploy, Lifecycle!Config

\* A creation proposes, and executes at once if it runs.
LEMMA LandsCreation ==
  ASSUME TypeOK, NEW tx \in Transaction, tx.op = "create", Accepts(chain, tx, now),
         chain' = Outcome(chain, tx, now)
  PROVE  Lifecycle!Next
<1> DEFINE i == tx.index
           created == Created(chain, i, tx.payload)
           voted == Approved(created, tx.signer, i, now)
<1>0. /\ tx.signer \in Address /\ i \in Index /\ tx.payload \in Payload
      /\ now \in Nat /\ chain \in Chain /\ WellFormed(chain)
  BY MaxTimeAssumption DEF Transaction, TypeOK, WellFormed
<1>1. /\ CanCreate(chain, tx.signer, i, tx.payload)
      /\ tx.run => CanApprove(created, tx.signer, i) /\ CanExecute(voted, tx.signer, i, now)
  BY DEF Accepts
<1>2. chain.created /\ i = chain.transactionIndex + 1
  BY <1>1 DEF CanCreate
<1>3. WellFormed(created)
  BY <1>0, <1>1, CreatedWellFormed
<1>4. /\ SameMultisig(chain, created) /\ SameRules(chain, created)
      /\ OnlyAt(chain, created, i)
      /\ created.transactionIndex = i
      /\ created.props[i].payload = tx.payload
      /\ Stage(created, i) = "active"
  <2>1. created.props[i] = Opened(tx.payload)
    BY <1>0, <1>2, CreatedMoves
  <2>2. Stage(created, i) = "active" /\ created.props[i].payload = tx.payload
    BY <1>0, <2>1, OpenedType DEF Stage
  <2> QED
    BY <1>0, <1>2, <2>2, CreatedMoves
<1>5. CASE ~tx.run
  <2>1. chain' = created
    BY <1>5 DEF Outcome
  <2> HIDE DEF created
  <2>2. Lifecycle!Propose(i)
    BY <1>0, <1>2, <1>4, <2>1, Proposes
  <2> QED
    BY <1>0, <2>2, SameOperators DEF Lifecycle!Next
<1>6. CASE tx.run
  <2>1. chain' = Executed(voted, i)
    BY <1>6 DEF Outcome
  <2> HIDE DEF created
  <2>2. /\ voted \in Chain
        /\ SameMultisig(created, voted) /\ SameRules(created, voted)
        /\ OnlyAt(created, voted, i)
        /\ voted.transactionIndex = i
        /\ voted.props[i].payload = tx.payload
    BY <1>0, <1>3, <1>4, ApprovedMoves
  <2>3. WellFormed(voted)
    BY <1>0, <1>1, <1>3, <1>6, ApprovedEvolves DEF Evolves
  <2> HIDE DEF voted
  <2>4. /\ SameMultisig(voted, chain') /\ OnlyAt(voted, chain', i)
        /\ chain'.transactionIndex = i
        /\ chain'.props[i].payload = tx.payload
        /\ Ran(voted, chain', i)
    BY <1>0, <1>1, <1>6, <2>1, <2>2, <2>3, ExecutedRan
  <2>5. SameMultisig(chain, chain') /\ OnlyAt(chain, chain', i)
    BY <1>4, <2>2, <2>4 DEF SameMultisig, OnlyAt, SameAt
  <2>6. Ran(chain, chain', i)
    BY <1>4, <2>2, <2>4 DEF Ran, SameRules
  <2>7. Lifecycle!ProposeAndExecute(i)
    BY <1>0, <1>2, <2>4, <2>5, <2>6, ProposesAndExecutes
  <2> QED
    BY <1>0, <2>7, SameOperators DEF Lifecycle!Next
<1> QED
  BY <1>5, <1>6

\* An approval leaves its proposal open or approved, or runs it.
LEMMA LandsApproval ==
  ASSUME TypeOK, NEW tx \in Transaction, tx.op = "approve", Accepts(chain, tx, now),
         chain' = Outcome(chain, tx, now)
  PROVE  Lifecycle!Next \/ UNCHANGED Lifecycle!vars
<1> DEFINE i == tx.index
           voted == Approved(chain, tx.signer, i, now)
<1>0. /\ tx.signer \in Address /\ i \in Index
      /\ now \in Nat /\ chain \in Chain /\ WellFormed(chain)
  BY MaxTimeAssumption DEF Transaction, TypeOK, WellFormed
<1>1. /\ CanApprove(chain, tx.signer, i)
      /\ tx.run => CanExecute(voted, tx.signer, i, now)
  BY DEF Accepts
<1>2. chain.props[i].status = "active" /\ i > chain.staleTransactionIndex
  BY <1>1 DEF CanApprove, CanVote
<1>3. /\ voted \in Chain /\ WellFormed(voted)
      /\ SameMultisig(chain, voted) /\ SameRules(chain, voted) /\ OnlyAt(chain, voted, i)
      /\ voted.transactionIndex = chain.transactionIndex
      /\ voted.props[i].payload = chain.props[i].payload
      /\ voted.props[i].status \in {"active", "approved"}
      /\ voted.props[i].open = chain.props[i].open
  BY <1>0, <1>1, ApprovedMoves, ApprovedEvolves DEF Evolves
<1>4. chain' = IF tx.run THEN Executed(voted, i) ELSE voted
  BY DEF Outcome
<1> HIDE DEF voted
<1>5. CASE ~tx.run
  <2>1. MovesOnly(i)
    BY <1>3, <1>4, <1>5 DEF MovesOnly
  <2>2. Lifecycle!Decide(i) \/ UNCHANGED Lifecycle!vars
    BY <1>0, <1>2, <1>3, <1>4, <1>5, <2>1, VoteLives
  <2> QED
    BY <1>0, <2>2, SameOperators DEF Lifecycle!Next
<1>6. CASE tx.run
  <2>1. /\ SameMultisig(voted, chain') /\ OnlyAt(voted, chain', i)
        /\ chain'.transactionIndex = voted.transactionIndex
        /\ chain'.props[i].payload = voted.props[i].payload
        /\ Ran(voted, chain', i)
    BY <1>0, <1>1, <1>3, <1>4, <1>6, ExecutedRan
  <2>2. SameMultisig(chain, chain') /\ OnlyAt(chain, chain', i)
    BY <1>3, <2>1 DEF SameMultisig, OnlyAt, SameAt
  <2>3. Ran(chain, chain', i)
    BY <1>3, <2>1 DEF Ran, SameRules
  <2>4. Stage(chain, i) = "active"
    BY <1>1, <1>2, <1>3, <1>6 DEF CanExecute, Stage
  <2>5. Lifecycle!Execute(i)
    BY <1>0, <1>2, <1>3, <2>1, <2>2, <2>3, <2>4, Executes
  <2> QED
    BY <1>0, <2>5, SameOperators DEF Lifecycle!Next
<1> QED
  BY <1>5, <1>6

\* A rejection leaves its proposal open or rejected.
LEMMA LandsRejection ==
  ASSUME TypeOK, NEW tx \in Transaction, tx.op = "reject", Accepts(chain, tx, now),
         chain' = Outcome(chain, tx, now)
  PROVE  Lifecycle!Next \/ UNCHANGED Lifecycle!vars
<1> DEFINE i == tx.index
<1>0. tx.signer \in Address /\ i \in Index /\ chain \in Chain /\ WellFormed(chain)
  BY DEF Transaction, TypeOK, WellFormed
<1>1. chain.props[i].status = "active" /\ i > chain.staleTransactionIndex
  BY DEF Accepts, CanReject, CanVote
<1>2. PICK q \in Proposal : /\ Rejected(chain, tx.signer, i) = Update(chain, i, q)
                            /\ q.payload = chain.props[i].payload
                            /\ q.status \in {"active", "rejected"}
                            /\ q.open = chain.props[i].open
  BY <1>0, RejectedProposal
<1>3. chain' = Update(chain, i, q)
  BY <1>2 DEF Outcome
<1>4. MovesOnly(i) /\ chain'.props[i] = q
  BY <1>0, <1>2, <1>3, UpdateMoves
<1>5. Lifecycle!Decide(i) \/ UNCHANGED Lifecycle!vars
  BY <1>0, <1>1, <1>2, <1>4, VoteLives
<1> QED
  BY <1>0, <1>5, SameOperators DEF Lifecycle!Next

\* An execution runs an approved proposal.
LEMMA LandsExecution ==
  ASSUME TypeOK, NEW tx \in Transaction, tx.op = "execute", Accepts(chain, tx, now),
         chain' = Outcome(chain, tx, now)
  PROVE  Lifecycle!Next
<1> DEFINE i == tx.index
<1>1. tx.signer \in Address /\ i \in Index
  BY DEF Transaction
<1>2. CanExecute(chain, tx.signer, i, now) /\ chain' = Executed(chain, i)
  BY DEF Accepts, Outcome
<1>3. Lifecycle!Execute(i)
  BY <1>1, <1>2, ExecutionLives
<1> QED
  BY <1>1, <1>3, SameOperators DEF Lifecycle!Next

\* Whatever lands is a step of the life of the proposals.
LEMMA LandLives ==
  ASSUME TypeOK, NEW s \in Slot, Land(s)
  PROVE  Lifecycle!Next \/ UNCHANGED Lifecycle!vars
<1> DEFINE tx == flight[s].tx
<1>1. tx \in Transaction /\ Accepts(chain, tx, now) /\ chain' = Outcome(chain, tx, now)
  BY LandEvolves
<1>2. tx.op \in {"deploy", "create", "approve", "reject", "execute"}
  BY <1>1 DEF Transaction, Op
<1> HIDE DEF tx
<1>3. tx.op = "deploy" => Lifecycle!Deploy
  BY <1>1, LandsDeployment
<1>4. tx.op \in {"create", "approve", "reject", "execute"}
        => Lifecycle!Next \/ UNCHANGED Lifecycle!vars
  BY <1>1, LandsCreation, LandsApproval, LandsRejection, LandsExecution
<1> QED
  BY <1>2, <1>3, <1>4 DEF Lifecycle!Next

(***************************************************************************)
(* And so is whatever others do.                                           *)
(***************************************************************************)

\* Others create a transaction, with its proposal or without.
LEMMA ForeignCreateLives ==
  ASSUME TypeOK, ForeignCreate
  PROVE  Lifecycle!Next
<1>1. PICK signer \in Address, payload \in ForeignPayload, index \in Index :
        /\ CanCreate(chain, signer, index, payload)
        /\ \E status \in {"active", "none"} :
             Interfere(Update(Created(chain, index, payload), index,
                              [Opened(payload) EXCEPT !.status = status]))
  BY DEF ForeignCreate
<1>2. PICK status \in {"active", "none"} :
        chain' = Update(Created(chain, index, payload), index,
                        [Opened(payload) EXCEPT !.status = status])
  BY <1>1 DEF Interfere
<1> DEFINE created == Created(chain, index, payload)
           q == [Opened(payload) EXCEPT !.status = status]
<1>3. payload \in Payload /\ chain \in Chain
  BY ForeignPayloadAssumption DEF TypeOK, WellFormed
<1>4. q \in Proposal /\ q.payload = payload /\ q.status = status /\ q.open
  BY <1>3, OpenedType DEF Proposal, Status
<1>5. chain.created /\ index = chain.transactionIndex + 1
  BY <1>1 DEF CanCreate
<1>6. /\ created \in Chain
      /\ SameMultisig(chain, created) /\ SameRules(chain, created)
      /\ OnlyAt(chain, created, index)
      /\ created.transactionIndex = index
  BY <1>3, <1>5, CreatedFields, CreatedMoves
<1>7. chain' = Update(created, index, q)
  BY <1>2
<1> HIDE DEF created, q
<1>8. /\ SameMultisig(chain, chain') /\ SameRules(chain, chain')
      /\ OnlyAt(chain, chain', index)
      /\ chain'.transactionIndex = index
      /\ chain'.props[index].payload \in Payload
      /\ Stage(chain', index) \in {"none", "active"}
  <2>1. /\ SameMultisig(created, chain') /\ SameRules(created, chain')
        /\ chain'.transactionIndex = index
        /\ chain'.props[index] = q
        /\ OnlyAt(created, chain', index)
    BY <1>4, <1>6, <1>7, UpdateFields, SameStage DEF SameMultisig, SameRules, OnlyAt
  <2>2. Stage(chain', index) \in {"none", "active"}
    BY <1>4, <2>1 DEF Stage
  <2> QED
    BY <1>3, <1>4, <1>6, <2>1, <2>2 DEF SameMultisig, SameRules, OnlyAt, SameAt
<1>9. Lifecycle!Propose(index)
  BY <1>5, <1>8, Proposes
<1> QED
  BY <1>9, SameOperators DEF Lifecycle!Next

\* Others open a proposal.
LEMMA ForeignOpenLives ==
  ASSUME TypeOK, ForeignOpen
  PROVE  Lifecycle!Next \/ UNCHANGED Lifecycle!vars
<1>1. PICK index \in Index :
        /\ chain.props[index].status = "none"
        /\ index \in 1 .. chain.transactionIndex
        /\ index > chain.staleTransactionIndex
        /\ chain' = Update(chain, index, [chain.props[index] EXCEPT !.status = "active"])
  BY DEF ForeignOpen, Interfere
<1> DEFINE p == chain.props[index]
           q == [p EXCEPT !.status = "active"]
<1>2. /\ chain \in Chain /\ p \in Proposal
      /\ chain.transactionIndex \in Nat /\ chain.staleTransactionIndex \in Nat
      /\ index \in Nat
  BY MaxIndexAssumption DEF TypeOK, WellFormed, Chain, Index
<1>3. q \in Proposal /\ q.payload = p.payload /\ q.status = "active" /\ q.open = p.open
  <2> HIDE DEF p
  <2> QED BY <1>2 DEF Proposal, Status
<1> HIDE DEF q
<1>4. MovesOnly(index) /\ chain'.props[index] = q
  BY <1>1, <1>2, <1>3, UpdateMoves DEF q
<1>5. CASE p.open
  <2>1. Stage(chain, index) = "none" /\ Stage(chain', index) = "active"
    BY <1>1, <1>3, <1>4, <1>5 DEF Stage
  <2>2. index \in chain.staleTransactionIndex + 1 .. chain.transactionIndex
    BY <1>1, <1>2
  <2>3. Lifecycle!Open(index)
    BY <1>4, <2>1, <2>2, Opens
  <2> QED
    BY <2>3, SameOperators DEF Lifecycle!Next
<1>6. CASE ~p.open
  <2>1. Stage(chain, index) = "closed" /\ Stage(chain', index) = "closed"
    BY <1>1, <1>3, <1>4, <1>6 DEF Stage, MovesOnly
  <2> QED
    BY <1>4, <2>1, ClosedStutters
<1> QED
  BY <1>5, <1>6

\* Others cancel an approved proposal.
LEMMA ForeignCancelLives ==
  ASSUME TypeOK, ForeignCancel
  PROVE  Lifecycle!Next \/ UNCHANGED Lifecycle!vars
<1>1. PICK index \in Index :
        /\ chain.props[index].status = "approved"
        /\ chain' = Update(chain, index,
             [chain.props[index] EXCEPT !.status = "cancelled", !.since = 0])
  BY DEF ForeignCancel, Interfere
<1> DEFINE p == chain.props[index]
           q == [p EXCEPT !.status = "cancelled", !.since = 0]
<1>2. chain \in Chain /\ p \in Proposal /\ index \in 1 .. chain.transactionIndex
  BY <1>1 DEF TypeOK, WellFormed, Chain
<1>3. q \in Proposal /\ q.payload = p.payload /\ q.status = "cancelled" /\ q.open = p.open
  <2> HIDE DEF p
  <2> QED BY <1>2 DEF Proposal, Status
<1> HIDE DEF q
<1>4. MovesOnly(index) /\ chain'.props[index] = q
  BY <1>1, <1>2, <1>3, UpdateMoves DEF q
<1>5. CASE p.open
  <2>1. Stage(chain, index) = "approved" /\ Stage(chain', index) = "cancelled"
    BY <1>1, <1>3, <1>4, <1>5 DEF Stage
  <2>2. Lifecycle!Cancel(index)
    BY <1>4, <2>1, Cancels
  <2> QED
    BY <2>2, SameOperators DEF Lifecycle!Next
<1>6. CASE ~p.open
  <2>1. Stage(chain, index) = "closed" /\ Stage(chain', index) = "closed"
    BY <1>2, <1>3, <1>4, <1>6 DEF Stage, MovesOnly
  <2> QED
    BY <1>4, <2>1, ClosedStutters
<1> QED
  BY <1>5, <1>6

\* Rent reclaim closes the transaction of a settled or stale proposal.
LEMMA ForeignCloseLives ==
  ASSUME TypeOK, ForeignClose
  PROVE  Lifecycle!Next
<1>1. PICK index \in 1 .. chain.transactionIndex :
        /\ chain.props[index].open
        /\ \/ chain.props[index].status \in {"rejected", "executed", "cancelled"}
           \/ index <= chain.staleTransactionIndex
        /\ \E q \in Remains(chain.props[index]) : chain' = Update(chain, index, q)
  BY DEF ForeignClose, Interfere
<1>2. PICK q \in Remains(chain.props[index]) : chain' = Update(chain, index, q)
  BY <1>1
<1>3. chain \in Chain /\ index \in Index /\ chain.props[index] \in Proposal
  BY MaxIndexAssumption DEF TypeOK, WellFormed, Chain, Index
<1>4. q \in Proposal /\ q.payload = chain.props[index].payload /\ ~q.open
  BY <1>3, RemainsType
<1>5. MovesOnly(index) /\ chain'.props[index] = q
  BY <1>2, <1>3, <1>4, UpdateMoves
<1>6. Stage(chain, index) = chain.props[index].status /\ Stage(chain', index) = "closed"
  BY <1>1, <1>4, <1>5 DEF Stage, MovesOnly
<1>7. Lifecycle!Close(index)
  <2>1. chain.staleTransactionIndex \in Nat
    BY <1>3 DEF Chain
  <2>2. \/ Stage(chain, index) \in {"rejected", "executed", "cancelled"}
        \/ index \in 1 .. chain.staleTransactionIndex
    BY <1>1, <1>6, <2>1
  <2> QED
    BY <1>3, <1>5, <1>6, <2>2, Closes
<1> QED
  BY <1>3, <1>7, SameOperators DEF Lifecycle!Next

\* Others execute what is approved.
LEMMA ForeignExecuteLives ==
  ASSUME TypeOK, ForeignExecute
  PROVE  Lifecycle!Next
<1>1. PICK signer \in Address, index \in Index :
        CanExecute(chain, signer, index, now) /\ chain' = Executed(chain, index)
  BY DEF ForeignExecute, Interfere
<1>2. Lifecycle!Execute(index)
  BY <1>1, ExecutionLives
<1> QED
  BY <1>2, SameOperators DEF Lifecycle!Next

\* A lookup table disappears, or the config authority imposes a configuration.
LEMMA ForeignRulesLives ==
  ASSUME TypeOK, ForeignCloseTables \/ AuthorityReconfigures
  PROVE  Lifecycle!Next \/ UNCHANGED Lifecycle!vars
<1>0. chain \in Chain
  BY DEF TypeOK, WellFormed
<1>1. CASE ForeignCloseTables
  <2>1. chain' = [chain EXCEPT !.tables = FALSE]
    BY <1>1 DEF ForeignCloseTables, Interfere, WithoutTables
  <2>2. /\ SameMultisig(chain, chain') /\ SameRules(chain, chain')
        /\ chain'.transactionIndex = chain.transactionIndex
        /\ chain'.props = chain.props
    BY <1>0, <2>1 DEF Chain, SameMultisig, SameRules
  <2>3. \A i \in Index : SameAt(chain, chain', i)
    BY <2>2, SameStage
  <2> QED
    BY <2>2, <2>3, Stutters
<1>2. CASE AuthorityReconfigures
  <2>1. PICK k \in Authority :
          /\ chain.created /\ chain.controlled
          /\ chain' = [chain EXCEPT !.masks = k.masks, !.threshold = k.threshold,
                                    !.timeLock = k.timeLock,
                                    !.staleTransactionIndex = chain.transactionIndex]
    BY <1>2 DEF AuthorityReconfigures, Interfere, Imposed
  <2>2. k.masks \in [Address -> Mask] /\ k.threshold \in Nat
    BY AuthorityAssumption
  <2>3. /\ SameMultisig(chain, chain')
        /\ chain'.masks = k.masks /\ chain'.threshold = k.threshold
        /\ chain'.staleTransactionIndex = chain.transactionIndex
        /\ chain'.transactionIndex = chain.transactionIndex
        /\ chain'.props = chain.props
    BY <1>0, <2>1 DEF Chain, SameMultisig
  <2>4. \A i \in Index : SameAt(chain, chain', i)
    BY <2>3, SameStage
  <2>5. Lifecycle!Impose
    BY <2>1, <2>2, <2>3, <2>4, NoStage, SameOperators
    DEF Lifecycle!Impose, Lifecycle!Config, SameMultisig
  <2> QED
    BY <2>5 DEF Lifecycle!Next
<1> QED
  BY <1>1, <1>2

(***************************************************************************)
(* The refinement.                                                         *)
(***************************************************************************)

\* The accounts the calls may find are where a life may begin.
LEMMA InitLives == Init => Lifecycle!Init
<1> SUFFICES ASSUME Init PROVE Lifecycle!Init
  OBVIOUS
<1>1. /\ chain \in InitialChain /\ WellFormed(chain) /\ chain \in Chain
      /\ \A i \in Index : chain.props[i].status \in {"none", "active"}
  BY InitialChainAssumption DEF Init, WellFormed
<1>2. /\ chain.created \in BOOLEAN /\ chain.controlled \in BOOLEAN
      /\ chain.masks \in [Address -> Mask] /\ chain.threshold \in Nat
      /\ chain.transactionIndex \in Nat /\ chain.staleTransactionIndex \in Nat
      /\ \A i \in Index : chain.props[i].payload \in Payload
  BY <1>1 DEF Chain, Proposal
<1>3. /\ chain.staleTransactionIndex <= chain.transactionIndex
      /\ chain.transactionIndex <= MaxIndex
      /\ \A i \in Index : chain.props[i].status # "none" => i \in 1 .. chain.transactionIndex
  BY <1>1 DEF WellFormed
<1>4. [masks |-> chain.masks, threshold |-> chain.threshold] \in Lifecycle!Config
  BY <1>2, SameOperators DEF Lifecycle!Config
<1>5. /\ chain.transactionIndex \in Index
      /\ chain.staleTransactionIndex \in 0 .. chain.transactionIndex
  BY <1>2, <1>3, MaxIndexAssumption DEF Index
<1>6. /\ [i \in Index |-> Stage(chain, i)] \in [Index -> {"none", "active", "closed"}]
      /\ [i \in Index |-> chain.props[i].payload] \in [Index -> Payload]
  BY <1>1, <1>2 DEF Stage
<1>7. \A i \in Index : Stage(chain, i) # "none" => i \in 1 .. chain.transactionIndex
  BY <1>3 DEF Stage
<1> QED
  BY <1>2, <1>3, <1>4, <1>5, <1>6, <1>7, SameOperators DEF Lifecycle!Init

\* Every step of the accounts is a step in the life of the proposals, or none.
LEMMA StepLives ==
  ASSUME TypeOK, [Next]_vars
  PROVE  [Lifecycle!Next]_(Lifecycle!vars)
<1>1. ASSUME UNCHANGED chain PROVE UNCHANGED Lifecycle!vars
  BY <1>1 DEF Lifecycle!vars
<1>2. ASSUME NEW s \in Slot, Submit(s) \/ Drop(s) PROVE UNCHANGED chain
  BY <1>2 DEF Submit, Drop
<1>3. CASE Environment
  <2>1. Tick => UNCHANGED chain
    BY DEF Tick
  <2> QED
    BY <1>1, <1>3, <2>1, ForeignCreateLives, ForeignOpenLives, ForeignExecuteLives,
       ForeignCancelLives, ForeignCloseLives, ForeignRulesLives
    DEF Environment
<1>4. CASE UNCHANGED vars
  BY <1>1, <1>4 DEF vars
<1> QED
  BY <1>1, <1>2, <1>3, <1>4, LandLives DEF Next

\* Whatever the accounts of this package submit, whenever it lands, and whatever
\* others do meanwhile: proposals live the life ProposalLifecycle describes.
THEOREM ProposalsLiveTheirLife == Spec => ImplementsLifecycle
<1>1. Init => Lifecycle!Init
  BY InitLives
<1>2. TypeOK /\ [Next]_vars => [Lifecycle!Next]_(Lifecycle!vars)
  BY StepLives
<1> QED
  BY <1>1, <1>2, TypeCorrect, PTL DEF Spec, ImplementsLifecycle, Lifecycle!Spec

(***************************************************************************)
(* What that life means for a member.                                      *)
(***************************************************************************)

\* In a well-typed state of the accounts the abstract variables are too.
LEMMA LifeTypes ==
  ASSUME TypeOK
  PROVE  /\ Index \subseteq Nat
         /\ chain.transactionIndex \in Nat
         /\ chain.staleTransactionIndex \in Nat
         /\ chain.staleTransactionIndex <= chain.transactionIndex
         /\ \A i \in Index : Stage(chain, i) # "none" => i <= chain.transactionIndex
<1>1. WellFormed(chain) /\ chain \in Chain
  BY DEF TypeOK, WellFormed
<1>2. \A i \in Index : chain.props[i] \in Proposal
  BY <1>1 DEF Chain
<1> QED
  BY <1>1, <1>2, MaxIndexAssumption DEF WellFormed, Chain, Index, Stage

\* A move of one stage, in the terms of the accounts.
LEMMA MovesOne ==
  ASSUME NEW index \in Index, NEW to, Lifecycle!Moves(index, to)
  PROVE  \A i \in Index : Stage(chain', i) = IF i = index THEN to ELSE Stage(chain, i)
<1> DEFINE before == [i \in Index |-> Stage(chain, i)]
           after == [i \in Index |-> Stage(chain', i)]
<1>1. after = [before EXCEPT ![index] = to]
  BY SameOperators DEF Lifecycle!Moves, Stage
<1>2. \A i \in Index : after[i] = IF i = index THEN to ELSE before[i]
  BY <1>1
<1> QED
  BY <1>2

\* No step of that life moves a settled proposal, but for closing it.
LEMMA SettledStep ==
  ASSUME TypeOK, [Lifecycle!Next]_(Lifecycle!vars), NEW i \in Index,
         Stage(chain, i) \in {"rejected", "executed", "cancelled", "closed"}
  PROVE  Stage(chain', i) \in {Stage(chain, i), "closed"}
<1>1. ASSUME NEW j \in Index, Lifecycle!Propose(j) \/ Lifecycle!ProposeAndExecute(j)
      PROVE  Stage(chain', i) = Stage(chain, i)
  <2>1. j = chain.transactionIndex + 1
    BY <1>1 DEF Lifecycle!Propose, Lifecycle!ProposeAndExecute, Lifecycle!GivesOut
  <2>2. i # j
    BY <2>1, LifeTypes
  <2>3. \E to : Lifecycle!Moves(j, to)
    BY <1>1 DEF Lifecycle!Propose, Lifecycle!ProposeAndExecute
  <2> QED
    BY <2>2, <2>3, MovesOne
<1>2. ASSUME NEW j \in Index,
             \/ Lifecycle!Open(j) \/ Lifecycle!Decide(j)
             \/ Lifecycle!Cancel(j) \/ Lifecycle!Execute(j)
      PROVE  Stage(chain', i) = Stage(chain, i)
  <2>1. Stage(chain, j) \in {"none", "active", "approved"}
    BY <1>2, SameOperators
    DEF Lifecycle!Open, Lifecycle!Decide, Lifecycle!Cancel, Lifecycle!Execute
  <2>2. \E to : Lifecycle!Moves(j, to)
    BY <1>2 DEF Lifecycle!Open, Lifecycle!Decide, Lifecycle!Cancel, Lifecycle!Execute
  <2> QED
    BY <2>1, <2>2, MovesOne
<1>3. ASSUME NEW j \in Index, Lifecycle!Close(j)
      PROVE  Stage(chain', i) \in {Stage(chain, i), "closed"}
  BY <1>3, MovesOne DEF Lifecycle!Close
<1>4. ASSUME Lifecycle!Deploy \/ Lifecycle!Impose \/ UNCHANGED Lifecycle!vars
      PROVE  Stage(chain', i) = Stage(chain, i)
  <2> DEFINE before == [k \in Index |-> Stage(chain, k)]
             after == [k \in Index |-> Stage(chain', k)]
  <2>1. after = before
    BY <1>4 DEF Lifecycle!Deploy, Lifecycle!Impose, Lifecycle!vars, Stage
  <2>2. after[i] = before[i]
    BY <2>1
  <2> QED
    BY <2>2
<1> QED
  BY <1>1, <1>2, <1>3, <1>4, SameOperators DEF Lifecycle!Next

\* Rejecting, executing, cancelling and closing are final, whatever calls and
\* landings overlap and whoever else acts: nothing is executed twice, and nothing
\* rejected, cancelled or closed is executed, though a proposal may be opened again
\* at the index of closed accounts and be approved there.
THEOREM SettledProposalsStay == Spec => Lifecycle!SettledIsFinal
<1>1. TypeOK /\ [Lifecycle!Next]_(Lifecycle!vars) =>
        [Lifecycle!SettledStays]_(Lifecycle!vars)
  <2> SUFFICES ASSUME TypeOK, [Lifecycle!Next]_(Lifecycle!vars) PROVE Lifecycle!SettledStays
    OBVIOUS
  <2> QED
    BY SettledStep, SameOperators DEF Lifecycle!SettledStays, Lifecycle!Settled
<1> QED
  BY <1>1, TypeCorrect, ProposalsLiveTheirLife, PTL
  DEF ImplementsLifecycle, Lifecycle!Spec, Lifecycle!SettledIsFinal

\* The step in which a proposal runs, if it changed the configuration.
LEMMA RunReconfigures ==
  ASSUME NEW content, NEW last, Lifecycle!Runs(content, last),
         \/ chain'.masks # chain.masks
         \/ chain'.threshold # chain.threshold
  PROVE  /\ IsConfig(content)
         /\ chain'.masks = Reconfigured(chain.masks, content.change)
         /\ chain'.threshold = NewThreshold(chain.threshold, content.change)
<1> DEFINE before == [masks |-> chain.masks, threshold |-> chain.threshold]
           after == [masks |-> chain'.masks, threshold |-> chain'.threshold]
<1>1. before # after
  <2>1. before.masks # after.masks \/ before.threshold # after.threshold
    OBVIOUS
  <2> QED BY <2>1
<1>2. IsConfig(content)
  BY <1>1, SameOperators DEF Lifecycle!Runs
<1>3. after = [masks |-> Reconfigured(chain.masks, content.change),
               threshold |-> NewThreshold(chain.threshold, content.change)]
  BY <1>2, SameOperators DEF Lifecycle!Runs
<1>4. /\ after.masks = Reconfigured(chain.masks, content.change)
      /\ after.threshold = NewThreshold(chain.threshold, content.change)
  BY <1>3
<1> QED
  BY <1>2, <1>4

\* Without a config authority only an execution changes the configuration.
LEMMA ReconfiguringStep ==
  ASSUME TypeOK, [Lifecycle!Next]_(Lifecycle!vars), chain.created, ~chain.controlled,
         \/ chain'.masks # chain.masks
         \/ chain'.threshold # chain.threshold
  PROVE  \E i \in Index :
           /\ Stage(chain, i) # "executed" /\ Stage(chain', i) = "executed"
           /\ IsConfig(chain'.props[i].payload)
           /\ chain'.masks = Reconfigured(chain.masks, chain'.props[i].payload.change)
           /\ chain'.threshold = NewThreshold(chain.threshold, chain'.props[i].payload.change)
           /\ i > chain.staleTransactionIndex
<1> DEFINE rules == [masks |-> chain.masks, threshold |-> chain.threshold]
           newRules == [masks |-> chain'.masks, threshold |-> chain'.threshold]
<1>0. rules # newRules
  <2>1. rules.masks # newRules.masks \/ rules.threshold # newRules.threshold
    OBVIOUS
  <2> QED BY <2>1
<1>1. ASSUME NEW i \in Index, Lifecycle!ProposeAndExecute(i)
      PROVE  /\ Stage(chain, i) # "executed" /\ Stage(chain', i) = "executed"
             /\ IsConfig(chain'.props[i].payload)
             /\ chain'.masks = Reconfigured(chain.masks, chain'.props[i].payload.change)
             /\ chain'.threshold
                  = NewThreshold(chain.threshold, chain'.props[i].payload.change)
             /\ i > chain.staleTransactionIndex
  <2>1. i = chain.transactionIndex + 1
    BY <1>1 DEF Lifecycle!ProposeAndExecute, Lifecycle!GivesOut
  <2>2. Stage(chain, i) # "executed" /\ i > chain.staleTransactionIndex
    BY <2>1, LifeTypes
  <2>3. Stage(chain', i) = "executed"
    BY <1>1, MovesOne DEF Lifecycle!ProposeAndExecute
  <2>4. Lifecycle!Runs(chain'.props[i].payload, i)
    BY <1>1, SameOperators DEF Lifecycle!ProposeAndExecute
  <2> QED
    BY <2>2, <2>3, <2>4, RunReconfigures
<1>2. ASSUME NEW i \in Index, Lifecycle!Execute(i)
      PROVE  /\ Stage(chain, i) # "executed" /\ Stage(chain', i) = "executed"
             /\ IsConfig(chain'.props[i].payload)
             /\ chain'.masks = Reconfigured(chain.masks, chain'.props[i].payload.change)
             /\ chain'.threshold
                  = NewThreshold(chain.threshold, chain'.props[i].payload.change)
             /\ i > chain.staleTransactionIndex
  <2>1. Stage(chain, i) \in {"approved", "active"}
    BY <1>2, SameOperators DEF Lifecycle!Execute
  <2>2. Stage(chain', i) = "executed"
    BY <1>2, MovesOne DEF Lifecycle!Execute
  <2>3. chain'.props[i].payload = chain.props[i].payload
    <3> DEFINE before == [k \in Index |-> chain.props[k].payload]
               after == [k \in Index |-> chain'.props[k].payload]
    <3>1. after = before
      BY <1>2, SameOperators DEF Lifecycle!Execute
    <3>2. after[i] = before[i]
      BY <3>1
    <3> QED BY <3>2
  <2>4. Lifecycle!Runs(chain.props[i].payload, chain.transactionIndex)
    BY <1>2, SameOperators DEF Lifecycle!Execute
  <2>5. /\ IsConfig(chain.props[i].payload)
        /\ chain'.masks = Reconfigured(chain.masks, chain.props[i].payload.change)
        /\ chain'.threshold = NewThreshold(chain.threshold, chain.props[i].payload.change)
    BY <2>4, RunReconfigures
  <2>6. i > chain.staleTransactionIndex
    BY <1>2, <2>5, SameOperators DEF Lifecycle!Execute
  <2> QED
    BY <2>1, <2>2, <2>3, <2>5, <2>6
<1>3. \E i \in Index : Lifecycle!ProposeAndExecute(i) \/ Lifecycle!Execute(i)
  BY <1>0, SameOperators
  DEF Lifecycle!Next, Lifecycle!Deploy, Lifecycle!Propose, Lifecycle!Open, Lifecycle!Decide,
      Lifecycle!Cancel, Lifecycle!Close, Lifecycle!Impose, Lifecycle!vars
<1> QED
  BY <1>1, <1>2, <1>3

\* The members of a multisig without a config authority govern it themselves:
\* its members and its threshold change only in the step that executes a config
\* proposal, by exactly its change, and never one made before the last change.
THEOREM MembersGovern == Spec => Lifecycle!OnlyProposalsReconfigure
<1>1. TypeOK /\ [Lifecycle!Next]_(Lifecycle!vars) =>
        [Lifecycle!MembersReconfigure]_(Lifecycle!vars)
  <2> SUFFICES ASSUME TypeOK, [Lifecycle!Next]_(Lifecycle!vars), chain.created,
                      ~chain.controlled,
                      \/ chain'.masks # chain.masks
                      \/ chain'.threshold # chain.threshold
               PROVE  Lifecycle!MembersReconfigure
    BY DEF Lifecycle!MembersReconfigure
  <2> QED
    BY ReconfiguringStep, SameOperators DEF Lifecycle!MembersReconfigure
<1> QED
  BY <1>1, TypeCorrect, ProposalsLiveTheirLife, PTL
  DEF ImplementsLifecycle, Lifecycle!Spec, Lifecycle!OnlyProposalsReconfigure

(***************************************************************************)
(*                                                                         *)
(* The results calls return before anything has landed are true once their *)
(* transaction lands: TruthfulResult, for any number of overlapping calls. *)
(*                                                                         *)
(***************************************************************************)

\* The confirmations the transaction leaves, on the accounts c.
Confirmations(c, tx) ==
  CASE tx.op = "create" -> IF tx.run THEN 1 ELSE 0
    [] tx.op = "approve" -> Cardinality(c.props[tx.index].approved \cup {tx.signer})
    [] OTHER -> Cardinality(c.props[tx.index].approved \ {tx.signer})

\* What a result says about the transaction it was returned for, on the accounts
\* c; what it says about other members' votes holds while nothing moves.
Tells(c, tx, result, fresh) ==
  result.status # "hash" =>
    /\ tx.op \in {"create", "approve", "reject"}
    /\ result.proposalId = tx.index
    /\ result.status = (IF tx.run THEN "executed" ELSE "pending")
    /\ tx.op = "reject" => ~tx.run
    /\ fresh => /\ result.threshold = c.threshold
                /\ result.confirmations = Confirmations(c, tx)

\* The inductive invariant.
ResultInv ==
  /\ TypeOK
  /\ \A s \in Busy : Tells(chain, flight[s].tx, flight[s].result, flight[s].fresh)

(***************************************************************************)
(* A result tells what its own call submits.                               *)
(***************************************************************************)

\* One vote less, if the voter had approved.
LEMMA OneLessVote ==
  ASSUME NEW S \in SUBSET Address, NEW signer \in Address
  PROVE  Cardinality(S \ {signer}) = Cardinality(S) - (IF signer \in S THEN 1 ELSE 0)
<1>1. IsFiniteSet(S) /\ Cardinality(S) \in Nat
  BY AddressSetsFinite
<1>2. CASE signer \in S
  BY <1>1, <1>2, FS_RemoveElement
<1>3. CASE signer \notin S
  <2>1. S \ {signer} = S
    BY <1>3
  <2> QED
    BY <1>1, <1>3, <2>1
<1> QED
  BY <1>2, <1>3

\* The fields of a report.
LEMMA ReportFields ==
  ASSUME NEW c, NEW index, NEW confirmations, NEW executes \in BOOLEAN
  PROVE  LET r == Report(c, index, confirmations, executes) IN
         /\ r.proposalId = index /\ r.confirmations = confirmations
         /\ r.threshold = c.threshold
         /\ r.status = IF executes THEN "executed" ELSE "pending"
BY DEF Report

\* What a call returns tells what it submits, on the accounts it read.
LEMMA CallTells ==
  ASSUME NEW c, WellFormed(c), NEW t, NEW signer \in Address, NEW call \in Call,
         Allowed(c, t, signer, call),
         call.op \in {"propose", "addOwner", "removeOwner", "swapOwner", "changeThreshold"}
           => c.transactionIndex < MaxIndex
  PROVE  Tells(c, Submission(c, signer, call), ResultOf(c, signer, call), TRUE)
<1> DEFINE tx == Submission(c, signer, call)
           result == ResultOf(c, signer, call)
<1>0. /\ c.transactionIndex < MaxIndex => NextIndex(c) \in Index
      /\ \A i \in Index : c.props[i].approved \in SUBSET Address
  <2>1. c \in Chain
    BY DEF WellFormed
  <2>2. c.transactionIndex \in Nat /\ \A i \in Index : c.props[i] \in Proposal
    BY <2>1 DEF Chain
  <2>3. c.transactionIndex < MaxIndex => NextIndex(c) \in Index
    BY <2>2, MaxIndexAssumption DEF Index, NextIndex
  <2> QED
    BY <2>2, <2>3 DEF Proposal
<1>1. CASE call.op = "propose"
  <2> DEFINE bare == Bare("create", signer, NextIndex(c))
             run == ProposeExecutes(c, signer, call)
  <2>1. run \in BOOLEAN
    BY DEF ProposeExecutes
  <2>2. /\ bare \in Transaction /\ bare.op = "create" /\ bare.index = NextIndex(c)
    BY <1>0, <1>1, BareType DEF Op
  <2>3. tx = [bare EXCEPT !.run = run]
    BY <1>1 DEF Submission
  <2>4. result = Report(c, NextIndex(c), IF run THEN 1 ELSE 0, run)
    BY <1>1 DEF ResultOf
  <2> HIDE DEF bare, run, tx, result
  <2>5. tx.op = "create" /\ tx.index = NextIndex(c) /\ tx.run = run
    BY <2>2, <2>3 DEF Transaction
  <2> QED
    BY <2>1, <2>4, <2>5, ReportFields DEF Tells, Confirmations, tx, result
<1>2. CASE call.op = "approveProposal"
  <2> DEFINE bare == Bare("approve", signer, call.index)
             run == ApproveExecutes(c, signer, call)
             ayes == c.props[call.index].approved
  <2>1. run \in BOOLEAN /\ call.index \in Index
    BY <1>2, CallArguments DEF ApproveExecutes
  <2>2. /\ bare \in Transaction /\ bare.op = "approve" /\ bare.index = call.index
        /\ bare.signer = signer
    BY <2>1, BareType DEF Op
  <2>3. tx = [bare EXCEPT !.run = run]
    BY <1>2 DEF Submission
  <2>4. result = Report(c, call.index, Cardinality(ayes) + 1, run)
    BY <1>2 DEF ResultOf, AfterApproval
  <2>5. signer \notin ayes
    BY <1>2 DEF Allowed, ApproveAllowed, ConfigAllowed
  <2>6. Cardinality(ayes \cup {signer}) = Cardinality(ayes) + 1
    BY <1>0, <2>1, <2>5, OneMore
  <2> HIDE DEF bare, run, tx, result
  <2>7. /\ tx.op = "approve" /\ tx.index = call.index /\ tx.run = run /\ tx.signer = signer
    BY <2>2, <2>3 DEF Transaction
  <2> QED
    BY <2>1, <2>4, <2>6, <2>7, ReportFields DEF Tells, Confirmations, tx, result
<1>3. CASE call.op = "rejectProposal"
  <2> DEFINE ayes == c.props[call.index].approved
             left == Cardinality(ayes) - (IF signer \in ayes THEN 1 ELSE 0)
  <2>1. call.index \in Index
    BY <1>3, CallArguments
  <2>2. /\ tx.op = "reject" /\ tx.index = call.index /\ ~tx.run /\ tx.signer = signer
    BY <1>3, <2>1, BareType DEF Submission, Op
  <2>3. result = Report(c, call.index, left, FALSE)
    BY <1>3 DEF ResultOf, AfterRejection
  <2>4. Cardinality(ayes \ {signer}) = left
    BY <1>0, <2>1, OneLessVote
  <2> HIDE DEF tx, result, left
  <2>5. /\ result.proposalId = call.index /\ result.confirmations = left
        /\ result.threshold = c.threshold /\ result.status = "pending"
    BY <2>3 DEF Report
  <2> QED
    BY <2>2, <2>4, <2>5 DEF Tells, Confirmations, tx, result
<1>4. CASE call.op \in {"deploy", "executeProposal"}
  BY <1>4 DEF ResultOf, HashOnly, Tells
<1>5. CASE call.op \in {"addOwner", "removeOwner", "swapOwner", "changeThreshold"}
  <2> DEFINE bare == Bare("create", signer, NextIndex(c))
             payload == ConfigPayload(ChangeOf(c, call))
  <2>1. /\ bare \in Transaction /\ bare.op = "create" /\ bare.index = NextIndex(c)
        /\ ~bare.run
    BY <1>0, <1>5, BareType DEF Op
  <2>2. tx = [bare EXCEPT !.payload = payload]
    BY <1>5 DEF Submission
  <2>3. result = Report(c, NextIndex(c), 0, FALSE)
    BY <1>5 DEF ResultOf
  <2> HIDE DEF bare, payload, tx, result
  <2>4. tx.op = "create" /\ tx.index = NextIndex(c) /\ ~tx.run
    BY <2>1, <2>2 DEF Transaction
  <2>5. /\ result.proposalId = NextIndex(c) /\ result.confirmations = 0
        /\ result.threshold = c.threshold /\ result.status = "pending"
    BY <2>3 DEF Report
  <2> QED
    BY <2>4, <2>5 DEF Tells, Confirmations, tx, result
<1> QED
  BY <1>1, <1>2, <1>3, <1>4, <1>5, CallArguments

(***************************************************************************)
(* It goes on telling it while others move.                                *)
(***************************************************************************)

\* A step that keeps the calls that remain, and tells those it disturbs.
LEMMA UndisturbedResults ==
  ASSUME ResultInv, TypeOK', Busy' \subseteq Busy,
         \A s \in Busy' :
           /\ flight'[s].tx = flight[s].tx
           /\ flight'[s].result = flight[s].result
           /\ flight'[s].fresh => flight[s].fresh /\ ~Disturbs(chain, chain', flight[s].tx)
  PROVE  ResultInv'
<1> SUFFICES ASSUME NEW s \in Busy'
             PROVE  Tells(chain', flight'[s].tx, flight'[s].result, flight'[s].fresh)
  BY DEF ResultInv
<1>1. Tells(chain, flight[s].tx, flight[s].result, flight[s].fresh)
  BY DEF ResultInv
<1>2. ~Disturbs(chain, chain', flight[s].tx) =>
        /\ chain'.threshold = chain.threshold
        /\ flight[s].tx.op \in {"approve", "reject"} =>
             chain'.props[flight[s].tx.index] = chain.props[flight[s].tx.index]
  BY DEF Disturbs, Configuration
<1> QED
  BY <1>1, <1>2 DEF Tells, Confirmations

\* The results are still told after every step.
LEMMA ResultStep ==
  ASSUME ResultInv, TypeOK', [Next]_vars
  PROVE  ResultInv'
<1>0. TypeOK /\ (\A s \in Busy : flight[s] \in Flight)
  BY DEF ResultInv, TypeOK
<1>1. ASSUME NEW s \in Slot, Submit(s) PROVE ResultInv'
  <2>1. PICK signer \in Address, call \in Call :
          /\ Allowed(chain, now, signer, call)
          /\ Within(call)
          /\ flight' = [t \in Busy \cup {s} |->
               IF t = s THEN [tx |-> Submission(chain, signer, call),
                              result |-> ResultOf(chain, signer, call), fresh |-> TRUE]
               ELSE flight[t]]
    BY <1>1 DEF Submit
  <2>2. Tells(chain, Submission(chain, signer, call), ResultOf(chain, signer, call), TRUE)
    BY <1>0, <2>1, CallTells DEF TypeOK, Within
  <2>3. Busy' = Busy \cup {s} /\ s \notin Busy /\ chain' = chain
    BY <1>1, <2>1 DEF Busy, Submit
  <2>4. ASSUME NEW t \in Busy'
        PROVE  Tells(chain', flight'[t].tx, flight'[t].result, flight'[t].fresh)
    BY <2>1, <2>2, <2>3 DEF ResultInv
  <2> QED
    BY <2>4 DEF ResultInv
<1> DEFINE later == Refreshed(chain, chain')
<1>2. /\ DOMAIN later = Busy
      /\ \A s \in Busy :
           /\ later[s].tx = flight[s].tx /\ later[s].result = flight[s].result
           /\ later[s].fresh => flight[s].fresh /\ ~Disturbs(chain, chain', flight[s].tx)
  BY <1>0, RefreshedFlight
<1> HIDE DEF later
<1>3. ASSUME NEW s \in Slot, Land(s) PROVE ResultInv'
  <2>1. flight' = [t \in Busy \ {s} |-> later[t]]
    BY <1>3 DEF Land, Without, later
  <2>2. Busy' = Busy \ {s}
    BY <2>1 DEF Busy
  <2> QED
    BY <1>2, <2>1, <2>2, UndisturbedResults
<1>4. ASSUME NEW s \in Slot, Drop(s) PROVE ResultInv'
  <2>1. flight' = [t \in Busy \ {s} |-> flight[t]] /\ chain' = chain
    BY <1>4 DEF Drop, Without
  <2>2. Busy' = Busy \ {s}
    BY <2>1 DEF Busy
  <2> QED
    BY <2>1, <2>2 DEF ResultInv
<1>5. CASE Environment
  <2>1. CASE Tick
    BY <2>1 DEF Tick, ResultInv, Busy
  <2>2. CASE ~Tick
    <3>1. flight' = later
      BY <1>0, <1>5, <2>2, EnvironmentEvolves, MaxTimeAssumption DEF TypeOK, later
    <3>2. Busy' = Busy
      BY <1>2, <3>1 DEF Busy
    <3> QED
      BY <1>2, <3>1, <3>2, UndisturbedResults
  <2> QED
    BY <2>1, <2>2
<1>6. CASE UNCHANGED vars
  BY <1>6 DEF vars, ResultInv, Busy
<1> QED
  BY <1>1, <1>3, <1>4, <1>5, <1>6 DEF Next

(***************************************************************************)
(* And true when the transaction lands.                                    *)
(***************************************************************************)

\* What a transaction that proposes or votes leaves in its proposal.
LEMMA OutcomeTold ==
  ASSUME NEW c, WellFormed(c), NEW tx \in Transaction, NEW t \in Nat, Accepts(c, tx, t),
         tx.op \in {"create", "approve", "reject"}, tx.op = "reject" => ~tx.run
  PROVE  LET p == Outcome(c, tx, t).props[tx.index] IN
         /\ tx.run <=> p.status = "executed"
         /\ tx.op = "create" => p.payload = tx.payload
         /\ Cardinality(p.approved) = Confirmations(c, tx)
<1> DEFINE i == tx.index
           d == Outcome(c, tx, t)
<1>0. /\ tx.signer \in Address /\ i \in Index /\ tx.payload \in Payload /\ c \in Chain
      /\ tx.run \in BOOLEAN
  BY DEF Transaction, WellFormed
<1>1. Cardinality({}) = 0 /\ Cardinality({tx.signer}) = 1
  BY FS_EmptySet, FS_Singleton
<1>2. CASE tx.op = "create"
  <2> DEFINE created == Created(c, i, tx.payload)
             voted == Approved(created, tx.signer, i, t)
  <2>1. /\ CanCreate(c, tx.signer, i, tx.payload)
        /\ tx.run => CanApprove(created, tx.signer, i) /\ CanExecute(voted, tx.signer, i, t)
    BY <1>2 DEF Accepts
  <2>2. d = IF tx.run THEN Executed(voted, i) ELSE created
    BY <1>2 DEF Outcome
  <2>3. WellFormed(created)
    BY <1>0, <2>1, CreatedWellFormed
  <2>4. /\ created.props[i].payload = tx.payload /\ created.props[i].status = "active"
        /\ created.props[i].approved = {}
    BY <1>0, CreatedProposals, OpenedType
  <2> HIDE DEF created, d
  <2>5. CASE ~tx.run
    BY <1>1, <1>2, <2>2, <2>4, <2>5 DEF Confirmations, d
  <2>6. CASE tx.run
    <3>1. /\ voted.props[i].payload = tx.payload
          /\ voted.props[i].approved = {tx.signer}
      BY <1>0, <2>3, <2>4, ApprovedMoves
    <3>2. WellFormed(voted)
      BY <1>0, <2>1, <2>3, <2>6, ApprovedEvolves DEF Evolves
    <3> HIDE DEF voted
    <3>3. /\ d.props[i].payload = tx.payload /\ d.props[i].approved = {tx.signer}
          /\ d.props[i].status = "executed"
      BY <1>0, <2>1, <2>2, <2>6, <3>1, <3>2, ExecutedRan
    <3> QED
      BY <1>1, <1>2, <2>6, <3>3 DEF Confirmations, d
  <2> QED
    BY <1>0, <2>5, <2>6
<1>3. CASE tx.op = "approve"
  <2> DEFINE voted == Approved(c, tx.signer, i, t)
  <2>1. /\ CanApprove(c, tx.signer, i)
        /\ tx.run => CanExecute(voted, tx.signer, i, t)
    BY <1>3 DEF Accepts
  <2>2. d = IF tx.run THEN Executed(voted, i) ELSE voted
    BY <1>3 DEF Outcome
  <2>3. /\ voted.props[i].approved = c.props[i].approved \cup {tx.signer}
        /\ voted.props[i].status \in {"active", "approved"}
        /\ WellFormed(voted)
    BY <1>0, <2>1, ApprovedMoves, ApprovedEvolves DEF Evolves
  <2> HIDE DEF voted, d
  <2>4. tx.run => /\ d.props[i].approved = c.props[i].approved \cup {tx.signer}
                  /\ d.props[i].status = "executed"
    BY <1>0, <2>1, <2>2, <2>3, ExecutedRan
  <2> QED
    BY <1>0, <1>3, <2>2, <2>3, <2>4 DEF Confirmations, d
<1>4. CASE tx.op = "reject"
  <2>1. PICK q \in Proposal : /\ Rejected(c, tx.signer, i) = Update(c, i, q)
                              /\ q.approved = c.props[i].approved \ {tx.signer}
                              /\ q.status = IF Cardinality(q.rejected) >= Cutoff(c)
                                            THEN "rejected" ELSE "active"
    BY <1>0, RejectedProposal
  <2>2. d = Update(c, i, q)
    BY <1>4, <2>1 DEF Outcome
  <2>3. d.props[i] = q
    BY <1>0, <2>2, UpdateFields
  <2> HIDE DEF d
  <2> QED
    BY <1>4, <2>1, <2>3 DEF Confirmations, d
<1> QED
  BY <1>2, <1>3, <1>4

\* A transaction that leaves its slot and moves the accounts has landed.
LEMMA LandsByLanding ==
  ASSUME TypeOK, [Next]_vars, NEW s \in Busy, Lands(s)
  PROVE  Land(s)
<1>0. chain' # chain /\ s \notin DOMAIN flight'
  BY DEF Lands
<1>1. ASSUME NEW t \in Slot, Land(t), t # s PROVE FALSE
  <2>1. DOMAIN flight' = Busy \ {t}
    BY <1>1 DEF Land, Without
  <2> QED
    BY <1>0, <1>1, <2>1
<1>2. ASSUME NEW t \in Slot, Submit(t) \/ Drop(t) PROVE FALSE
  BY <1>0, <1>2 DEF Submit, Drop
<1>3. ~Environment
  <2> SUFFICES ASSUME Environment PROVE FALSE
    OBVIOUS
  <2>1. ~Tick
    BY <1>0 DEF Tick
  <2>2. flight' = Refreshed(chain, chain')
    BY <2>1, EnvironmentEvolves, MaxTimeAssumption DEF TypeOK
  <2>3. DOMAIN Refreshed(chain, chain') = Busy
    BY RefreshedFlight DEF TypeOK
  <2> QED
    BY <1>0, <2>2, <2>3
<1>4. ~UNCHANGED vars
  BY <1>0 DEF vars
<1> QED
  BY <1>1, <1>2, <1>3, <1>4 DEF Next

\* The results are told throughout.
LEMMA ResultInvariant == Spec => []ResultInv
<1>1. Init => ResultInv
  <2>1. Init => TypeOK
    BY InitType
  <2> QED
    BY <2>1 DEF Init, ResultInv, Busy
<1>2. ResultInv /\ TypeOK' /\ [Next]_vars => ResultInv'
  BY ResultStep
<1> QED
  BY <1>1, <1>2, TypeCorrect, PTL DEF Spec

\* Every result returned before its transaction landed is true when it lands, and
\* its confirmations and threshold too unless something it depends on moved.
THEOREM ResultsAreTrue == Spec => TruthfulResult
<1> DEFINE Told(s) ==
      LET result == flight[s].result
          p == chain'.props[result.proposalId]
      IN  /\ result.status = "executed" <=> p.status = "executed"
          /\ flight[s].tx.op = "create" =>
               /\ p.payload = flight[s].tx.payload
               /\ chain.props[result.proposalId].status = "none"
          /\ flight[s].fresh =>
               /\ result.confirmations = Cardinality(p.approved)
               /\ result.threshold = chain.threshold
<1>1. ASSUME ResultInv, [Next]_vars, NEW s \in Busy, Lands(s),
             flight[s].result.status # "hash"
      PROVE  Told(s)
  <2>1. Land(s) /\ s \in Slot
    BY <1>1, LandsByLanding DEF ResultInv, TypeOK
  <2> DEFINE tx == flight[s].tx
             p == chain'.props[tx.index]
  <2>2. /\ tx \in Transaction /\ Accepts(chain, tx, now) /\ chain' = Outcome(chain, tx, now)
        /\ now \in Nat /\ WellFormed(chain)
    BY <1>1, <2>1, LandEvolves, MaxTimeAssumption DEF ResultInv, TypeOK
  <2>3. Tells(chain, tx, flight[s].result, flight[s].fresh)
    BY <1>1 DEF ResultInv
  <2>4. /\ tx.op \in {"create", "approve", "reject"}
        /\ tx.op = "reject" => ~tx.run
        /\ flight[s].result.proposalId = tx.index
        /\ flight[s].result.status = (IF tx.run THEN "executed" ELSE "pending")
        /\ flight[s].fresh => /\ flight[s].result.threshold = chain.threshold
                              /\ flight[s].result.confirmations = Confirmations(chain, tx)
    BY <1>1, <2>3 DEF Tells
  <2>5. /\ tx.run <=> p.status = "executed"
        /\ tx.op = "create" => p.payload = tx.payload
        /\ Cardinality(p.approved) = Confirmations(chain, tx)
    <3> DEFINE q == Outcome(chain, tx, now).props[tx.index]
    <3> HIDE DEF tx
    <3>1. /\ tx.run <=> q.status = "executed"
          /\ tx.op = "create" => q.payload = tx.payload
          /\ Cardinality(q.approved) = Confirmations(chain, tx)
      BY <2>2, <2>4, OutcomeTold
    <3>2. p = q
      BY <2>2
    <3> QED
      BY <3>1, <3>2
  <2>6. tx.op = "create" => chain.props[tx.index].status = "none"
    BY <2>2, CreationAppears
  <2> QED
    BY <2>4, <2>5, <2>6
<1>2. ResultInv /\ [Next]_vars =>
        [\A s \in Busy : Lands(s) /\ flight[s].result.status # "hash" => Told(s)]_vars
  BY <1>1
<1> QED
  BY <1>2, ResultInvariant, PTL DEF Spec, TruthfulResult
=============================================================================
