------------------------ MODULE SquadsProgramProofs ------------------------
(***************************************************************************)
(* Lemmas about the instructions of the program, for any accounts they may *)
(* find: what they leave is well-formed, what configures makes stale, and  *)
(* the votes on live proposals go on counting.                             *)
(***************************************************************************)
EXTENDS SquadsProgram, FiniteSetTheorems, TLAPS

(***************************************************************************)
(* Well-formed accounts stay well-formed.                                  *)
(***************************************************************************)

\* Sets of addresses have natural-number cardinalities.
LEMMA AddressSetsFinite ==
  ASSUME NEW S \in SUBSET Address
  PROVE  IsFiniteSet(S) /\ Cardinality(S) \in Nat
BY AddressAssumption, FS_Subset, FS_CardinalityType

\* The blank records are records of their type.
LEMMA BlankTypes ==
  /\ NoChange \in Change
  /\ VaultPayload \in Payload
  /\ NoProposal \in Proposal
<1>1. NoChange \in Change
  BY DEF NoChange, Change, Mask, Keep
<1>2. VaultPayload \in Payload
  BY <1>1 DEF VaultPayload, Payload, Kind
<1> QED
  BY <1>1, <1>2 DEF NoProposal, Proposal, Status

\* A deployed multisig has well-formed accounts.
LEMMA DeployedWellFormed ==
  ASSUME NEW c, WellFormed(c), NEW masks \in [Address -> Mask], NEW threshold \in Nat
  PROVE  WellFormed(Deployed(c, masks, threshold))
BY DEF WellFormed, Chain, Deployed

\* Writing one proposal changes nothing else.
LEMMA UpdateFields ==
  ASSUME NEW c \in Chain, NEW index \in Index, NEW q \in Proposal
  PROVE  /\ Update(c, index, q) \in Chain
         /\ Update(c, index, q).props[index] = q
         /\ \A i \in Index \ {index} : Update(c, index, q).props[i] = c.props[i]
         /\ Update(c, index, q).created = c.created
         /\ Update(c, index, q).controlled = c.controlled
         /\ Update(c, index, q).masks = c.masks
         /\ Update(c, index, q).threshold = c.threshold
         /\ Update(c, index, q).timeLock = c.timeLock
         /\ Update(c, index, q).transactionIndex = c.transactionIndex
         /\ Update(c, index, q).staleTransactionIndex = c.staleTransactionIndex
         /\ Update(c, index, q).tables = c.tables
BY DEF Chain, Update

\* Writing a proposal under an index that was allocated keeps the accounts
\* well-formed.
LEMMA UpdateWellFormed ==
  ASSUME NEW c, WellFormed(c), NEW index \in Index, NEW q \in Proposal,
         q.status # "none" => index \in 1 .. c.transactionIndex
  PROVE  WellFormed(Update(c, index, q))
<1>1. c \in Chain
  BY DEF WellFormed
<1> QED
  BY <1>1, UpdateFields DEF WellFormed

\* A proposal just created: open for votes, none cast, its transaction account
\* there.
LEMMA OpenedType ==
  ASSUME NEW payload \in Payload
  PROVE  /\ Opened(payload) \in Proposal
         /\ Opened(payload).status = "active" /\ Opened(payload).open
         /\ Opened(payload).approved = {} /\ Opened(payload).rejected = {}
         /\ Opened(payload).payload = payload /\ Opened(payload).since = 0
BY BlankTypes DEF Proposal, Status, Opened, NoProposal

\* What Created leaves in each field.
LEMMA CreatedFields ==
  ASSUME NEW c \in Chain, NEW index \in Index, NEW payload \in Payload
  PROVE  /\ Created(c, index, payload) \in Chain
         /\ Created(c, index, payload).props = Update(c, index, Opened(payload)).props
         /\ Created(c, index, payload).created = c.created
         /\ Created(c, index, payload).controlled = c.controlled
         /\ Created(c, index, payload).masks = c.masks
         /\ Created(c, index, payload).threshold = c.threshold
         /\ Created(c, index, payload).timeLock = c.timeLock
         /\ Created(c, index, payload).transactionIndex = index
         /\ Created(c, index, payload).staleTransactionIndex = c.staleTransactionIndex
         /\ Created(c, index, payload).tables = c.tables
<1> DEFINE u == Update(c, index, Opened(payload))
<1>1. /\ u \in Chain
      /\ u.created = c.created /\ u.controlled = c.controlled
      /\ u.masks = c.masks /\ u.threshold = c.threshold /\ u.timeLock = c.timeLock
      /\ u.staleTransactionIndex = c.staleTransactionIndex /\ u.tables = c.tables
  BY OpenedType, UpdateFields
<1>2. index \in Nat
  BY MaxIndexAssumption DEF Index
<1>3. Created(c, index, payload) = [u EXCEPT !.transactionIndex = index]
  BY DEF Created
<1> HIDE DEF u
<1>4. /\ Created(c, index, payload) \in Chain
      /\ Created(c, index, payload).props = u.props
      /\ Created(c, index, payload).created = u.created
      /\ Created(c, index, payload).controlled = u.controlled
      /\ Created(c, index, payload).masks = u.masks
      /\ Created(c, index, payload).threshold = u.threshold
      /\ Created(c, index, payload).timeLock = u.timeLock
      /\ Created(c, index, payload).transactionIndex = index
      /\ Created(c, index, payload).staleTransactionIndex = u.staleTransactionIndex
      /\ Created(c, index, payload).tables = u.tables
  BY <1>1, <1>2, <1>3 DEF Chain
<1> QED
  BY <1>1, <1>4 DEF u

\* A creation writes its own proposal and no other.
LEMMA CreatedProposals ==
  ASSUME NEW c \in Chain, NEW index \in Index, NEW payload \in Payload
  PROVE  /\ Created(c, index, payload).props[index] = Opened(payload)
         /\ \A i \in Index \ {index} : Created(c, index, payload).props[i] = c.props[i]
BY CreatedFields, UpdateFields, OpenedType

\* A creation the program accepts keeps the accounts well-formed.
LEMMA CreatedWellFormed ==
  ASSUME NEW c, WellFormed(c), NEW signer, NEW index \in Index, NEW payload \in Payload,
         CanCreate(c, signer, index, payload)
  PROVE  WellFormed(Created(c, index, payload))
<1> DEFINE d == Created(c, index, payload)
<1>0. c \in Chain
  BY DEF WellFormed
<1>1. /\ d \in Chain
      /\ \A i \in Index \ {index} : d.props[i] = c.props[i]
      /\ d.created = c.created
      /\ d.transactionIndex = index
      /\ d.staleTransactionIndex = c.staleTransactionIndex
  BY <1>0, CreatedFields, CreatedProposals
<1>2. /\ c.created
      /\ index = c.transactionIndex + 1
      /\ index \in 1 .. MaxIndex
      /\ c.transactionIndex \in Nat /\ c.staleTransactionIndex \in Nat
  BY MaxIndexAssumption DEF WellFormed, Chain, CanCreate, Index
<1> HIDE DEF d
<1>3. \A i \in Index : d.props[i].status # "none" => i \in 1 .. d.transactionIndex
  BY <1>1, <1>2, MaxIndexAssumption DEF WellFormed, Index
<1> QED
  BY <1>1, <1>2, <1>3, MaxIndexAssumption DEF WellFormed, d

\* What Approved leaves in the proposal.
LEMMA ApprovedProposal ==
  ASSUME NEW c \in Chain, NEW signer \in Address, NEW index \in Index, NEW t \in Nat
  PROVE  \E q \in Proposal :
           /\ Approved(c, signer, index, t) = Update(c, index, q)
           /\ q.approved = c.props[index].approved \cup {signer}
           /\ q.rejected = c.props[index].rejected \ {signer}
           /\ q.payload = c.props[index].payload
           /\ q.open = c.props[index].open
           /\ IF Cardinality(q.approved) >= c.threshold
              THEN q.status = "approved" /\ q.since = t
              ELSE q.status = "active" /\ q.since = 0
<1> DEFINE p == c.props[index]
           ayes == p.approved \cup {signer}
           settled == Cardinality(ayes) >= c.threshold
           q == [p EXCEPT !.approved = ayes, !.rejected = p.rejected \ {signer},
                          !.status = IF settled THEN "approved" ELSE "active",
                          !.since = IF settled THEN t ELSE 0]
<1>1. p \in Proposal
  BY DEF Chain
<1>2. q \in Proposal
  <2> HIDE DEF p, settled
  <2> QED BY <1>1 DEF Proposal, Status
<1>3. /\ q.approved = ayes /\ q.rejected = p.rejected \ {signer}
      /\ q.payload = p.payload /\ q.open = p.open
      /\ IF settled THEN q.status = "approved" /\ q.since = t
                    ELSE q.status = "active" /\ q.since = 0
  <2> HIDE DEF p, settled
  <2> QED BY <1>1 DEF Proposal
<1>4. Approved(c, signer, index, t) = Update(c, index, q)
  BY DEF Approved
<1> QED
  BY <1>2, <1>3, <1>4

\* What Rejected leaves in the proposal.
LEMMA RejectedProposal ==
  ASSUME NEW c \in Chain, NEW signer \in Address, NEW index \in Index
  PROVE  \E q \in Proposal :
           /\ Rejected(c, signer, index) = Update(c, index, q)
           /\ q.approved = c.props[index].approved \ {signer}
           /\ q.rejected = c.props[index].rejected \cup {signer}
           /\ q.payload = c.props[index].payload
           /\ q.open = c.props[index].open
           /\ q.status = IF Cardinality(q.rejected) >= Cutoff(c) THEN "rejected" ELSE "active"
<1> DEFINE p == c.props[index]
           noes == p.rejected \cup {signer}
           settled == Cardinality(noes) >= Cutoff(c)
           q == [p EXCEPT !.rejected = noes, !.approved = p.approved \ {signer},
                          !.status = IF settled THEN "rejected" ELSE "active"]
<1>1. p \in Proposal
  BY DEF Chain
<1>2. q \in Proposal
  <2> HIDE DEF p, settled
  <2> QED BY <1>1 DEF Proposal, Status
<1>3. /\ q.rejected = noes /\ q.approved = p.approved \ {signer}
      /\ q.payload = p.payload /\ q.open = p.open
      /\ q.status = IF settled THEN "rejected" ELSE "active"
  <2> HIDE DEF p, settled
  <2> QED BY <1>1 DEF Proposal
<1>4. Rejected(c, signer, index) = Update(c, index, q)
  BY DEF Rejected
<1> QED
  BY <1>2, <1>3, <1>4

\* A change the program accepts leaves masks and a threshold of their types.
LEMMA ReconfiguredType ==
  ASSUME NEW masks \in [Address -> Mask], NEW threshold \in Nat, NEW change \in Change,
         Applicable(masks, threshold, change)
  PROVE  /\ Reconfigured(masks, change) \in [Address -> Mask]
         /\ NewThreshold(threshold, change) \in Nat
<1>1. Reconfigured(masks, change) \in [Address -> Mask]
  BY DEF Reconfigured, Change, Mask
<1>2. NewThreshold(threshold, change) \in Nat
  BY DEF NewThreshold, Change, Keep
<1> QED
  BY <1>1, <1>2

(***************************************************************************)
(* How one step moves the accounts.                                        *)
(***************************************************************************)

\* Every step of the program keeps the accounts well-formed and the payloads of
\* existing proposals, and if it changes the members or the threshold it makes
\* every existing proposal stale.
Evolves(c, d) ==
  /\ WellFormed(d)
  /\ c.transactionIndex <= d.transactionIndex
  /\ \A i \in 1 .. c.transactionIndex : d.props[i].payload = c.props[i].payload
  /\ \/ /\ d.masks = c.masks /\ d.threshold = c.threshold
        /\ d.staleTransactionIndex = c.staleTransactionIndex
     \/ d.staleTransactionIndex >= c.transactionIndex

\* Two such steps in a row are one.
LEMMA EvolvesTransitive ==
  ASSUME NEW c, NEW d, NEW e, WellFormed(c), Evolves(c, d), Evolves(d, e)
  PROVE  Evolves(c, e)
<1>1. /\ c.transactionIndex \in Nat /\ d.transactionIndex \in Nat
      /\ e.transactionIndex \in Nat /\ c.staleTransactionIndex \in Nat
      /\ d.staleTransactionIndex \in Nat /\ e.staleTransactionIndex \in Nat
  BY DEF Evolves, WellFormed, Chain
<1> QED
  BY <1>1 DEF Evolves

\* Writing a proposal evolves the accounts if it keeps the payload.
LEMMA UpdateEvolves ==
  ASSUME NEW c, WellFormed(c), NEW index \in Index, NEW q \in Proposal,
         q.status # "none" => index \in 1 .. c.transactionIndex,
         q.payload = c.props[index].payload
  PROVE  Evolves(c, Update(c, index, q))
<1>1. c \in Chain /\ c.transactionIndex \in Nat /\ 1 .. c.transactionIndex \subseteq Index
  BY MaxIndexAssumption DEF WellFormed, Chain, Index
<1>2. WellFormed(Update(c, index, q))
  BY UpdateWellFormed
<1>3. \A i \in 1 .. c.transactionIndex :
        Update(c, index, q).props[i].payload = c.props[i].payload
  BY <1>1, UpdateFields
<1> QED
  BY <1>1, <1>2, <1>3, UpdateFields DEF Evolves

\* So does creating a proposal.
LEMMA CreatedEvolves ==
  ASSUME NEW c, WellFormed(c), NEW signer, NEW index \in Index, NEW payload \in Payload,
         CanCreate(c, signer, index, payload)
  PROVE  Evolves(c, Created(c, index, payload))
<1>1. c \in Chain /\ c.transactionIndex \in Nat /\ 1 .. c.transactionIndex \subseteq Index
  BY MaxIndexAssumption DEF WellFormed, Chain, Index
<1>2. index = c.transactionIndex + 1
  BY DEF CanCreate
<1>3. WellFormed(Created(c, index, payload))
  BY CreatedWellFormed
<1>4. \A i \in 1 .. c.transactionIndex :
        Created(c, index, payload).props[i].payload = c.props[i].payload
  BY <1>1, <1>2, CreatedProposals
<1> QED
  BY <1>1, <1>2, <1>3, <1>4, CreatedFields DEF Evolves

\* So does an approval.
LEMMA ApprovedEvolves ==
  ASSUME NEW c, WellFormed(c), NEW signer \in Address, NEW index \in Index,
         CanApprove(c, signer, index), NEW t \in Nat
  PROVE  Evolves(c, Approved(c, signer, index, t))
<1>1. index \in 1 .. c.transactionIndex
  BY DEF WellFormed, CanApprove, CanVote
<1>2. PICK q \in Proposal : /\ Approved(c, signer, index, t) = Update(c, index, q)
                            /\ q.payload = c.props[index].payload
  BY ApprovedProposal DEF WellFormed
<1> QED
  BY <1>1, <1>2, UpdateEvolves

\* So does a rejection.
LEMMA RejectedEvolves ==
  ASSUME NEW c, WellFormed(c), NEW signer \in Address, NEW index \in Index,
         CanReject(c, signer, index)
  PROVE  Evolves(c, Rejected(c, signer, index))
<1>1. index \in 1 .. c.transactionIndex
  BY DEF WellFormed, CanReject, CanVote
<1>2. PICK q \in Proposal : /\ Rejected(c, signer, index) = Update(c, index, q)
                            /\ q.payload = c.props[index].payload
  BY RejectedProposal DEF WellFormed
<1> QED
  BY <1>1, <1>2, UpdateEvolves

\* Applying a change makes every proposal stale.
LEMMA AppliedEvolves ==
  ASSUME NEW c, WellFormed(c), NEW change \in Change,
         Applicable(c.masks, c.threshold, change)
  PROVE  Evolves(c, Applied(c, change))
<1> DEFINE masks == Reconfigured(c.masks, change)
           threshold == NewThreshold(c.threshold, change)
<1>1. masks \in [Address -> Mask] /\ threshold \in Nat
  BY ReconfiguredType DEF WellFormed, Chain
<1> HIDE DEF masks, threshold
<1> DEFINE d == [c EXCEPT !.masks = masks, !.threshold = threshold,
                          !.staleTransactionIndex = c.transactionIndex]
<1>2. Applied(c, change) = d
  BY DEF Applied, masks, threshold
<1>3. /\ d \in Chain
      /\ d.created = c.created
      /\ d.transactionIndex = c.transactionIndex
      /\ d.staleTransactionIndex = c.transactionIndex
      /\ d.props = c.props
  BY <1>1 DEF WellFormed, Chain
<1>4. c.transactionIndex \in Nat
  BY DEF WellFormed, Chain
<1> HIDE DEF d
<1> QED
  BY <1>2, <1>3, <1>4 DEF WellFormed, Evolves

\* So does the execution of a proposal, of any kind.
LEMMA ExecutedEvolves ==
  ASSUME NEW c, WellFormed(c), NEW signer \in Address, NEW index \in Index, NEW t \in Nat,
         CanExecute(c, signer, index, t)
  PROVE  Evolves(c, Executed(c, index))
<1> DEFINE p == c.props[index]
           q == [p EXCEPT !.status = "executed", !.since = 0]
           done == Update(c, index, q)
<1>1. p \in Proposal /\ p.payload.change \in Change
  BY DEF WellFormed, Chain, Proposal, Payload
<1>2. q \in Proposal /\ q.payload = p.payload
  <2> HIDE DEF p
  <2> QED BY <1>1 DEF Proposal, Status
<1>3. index \in 1 .. c.transactionIndex
  BY DEF WellFormed, CanExecute
<1>4. Evolves(c, done)
  BY <1>2, <1>3, UpdateEvolves
<1>5. Executed(c, index) = IF IsConfig(p.payload)
                           THEN Applied(done, p.payload.change) ELSE done
  BY DEF Executed
<1>6. CASE IsConfig(p.payload)
  <2>1. Applicable(c.masks, c.threshold, p.payload.change)
    BY <1>6 DEF CanExecute
  <2>2. done.masks = c.masks /\ done.threshold = c.threshold
    BY <1>2, UpdateFields DEF WellFormed
  <2> HIDE DEF done, p
  <2>3. WellFormed(done)
    BY <1>4 DEF Evolves
  <2>4. Evolves(done, Applied(done, p.payload.change))
    BY <1>1, <2>1, <2>2, <2>3, AppliedEvolves
  <2> QED
    BY <1>4, <1>5, <1>6, <2>4, EvolvesTransitive
<1>7. CASE ~IsConfig(p.payload)
  BY <1>4, <1>5, <1>7
<1> QED
  BY <1>6, <1>7

\* Whatever transaction the program accepts evolves the accounts; a creation
\* leaves its payload at its index.
LEMMA OutcomeEvolves ==
  ASSUME NEW c, WellFormed(c), NEW tx \in Transaction, NEW t \in Nat, Accepts(c, tx, t)
  PROVE  /\ Evolves(c, Outcome(c, tx, t))
         /\ tx.op = "create" =>
              LET d == Outcome(c, tx, t) IN
              /\ tx.index \in 1 .. d.transactionIndex
              /\ d.props[tx.index].payload = tx.payload
              /\ \/ d.masks = c.masks /\ d.threshold = c.threshold
                 \/ d.staleTransactionIndex >= tx.index
<1>0. /\ tx.signer \in Address /\ tx.index \in Index /\ tx.payload \in Payload
      /\ tx.masks \in [Address -> Mask] /\ tx.threshold \in Nat /\ tx.op \in Op
  BY DEF Transaction
<1>1. CASE tx.op = "deploy"
  <2>1. WellFormed(Deployed(c, tx.masks, tx.threshold))
    BY <1>0, DeployedWellFormed
  <2>2. c.transactionIndex = 0
    BY <1>1 DEF Accepts, CanDeploy, WellFormed
  <2>3. /\ Deployed(c, tx.masks, tx.threshold).transactionIndex = c.transactionIndex
        /\ Deployed(c, tx.masks, tx.threshold).props = c.props
        /\ Deployed(c, tx.masks, tx.threshold).staleTransactionIndex \in Nat
    BY <1>0 DEF Deployed, WellFormed, Chain
  <2>4. Outcome(c, tx, t) = Deployed(c, tx.masks, tx.threshold)
    BY <1>1 DEF Outcome
  <2> QED
    BY <1>1, <2>1, <2>2, <2>3, <2>4 DEF Evolves
<1>2. CASE tx.op = "reject"
  <2>1. CanReject(c, tx.signer, tx.index)
    BY <1>2 DEF Accepts
  <2> QED
    BY <1>0, <1>2, <2>1, RejectedEvolves DEF Outcome
<1>3. CASE tx.op = "execute"
  <2>1. CanExecute(c, tx.signer, tx.index, t)
    BY <1>3 DEF Accepts
  <2> QED
    BY <1>0, <1>3, <2>1, ExecutedEvolves DEF Outcome
<1>4. CASE tx.op = "approve"
  <2> DEFINE voted == Approved(c, tx.signer, tx.index, t)
  <2>1. /\ CanApprove(c, tx.signer, tx.index)
        /\ tx.run => CanExecute(voted, tx.signer, tx.index, t)
    BY <1>4 DEF Accepts
  <2>2. Outcome(c, tx, t) = IF tx.run THEN Executed(voted, tx.index) ELSE voted
    BY <1>4 DEF Outcome
  <2>3. Evolves(c, voted)
    BY <1>0, <2>1, ApprovedEvolves
  <2> HIDE DEF voted
  <2>4. tx.run => Evolves(voted, Executed(voted, tx.index))
    BY <1>0, <2>1, <2>3, ExecutedEvolves DEF Evolves
  <2> QED
    BY <1>4, <2>2, <2>3, <2>4, EvolvesTransitive
<1>5. CASE tx.op = "create"
  <2> DEFINE created == Created(c, tx.index, tx.payload)
             voted == Approved(created, tx.signer, tx.index, t)
             d == Outcome(c, tx, t)
  <2>1. /\ CanCreate(c, tx.signer, tx.index, tx.payload)
        /\ tx.run => /\ CanApprove(created, tx.signer, tx.index)
                     /\ CanExecute(voted, tx.signer, tx.index, t)
    BY <1>5 DEF Accepts
  <2>2. d = IF tx.run THEN Executed(voted, tx.index) ELSE created
    BY <1>5 DEF Outcome
  <2>3. Evolves(c, created)
    BY <1>0, <2>1, CreatedEvolves
  <2>4. /\ created.transactionIndex = tx.index
        /\ created.masks = c.masks /\ created.threshold = c.threshold
        /\ created.props[tx.index].payload = tx.payload
        /\ tx.index \in 1 .. tx.index
    <3>1. c \in Chain /\ tx.index = c.transactionIndex + 1
      BY <2>1 DEF WellFormed, CanCreate
    <3>2. tx.index \in 1 .. tx.index
      BY <1>0, <3>1, MaxIndexAssumption DEF Chain, Index
    <3> QED
      BY <1>0, <3>1, <3>2, CreatedFields, CreatedProposals, OpenedType
  <2> HIDE DEF created
  <2>5. WellFormed(created)
    BY <2>3 DEF Evolves
  <2>6. tx.run => Evolves(created, voted)
    BY <1>0, <2>1, <2>5, ApprovedEvolves
  <2> HIDE DEF voted
  <2>7. tx.run => Evolves(voted, Executed(voted, tx.index))
    BY <1>0, <2>1, <2>6, ExecutedEvolves DEF Evolves
  <2>8. tx.run => Evolves(created, Executed(voted, tx.index))
    BY <2>5, <2>6, <2>7, EvolvesTransitive
  <2>9. d = created \/ Evolves(created, d)
    BY <2>2, <2>8
  <2>10. Evolves(c, d)
    BY <2>3, <2>9, EvolvesTransitive
  <2> HIDE DEF d
  <2>11. /\ d.transactionIndex \in Nat /\ tx.index <= d.transactionIndex
         /\ d.props[tx.index].payload = tx.payload
         /\ \/ d.masks = c.masks /\ d.threshold = c.threshold
            \/ d.staleTransactionIndex >= tx.index
    <3>1. /\ created.transactionIndex = tx.index
          /\ \A i \in 1 .. created.transactionIndex :
               d.props[i].payload = created.props[i].payload
          /\ d = created \/ created.transactionIndex <= d.transactionIndex
          /\ \/ d.masks = c.masks /\ d.threshold = c.threshold
             \/ d.staleTransactionIndex >= tx.index
      BY <2>4, <2>9 DEF Evolves
    <3>2. d.transactionIndex \in Nat
      BY <2>10 DEF Evolves, WellFormed, Chain
    <3> QED BY <1>0, <2>4, <3>1, <3>2
  <2>12. tx.index \in 1 .. d.transactionIndex
    BY <2>4, <2>11
  <2> QED
    BY <2>10, <2>11, <2>12 DEF d
<1> QED
  BY <1>0, <1>1, <1>2, <1>3, <1>4, <1>5 DEF Op

(***************************************************************************)
(* Votes count.                                                            *)
(***************************************************************************)

\* Writing a sound proposal keeps the accounts sound.
LEMMA UpdateSound ==
  ASSUME NEW c, Sound(c), NEW index \in Index, NEW q \in Proposal,
         q.status # "none" => index \in 1 .. c.transactionIndex,
         SoundProposal(c, index, q)
  PROVE  Sound(Update(c, index, q))
<1> DEFINE d == Update(c, index, q)
<1>1. c \in Chain /\ WellFormed(c)
  BY DEF Sound, WellFormed
<1>2. WellFormed(d)
  BY <1>1, UpdateWellFormed
<1>3. /\ d.props[index] = q /\ \A i \in Index \ {index} : d.props[i] = c.props[i]
      /\ d.created = c.created /\ d.masks = c.masks /\ d.threshold = c.threshold
      /\ d.staleTransactionIndex = c.staleTransactionIndex
  BY <1>1, UpdateFields
<1> HIDE DEF d
<1>4. \A i \in Index : SoundProposal(d, i, d.props[i])
  BY <1>3 DEF Sound, SoundProposal, VotesCount, Cutoff
<1> QED
  BY <1>2, <1>3, <1>4 DEF Sound, d

\* No vote counts under every viable configuration.
LEMMA NoVotesCount ==
  ASSUME NEW c \in Chain, Viable(c.masks, c.threshold), NEW p,
         p.approved = {}, p.rejected = {}, p.status \in {"none", "active"}
  PROVE  VotesCount(c, p)
<1>1. c.threshold \in Nat /\ c.threshold >= 1
  BY DEF Viable, Chain
<1>2. Holders(c.masks, "vote") \in SUBSET Address
  BY DEF Holders
<1>3. Cardinality(Holders(c.masks, "vote")) \in Nat
  BY <1>2, AddressSetsFinite
<1>4. Cutoff(c) >= 1
  BY <1>1, <1>3 DEF Viable, Cutoff
<1> QED
  BY <1>1, <1>3, <1>4, FS_EmptySet DEF VotesCount, Cutoff

\* A new configuration that is viable leaves the accounts sound, because it makes
\* every proposal stale.
LEMMA ReconfigurationSound ==
  ASSUME NEW c, Sound(c), c.created, NEW d, WellFormed(d), d.created,
         Viable(d.masks, d.threshold), d.props = c.props,
         d.transactionIndex = c.transactionIndex,
         d.staleTransactionIndex = c.transactionIndex
  PROVE  Sound(d)
<1> SUFFICES ASSUME NEW i \in Index PROVE SoundProposal(d, i, d.props[i])
  BY DEF Sound
<1>1. SoundProposal(c, i, c.props[i])
  BY DEF Sound
<1>2. d \in Chain /\ c.transactionIndex \in Nat /\ i \in Nat
  BY MaxIndexAssumption DEF Sound, WellFormed, Chain, Index
<1>3. ASSUME i > d.staleTransactionIndex PROVE VotesCount(d, d.props[i])
  <2>1. c.props[i].status = "none"
    BY <1>2, <1>3 DEF Sound, WellFormed
  <2> QED
    BY <1>1, <1>2, <2>1, NoVotesCount DEF SoundProposal
<1> QED
  BY <1>1, <1>3 DEF SoundProposal

\* An approval by a voter on a live, active proposal is counted.
LEMMA ApprovedSound ==
  ASSUME NEW c, Sound(c), NEW signer \in Address, NEW index \in Index,
         CanApprove(c, signer, index), NEW t \in Nat
  PROVE  Sound(Approved(c, signer, index, t))
<1> DEFINE p == c.props[index]
<1>1. /\ c \in Chain /\ WellFormed(c) /\ p \in Proposal /\ c.threshold \in Nat
      /\ p.approved \in SUBSET Address /\ p.rejected \in SUBSET Address
  BY DEF Sound, WellFormed, Chain, Proposal
<1>2. /\ "vote" \in c.masks[signer] /\ p.status = "active"
      /\ index > c.staleTransactionIndex /\ index \in 1 .. c.transactionIndex
  BY <1>1 DEF CanApprove, CanVote, WellFormed
<1>3. VotesCount(c, p)
  BY <1>2 DEF Sound, SoundProposal
<1>4. PICK q \in Proposal :
        /\ Approved(c, signer, index, t) = Update(c, index, q)
        /\ q.approved = p.approved \cup {signer}
        /\ q.rejected = p.rejected \ {signer}
        /\ q.payload = p.payload
        /\ q.open = p.open
        /\ IF Cardinality(q.approved) >= c.threshold
           THEN q.status = "approved" /\ q.since = t
           ELSE q.status = "active" /\ q.since = 0
  BY <1>1, ApprovedProposal
<1> HIDE DEF p
<1>5. signer \in Holders(c.masks, "vote")
  BY <1>2 DEF Holders
<1>6. /\ IsFiniteSet(p.rejected) /\ q.rejected \subseteq p.rejected
      /\ Cardinality(q.rejected) <= Cardinality(p.rejected)
      /\ Cardinality(q.rejected) \in Nat /\ Cardinality(p.rejected) \in Nat
      /\ Cardinality(q.approved) \in Nat
  BY <1>1, <1>4, AddressSetsFinite, FS_Subset
<1>7. Cardinality(Holders(c.masks, "vote")) \in Nat
  BY AddressSetsFinite DEF Holders
<1>8. Cardinality(q.rejected) < Cutoff(c)
  BY <1>1, <1>2, <1>3, <1>6, <1>7 DEF VotesCount, Cutoff
<1>9. VotesCount(c, q)
  <2>1. /\ q.approved \cup q.rejected \subseteq Holders(c.masks, "vote")
        /\ q.approved \cap q.rejected = {}
    BY <1>3, <1>4, <1>5 DEF VotesCount
  <2>2. q.status = "active" => Cardinality(q.approved) < c.threshold
    BY <1>1, <1>4, <1>6
  <2>3. q.status \in {"approved", "executed"} => Cardinality(q.approved) >= c.threshold
    BY <1>4
  <2> QED
    BY <1>8, <2>1, <2>2, <2>3 DEF VotesCount
<1>10. SoundProposal(c, index, q)
  BY <1>4, <1>9 DEF SoundProposal
<1> QED
  BY <1>2, <1>4, <1>10, UpdateSound

\* So is a rejection.
LEMMA RejectedSound ==
  ASSUME NEW c, Sound(c), NEW signer \in Address, NEW index \in Index,
         CanReject(c, signer, index)
  PROVE  Sound(Rejected(c, signer, index))
<1> DEFINE p == c.props[index]
<1>1. /\ c \in Chain /\ WellFormed(c) /\ p \in Proposal /\ c.threshold \in Nat
      /\ p.approved \in SUBSET Address /\ p.rejected \in SUBSET Address
  BY DEF Sound, WellFormed, Chain, Proposal
<1>2. /\ "vote" \in c.masks[signer] /\ p.status = "active"
      /\ index > c.staleTransactionIndex /\ index \in 1 .. c.transactionIndex
  BY <1>1 DEF CanReject, CanVote, WellFormed
<1>3. VotesCount(c, p)
  BY <1>2 DEF Sound, SoundProposal
<1>4. PICK q \in Proposal :
        /\ Rejected(c, signer, index) = Update(c, index, q)
        /\ q.approved = p.approved \ {signer}
        /\ q.rejected = p.rejected \cup {signer}
        /\ q.payload = p.payload
        /\ q.status = IF Cardinality(q.rejected) >= Cutoff(c) THEN "rejected" ELSE "active"
  BY <1>1, RejectedProposal
<1> HIDE DEF p
<1>5. signer \in Holders(c.masks, "vote")
  BY <1>2 DEF Holders
<1>6. /\ IsFiniteSet(p.approved) /\ q.approved \subseteq p.approved
      /\ Cardinality(q.approved) <= Cardinality(p.approved)
      /\ Cardinality(q.approved) \in Nat /\ Cardinality(p.approved) \in Nat
      /\ Cardinality(q.rejected) \in Nat
  BY <1>1, <1>4, AddressSetsFinite, FS_Subset
<1>7. Cardinality(Holders(c.masks, "vote")) \in Nat
  BY AddressSetsFinite DEF Holders
<1>8. Cardinality(q.approved) < c.threshold
  BY <1>1, <1>2, <1>3, <1>6 DEF VotesCount
<1>9. VotesCount(c, q)
  <2>1. /\ q.approved \cup q.rejected \subseteq Holders(c.masks, "vote")
        /\ q.approved \cap q.rejected = {}
    BY <1>3, <1>4, <1>5 DEF VotesCount
  <2>2. Cutoff(c) \in Int
    BY <1>1, <1>7 DEF Cutoff
  <2>3. q.status = "active" => Cardinality(q.rejected) < Cutoff(c)
    BY <1>4, <1>6, <2>2
  <2>4. q.status \notin {"approved", "executed"}
    BY <1>4
  <2> QED
    BY <1>8, <2>1, <2>3, <2>4 DEF VotesCount
<1>10. SoundProposal(c, index, q)
  BY <1>4, <1>9 DEF SoundProposal
<1> QED
  BY <1>2, <1>4, <1>10, UpdateSound

\* A proposal opens without votes, which cannot settle it.
LEMMA CreatedSound ==
  ASSUME NEW c, Sound(c), NEW signer, NEW index \in Index, NEW payload \in Payload,
         CanCreate(c, signer, index, payload)
  PROVE  Sound(Created(c, index, payload))
<1> DEFINE d == Created(c, index, payload)
<1>0. c \in Chain
  BY DEF Sound, WellFormed
<1>1. WellFormed(c) /\ c.created /\ Viable(c.masks, c.threshold)
  BY DEF Sound, WellFormed, CanCreate
<1>2. WellFormed(d)
  BY <1>1, CreatedWellFormed
<1>3. /\ d.created = c.created /\ d.masks = c.masks /\ d.threshold = c.threshold
      /\ d.staleTransactionIndex = c.staleTransactionIndex
      /\ d.props[index] = Opened(payload)
      /\ \A i \in Index \ {index} : d.props[i] = c.props[i]
  BY <1>0, CreatedFields, CreatedProposals
<1> HIDE DEF d
<1>4. SoundProposal(c, index, Opened(payload))
  <2>1. /\ Opened(payload).status = "active"
        /\ Opened(payload).approved = {} /\ Opened(payload).rejected = {}
    BY OpenedType
  <2> QED
    BY <1>0, <1>1, <2>1, NoVotesCount DEF SoundProposal
<1>5. \A i \in Index : SoundProposal(d, i, d.props[i])
  BY <1>3, <1>4 DEF Sound, SoundProposal, VotesCount, Cutoff
<1> QED
  BY <1>1, <1>2, <1>3, <1>5 DEF Sound, d

\* Executing a proposal keeps the votes that approved it, or ends its life with
\* every other one's.
LEMMA ExecutedSound ==
  ASSUME NEW c, Sound(c), NEW signer \in Address, NEW index \in Index, NEW t \in Nat,
         CanExecute(c, signer, index, t)
  PROVE  Sound(Executed(c, index))
<1> DEFINE p == c.props[index]
           q == [p EXCEPT !.status = "executed", !.since = 0]
           done == Update(c, index, q)
<1>0. c \in Chain
  BY DEF Sound, WellFormed
<1>1. /\ WellFormed(c) /\ p \in Proposal /\ p.payload.change \in Change
      /\ p.status = "approved" /\ c.created /\ index \in 1 .. c.transactionIndex
  BY DEF Sound, WellFormed, Chain, Proposal, Payload, CanExecute
<1>2. /\ q \in Proposal /\ q.status = "executed"
      /\ q.approved = p.approved /\ q.rejected = p.rejected
  <2> HIDE DEF p
  <2> QED BY <1>1 DEF Proposal, Status
<1>3. SoundProposal(c, index, q)
  <2>1. SoundProposal(c, index, p)
    BY DEF Sound
  <2> HIDE DEF q, p
  <2> QED
    BY <1>1, <1>2, <2>1 DEF SoundProposal, VotesCount
<1>4. Sound(done)
  BY <1>1, <1>2, <1>3, UpdateSound
<1>5. Executed(c, index) = IF IsConfig(p.payload)
                           THEN Applied(done, p.payload.change) ELSE done
  BY DEF Executed
<1>6. CASE IsConfig(p.payload)
  <2>1. Applicable(c.masks, c.threshold, p.payload.change)
    BY <1>6 DEF CanExecute
  <2>2. /\ done.masks = c.masks /\ done.threshold = c.threshold
        /\ done.created = c.created /\ done \in Chain
    BY <1>0, <1>2, UpdateFields
  <2> HIDE DEF done, p
  <2> DEFINE change == p.payload.change
             e == Applied(done, change)
  <2>3. Applicable(done.masks, done.threshold, change)
    BY <2>1, <2>2
  <2>4. Viable(Reconfigured(done.masks, change), NewThreshold(done.threshold, change))
    BY <2>3 DEF Applicable
  <2>5. WellFormed(e)
    BY <1>1, <1>4, <2>3, AppliedEvolves DEF Sound, Evolves
  <2>6. /\ e.created = done.created /\ e.props = done.props
        /\ e.masks = Reconfigured(done.masks, change)
        /\ e.threshold = NewThreshold(done.threshold, change)
        /\ e.transactionIndex = done.transactionIndex
        /\ e.staleTransactionIndex = done.transactionIndex
    BY <2>2 DEF Applied, Chain
  <2> HIDE DEF e
  <2>7. Sound(e)
    BY <1>1, <1>4, <2>2, <2>4, <2>5, <2>6, ReconfigurationSound
  <2> QED
    BY <1>5, <1>6, <2>7 DEF e
<1>7. CASE ~IsConfig(p.payload)
  BY <1>4, <1>5, <1>7
<1> QED
  BY <1>6, <1>7

\* Every transaction the program accepts keeps the accounts sound.
LEMMA OutcomeSound ==
  ASSUME NEW c, Sound(c), NEW tx \in Transaction, NEW t \in Nat, Accepts(c, tx, t)
  PROVE  Sound(Outcome(c, tx, t))
<1>0. /\ tx.signer \in Address /\ tx.index \in Index /\ tx.payload \in Payload
      /\ tx.masks \in [Address -> Mask] /\ tx.threshold \in Nat /\ tx.op \in Op
      /\ WellFormed(c) /\ c \in Chain
  BY DEF Transaction, Sound, WellFormed
<1>1. CASE tx.op = "deploy"
  <2> DEFINE d == Deployed(c, tx.masks, tx.threshold)
  <2>1. WellFormed(d)
    BY <1>0, DeployedWellFormed
  <2>2. ~c.created /\ Viable(tx.masks, tx.threshold)
    BY <1>1 DEF Accepts, CanDeploy
  <2>3. /\ d.masks = tx.masks /\ d.threshold = tx.threshold /\ d.props = c.props
    BY <1>0 DEF Deployed, Chain
  <2> HIDE DEF d
  <2>4. d \in Chain /\ \A i \in Index : c.props[i].status = "none"
    BY <1>0, <2>1, <2>2 DEF WellFormed
  <2>5. \A i \in Index : SoundProposal(d, i, d.props[i])
    BY <2>2, <2>3, <2>4, NoVotesCount DEF Sound, SoundProposal
  <2>6. Outcome(c, tx, t) = d
    BY <1>1 DEF Outcome, d
  <2> QED
    BY <2>1, <2>2, <2>3, <2>5, <2>6 DEF Sound
<1>2. CASE tx.op = "reject"
  <2>1. CanReject(c, tx.signer, tx.index)
    BY <1>2 DEF Accepts
  <2> QED
    BY <1>0, <1>2, <2>1, RejectedSound DEF Outcome
<1>3. CASE tx.op = "execute"
  <2>1. CanExecute(c, tx.signer, tx.index, t)
    BY <1>3 DEF Accepts
  <2> QED
    BY <1>0, <1>3, <2>1, ExecutedSound DEF Outcome
<1>4. CASE tx.op = "approve"
  <2> DEFINE voted == Approved(c, tx.signer, tx.index, t)
  <2>1. /\ CanApprove(c, tx.signer, tx.index)
        /\ tx.run => CanExecute(voted, tx.signer, tx.index, t)
    BY <1>4 DEF Accepts
  <2>2. Outcome(c, tx, t) = IF tx.run THEN Executed(voted, tx.index) ELSE voted
    BY <1>4 DEF Outcome
  <2>3. Sound(voted)
    BY <1>0, <2>1, ApprovedSound
  <2> HIDE DEF voted
  <2> QED
    BY <1>0, <2>1, <2>2, <2>3, ExecutedSound
<1>5. CASE tx.op = "create"
  <2> DEFINE created == Created(c, tx.index, tx.payload)
             voted == Approved(created, tx.signer, tx.index, t)
  <2>1. /\ CanCreate(c, tx.signer, tx.index, tx.payload)
        /\ tx.run => /\ CanApprove(created, tx.signer, tx.index)
                     /\ CanExecute(voted, tx.signer, tx.index, t)
    BY <1>5 DEF Accepts
  <2>2. Outcome(c, tx, t) = IF tx.run THEN Executed(voted, tx.index) ELSE created
    BY <1>5 DEF Outcome
  <2>3. Sound(created)
    BY <1>0, <2>1, CreatedSound
  <2> HIDE DEF created
  <2>4. tx.run => Sound(voted)
    BY <1>0, <2>1, <2>3, ApprovedSound
  <2> HIDE DEF voted
  <2> QED
    BY <1>0, <2>1, <2>2, <2>3, <2>4, ExecutedSound
<1> QED
  BY <1>0, <1>1, <1>2, <1>3, <1>4, <1>5 DEF Op
=============================================================================
