-------------------------- MODULE ProposalReadsProofs --------------------------
(***************************************************************************)
(* What a caller of getProposals may rely on, for any list of ids, any     *)
(* size of a request and any number of moves of the members meanwhile.     *)
(***************************************************************************)
EXTENDS ProposalReads, SquadsProgramProofs, SequenceTheorems

\* The ids asked for in the positions up to n, and those of the next request.
UpTo(n) == {ids[j] : j \in {i \in DOMAIN ids : i <= n}}
Requested == {ids[j] : j \in {i \in DOMAIN ids : offset < i /\ i <= offset + ChunkSize}}

\* The call is between requests: a whole number of them has been answered.
Progress ==
  /\ ids \in Seq(Index) /\ offset \in Nat /\ threshold \in Nat
  /\ \E m \in Nat : offset = m * ChunkSize
  /\ DOMAIN answers = UpTo(offset)
  /\ ~Reading => seen = {}

\* The accounts the call may have seen: the last of them are those there are now.
\* Where the rules have not changed since, the threshold has not.
History ==
  /\ Sound(chain)
  /\ \A c \in seen : /\ Sound(c)
                     /\ c.staleTransactionIndex <= chain.staleTransactionIndex
                     /\ c.staleTransactionIndex = chain.staleTransactionIndex =>
                          c.threshold = chain.threshold
  /\ Reading => chain \in seen /\ \E c \in seen : c.threshold = threshold

\* Every answer shows a proposal as it stood at a moment of the call.
Sourced ==
  \A id \in DOMAIN answers :
    \E c \in seen : answers[id] = Shown(id, c.props[id], threshold)

\* The inductive invariant.
ReadsInv == Progress /\ History /\ Sourced /\ OneRequestOneMoment

(***************************************************************************)
(* Positions.                                                              *)
(***************************************************************************)

\* A list of ids is a function on its positions.
LEMMA IdList ==
  ASSUME Progress
  PROVE  /\ Len(ids) \in Nat /\ DOMAIN ids = 1 .. Len(ids)
         /\ \A i \in DOMAIN ids : ids[i] \in Index
         /\ ChunkSize \in Nat /\ ChunkSize > 0
BY LenProperties, ChunkSizeAssumption DEF Progress

\* Which numbers are positions.
LEMMA Positions ==
  ASSUME Progress
  PROVE  \A j : j \in DOMAIN ids <=> j \in Nat /\ 1 <= j /\ j <= Len(ids)
BY IdList

\* Requests do not overlap.
LEMMA Multiples ==
  ASSUME NEW k \in Nat, NEW m \in Nat, NEW size \in Nat
  PROVE  /\ k * size \in Nat /\ (k + 1) * size = k * size + size
         /\ k < m => (k + 1) * size <= m * size
         /\ k * size < (m + 1) * size => k <= m
<1>1. \A a \in Nat : a * size \in Nat /\ (a + 1) * size = a * size + size
  OBVIOUS
<1>2. \A a \in Nat, b \in Nat : (a + b) * size = a * size + b * size
  OBVIOUS
<1>3. ASSUME NEW a \in Nat, NEW b \in Nat, a <= b
      PROVE  a * size <= b * size
  <2>1. b - a \in Nat /\ b = a + (b - a)
    BY <1>3
  <2>2. b * size = a * size + (b - a) * size
    BY <1>2, <2>1
  <2> QED
    BY <1>1, <2>1, <2>2
<1>4. k < m => (k + 1) * size <= m * size
  BY <1>3
<1>5. k > m => (m + 1) * size <= k * size
  BY <1>3
<1>6. k * size < (m + 1) * size => k <= m
  BY <1>1, <1>5
<1> QED
  BY <1>1, <1>4, <1>6

\* A request asks for the positions after the offset, as many as there are, and
\* its answers are keyed by the ids at these positions.
LEMMA ChunkPositions ==
  ASSUME Progress, Reading, ~Returned
  PROVE  LET n == Min({offset + ChunkSize, Len(ids)}) IN
         /\ n \in Nat /\ offset < n /\ n <= Len(ids) /\ n <= offset + ChunkSize
         /\ n = offset + ChunkSize \/ n = Len(ids)
         /\ DOMAIN Chunk = 1 .. n - offset
         /\ \A i \in 1 .. n - offset : Chunk[i] = ids[offset + i]
<1> DEFINE n == Min({offset + ChunkSize, Len(ids)})
<1>1. /\ Len(ids) \in Nat /\ offset \in Nat /\ ChunkSize \in Nat /\ ChunkSize > 0
      /\ offset < Len(ids)
  BY IdList DEF Progress, Returned
<1>2. \E x \in {offset + ChunkSize, Len(ids)} : \A y \in {offset + ChunkSize, Len(ids)} : x <= y
  BY <1>1
<1>3. n \in {offset + ChunkSize, Len(ids)} /\ \A y \in {offset + ChunkSize, Len(ids)} : n <= y
  BY <1>2 DEF Min
<1>4. n \in Nat /\ offset < n /\ n <= Len(ids) /\ n <= offset + ChunkSize
  BY <1>1, <1>3
<1>5. \A i \in offset + 1 .. n : ids[i] \in Index
  BY <1>1, <1>4, IdList
<1>6. Chunk = SubSeq(ids, offset + 1, n)
  BY DEF Chunk
<1> HIDE DEF n
<1>7. /\ SubSeq(ids, offset + 1, n) \in Seq(Index)
      /\ Len(SubSeq(ids, offset + 1, n)) =
           IF offset + 1 <= n THEN n - (offset + 1) + 1 ELSE 0
      /\ \A i \in 1 .. n - (offset + 1) + 1 :
           SubSeq(ids, offset + 1, n)[i] = ids[offset + 1 + i - 1]
  BY <1>1, <1>4, <1>5, SubSeqProperties
<1>8. DOMAIN Chunk = 1 .. n - offset /\ \A i \in 1 .. n - offset : Chunk[i] = ids[offset + i]
  BY <1>1, <1>4, <1>6, <1>7, LenProperties
<1> QED
  BY <1>3, <1>4, <1>8 DEF n

\* What a request adds to the answers: for its own ids, what the chain holds.
LEMMA ChunkAnswers ==
  ASSUME Progress, ReadChunk
  PROVE  /\ DOMAIN answers' = DOMAIN answers \cup Requested
         /\ \A id \in Requested : answers'[id] = Shown(id, chain.props[id], threshold)
         /\ \A id \in DOMAIN answers \ Requested : answers'[id] = answers[id]
<1> DEFINE n == Min({offset + ChunkSize, Len(ids)})
           positions(id) == {i \in DOMAIN Response : IdOf(i) = id}
           shown(id) == Shown(id, Response[CHOOSE i \in positions(id) : TRUE], threshold)
           read == {IdOf(i) : i \in DOMAIN Response}
<1>1. Reading /\ ~Returned
  BY DEF ReadChunk
<1>2. /\ n \in Nat /\ offset < n /\ n <= Len(ids) /\ n <= offset + ChunkSize
      /\ n = offset + ChunkSize \/ n = Len(ids)
      /\ DOMAIN Chunk = 1 .. n - offset
      /\ \A i \in 1 .. n - offset : Chunk[i] = ids[offset + i]
  BY <1>1, ChunkPositions
<1>3. /\ Len(ids) \in Nat /\ offset \in Nat /\ ChunkSize \in Nat /\ DOMAIN ids = 1 .. Len(ids)
  BY IdList DEF Progress
<1> HIDE DEF n
<1>4. /\ n \in Nat /\ offset \in Nat /\ ChunkSize \in Nat /\ Len(ids) \in Nat
      /\ offset < n /\ n <= Len(ids) /\ n <= offset + ChunkSize
      /\ n = offset + ChunkSize \/ n = Len(ids)
  BY <1>2, <1>3
<1>5. /\ DOMAIN Response = 1 .. n - offset
      /\ \A i \in 1 .. n - offset : Response[i] = chain.props[IdOf(i)] /\ IdOf(i) = ids[offset + i]
  BY <1>2 DEF Response, IdOf
<1>6. read = Requested
  <2>1. ASSUME NEW i \in 1 .. n - offset PROVE IdOf(i) \in Requested
    <3>1. /\ offset + i \in DOMAIN ids
          /\ offset < offset + i /\ offset + i <= offset + ChunkSize
      BY <1>4, Positions
    <3> QED
      BY <1>5, <3>1 DEF Requested
  <2>2. ASSUME NEW j \in DOMAIN ids, offset < j, j <= offset + ChunkSize
        PROVE  ids[j] \in read
    <3>1. j \in Nat /\ j <= Len(ids) /\ j <= n
      BY <1>4, <2>2, Positions
    <3>2. j - offset \in 1 .. n - offset /\ offset + (j - offset) = j
      BY <1>4, <2>2, <3>1
    <3>3. IdOf(j - offset) = ids[j]
      BY <1>5, <3>2
    <3> QED
      BY <1>5, <3>2, <3>3
  <2> QED
    BY <1>5, <2>1, <2>2 DEF Requested
<1>7. answers' = [id \in DOMAIN answers \cup read |->
                    IF positions(id) # {} THEN shown(id) ELSE answers[id]]
  BY DEF ReadChunk
<1>8. ASSUME NEW id \in Requested
      PROVE  positions(id) # {} /\ shown(id) = Shown(id, chain.props[id], threshold)
  <2>1. positions(id) # {}
    BY <1>6, <1>8
  <2>2. \A i \in positions(id) : Response[i] = chain.props[id]
    BY <1>5
  <2>3. (CHOOSE i \in positions(id) : TRUE) \in positions(id)
    BY <2>1
  <2> QED
    BY <2>1, <2>2, <2>3
<1>9. \A id : id \notin Requested => positions(id) = {}
  BY <1>6
<1> HIDE DEF read, positions, shown
<1> QED
  BY <1>6, <1>7, <1>8, <1>9

(***************************************************************************)
(* The members meanwhile.                                                  *)
(***************************************************************************)

\* What executing a vault transaction or a batch leaves of the rules.
LEMMA ExecutedRules ==
  ASSUME NEW c \in Chain, NEW index \in Index, ~IsConfig(c.props[index].payload)
  PROVE  /\ Executed(c, index).threshold = c.threshold
         /\ Executed(c, index).staleTransactionIndex = c.staleTransactionIndex
BY DEF Executed, Update, Chain

\* A move leaves the rules, or makes proposals stale that were not.
LEMMA MoveRules ==
  ASSUME NEW c, Sound(c), NEW tx \in Moves, Accepts(c, tx, 0)
  PROVE  LET d == Outcome(c, tx, 0) IN
         /\ Sound(d)
         /\ \/ /\ d.threshold = c.threshold
               /\ d.staleTransactionIndex = c.staleTransactionIndex
            \/ d.staleTransactionIndex > c.staleTransactionIndex
<1> DEFINE d == Outcome(c, tx, 0)
<1>1. tx \in Transaction /\ tx.op # "deploy" /\ tx.index \in Index /\ tx.signer \in Address
  BY NewPayloadAssumption, BlankTypes DEF Moves, Transaction, Op, Change
<1>2. WellFormed(c) /\ c \in Chain /\ c.staleTransactionIndex \in Nat /\ c.transactionIndex \in Nat
  BY DEF Sound, WellFormed, Chain
<1>3. Sound(d) /\ Evolves(c, d)
  BY <1>1, <1>2, OutcomeSound, OutcomeEvolves
<1>4. /\ d.staleTransactionIndex \in Nat
      /\ \/ /\ d.threshold = c.threshold
            /\ d.staleTransactionIndex = c.staleTransactionIndex
         \/ d.staleTransactionIndex >= c.transactionIndex
  BY <1>3 DEF Evolves, WellFormed, Chain
<1>5. CASE tx.op = "create"
  <2>1. tx.index = c.transactionIndex + 1 /\ tx.index > c.staleTransactionIndex
    BY <1>5 DEF Accepts, CanCreate
  <2>2. tx.index \in Nat
    BY <1>1, MaxIndexAssumption DEF Index
  <2>3. \/ d.threshold = c.threshold
        \/ d.staleTransactionIndex >= tx.index
    BY <1>1, <1>2, <1>5, OutcomeEvolves
  <2>4. c.staleTransactionIndex <= c.transactionIndex
    BY <1>2 DEF WellFormed
  <2> QED
    BY <1>2, <1>3, <1>4, <2>1, <2>2, <2>3, <2>4
<1>6. CASE tx.op \in {"approve", "reject"}
  <2>1. tx.index > c.staleTransactionIndex /\ tx.index <= c.transactionIndex
    BY <1>1, <1>2, <1>6 DEF Accepts, CanApprove, CanReject, CanVote, WellFormed
  <2> QED
    BY <1>1, <1>2, <1>3, <1>4, <2>1, MaxIndexAssumption DEF Index
<1>7. CASE tx.op = "execute"
  <2>1. CanExecute(c, tx.signer, tx.index, 0) /\ d = Executed(c, tx.index)
    BY <1>7 DEF Accepts, Outcome
  <2>2. CASE IsConfig(c.props[tx.index].payload)
    <3>1. tx.index > c.staleTransactionIndex /\ tx.index <= c.transactionIndex
      BY <1>1, <1>2, <2>1, <2>2 DEF CanExecute, WellFormed
    <3> QED
      BY <1>1, <1>2, <1>3, <1>4, <3>1, MaxIndexAssumption DEF Index
  <2>3. CASE ~IsConfig(c.props[tx.index].payload)
    BY <1>1, <1>2, <1>3, <2>1, <2>3, ExecutedRules
  <2> QED
    BY <2>2, <2>3
<1> QED
  BY <1>1, <1>5, <1>6, <1>7 DEF Transaction, Op

(***************************************************************************)
(* The inductive invariant.                                                *)
(***************************************************************************)

\* The answers agree with what they show.
LEMMA ShownTells ==
  ASSUME NEW c, NEW id, NEW required, answers[id] = Shown(id, c.props[id], required)
  PROVE  Tells(c, id)
BY DEF Tells, Shown, Absent

\* Before the first call there is nothing to answer.
LEMMA ReadsInvInit ==
  ASSUME Init
  PROVE  ReadsInv
<1> USE ChunkSizeAssumption DEF Init
<1>1. Progress
  <2>1. offset = 0 * ChunkSize
    OBVIOUS
  <2> QED
    BY <2>1 DEF Progress, UpTo, Reading
<1>2. History
  BY ReadChainAssumption DEF History, Reading
<1>3. Sourced /\ OneRequestOneMoment
  <2>1. \A k \in 0 .. Len(ids) : ~(k * ChunkSize < offset)
    OBVIOUS
  <2> QED
    BY <2>1 DEF Sourced, OneRequestOneMoment
<1> QED
  BY <1>1, <1>2, <1>3 DEF ReadsInv

\* A call that begins has nothing answered yet, and one that returns leaves nothing.
LEMMA BeginReturnPreserves ==
  ASSUME ReadsInv, Begin \/ Return
  PROVE  ReadsInv'
<1> USE ChunkSizeAssumption DEF Begin, Return
<1>1. Progress'
  <2>1. 0 = 0 * ChunkSize
    OBVIOUS
  <2>2. ids' \in Seq(Index) /\ threshold' \in Nat
    <3>1. CASE Begin
      <4>1. chain.threshold \in Nat
        BY DEF ReadsInv, History, Sound, WellFormed, Chain
      <4> QED
        BY <3>1, <4>1, RequestsAssumption
    <3>2. CASE Return
      BY <3>2
    <3> QED
      BY <3>1, <3>2
  <2>3. UpTo(offset)' = {}
    BY <2>2, LenProperties DEF UpTo
  <2>4. offset' = 0 /\ answers' = <<>> /\ (~Reading' => seen' = {})
    BY DEF Reading
  <2> QED
    BY <2>1, <2>2, <2>3, <2>4 DEF Progress
<1>2. History'
  <2>1. Sound(chain)' /\ chain' = chain
    BY DEF ReadsInv, History
  <2>2. CASE Begin
    <3>1. seen' = {chain} /\ threshold' = chain.threshold
      BY <2>2
    <3>2. chain.staleTransactionIndex \in Nat
      BY DEF ReadsInv, History, Sound, WellFormed, Chain
    <3> QED
      BY <2>1, <3>1, <3>2 DEF History
  <2>3. CASE Return
    <3>1. seen' = {} /\ ~Reading'
      BY <2>3 DEF Reading
    <3> QED
      BY <2>1, <3>1 DEF History
  <2> QED
    BY <2>2, <2>3
<1>3. Sourced'
  BY DEF Sourced
<1>4. OneRequestOneMoment'
  <2>1. \A k \in 0 .. Len(ids') : ~(k * ChunkSize < offset')
    <3>1. Len(ids') \in Nat
      BY RequestsAssumption, LenProperties DEF Begin, Return
    <3> QED
      BY <3>1, Multiples
  <2> QED
    BY <2>1 DEF OneRequestOneMoment
<1> QED
  BY <1>1, <1>2, <1>3, <1>4 DEF ReadsInv

\* A request adds answers of one moment, and replaces older ones to its own ids.
LEMMA ReadChunkPreserves ==
  ASSUME ReadsInv, ReadChunk
  PROVE  ReadsInv'
<1> USE IdList, Positions DEF ReadsInv
<1>1. /\ DOMAIN answers' = DOMAIN answers \cup Requested
      /\ \A id \in Requested : answers'[id] = Shown(id, chain.props[id], threshold)
      /\ \A id \in DOMAIN answers \ Requested : answers'[id] = answers[id]
  BY ChunkAnswers
<1>2. /\ UNCHANGED <<chain, ids, threshold, seen>> /\ offset' = offset + ChunkSize
      /\ Reading /\ chain \in seen /\ offset \in Nat
  BY DEF ReadChunk, History, Progress
<1>3. PICK m \in Nat : offset = m * ChunkSize
  BY DEF Progress
<1>4. offset' = (m + 1) * ChunkSize /\ m + 1 \in Nat
  BY <1>2, <1>3, Multiples
<1>5. UpTo(offset)' = UpTo(offset) \cup Requested
  BY <1>2 DEF UpTo, Requested
<1>6. Progress'
  BY <1>1, <1>2, <1>4, <1>5 DEF Progress, Reading
<1>7. History'
  BY <1>2 DEF History, Reading
<1>8. Sourced'
  BY <1>1, <1>2 DEF Sourced
<1>9. OneRequestOneMoment'
  <2> SUFFICES ASSUME NEW k \in 0 .. Len(ids), k * ChunkSize < offset'
               PROVE  \E c \in seen : \A id \in AnsweredBy(k)' : Tells(c, id)'
    BY <1>2 DEF OneRequestOneMoment
  <2>1. k \in Nat /\ k <= m
    BY <1>4, Multiples
  <2>2. CASE k = m
    <3>1. \A id \in AnsweredBy(k)' : id \in Requested
      BY <1>2, <1>3, <1>4, <2>2 DEF AnsweredBy, Requested
    <3>2. \A id \in AnsweredBy(k)' : Tells(chain, id)'
      BY <1>1, <1>2, <3>1 DEF Tells, Shown, Absent
    <3> QED
      BY <1>2, <3>2
  <2>3. CASE k < m
    <3>1. /\ k * ChunkSize \in Nat /\ (k + 1) * ChunkSize = k * ChunkSize + ChunkSize
          /\ (k + 1) * ChunkSize <= offset
      BY <1>3, <2>1, <2>3, Multiples
    <3>2. PICK c \in seen : \A id \in AnsweredBy(k) : Tells(c, id)
      BY <1>2, <3>1 DEF OneRequestOneMoment
    <3>3. ASSUME NEW id \in AnsweredBy(k)'
          PROVE  id \in AnsweredBy(k) /\ id \in DOMAIN answers /\ id \notin Requested
      <4> DEFINE first == k * ChunkSize
                 last == (k + 1) * ChunkSize
      <4>1. /\ first \in Nat /\ last \in Nat /\ last <= offset /\ offset \in Nat
            /\ offset' = offset + ChunkSize
        BY <1>2, <3>1
      <4>2. PICK j \in DOMAIN ids :
              /\ id = ids[j] /\ j \in first + 1 .. last
              /\ \A l \in DOMAIN ids : l > last /\ l <= offset' => ids[l] # ids[j]
        BY <1>2 DEF AnsweredBy
      <4> HIDE DEF first, last
      <4>3. \A l \in DOMAIN ids : l > last /\ l <= offset => ids[l] # ids[j]
        BY <4>1, <4>2
      <4>4. id \in AnsweredBy(k)
        BY <4>2, <4>3 DEF AnsweredBy, first, last
      <4>5. id \in DOMAIN answers
        BY <4>1, <4>2 DEF Progress, UpTo
      <4>6. id \notin Requested
        BY <1>2, <4>1, <4>2 DEF Requested
      <4> QED
        BY <4>4, <4>5, <4>6
    <3>4. \A id \in AnsweredBy(k)' : Tells(c, id)'
      BY <1>1, <3>2, <3>3 DEF Tells
    <3> QED
      BY <3>2, <3>4
  <2> QED
    BY <2>1, <2>2, <2>3
<1> QED
  BY <1>6, <1>7, <1>8, <1>9

\* The members' moves leave the answers, and what they were taken from.
LEMMA MovePreserves ==
  ASSUME ReadsInv, Move
  PROVE  ReadsInv'
<1> USE DEF ReadsInv
<1>1. PICK tx \in Moves : Accepts(chain, tx, 0) /\ chain' = Outcome(chain, tx, 0)
  BY DEF Move
<1>2. /\ UNCHANGED <<ids, threshold, offset, answers>>
      /\ seen' = IF Reading THEN seen \cup {chain'} ELSE {}
  BY DEF Move
<1>3. /\ Sound(chain) /\ Sound(chain')
      /\ \/ /\ chain'.threshold = chain.threshold
            /\ chain'.staleTransactionIndex = chain.staleTransactionIndex
         \/ chain'.staleTransactionIndex > chain.staleTransactionIndex
  BY <1>1, MoveRules DEF History
<1>4. seen \subseteq seen' \/ seen = {}
  BY <1>2 DEF Progress
<1>5. Progress'
  BY <1>2 DEF Progress, UpTo, Reading
<1>6. History'
  <2>1. \A c \in seen : c.staleTransactionIndex \in Nat
    BY DEF History, Sound, WellFormed, Chain
  <2>2. chain.staleTransactionIndex \in Nat /\ chain'.staleTransactionIndex \in Nat
    BY <1>3 DEF Sound, WellFormed, Chain
  <2>3. \A c \in seen : /\ Sound(c)
                        /\ c.staleTransactionIndex <= chain'.staleTransactionIndex
                        /\ c.staleTransactionIndex = chain'.staleTransactionIndex =>
                             c.threshold = chain'.threshold
    BY <1>3, <2>1, <2>2 DEF History
  <2>4. \A c \in seen' : c \in seen \/ c = chain'
    BY <1>2
  <2>5. Reading' => Reading /\ chain' \in seen' /\ seen \subseteq seen'
    BY <1>2 DEF Reading
  <2>6. Reading => \E c \in seen : c.threshold = threshold
    BY DEF History
  <2>7. Reading' => chain' \in seen' /\ \E c \in seen' : c.threshold = threshold'
    BY <1>2, <2>5, <2>6
  <2>8. \A c \in seen' : /\ Sound(c)
                         /\ c.staleTransactionIndex <= chain'.staleTransactionIndex
                         /\ c.staleTransactionIndex = chain'.staleTransactionIndex =>
                              c.threshold = chain'.threshold
    BY <1>3, <2>2, <2>3, <2>4
  <2>9. Sound(chain)'
    BY <1>3 DEF Sound, WellFormed, VotesCount, SoundProposal
  <2> QED
    BY <2>7, <2>8, <2>9 DEF History
<1>7. Sourced'
  BY <1>2, <1>4 DEF Sourced
<1>8. OneRequestOneMoment'
  BY <1>2, <1>4 DEF OneRequestOneMoment, AnsweredBy, Tells
<1> QED
  BY <1>5, <1>6, <1>7, <1>8

\* The inductive invariant of getProposals.
THEOREM ReadsInvariant == Spec => []ReadsInv
<1>1. Init => ReadsInv
  BY ReadsInvInit
<1>2. ReadsInv /\ [Next]_vars => ReadsInv'
  <2> SUFFICES ASSUME ReadsInv, [Next]_vars PROVE ReadsInv'
    OBVIOUS
  <2>1. CASE UNCHANGED vars
    <3> USE <2>1 DEF vars, ReadsInv
    <3>1. Progress'
      BY DEF Progress, UpTo, Reading
    <3>2. History'
      BY DEF History, Reading
    <3>3. Sourced'
      BY DEF Sourced
    <3>4. OneRequestOneMoment'
      BY DEF OneRequestOneMoment, AnsweredBy, Tells
    <3> QED
      BY <3>1, <3>2, <3>3, <3>4
  <2> QED
    BY <2>1, BeginReturnPreserves, ReadChunkPreserves, MovePreserves DEF Next
<1> QED
  BY <1>1, <1>2, PTL DEF Spec

(***************************************************************************)
(* The properties.                                                         *)
(***************************************************************************)

\* The accounts stay well-formed, and an answer bears the id it is keyed by.
THEOREM ReadsTypes == Spec => []TypeOK
<1>1. ReadsInv => TypeOK
  <2> SUFFICES ASSUME ReadsInv PROVE TypeOK
    OBVIOUS
  <2>1. WellFormed(chain) /\ ids \in Seq(Index) /\ offset \in Nat /\ threshold \in Nat
    BY DEF ReadsInv, Progress, History, Sound
  <2>2. DOMAIN answers \subseteq ToSet(ids)
    BY DEF ReadsInv, Progress, UpTo, ToSet
  <2>3. \A id \in DOMAIN answers : answers[id].exists => answers[id].proposalId = id
    BY DEF ReadsInv, Sourced, Shown, Absent
  <2> QED
    BY <2>1, <2>2, <2>3 DEF TypeOK
<1> QED
  BY <1>1, ReadsInvariant, PTL

\* Every id has its answer once getProposals returns.
THEOREM EveryIdIsAnswered == Spec => []EveryIdAnswered
<1>1. ReadsInv => EveryIdAnswered
  <2> SUFFICES ASSUME ReadsInv, Returned PROVE UpTo(offset) = ToSet(ids)
    BY DEF EveryIdAnswered, ReadsInv, Progress
  <2>1. \A i \in DOMAIN ids : i <= offset
    BY IdList, Positions DEF Returned, ReadsInv, Progress
  <2> QED
    BY <2>1 DEF UpTo, ToSet
<1> QED
  BY <1>1, ReadsInvariant, PTL

\* The answers of one request stood on the chain together.
THEOREM RequestsAreMoments == Spec => []OneRequestOneMoment
BY ReadsInvariant, PTL DEF ReadsInv

\* Without a configuration change meanwhile, threshold and votes agree.
THEOREM QuietAnswersAgree == Spec => []QuietReadsAgree
<1>1. ReadsInv => QuietReadsAgree
  <2> SUFFICES ASSUME ReadsInv, Quiet, NEW id \in DOMAIN answers, answers[id].exists,
                      id > chain.staleTransactionIndex
               PROVE  LET answer == answers[id] IN
                      /\ answer.statusName = "active" => answer.confirmations < answer.threshold
                      /\ answer.statusName \in {"approved", "executed"}
                           => answer.confirmations >= answer.threshold
    BY DEF QuietReadsAgree
  <2>1. PICK c \in seen : answers[id] = Shown(id, c.props[id], threshold)
    BY DEF ReadsInv, Sourced
  <2>2. PICK b \in seen : b.threshold = threshold
    BY <2>1 DEF ReadsInv, History, Progress
  <2>3. chain \in seen
    BY <2>1 DEF ReadsInv, History, Progress
  <2>4. /\ c.staleTransactionIndex = chain.staleTransactionIndex
        /\ b.staleTransactionIndex = chain.staleTransactionIndex
    BY <2>3 DEF Quiet
  <2>5. c.threshold = threshold
    BY <2>2, <2>4 DEF ReadsInv, History
  <2>6. id \in Index
    BY IdList DEF ReadsInv, Progress, UpTo
  <2>7. VotesCount(c, c.props[id])
    BY <2>4, <2>6 DEF ReadsInv, History, Sound, SoundProposal
  <2> QED
    BY <2>1, <2>5, <2>7 DEF Shown, Absent, VotesCount
<1> QED
  BY <1>1, ReadsInvariant, PTL
=============================================================================
