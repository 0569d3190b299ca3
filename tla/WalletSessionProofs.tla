-------------------------- MODULE WalletSessionProofs --------------------------
(***************************************************************************)
(* Answers stand, a blind retry makes no duplicate and a disposed wallet   *)
(* keeps no key: for any number of attempts, blocks, forks and accounts.   *)
(***************************************************************************)
EXTENDS WalletSession, TLAPS, FiniteSetTheorems, SequenceTheorems

Block == [transaction : {Others} \cup Transaction, success : BOOLEAN]
Told == {"confirmed", "final"}
Answered == [finality : Told, success : BOOLEAN, block : Nat \ {0}, fee : BOOLEAN]
Pending == [finality |-> "pending"]

ChainTypes ==
  /\ commitment \in Commitment
  /\ blocks \in Seq(Block) /\ Len(blocks) <= MaxBlocks
  /\ confirmed \in Nat /\ finalized \in Nat
  /\ finalized <= confirmed /\ confirmed <= Len(blocks)
  /\ reverted \in BOOLEAN

CallTypes ==
  /\ sent \in [Transaction -> Nat]
  /\ pool \subseteq Transaction
  /\ stage \in [Transaction -> {"unsent", "waiting", "left", "done"}]
  /\ request \in [Transaction -> {Nothing} \cup Answered]
  /\ told \in [Transaction -> {Nothing, Pending} \cup Answered]
  /\ seen \in [Transaction -> SUBSET Transaction]
  /\ \A k \in Transaction : request[k] # Nothing => stage[k] = "waiting"

\* A transaction is in one place: not sent yet, in the pool, or in one block.
Once ==
  /\ \A b \in 1 .. Len(blocks), c \in 1 .. Len(blocks) :
       blocks[b].transaction = blocks[c].transaction => blocks[b].transaction = Others \/ b = c
  /\ \A b \in 1 .. Len(blocks) : blocks[b].transaction \notin pool
  /\ \A k \in Transaction : stage[k] = "unsent" =>
       k \notin pool /\ \A b \in 1 .. Len(blocks) : blocks[b].transaction # k

\* What is true of an answer about k, or of a status that will be part of one.
Stands(k, answer) ==
  answer.finality \in Told =>
    \/ answer.finality = "confirmed" /\ reverted
    \/ /\ answer.block <= (IF answer.finality = "final" THEN finalized ELSE confirmed)
       /\ blocks[answer.block] = [transaction |-> k, success |-> answer.success]

\* What the fee of an answer says, where Stands does not say it already.
FeeStands(answer) ==
  commitment = "finalized" /\ answer.fee => reverted \/ answer.block <= finalized

Answers ==
  \A k \in Transaction :
    /\ Stands(k, request[k])
    /\ Stands(k, told[k])
    /\ told[k] \in Answered => FeeStands(told[k])

\* A creation that succeeded was for the index that was next.
Successes ==
  \A b \in 1 .. Len(blocks) :
    blocks[b].success /\ blocks[b].transaction # Others =>
      sent[blocks[b].transaction] = IndexAt(b - 1) + 1

\* What an account reads is never abandoned.
Lasting == commitment = "finalized" \/ (commitment = "confirmed" /\ ~reverted)

\* The height n that transaction l was numbered from: what is below it was sent
\* before l, and was counted.
NumberedAt(l, n) ==
  /\ sent[l] = IndexAt(n) + 1
  /\ seen[l] = CreatedWithin(n)
  /\ \A b \in 1 .. n : blocks[b].transaction < l

Numbered ==
  /\ \A l \in Transaction : stage[l] # "unsent" /\ Lasting =>
       \E n \in 0 .. Height(commitment) : NumberedAt(l, n)
  /\ \A l \in Transaction : seen[l] \subseteq 1 .. l - 1
  /\ \A l \in Transaction : sent[l] <= MaxBlocks + 1

\* The inductive invariant.
SessionInv ==
  /\ ChainTypes /\ CallTypes
  /\ Once /\ Answers /\ Successes /\ Numbered
  /\ Manager!TypeOK /\ Manager!LiveIsCached

(***************************************************************************)
(* The chain.                                                              *)
(***************************************************************************)

\* The first n blocks survive the step.
Keeps(n) ==
  /\ n <= Len(blocks) /\ n <= Len(blocks')
  /\ \A b \in 1 .. n : blocks'[b] = blocks[b]

\* The transactions of the session are numbered from 1; 0 is nobody's.
LEMMA TransactionNumbers ==
  /\ Transaction \subseteq Nat \ {0} /\ Others \notin Transaction /\ Others = 0
  /\ MaxBlocks \in Nat
BY FinalityAssumption DEF Transaction, Others

\* The chain is a sequence of blocks.
LEMMA ChainBlocks ==
  ASSUME ChainTypes
  PROVE  /\ Len(blocks) \in Nat /\ DOMAIN blocks = 1 .. Len(blocks)
         /\ \A b \in 1 .. Len(blocks) : blocks[b] \in Block
BY LenProperties DEF ChainTypes

\* The chain after one more block.
LEMMA Extended ==
  ASSUME ChainTypes, NEW x \in Block, blocks' = Append(blocks, x)
  PROVE  /\ blocks' \in Seq(Block) /\ Len(blocks') = Len(blocks) + 1
         /\ \A b \in 1 .. Len(blocks) : blocks'[b] = blocks[b]
         /\ blocks'[Len(blocks) + 1] = x
BY AppendProperties DEF ChainTypes

\* The chain after blocks are abandoned.
LEMMA Abandoned ==
  ASSUME ChainTypes, NEW n \in finalized .. Len(blocks) - 1, blocks' = SubSeq(blocks, 1, n)
  PROVE  /\ n \in Nat /\ n < Len(blocks)
         /\ blocks' \in Seq(Block) /\ Len(blocks') = n
         /\ \A b \in 1 .. n : blocks'[b] = blocks[b]
<1>1. n \in Nat /\ n < Len(blocks)
  BY ChainBlocks DEF ChainTypes
<1>2. \A b \in 1 .. n : blocks[b] \in Block
  BY <1>1, ChainBlocks
<1>3. /\ blocks' \in Seq(Block)
      /\ Len(blocks') = IF 1 <= n THEN n - 1 + 1 ELSE 0
      /\ \A b \in 1 .. n - 1 + 1 : blocks'[b] = blocks[1 + b - 1]
  <2> HIDE DEF Block
  <2> QED
    BY <1>1, <1>2, SubSeqProperties
<1> QED
  BY <1>1, <1>3

\* A new block belongs to nobody in the session, or to a transaction of the pool.
LEMMA NewBlock ==
  ASSUME CallTypes, NEW k, NEW x,
         \/ k \in pool /\ x = [transaction |-> k, success |-> sent[k] = IndexAt(Len(blocks)) + 1]
         \/ x = [transaction |-> Others, success |-> TRUE]
  PROVE  x \in Block
<1>1. \A t \in {Others} \cup Transaction, p \in BOOLEAN :
        [transaction |-> t, success |-> p] \in Block
  BY DEF Block
<1>2. \A p \in BOOLEAN : k \in pool => [transaction |-> k, success |-> p] \in Block
  BY <1>1 DEF CallTypes
<1> QED
  BY <1>1, <1>2

\* The types of what a step of the cluster leaves.
LEMMA ClusterTypes ==
  ASSUME ChainTypes, CallTypes, ClusterStep
  PROVE  ChainTypes' /\ CallTypes'
<1> USE TransactionNumbers, ChainBlocks
<1>1. CASE \E k \in Transaction : Include(k)
  <2> PICK k \in Transaction : Include(k)
    BY <1>1
  <2> DEFINE x == [transaction |-> k, success |-> sent[k] = IndexAt(Len(blocks)) + 1]
  <2>1. x \in Block
    BY NewBlock DEF Include
  <2>2. blocks' \in Seq(Block) /\ Len(blocks') = Len(blocks) + 1
    BY <2>1, Extended DEF Include
  <2> QED
    BY <2>2 DEF Include, ClusterStep, ChainTypes, CallTypes, pollVars, ownVars, managerVars
<1>2. CASE IncludeOther
  <2> DEFINE x == [transaction |-> Others, success |-> TRUE]
  <2>1. x \in Block
    BY DEF Block
  <2>2. blocks' \in Seq(Block) /\ Len(blocks') = Len(blocks) + 1
    BY <1>2, <2>1, Extended DEF IncludeOther
  <2> QED
    BY <1>2, <2>2 DEF IncludeOther, ClusterStep, ChainTypes, CallTypes, pollVars, ownVars, managerVars
<1>3. CASE \E n \in 0 .. MaxBlocks : Fork(n)
  <2> PICK n \in 0 .. MaxBlocks : Fork(n)
    BY <1>3
  <2>1. n \in finalized .. Len(blocks) - 1 /\ blocks' = SubSeq(blocks, 1, n)
    BY DEF Fork
  <2>2. n \in Nat /\ n < Len(blocks) /\ blocks' \in Seq(Block) /\ Len(blocks') = n
    BY <2>1, Abandoned
  <2>3. ChainTypes'
    BY <2>1, <2>2 DEF Fork, ChainTypes
  <2> QED
    BY <2>3 DEF Fork, ClusterStep, CallTypes, pollVars, ownVars, managerVars
<1>4. CASE Confirm \/ Finalize
  <2>1. ChainTypes'
    BY <1>4 DEF Confirm, Finalize, ChainTypes
  <2>2. CallTypes'
    BY <1>4 DEF Confirm, Finalize, ClusterStep, CallTypes, pollVars, ownVars, managerVars
  <2> QED
    BY <2>1, <2>2
<1>5. CASE \E k \in Transaction : Expire(k)
  BY <1>5 DEF Expire, ClusterStep, ChainTypes, CallTypes, clusterVars, pollVars, ownVars, managerVars
<1> QED
  BY <1>1, <1>2, <1>3, <1>4, <1>5 DEF ClusterStep

\* No step but one of the cluster changes the chain.
LEMMA ChainUnchanged ==
  ASSUME [SessionNext]_vars, ~ClusterStep
  PROVE  UNCHANGED <<commitment, clusterVars>>
BY DEF SessionNext, PollStep, ManagerStep, Propose, AskStatus, AskReceipt, GiveUp, vars,
       finalityVars

\* What is final stays; what is confirmed stays unless a confirmed block is abandoned.
LEMMA ChainEvolves ==
  ASSUME ChainTypes, CallTypes, [SessionNext]_vars
  PROVE  /\ commitment' = commitment
         /\ Keeps(finalized) /\ finalized <= finalized'
         /\ reverted => reverted'
         /\ ~reverted' => Keeps(confirmed) /\ confirmed <= confirmed'
<1> USE TransactionNumbers, ChainBlocks DEF Keeps
<1>1. CASE ~ClusterStep
  BY <1>1, ChainUnchanged DEF clusterVars, ChainTypes
<1>2. CASE ClusterStep /\ \E k \in Transaction : Include(k)
  <2> PICK k \in Transaction : Include(k)
    BY <1>2
  <2> DEFINE x == [transaction |-> k, success |-> sent[k] = IndexAt(Len(blocks)) + 1]
  <2>1. x \in Block
    BY NewBlock DEF Include
  <2>2. Len(blocks') = Len(blocks) + 1 /\ \A b \in 1 .. Len(blocks) : blocks'[b] = blocks[b]
    BY <2>1, Extended DEF Include
  <2> QED
    BY <2>2 DEF Include, ChainTypes
<1>3. CASE ClusterStep /\ IncludeOther
  <2> DEFINE x == [transaction |-> Others, success |-> TRUE]
  <2>1. x \in Block
    BY DEF Block
  <2>2. Len(blocks') = Len(blocks) + 1 /\ \A b \in 1 .. Len(blocks) : blocks'[b] = blocks[b]
    BY <1>3, <2>1, Extended DEF IncludeOther
  <2> QED
    BY <1>3, <2>2 DEF IncludeOther, ChainTypes
<1>4. CASE ClusterStep /\ \E n \in 0 .. MaxBlocks : Fork(n)
  <2> PICK n \in 0 .. MaxBlocks : Fork(n)
    BY <1>4
  <2>1. n \in finalized .. Len(blocks) - 1 /\ blocks' = SubSeq(blocks, 1, n)
    BY DEF Fork
  <2>2. n \in Nat /\ n < Len(blocks) /\ Len(blocks') = n /\ \A b \in 1 .. n : blocks'[b] = blocks[b]
    BY <2>1, Abandoned
  <2>3. (reverted => reverted') /\ (~reverted' => ~(n < confirmed))
    BY Zenon DEF Fork
  <2>4. ~(n < confirmed) => Keeps(confirmed) /\ confirmed <= confirmed'
    BY <2>2 DEF Fork, ChainTypes
  <2>5. commitment' = commitment /\ Keeps(finalized) /\ finalized <= finalized'
    BY <2>1, <2>2 DEF Fork, ChainTypes
  <2> QED
    BY <2>3, <2>4, <2>5
<1>5. CASE ClusterStep /\ (Confirm \/ Finalize \/ \E k \in Transaction : Expire(k))
  BY <1>5 DEF Confirm, Finalize, Expire, ChainTypes, clusterVars
<1> QED
  BY <1>1, <1>2, <1>3, <1>4, <1>5 DEF ClusterStep

(***************************************************************************)
(* Counting the proposals of a chain.                                      *)
(***************************************************************************)

\* The blocks that IndexAt counts are finitely many.
LEMMA CountedFinite ==
  ASSUME NEW n \in Nat
  PROVE  /\ IsFiniteSet({b \in 1 .. n : blocks[b].success})
         /\ IndexAt(n) \in Nat /\ IndexAt(n) <= n
<1>1. IsFiniteSet(1 .. n) /\ Cardinality(1 .. n) = n
  BY FS_Interval
<1>2. {b \in 1 .. n : blocks[b].success} \in SUBSET (1 .. n)
  OBVIOUS
<1> QED
  BY <1>1, <1>2, FS_Subset, FS_CardinalityType DEF IndexAt

\* A prefix counts at most its length.
LEMMA IndexType ==
  ASSUME NEW n \in Nat
  PROVE  IndexAt(n) \in Nat /\ IndexAt(n) <= n
BY CountedFinite

\* A longer prefix counts no less.
LEMMA IndexGrows ==
  ASSUME NEW m \in Nat, NEW n \in Nat, m <= n
  PROVE  IndexAt(m) <= IndexAt(n)
<1>1. {b \in 1 .. m : blocks[b].success} \in SUBSET {b \in 1 .. n : blocks[b].success}
  OBVIOUS
<1> QED
  BY <1>1, CountedFinite, FS_Subset DEF IndexAt

\* A proposal created between the two prefixes is counted by the longer one only.
LEMMA IndexCounts ==
  ASSUME NEW m \in Nat, NEW n \in Nat, NEW b \in Nat, m < b, b <= n, blocks[b].success
  PROVE  IndexAt(m) + 1 <= IndexAt(n)
<1> DEFINE S == {c \in 1 .. m : blocks[c].success}
<1>1. S \cup {b} \in SUBSET {c \in 1 .. n : blocks[c].success}
  OBVIOUS
<1>2. IsFiniteSet(S) /\ Cardinality(S) \in Nat /\ b \notin S
  BY CountedFinite, FS_CardinalityType
<1>3. Cardinality(S \cup {b}) = Cardinality(S) + 1
  BY <1>2, FS_AddElement
<1> QED
  BY <1>1, <1>3, CountedFinite, FS_Subset DEF IndexAt

\* What surviving blocks count does not change.
LEMMA KeepsCounts ==
  ASSUME ChainTypes, ChainTypes', NEW n \in Nat, Keeps(n)
  PROVE  IndexAt(n)' = IndexAt(n) /\ CreatedWithin(n)' = CreatedWithin(n)
<1>1. DOMAIN blocks = 1 .. Len(blocks) /\ DOMAIN blocks' = 1 .. Len(blocks')
      /\ Len(blocks) \in Nat /\ Len(blocks') \in Nat
  BY LenProperties DEF ChainTypes
<1>2. {b \in 1 .. n : blocks'[b].success} = {b \in 1 .. n : blocks[b].success}
  BY DEF Keeps
<1>3. ASSUME NEW k \in Transaction
      PROVE  (\E b \in BlockOf(k)' : b <= n /\ blocks'[b].success)
               <=> (\E b \in BlockOf(k) : b <= n /\ blocks[b].success)
  BY <1>1 DEF Keeps, BlockOf
<1> QED
  BY <1>2, <1>3 DEF IndexAt, CreatedWithin

(***************************************************************************)
(* The inductive invariant.                                                *)
(***************************************************************************)

\* The types of the receipts and answers a poll leaves, and of what a call leaves.
LEMMA CallTypesPreserved ==
  ASSUME ChainTypes, CallTypes, [SessionNext]_vars
  PROVE  CallTypes'
<1> USE TransactionNumbers, ChainBlocks
<1>1. CASE ClusterStep
  BY <1>1, ClusterTypes
<1>2. CASE \E account \in Account, k \in Transaction, answer \in {"waiting", "left"} :
             Propose(account, k, answer)
  <2> PICK account \in Account, k \in Transaction, answer \in {"waiting", "left"} :
        Propose(account, k, answer)
    BY <1>2
  <2>1. PICK n \in 0 .. Height(ReadCommitment) :
          /\ sent' = [sent EXCEPT ![k] = IndexAt(n) + 1]
          /\ seen' = [seen EXCEPT ![k] = CreatedWithin(n)]
    BY DEF Propose
  <2>2. n \in Nat
    BY DEF Height, ReadCommitment, ChainTypes, Commitment
  <2>3. sent' \in [Transaction -> Nat] /\ seen' \in [Transaction -> SUBSET Transaction]
    <3>1. IndexAt(n) + 1 \in Nat /\ CreatedWithin(n) \in SUBSET Transaction
      <4>1. IndexAt(n) \in Nat
        BY <2>2, IndexType
      <4>2. CreatedWithin(n) \in SUBSET Transaction
        BY DEF CreatedWithin
      <4> QED
        BY <4>1, <4>2
    <3>2. sent \in [Transaction -> Nat] /\ seen \in [Transaction -> SUBSET Transaction]
      BY DEF CallTypes
    <3>3. sent' \in [Transaction -> Nat]
      BY ONLY <2>1, <3>1, <3>2
    <3>4. seen' \in [Transaction -> SUBSET Transaction]
      BY ONLY <2>1, <3>1, <3>2
    <3> QED
      BY <3>3, <3>4
  <2>4. request[k] = Nothing /\ stage[k] = "unsent"
    BY DEF Propose, CallTypes
  <2> QED
    BY <2>3, <2>4 DEF Propose, CallTypes
<1>3. CASE PollStep
  <2>1. CASE \E k \in Transaction : AskStatus(k)
    <3> PICK k \in Transaction : AskStatus(k)
      BY <2>1
    <3>1. PICK b \in BlockOf(k) :
            LET finality == FINALITY[Status(b)]
            IN  IF finality = "pending"
                THEN /\ told' = [told EXCEPT ![k] = [finality |-> finality]]
                     /\ UNCHANGED request
                ELSE /\ request' = [request EXCEPT ![k] =
                          [finality |-> finality, success |-> blocks[b].success, block |-> b,
                           fee |-> FALSE]]
                     /\ UNCHANGED told
      BY DEF AskStatus
    <3>2. b \in Nat \ {0} /\ blocks[b].success \in BOOLEAN
      BY DEF BlockOf, Block
    <3>3. FINALITY[Status(b)] \in Told \cup {"pending"}
      BY DEF FINALITY, Status, Told
    <3>4. FINALITY[Status(b)] # "pending" =>
            [finality |-> FINALITY[Status(b)], success |-> blocks[b].success, block |-> b,
             fee |-> FALSE] \in Answered
      BY <3>2, <3>3 DEF Answered
    <3>5. /\ request' \in [Transaction -> {Nothing} \cup Answered]
          /\ told' \in [Transaction -> {Nothing, Pending} \cup Answered]
          /\ \A j \in Transaction \ {k} : request'[j] = request[j]
      <4> DEFINE finality == FINALITY[Status(b)]
                 status == [finality |-> finality, success |-> blocks[b].success, block |-> b,
                            fee |-> FALSE]
      <4>1. /\ request \in [Transaction -> {Nothing} \cup Answered]
            /\ told \in [Transaction -> {Nothing, Pending} \cup Answered]
        BY DEF CallTypes
      <4>2. CASE finality = "pending"
        <5>1. told' = [told EXCEPT ![k] = Pending] /\ request' = request
          BY <3>1, <4>2 DEF Pending
        <5> QED
          BY ONLY <4>1, <5>1
      <4>3. CASE finality # "pending"
        <5>1. /\ request' = [request EXCEPT ![k] = status] /\ told' = told
              /\ status \in Answered
          BY <3>1, <3>4, <4>3
        <5> HIDE DEF status
        <5> QED
          BY ONLY <4>1, <5>1
      <4> QED
        BY <4>2, <4>3
    <3> QED
      BY <1>3, <3>5 DEF AskStatus, PollStep, CallTypes, ownVars
  <2>2. CASE \E k \in Transaction, lags \in BOOLEAN : AskReceipt(k, lags)
    <3> PICK k \in Transaction, lags \in BOOLEAN : AskReceipt(k, lags)
      BY <2>2
    <3> DEFINE fee == ~lags /\ \E b \in BlockOf(k) : b <= Height(ReceiptCommitment)
    <3>1. request[k] \in Answered
      BY DEF AskReceipt, CallTypes
    <3>2. [request[k] EXCEPT !.fee = fee] \in Answered
      BY <3>1 DEF Answered
    <3>3. told' \in [Transaction -> {Nothing, Pending} \cup Answered]
      BY <3>2 DEF AskReceipt, CallTypes
    <3> QED
      BY <1>3, <3>3 DEF AskReceipt, PollStep, CallTypes, ownVars
  <2>3. CASE \E k \in Transaction : GiveUp(k)
    BY <1>3, <2>3 DEF GiveUp, PollStep, CallTypes, ownVars
  <2> QED
    BY <1>3, <2>1, <2>2, <2>3 DEF PollStep
<1>4. CASE ManagerStep \/ UNCHANGED vars
  BY <1>4 DEF ManagerStep, vars, finalityVars, pollVars, ownVars, CallTypes
<1> QED
  BY <1>1, <1>2, <1>3, <1>4 DEF SessionNext

\* The types of the chain.
LEMMA ChainTypesPreserved ==
  ASSUME ChainTypes, CallTypes, [SessionNext]_vars
  PROVE  ChainTypes'
<1>1. CASE ClusterStep
  BY <1>1, ClusterTypes
<1>2. CASE ~ClusterStep
  BY <1>2, ChainUnchanged DEF clusterVars, ChainTypes
<1> QED
  BY <1>1, <1>2

\* Only propose sends, only what was not sent before, and with all earlier ones given up.
LEMMA CallsEvolve ==
  ASSUME ChainTypes, CallTypes, [SessionNext]_vars, NEW k \in Transaction
  PROVE  /\ stage'[k] = "unsent" => stage[k] = "unsent"
         /\ stage[k] # "unsent" \/ stage'[k] = "unsent" =>
              sent'[k] = sent[k] /\ seen'[k] = seen[k]
<1>1. CASE \E account \in Account, j \in Transaction, answer \in {"waiting", "left"} :
             Propose(account, j, answer)
  <2> PICK account \in Account, j \in Transaction, answer \in {"waiting", "left"} :
        Propose(account, j, answer)
    BY <1>1
  <2>1. PICK n : /\ sent' = [sent EXCEPT ![j] = IndexAt(n) + 1]
                 /\ seen' = [seen EXCEPT ![j] = CreatedWithin(n)]
    BY DEF Propose
  <2>2. stage[j] = "unsent" /\ stage' = [stage EXCEPT ![j] = answer]
    BY TransactionNumbers DEF Propose
  <2> QED
    BY <2>1, <2>2 DEF CallTypes
<1>2. CASE PollStep
  BY <1>2 DEF PollStep, AskStatus, AskReceipt, GiveUp, CallTypes, pollVars, ownVars
<1>3. CASE ClusterStep \/ ManagerStep \/ UNCHANGED vars
  BY <1>3 DEF ClusterStep, Include, IncludeOther, Expire, Confirm, Finalize, Fork, ManagerStep,
              vars, finalityVars, pollVars, ownVars
<1> QED
  BY <1>1, <1>2, <1>3 DEF SessionNext

\* What is sent was sent by propose.
LEMMA SentByPropose ==
  ASSUME ChainTypes, CallTypes, [SessionNext]_vars,
         NEW k \in Transaction, stage[k] = "unsent", stage'[k] # "unsent"
  PROVE  \E account \in Account, answer \in {"waiting", "left"} : Propose(account, k, answer)
<1>1. CASE \E account \in Account, j \in Transaction, answer \in {"waiting", "left"} :
             Propose(account, j, answer)
  <2> PICK account \in Account, j \in Transaction, answer \in {"waiting", "left"} :
        Propose(account, j, answer)
    BY <1>1
  <2>1. stage' = [stage EXCEPT ![j] = answer]
    BY DEF Propose
  <2>2. j = k
    BY <2>1 DEF CallTypes
  <2> QED
    BY <2>2
<1>2. CASE PollStep
  BY <1>2 DEF PollStep, AskStatus, AskReceipt, GiveUp, CallTypes
<1>3. CASE ClusterStep \/ ManagerStep \/ UNCHANGED vars
  BY <1>3 DEF ClusterStep, Include, IncludeOther, Expire, Confirm, Finalize, Fork, ManagerStep,
              vars, finalityVars, pollVars
<1> QED
  BY <1>1, <1>2, <1>3 DEF SessionNext

\* A transaction goes into one block, and only from the pool.
LEMMA OncePreserved ==
  ASSUME ChainTypes, CallTypes, Once, [SessionNext]_vars
  PROVE  Once'
<1> USE TransactionNumbers, ChainBlocks
<1>1. CASE \E account \in Account, k \in Transaction, answer \in {"waiting", "left"} :
             Propose(account, k, answer)
  <2> PICK account \in Account, k \in Transaction, answer \in {"waiting", "left"} :
        Propose(account, k, answer)
    BY <1>1
  <2>1. stage[k] = "unsent" /\ pool' = pool \cup {k} /\ UNCHANGED blocks
        /\ stage' = [stage EXCEPT ![k] = answer] /\ answer # "unsent"
    BY DEF Propose, clusterVars
  <2> QED
    BY <2>1 DEF Once, CallTypes
<1>2. CASE PollStep \/ ManagerStep \/ UNCHANGED vars
  <2>1. UNCHANGED <<blocks, pool>>
    BY <1>2 DEF PollStep, AskStatus, AskReceipt, GiveUp, ManagerStep, vars, finalityVars,
                clusterVars
  <2>2. \A k \in Transaction : stage'[k] = "unsent" => stage[k] = "unsent"
    BY CallsEvolve
  <2> QED
    BY <2>1, <2>2 DEF Once
<1>3. CASE ClusterStep /\ \E k \in Transaction : Include(k)
  <2> PICK k \in Transaction : Include(k)
    BY <1>3
  <2> DEFINE x == [transaction |-> k, success |-> sent[k] = IndexAt(Len(blocks)) + 1]
  <2>1. x \in Block /\ x.transaction = k
    BY NewBlock DEF Include
  <2>2. /\ Len(blocks') = Len(blocks) + 1 /\ blocks'[Len(blocks) + 1] = x
        /\ \A b \in 1 .. Len(blocks) : blocks'[b] = blocks[b]
    BY <2>1, Extended DEF Include
  <2>3. k \in pool /\ pool' = pool \ {k} /\ UNCHANGED stage
    BY DEF Include, pollVars
  <2> HIDE DEF x
  <2> QED
    BY <2>1, <2>2, <2>3 DEF Once
<1>4. CASE ClusterStep /\ IncludeOther
  <2> DEFINE x == [transaction |-> Others, success |-> TRUE]
  <2>1. x \in Block /\ x.transaction = Others
    BY DEF Block
  <2>2. /\ Len(blocks') = Len(blocks) + 1 /\ blocks'[Len(blocks) + 1] = x
        /\ \A b \in 1 .. Len(blocks) : blocks'[b] = blocks[b]
    BY <1>4, <2>1, Extended DEF IncludeOther
  <2>3. UNCHANGED <<pool, stage>> /\ pool \subseteq Transaction
    BY <1>4 DEF IncludeOther, pollVars, CallTypes
  <2>4. \A b \in 1 .. Len(blocks') :
          \/ b \in 1 .. Len(blocks) /\ blocks'[b] = blocks[b]
          \/ b = Len(blocks) + 1 /\ blocks'[b].transaction = Others
    BY <2>1, <2>2
  <2>5. \A b \in 1 .. Len(blocks'), c \in 1 .. Len(blocks') :
          blocks'[b].transaction = blocks'[c].transaction =>
            blocks'[b].transaction = Others \/ b = c
    BY <2>4 DEF Once
  <2>6. \A b \in 1 .. Len(blocks') : blocks'[b].transaction \notin pool'
    BY <2>3, <2>4 DEF Once
  <2>7. \A k \in Transaction : stage'[k] = "unsent" =>
          k \notin pool' /\ \A b \in 1 .. Len(blocks') : blocks'[b].transaction # k
    BY <2>3, <2>4 DEF Once
  <2> QED
    BY <2>5, <2>6, <2>7 DEF Once
<1>5. CASE ClusterStep /\ \E n \in 0 .. MaxBlocks : Fork(n)
  <2> PICK n \in 0 .. MaxBlocks : Fork(n)
    BY <1>5
  <2>1. n \in finalized .. Len(blocks) - 1 /\ blocks' = SubSeq(blocks, 1, n)
    BY DEF Fork
  <2>2. n \in Nat /\ n < Len(blocks) /\ Len(blocks') = n /\ \A b \in 1 .. n : blocks'[b] = blocks[b]
    BY <2>1, Abandoned
  <2>3. \A k \in pool' \ pool :
          \E b \in n + 1 .. Len(blocks) : k \in Transaction /\ blocks[b].transaction = k
    BY <2>2 DEF Fork, BlockOf
  <2>4. UNCHANGED stage
    BY DEF Fork, pollVars
  <2>5. \A b \in 1 .. Len(blocks') : b \in 1 .. n /\ b \in 1 .. Len(blocks) /\ blocks'[b] = blocks[b]
    BY <2>2
  <2>6. \A b \in 1 .. Len(blocks'), c \in 1 .. Len(blocks') :
          blocks'[b].transaction = blocks'[c].transaction =>
            blocks'[b].transaction = Others \/ b = c
    BY <2>5 DEF Once
  <2>7. \A b \in 1 .. Len(blocks') : blocks'[b].transaction \notin pool'
    <3> SUFFICES ASSUME NEW b \in 1 .. Len(blocks'), blocks'[b].transaction \in pool'
                 PROVE  FALSE
      OBVIOUS
    <3>1. b \in 1 .. n /\ b \in 1 .. Len(blocks) /\ blocks'[b] = blocks[b]
      BY <2>5
    <3>2. blocks[b].transaction \in pool' \ pool
      BY <3>1 DEF Once
    <3>3. PICK c \in n + 1 .. Len(blocks) :
            blocks[b].transaction \in Transaction /\ blocks[c].transaction = blocks[b].transaction
      BY <2>3, <3>2
    <3>4. c \in 1 .. Len(blocks) /\ c # b
      BY <2>2, <3>1, <3>3
    <3> QED
      BY <3>1, <3>3, <3>4 DEF Once
  <2>8. \A k \in Transaction : stage'[k] = "unsent" =>
          k \notin pool' /\ \A b \in 1 .. Len(blocks') : blocks'[b].transaction # k
    <3> SUFFICES ASSUME NEW k \in Transaction, stage[k] = "unsent"
                 PROVE  k \notin pool' /\ \A b \in 1 .. Len(blocks') : blocks'[b].transaction # k
      BY <2>4
    <3>1. k \notin pool /\ \A b \in 1 .. Len(blocks) : blocks[b].transaction # k
      BY DEF Once
    <3>2. k \notin pool'
      BY <2>2, <2>3, <3>1
    <3> QED
      BY <2>5, <3>1, <3>2
  <2> QED
    BY <2>6, <2>7, <2>8 DEF Once
<1>6. CASE ClusterStep /\ (Confirm \/ Finalize \/ \E k \in Transaction : Expire(k))
  <2>1. UNCHANGED <<blocks, stage>> /\ pool' \subseteq pool
    BY <1>6 DEF Confirm, Finalize, Expire, clusterVars, pollVars
  <2> QED
    BY <2>1 DEF Once
<1> QED
  BY <1>1, <1>2, <1>3, <1>4, <1>5, <1>6 DEF SessionNext, ClusterStep

\* An answer that stood before the step stands after it.
LEMMA StandsPreserved ==
  ASSUME ChainTypes, CallTypes, [SessionNext]_vars,
         NEW k \in Transaction, NEW answer \in {Nothing, Pending} \cup Answered, Stands(k, answer)
  PROVE  Stands(k, answer)'
<1>1. CASE answer \in {Nothing, Pending}
  BY <1>1 DEF Nothing, Pending, Stands, Told
<1>2. CASE answer \in Answered
  <2>1. answer.finality \in Told /\ answer.block \in Nat \ {0}
    BY <1>2 DEF Answered
  <2>2. CASE answer.finality = "confirmed"
    <3>1. CASE reverted'
      BY <2>2, <3>1 DEF Stands
    <3>2. CASE ~reverted'
      <4>1. ~reverted /\ Keeps(confirmed) /\ confirmed <= confirmed'
        BY <3>2, ChainEvolves
      <4>2. /\ answer.block <= confirmed
            /\ blocks[answer.block] = [transaction |-> k, success |-> answer.success]
        BY <2>1, <2>2, <4>1 DEF Stands
      <4>3. answer.block \in 1 .. confirmed /\ confirmed \in Nat /\ confirmed' \in Nat
        BY <2>1, <4>2, ChainTypesPreserved DEF ChainTypes
      <4>4. /\ answer.block <= confirmed'
            /\ blocks'[answer.block] = [transaction |-> k, success |-> answer.success]
        BY <4>1, <4>2, <4>3 DEF Keeps
      <4> QED
        BY <2>2, <4>4 DEF Stands
    <3> QED
      BY <3>1, <3>2
  <2>3. CASE answer.finality = "final"
    <3>1. Keeps(finalized) /\ finalized <= finalized'
      BY ChainEvolves
    <3>2. /\ answer.block <= finalized
          /\ blocks[answer.block] = [transaction |-> k, success |-> answer.success]
      BY <2>1, <2>3 DEF Stands
    <3>3. answer.block \in 1 .. finalized /\ finalized \in Nat /\ finalized' \in Nat
      BY <2>1, <3>2, ChainTypesPreserved DEF ChainTypes
    <3>4. /\ answer.block <= finalized'
          /\ blocks'[answer.block] = [transaction |-> k, success |-> answer.success]
      BY <3>1, <3>2, <3>3 DEF Keeps
    <3> QED
      BY <2>3, <3>4 DEF Stands
  <2> QED
    BY <2>1, <2>2, <2>3 DEF Told
<1> QED
  BY <1>1, <1>2

\* So does what its fee says of it.
LEMMA FeePreserved ==
  ASSUME ChainTypes, CallTypes, [SessionNext]_vars, NEW answer \in Answered,
         FeeStands(answer)
  PROVE  FeeStands(answer)'
<1>1. answer.block \in Nat /\ finalized \in Nat /\ finalized' \in Nat
  BY ChainTypesPreserved DEF Answered, ChainTypes
<1>2. commitment' = commitment /\ finalized <= finalized' /\ (reverted => reverted')
  BY ChainEvolves
<1> QED
  BY <1>1, <1>2 DEF FeeStands

\* The status of a block tells how deep it is.
LEMMA StatusStands ==
  ASSUME ChainTypes, NEW k \in Transaction, NEW b \in BlockOf(k), NEW answer \in Answered,
         answer.finality = FINALITY[Status(b)], answer.success = blocks[b].success,
         answer.block = b
  PROVE  Stands(k, answer)
<1>1. b \in 1 .. Len(blocks) /\ blocks[b].transaction = k /\ blocks[b] \in Block
  BY ChainBlocks DEF BlockOf
<1>2. blocks[b] = [transaction |-> k, success |-> answer.success]
  BY <1>1 DEF Block
<1>3. answer.finality = "final" => b <= finalized
  BY DEF FINALITY, Status
<1>4. answer.finality = "confirmed" => b <= confirmed
  BY DEF FINALITY, Status
<1> QED
  BY <1>2, <1>3, <1>4 DEF Stands, Told

\* What a step leaves as answer and as request for a transaction: what there was, a
\* status just read, or the answer of a request with its receipt.
LEMMA PollSteps ==
  ASSUME ChainTypes, CallTypes, [SessionNext]_vars, NEW k \in Transaction
  PROVE  /\ \/ request'[k] \in {Nothing, request[k]}
            \/ /\ UNCHANGED <<commitment, clusterVars>>
               /\ \E b \in BlockOf(k) :
                    /\ request'[k].finality = FINALITY[Status(b)]
                    /\ request'[k].success = blocks[b].success
                    /\ request'[k].block = b
         /\ \/ told'[k] \in {told[k], Pending}
            \/ /\ UNCHANGED <<commitment, clusterVars>>
               /\ request[k] \in Answered
               /\ \E fee \in BOOLEAN :
                    /\ told'[k] = [request[k] EXCEPT !.fee = fee]
                    /\ fee => \E b \in BlockOf(k) : b <= Height(ReceiptCommitment)
<1>1. CASE \E j \in Transaction : PollStep /\ AskStatus(j)
  <2> PICK j \in Transaction : AskStatus(j)
    BY <1>1
  <2>1. PICK b \in BlockOf(j) :
          LET finality == FINALITY[Status(b)]
          IN  IF finality = "pending"
              THEN /\ told' = [told EXCEPT ![j] = [finality |-> finality]]
                   /\ UNCHANGED request
              ELSE /\ request' = [request EXCEPT ![j] =
                        [finality |-> finality, success |-> blocks[b].success, block |-> b,
                         fee |-> FALSE]]
                   /\ UNCHANGED told
    BY DEF AskStatus
  <2>2. UNCHANGED <<commitment, clusterVars>>
    BY DEF AskStatus
  <2>3. CASE FINALITY[Status(b)] = "pending"
    <3>1. UNCHANGED request /\ told'[k] \in {told[k], Pending}
      BY <2>1, <2>3 DEF CallTypes, Pending
    <3> QED
      BY <3>1
  <2>4. CASE FINALITY[Status(b)] # "pending"
    <3>1. UNCHANGED told
      BY <2>1, <2>4
    <3>2. request' = [request EXCEPT ![j] =
            [finality |-> FINALITY[Status(b)], success |-> blocks[b].success, block |-> b,
             fee |-> FALSE]]
      BY <2>1, <2>4
    <3>3. CASE j # k
      BY <3>1, <3>2, <3>3 DEF CallTypes
    <3>4. CASE j = k
      <4>1. request'[k] =
              [finality |-> FINALITY[Status(b)], success |-> blocks[b].success, block |-> b,
               fee |-> FALSE]
        BY <3>2, <3>4 DEF CallTypes
      <4>2. /\ request'[k].finality = FINALITY[Status(b)]
            /\ request'[k].success = blocks[b].success
            /\ request'[k].block = b
        BY <4>1
      <4> QED
        BY <2>2, <3>1, <3>4, <4>2
    <3> QED
      BY <3>3, <3>4
  <2> QED
    BY <2>3, <2>4
<1>2. CASE \E j \in Transaction, lags \in BOOLEAN : PollStep /\ AskReceipt(j, lags)
  <2> PICK j \in Transaction, lags \in BOOLEAN : AskReceipt(j, lags)
    BY <1>2
  <2> DEFINE fee == ~lags /\ \E b \in BlockOf(j) : b <= Height(ReceiptCommitment)
  <2>1. /\ told' = [told EXCEPT ![j] = [request[j] EXCEPT !.fee = fee]]
        /\ request' = [request EXCEPT ![j] = Nothing]
        /\ request[j] \in Answered
        /\ UNCHANGED <<commitment, clusterVars>>
    BY DEF AskReceipt, CallTypes
  <2>2. fee \in BOOLEAN /\ (fee => \E b \in BlockOf(j) : b <= Height(ReceiptCommitment))
    OBVIOUS
  <2>3. request'[k] \in {Nothing, request[k]}
    BY <2>1 DEF CallTypes
  <2> HIDE DEF fee
  <2>4. CASE j # k
    <3>1. told'[k] = told[k]
      BY <2>1, <2>4 DEF CallTypes
    <3> QED
      BY <2>3, <3>1
  <2>5. CASE j = k
    <3>1. told'[k] = [request[k] EXCEPT !.fee = fee]
      BY <2>1, <2>5 DEF CallTypes
    <3> QED
      BY <2>1, <2>2, <2>3, <2>5, <3>1
  <2> QED
    BY <2>4, <2>5
<1>3. CASE UNCHANGED <<request, told>>
  BY <1>3
<1>4. CASE \E j \in Transaction : PollStep /\ GiveUp(j)
  BY <1>3, <1>4 DEF GiveUp
<1>5. CASE ~PollStep
  BY <1>3, <1>5 DEF SessionNext, Propose, ClusterStep, Include, IncludeOther, Expire, Confirm,
                    Finalize, Fork, ManagerStep, vars, finalityVars, pollVars
<1> QED
  BY <1>1, <1>2, <1>4, <1>5 DEF PollStep

\* Answers stand, and a new answer is made of what stands.
LEMMA AnswersPreserved ==
  ASSUME ChainTypes, CallTypes, Once, Answers, [SessionNext]_vars
  PROVE  Answers'
<1> SUFFICES ASSUME NEW k \in Transaction
             PROVE  (/\ Stands(k, request[k])
                     /\ Stands(k, told[k])
                     /\ told[k] \in Answered => FeeStands(told[k]))'
  BY DEF Answers
<1>1. /\ Stands(k, request[k]) /\ Stands(k, told[k])
      /\ told[k] \in Answered => FeeStands(told[k])
  BY DEF Answers
<1>2. /\ request[k] \in {Nothing} \cup Answered
      /\ told[k] \in {Nothing, Pending} \cup Answered
      /\ request'[k] \in {Nothing} \cup Answered
      /\ told'[k] \in {Nothing, Pending} \cup Answered
  BY CallTypesPreserved DEF CallTypes
<1>3. \A r \in {Nothing} \cup Answered : r = request'[k] => Stands(k, r)'
  <2> SUFFICES ASSUME NEW r \in {Nothing} \cup Answered, r = request'[k]
               PROVE  Stands(k, r)
    BY StandsPreserved
  <2>1. CASE r \in {Nothing, request[k]}
    BY <1>1, <2>1 DEF Nothing, Stands, Told
  <2>2. CASE /\ r \in Answered
             /\ \E b \in BlockOf(k) : /\ r.finality = FINALITY[Status(b)]
                                     /\ r.success = blocks[b].success
                                     /\ r.block = b
    BY <2>2, StatusStands
  <2> QED
    BY <2>1, <2>2, PollSteps
<1>4. \A a \in {Nothing, Pending} \cup Answered :
        a = told'[k] => Stands(k, a)' /\ (a \in Answered => FeeStands(a)')
  <2> SUFFICES ASSUME NEW a \in {Nothing, Pending} \cup Answered, a = told'[k]
               PROVE  Stands(k, a) /\ (a \in Answered => FeeStands(a))
    BY StandsPreserved, FeePreserved
  <2>1. CASE a = told[k]
    BY <1>1, <2>1
  <2>2. CASE a \in {Nothing, Pending}
    BY <2>2 DEF Nothing, Pending, Stands, Told, Answered
  <2>3. ASSUME NEW fee \in BOOLEAN, request[k] \in Answered,
               a = [request[k] EXCEPT !.fee = fee],
               fee => \E b \in BlockOf(k) : b <= Height(ReceiptCommitment)
        PROVE  Stands(k, a) /\ FeeStands(a)
    <3>1. /\ a.finality = request[k].finality /\ a.success = request[k].success
          /\ a.block = request[k].block /\ a.fee = fee
          /\ a.finality \in Told /\ a.block \in Nat \ {0}
      BY <2>3 DEF Answered
    <3>2. Stands(k, a)
      BY <1>1, <3>1 DEF Stands
    <3>3. SUFFICES ASSUME commitment = "finalized", fee, ~reverted
                   PROVE  a.block <= finalized
      BY <3>1, <3>2 DEF FeeStands
    <3>4. PICK b \in BlockOf(k) : b <= finalized
      BY <2>3, <3>3 DEF Height, ReceiptCommitment
    <3>5. a.block <= confirmed /\ blocks[a.block].transaction = k
      BY <3>1, <3>2, <3>3 DEF Stands, ChainTypes
    <3>6. a.block \in 1 .. Len(blocks) /\ b \in 1 .. Len(blocks) /\ blocks[b].transaction = k
      BY <3>1, <3>5, ChainBlocks DEF ChainTypes, BlockOf
    <3>7. a.block = b
      BY <3>5, <3>6, TransactionNumbers DEF Once
    <3> QED
      BY <3>4, <3>7
  <2> QED
    BY <2>1, <2>2, <2>3, PollSteps
<1> QED
  BY <1>2, <1>3, <1>4 DEF Stands, FeeStands

\* The heights that lasting reads may see only grow, and their blocks stay.
LEMMA LastingGrows ==
  ASSUME ChainTypes, CallTypes, [SessionNext]_vars, Lasting'
  PROVE  /\ Lasting /\ Height(commitment) \in Nat /\ Height(commitment)' \in Nat
         /\ Keeps(Height(commitment)) /\ Height(commitment) <= Height(commitment)'
<1>1. commitment' = commitment
  BY ChainEvolves
<1>2. CASE commitment = "finalized"
  BY <1>1, <1>2, ChainEvolves, ChainTypesPreserved DEF Lasting, Height, ChainTypes
<1>3. CASE commitment = "confirmed" /\ ~reverted'
  <2>1. ~reverted /\ Keeps(confirmed) /\ confirmed <= confirmed'
    BY <1>3, ChainEvolves
  <2> QED
    BY <1>1, <1>3, <2>1, ChainTypesPreserved DEF Lasting, Height, ChainTypes
<1> QED
  BY <1>1, <1>2, <1>3 DEF Lasting

\* What a call was numbered from stays what it was.
LEMMA NumberedPreserved ==
  ASSUME ChainTypes, CallTypes, Once, Numbered, [SessionNext]_vars
  PROVE  Numbered'
<1> USE TransactionNumbers
<1>1. ChainTypes' /\ CallTypes'
  BY ChainTypesPreserved, CallTypesPreserved
<1>2. ASSUME NEW l \in Transaction, stage[l] # "unsent"
      PROVE  /\ Lasting' => (\E n \in 0 .. Height(commitment) : NumberedAt(l, n))'
             /\ seen'[l] \subseteq 1 .. l - 1
             /\ sent'[l] <= MaxBlocks + 1
  <2>1. sent'[l] = sent[l] /\ seen'[l] = seen[l]
    BY <1>2, CallsEvolve
  <2>2. ASSUME Lasting' PROVE (\E n \in 0 .. Height(commitment) : NumberedAt(l, n))'
    <3>1. /\ Lasting /\ Height(commitment) \in Nat /\ Height(commitment)' \in Nat
          /\ Keeps(Height(commitment)) /\ Height(commitment) <= Height(commitment)'
      BY <2>2, LastingGrows
    <3>2. PICK n \in 0 .. Height(commitment) : NumberedAt(l, n)
      BY <1>2, <3>1 DEF Numbered
    <3>3. n \in Nat /\ Keeps(n) /\ n \in 0 .. Height(commitment)'
      BY <3>1 DEF Keeps
    <3>4. IndexAt(n)' = IndexAt(n) /\ CreatedWithin(n)' = CreatedWithin(n)
      BY <1>1, <3>3, KeepsCounts
    <3>5. NumberedAt(l, n)'
      BY <2>1, <3>2, <3>3, <3>4 DEF NumberedAt, Keeps
    <3> QED
      BY <3>3, <3>5
  <2> QED
    BY <1>2, <2>1, <2>2 DEF Numbered
<1>3. ASSUME NEW l \in Transaction, stage[l] = "unsent", stage'[l] # "unsent"
      PROVE  /\ Lasting' => (\E n \in 0 .. Height(commitment) : NumberedAt(l, n))'
             /\ seen'[l] \subseteq 1 .. l - 1
             /\ sent'[l] <= MaxBlocks + 1
  <2> PICK account \in Account, answer \in {"waiting", "left"} : Propose(account, l, answer)
    BY <1>3, SentByPropose
  <2>1. PICK n \in 0 .. Height(commitment) :
          /\ sent' = [sent EXCEPT ![l] = IndexAt(n) + 1]
          /\ seen' = [seen EXCEPT ![l] = CreatedWithin(n)]
    BY DEF Propose, ReadCommitment
  <2>2. sent'[l] = IndexAt(n) + 1 /\ seen'[l] = CreatedWithin(n)
    BY <2>1 DEF CallTypes
  <2>3. n \in Nat /\ n <= Len(blocks) /\ Len(blocks) <= MaxBlocks
    BY ChainBlocks DEF Height, ChainTypes, Commitment
  <2>4. UNCHANGED <<commitment, clusterVars>>
    BY DEF Propose
  <2>5. \A j \in Transaction : stage[j] # "unsent" => j < l
    BY DEF Propose
  <2>6. \A b \in 1 .. n : b \in 1 .. Len(blocks) /\ blocks[b].transaction \in {Others} \cup Transaction
    BY <2>3, ChainBlocks DEF Block
  <2>7. \A j \in Transaction, b \in 1 .. Len(blocks) : blocks[b].transaction = j => j < l
    BY <2>5 DEF Once
  <2>8. ASSUME NEW b \in 1 .. n PROVE blocks[b].transaction < l
    <3>1. blocks[b].transaction = Others \/ blocks[b].transaction \in Transaction
      BY <2>6
    <3>2. l \in Nat /\ 0 < l
      OBVIOUS
    <3> QED
      BY <2>7, <2>6, <3>1, <3>2
  <2>9. CreatedWithin(n) \subseteq 1 .. l - 1
    <3> SUFFICES ASSUME NEW j \in CreatedWithin(n) PROVE j \in 1 .. l - 1
      OBVIOUS
    <3>1. j \in Transaction /\ \E b \in 1 .. Len(blocks) : blocks[b].transaction = j
      BY ChainBlocks DEF CreatedWithin, BlockOf
    <3>2. j < l /\ l \in Nat /\ j \in Nat \ {0}
      BY <2>7, <3>1
    <3> QED
      BY <3>2
  <2>10. IndexAt(n)' = IndexAt(n) /\ CreatedWithin(n)' = CreatedWithin(n)
    BY <1>1, <2>3, <2>4, KeepsCounts DEF Keeps, clusterVars
  <2>11. NumberedAt(l, n)' /\ n \in 0 .. Height(commitment)'
    BY <2>2, <2>4, <2>8, <2>10 DEF NumberedAt, clusterVars, Height
  <2>12. sent'[l] <= MaxBlocks + 1
    BY <2>2, <2>3, IndexType
  <2> QED
    BY <2>2, <2>9, <2>11, <2>12
<1>4. ASSUME NEW l \in Transaction, stage[l] = "unsent", stage'[l] = "unsent"
      PROVE  /\ seen'[l] \subseteq 1 .. l - 1
             /\ sent'[l] <= MaxBlocks + 1
  BY <1>4, CallsEvolve DEF Numbered
<1> QED
  BY <1>2, <1>3, <1>4 DEF Numbered

\* A creation that succeeded was for the index that was next.
LEMMA SuccessesPreserved ==
  ASSUME ChainTypes, CallTypes, Once, Successes, [SessionNext]_vars
  PROVE  Successes'
<1> USE TransactionNumbers, ChainBlocks
<1>1. ChainTypes'
  BY ChainTypesPreserved
<1>2. ASSUME NEW b \in 1 .. Len(blocks), Keeps(b), blocks[b].success,
             blocks[b].transaction # Others
      PROVE  sent'[blocks'[b].transaction] = IndexAt(b - 1)' + 1
  <2>1. blocks'[b] = blocks[b] /\ blocks[b].transaction \in Transaction
    BY <1>2 DEF Keeps, Block
  <2>2. sent'[blocks[b].transaction] = sent[blocks[b].transaction]
    BY <2>1, CallsEvolve DEF Once
  <2>3. b - 1 \in Nat /\ Keeps(b - 1)
    BY <1>2 DEF Keeps
  <2>4. IndexAt(b - 1)' = IndexAt(b - 1)
    BY <1>1, <2>3, KeepsCounts
  <2> QED
    BY <1>2, <2>1, <2>2, <2>4 DEF Successes
<1>3. CASE \E k \in Transaction : Include(k)
  <2> PICK k \in Transaction : Include(k)
    BY <1>3
  <2> DEFINE x == [transaction |-> k, success |-> sent[k] = IndexAt(Len(blocks)) + 1]
  <2>1. x \in Block
    BY NewBlock DEF Include
  <2>2. /\ Len(blocks') = Len(blocks) + 1 /\ blocks'[Len(blocks) + 1] = x
        /\ \A b \in 1 .. Len(blocks) : blocks'[b] = blocks[b]
    BY <2>1, Extended DEF Include
  <2>3. \A b \in 0 .. Len(blocks) : Keeps(b)
    BY <2>2 DEF Keeps
  <2>4. ASSUME NEW b \in 1 .. Len(blocks'), b = Len(blocks) + 1, blocks'[b].success
        PROVE  sent'[blocks'[b].transaction] = IndexAt(b - 1)' + 1
    <3>1. b - 1 = Len(blocks) /\ b - 1 \in Nat /\ Keeps(b - 1)
      BY <2>3, <2>4
    <3>2. IndexAt(b - 1)' = IndexAt(b - 1)
      BY <1>1, <3>1, KeepsCounts
    <3>3. x.transaction = k /\ (x.success => sent[k] = IndexAt(Len(blocks)) + 1)
      OBVIOUS
    <3> HIDE DEF x
    <3>4. blocks'[b].transaction = k /\ sent[k] = IndexAt(b - 1) + 1
      BY <2>2, <2>4, <3>1, <3>3
    <3>5. UNCHANGED sent
      BY DEF Include
    <3> QED
      BY <3>2, <3>4, <3>5
  <2>5. ASSUME NEW b \in 1 .. Len(blocks), blocks'[b].success, blocks'[b].transaction # Others
        PROVE  sent'[blocks'[b].transaction] = IndexAt(b - 1)' + 1
    BY <1>2, <2>2, <2>3, <2>5
  <2> HIDE DEF x
  <2> QED
    BY <2>2, <2>4, <2>5 DEF Successes
<1>4. CASE IncludeOther
  <2> DEFINE x == [transaction |-> Others, success |-> TRUE]
  <2>1. x \in Block /\ x.transaction = Others
    BY DEF Block
  <2>2. /\ Len(blocks') = Len(blocks) + 1 /\ blocks'[Len(blocks) + 1] = x
        /\ \A b \in 1 .. Len(blocks) : blocks'[b] = blocks[b]
    BY <1>4, <2>1, Extended DEF IncludeOther
  <2>3. \A b \in 1 .. Len(blocks) : Keeps(b)
    BY <2>2 DEF Keeps
  <2> HIDE DEF x
  <2> QED
    BY <1>2, <2>1, <2>2, <2>3 DEF Successes
<1>5. CASE \A b \in 1 .. Len(blocks') : b \in 1 .. Len(blocks) /\ Keeps(b)
  <2>1. \A b \in 1 .. Len(blocks') : blocks'[b] = blocks[b] /\ b \in 1 .. Len(blocks)
    BY <1>5 DEF Keeps
  <2> QED
    BY <1>2, <1>5, <2>1 DEF Successes
<1>6. CASE \E n \in 0 .. MaxBlocks : Fork(n)
  <2> PICK n \in 0 .. MaxBlocks : Fork(n)
    BY <1>6
  <2>1. n \in finalized .. Len(blocks) - 1 /\ blocks' = SubSeq(blocks, 1, n)
    BY DEF Fork
  <2>2. n \in Nat /\ n < Len(blocks) /\ Len(blocks') = n /\ \A b \in 1 .. n : blocks'[b] = blocks[b]
    BY <2>1, Abandoned
  <2> QED
    BY <1>5, <2>2 DEF Keeps
<1>7. CASE UNCHANGED blocks
  BY <1>5, <1>7 DEF Keeps
<1>8. CASE Confirm \/ Finalize \/ \E k \in Transaction : Expire(k)
  BY <1>7, <1>8 DEF Confirm, Finalize, Expire, clusterVars
<1>9. CASE ~ClusterStep
  BY <1>7, <1>9, ChainUnchanged DEF clusterVars
<1> QED
  BY <1>3, <1>4, <1>6, <1>8, <1>9 DEF ClusterStep

\* The wallet keeps what it gave out.
LEMMA ManagerPreserved ==
  ASSUME Manager!TypeOK, Manager!LiveIsCached, [SessionNext]_vars
  PROVE  Manager!TypeOK' /\ Manager!LiveIsCached'
<1> USE DEF Manager!TypeOK, Manager!LiveIsCached, Manager!Cached
<1>1. CASE \E p \in Path : Manager!GetAccountByPath(p)
  <2> PICK p \in Path : Manager!GetAccountByPath(p)
    BY <1>1
  <2>1. PICK account \in Account : /\ _accounts' = [_accounts EXCEPT ![p] = account]
                                   /\ live' = live \cup {account}
    BY DEF Manager!GetAccountByPath
  <2>2. _accounts[p] = None
    BY DEF Manager!GetAccountByPath, Manager!MakesAccount
  <2>3. _accounts'[p] = account /\ \A q \in Path \ {p} : _accounts'[q] = _accounts[q]
    BY <2>1
  <2> QED
    BY <2>1, <2>2, <2>3, AccountAssumption
<1>2. CASE \E account \in Account : Manager!DisposeAccount(account)
  BY <1>2 DEF Manager!DisposeAccount
<1>3. CASE Manager!DisposeWallet
  BY <1>3 DEF Manager!DisposeWallet
<1>4. CASE UNCHANGED managerVars
  BY <1>4 DEF managerVars
<1>5. CASE ~ManagerStep
  BY <1>4, <1>5 DEF SessionNext, Propose, ClusterStep, PollStep, ownVars, vars
<1> QED
  BY <1>1, <1>2, <1>3, <1>5 DEF ManagerStep

\* The inductive invariant holds initially.
LEMMA SessionInvInit ==
  ASSUME SessionInit
  PROVE  SessionInv
<1> USE TransactionNumbers DEF SessionInit, FinalityInit
<1>1. Len(blocks) = 0 /\ blocks \in Seq(Block)
  OBVIOUS
<1>2. ChainTypes
  <2>1. reverted \in BOOLEAN
    BY Zenon
  <2> QED
    BY <1>1, <2>1 DEF ChainTypes
<1>3. CallTypes
  BY DEF CallTypes
<1>4. Once /\ Successes
  BY <1>1 DEF Once, Successes
<1>5. Answers
  BY DEF Answers, Stands, Told, Nothing, Answered
<1>6. Numbered
  BY DEF Numbered
<1>7. Manager!TypeOK /\ Manager!LiveIsCached
  BY DEF Manager!Init, Manager!TypeOK, Manager!LiveIsCached
<1> QED
  BY <1>2, <1>3, <1>4, <1>5, <1>6, <1>7 DEF SessionInv

\* Every step keeps the inductive invariant.
LEMMA SessionInvStep ==
  ASSUME SessionInv, [SessionNext]_vars
  PROVE  SessionInv'
<1>1. ChainTypes' /\ CallTypes'
  BY ChainTypesPreserved, CallTypesPreserved DEF SessionInv
<1>2. Once' /\ Answers'
  BY OncePreserved, AnswersPreserved DEF SessionInv
<1>3. Successes' /\ Numbered'
  BY SuccessesPreserved, NumberedPreserved DEF SessionInv
<1>4. Manager!TypeOK' /\ Manager!LiveIsCached'
  BY ManagerPreserved DEF SessionInv
<1> QED
  BY <1>1, <1>2, <1>3, <1>4 DEF SessionInv

\* The inductive invariant, whatever is proposed, lands, is abandoned and asked.
THEOREM SessionInvariant == SessionSpec => []SessionInv
<1>1. SessionInit => SessionInv
  BY SessionInvInit
<1>2. SessionInv /\ [SessionNext]_vars => SessionInv'
  BY SessionInvStep
<1> QED
  BY <1>1, <1>2, PTL DEF SessionSpec

(***************************************************************************)
(* The properties.                                                         *)
(***************************************************************************)

\* Every state is of its type: among others, no signature is in two blocks, nor in
\* one and in the pool.
THEOREM SessionTypes == SessionSpec => []TypeOK
<1>1. SessionInv => TypeOK
  <2> SUFFICES ASSUME SessionInv PROVE TypeOK
    OBVIOUS
  <2> USE TransactionNumbers, ChainBlocks DEF SessionInv
  <2>1. commitment \in Commitment /\ finalized <= confirmed /\ confirmed <= Len(blocks)
        /\ Len(blocks) <= MaxBlocks /\ pool \subseteq Transaction
    BY DEF ChainTypes, CallTypes
  <2>2. \A b \in DOMAIN blocks : blocks[b].transaction \in {Others} \cup Transaction
    BY DEF Block
  <2>3. sent \in [Transaction -> 0 .. MaxBlocks + 1]
    BY DEF CallTypes, Numbered
  <2>4. ASSUME NEW k \in Transaction
        PROVE  /\ stage[k] \in {"unsent", "waiting", "left", "done"}
               /\ told[k].finality \in {"none", "pending", "confirmed", "final"}
               /\ request[k] # Nothing => stage[k] = "waiting"
               /\ seen[k] \subseteq 1 .. k - 1
    BY DEF CallTypes, Numbered, Nothing, Pending, Answered, Told
  <2>5. ASSUME NEW k \in Transaction
        PROVE  Cardinality(BlockOf(k)) <= (IF k \in pool THEN 0 ELSE 1)
    <3>1. CASE BlockOf(k) = {}
      BY <3>1, FS_EmptySet
    <3>2. CASE BlockOf(k) # {}
      <4>1. PICK b : b \in BlockOf(k)
        BY <3>2
      <4>2. BlockOf(k) = {b} /\ k \notin pool
        BY <4>1 DEF BlockOf, Once
      <4>3. Cardinality({b}) = 1
        BY FS_Singleton
      <4> QED
        BY ONLY <4>2, <4>3
    <3> QED
      BY <3>1, <3>2
  <2> QED
    BY <2>1, <2>2, <2>3, <2>4, <2>5 DEF TypeOK
<1> QED
  BY <1>1, SessionInvariant, PTL

\* What a caller was told of a transaction goes on being true.
THEOREM AnswersAlwaysStand == SessionSpec => []AnswersStand
<1>1. SessionInv => AnswersStand
  <2> SUFFICES ASSUME SessionInv, NEW k \in Transaction, told[k].finality \notin {"none", "pending"},
                      ~(told[k].finality = "confirmed" /\ reverted)
               PROVE  /\ told[k].block <= Len(blocks)
                      /\ blocks[told[k].block] = [transaction |-> k, success |-> told[k].success]
    BY DEF AnswersStand
  <2>1. told[k] \in Answered
    BY DEF SessionInv, CallTypes, Nothing, Pending
  <2>2. told[k].finality \in Told /\ told[k].block \in Nat
    BY <2>1 DEF Answered
  <2>3. /\ told[k].block <= (IF told[k].finality = "final" THEN finalized ELSE confirmed)
        /\ blocks[told[k].block] = [transaction |-> k, success |-> told[k].success]
    BY <2>2 DEF SessionInv, Answers, Stands
  <2> QED
    BY <2>2, <2>3, ChainBlocks DEF SessionInv, ChainTypes
<1> QED
  BY <1>1, SessionInvariant, PTL

\* A fee is only told of a block that has reached the account's commitment.
THEOREM FeesAreCommitted == SessionSpec => []FeeAtCommitment
<1>1. SessionInv => FeeAtCommitment
  <2> SUFFICES ASSUME SessionInv, NEW k \in Transaction, told[k].finality \notin {"none", "pending"},
                      told[k].fee, ~reverted
               PROVE  told[k].block <= Height(commitment) /\ told[k].block \in BlockOf(k)
    BY DEF FeeAtCommitment
  <2>1. told[k] \in Answered
    BY DEF SessionInv, CallTypes, Nothing, Pending
  <2>2. told[k].finality \in Told /\ told[k].block \in Nat \ {0}
    BY <2>1 DEF Answered
  <2>3. /\ told[k].block <= (IF told[k].finality = "final" THEN finalized ELSE confirmed)
        /\ blocks[told[k].block].transaction = k
    <3>1. Stands(k, told[k])
      BY DEF SessionInv, Answers
    <3>2. /\ told[k].block <= (IF told[k].finality = "final" THEN finalized ELSE confirmed)
          /\ blocks[told[k].block] = [transaction |-> k, success |-> told[k].success]
      BY <2>2, <3>1 DEF Stands
    <3> QED
      BY <3>2
  <2>4. told[k].block <= confirmed /\ told[k].block \in 1 .. Len(blocks)
    BY <2>2, <2>3, ChainBlocks DEF SessionInv, ChainTypes
  <2>5. commitment = "finalized" => told[k].block <= finalized
    BY <2>1 DEF SessionInv, Answers, FeeStands
  <2>6. commitment \in Commitment /\ confirmed <= Len(blocks) /\ confirmed \in Nat
        /\ Len(blocks) \in Nat
    BY ChainBlocks DEF SessionInv, ChainTypes
  <2>7. told[k].block <= Height(commitment)
    BY <2>2, <2>4, <2>5, <2>6 DEF Commitment, Height
  <2>8. told[k].block \in BlockOf(k)
    BY <2>3, <2>4, ChainBlocks DEF SessionInv, BlockOf
  <2> QED
    BY <2>7, <2>8
<1> QED
  BY <1>1, SessionInvariant, PTL

\* Of two attempts of a caller both become proposals only if the read of the second
\* had counted the first: the indexes they were numbered with rule out the rest.
THEOREM BlindRetriesCollide == SessionSpec => []DuplicateOnlyIfSeen
<1>1. SessionInv => DuplicateOnlyIfSeen
  <2> SUFFICES ASSUME SessionInv, Lasting,
                      NEW k \in CreatedWithin(Len(blocks)), NEW l \in CreatedWithin(Len(blocks)),
                      k < l, k \notin seen[l]
               PROVE  FALSE
    BY DEF DuplicateOnlyIfSeen, Lasting, SessionInv, ChainTypes, Commitment
  <2> USE TransactionNumbers, ChainBlocks DEF SessionInv
  <2>1. /\ k \in Transaction /\ l \in Transaction
        /\ stage[k] # "unsent" /\ stage[l] # "unsent"
    BY DEF CreatedWithin, BlockOf, Once
  <2>2. PICK bk \in 1 .. Len(blocks) : blocks[bk].transaction = k /\ blocks[bk].success
    BY DEF CreatedWithin, BlockOf
  <2>3. PICK bl \in 1 .. Len(blocks) : blocks[bl].transaction = l /\ blocks[bl].success
    BY DEF CreatedWithin, BlockOf
  <2>4. sent[k] = IndexAt(bk - 1) + 1 /\ sent[l] = IndexAt(bl - 1) + 1
    BY <2>1, <2>2, <2>3 DEF Successes
  <2>5. PICK m \in 0 .. Height(commitment) : NumberedAt(k, m)
    BY <2>1 DEF Numbered
  <2>6. PICK n \in 0 .. Height(commitment) : NumberedAt(l, n)
    BY <2>1 DEF Numbered
  <2>7. m \in Nat /\ n \in Nat /\ bk \in Nat \ {0} /\ bl \in Nat \ {0}
    BY DEF Height, ChainTypes, Commitment
  <2>8. m < bl /\ m < bk /\ n < bl
    <3>1. k \in Nat /\ l \in Nat /\ k < l
      BY <2>1
    <3>2. \A b \in 1 .. m : blocks[b].transaction < k
      BY <2>5 DEF NumberedAt
    <3>3. \A b \in 1 .. n : blocks[b].transaction < l
      BY <2>6 DEF NumberedAt
    <3> QED
      BY ONLY <2>2, <2>3, <2>7, <3>1, <3>2, <3>3
  <2>9. n < bk
    BY <2>1, <2>2, <2>6, <2>7 DEF NumberedAt, CreatedWithin, BlockOf
  <2>10. bk # bl
    BY <2>1, <2>2, <2>3
  <2>11. IndexAt(m) = IndexAt(bk - 1) /\ IndexAt(n) = IndexAt(bl - 1)
    <3>1. sent[k] = IndexAt(m) + 1 /\ sent[l] = IndexAt(n) + 1
      BY <2>5, <2>6 DEF NumberedAt
    <3>2. bk - 1 \in Nat /\ bl - 1 \in Nat
      BY <2>7
    <3>3. /\ IndexAt(m) \in Nat /\ IndexAt(bk - 1) \in Nat
          /\ IndexAt(n) \in Nat /\ IndexAt(bl - 1) \in Nat
      BY <2>7, <3>2, IndexType
    <3> QED
      BY ONLY <2>4, <3>1, <3>3
  <2>12. CASE bk < bl
    <3>1. IndexAt(n) + 1 <= IndexAt(bl - 1)
      BY <2>2, <2>7, <2>9, <2>12, IndexCounts
    <3> QED
      BY <2>7, <2>11, <3>1, IndexType
  <2>13. CASE bl < bk
    <3>1. IndexAt(m) + 1 <= IndexAt(bk - 1)
      BY <2>3, <2>7, <2>8, <2>13, IndexCounts
    <3> QED
      BY <2>7, <2>11, <3>1, IndexType
  <2> QED
    BY <2>7, <2>10, <2>12, <2>13
<1> QED
  BY <1>1, SessionInvariant, PTL

\* An account that holds a key is the one its path is cached under, so that
\* disposing the wallet leaves none.
THEOREM WalletKnowsItsKeys == SessionSpec => []LiveIsCached
<1>1. SessionInv => LiveIsCached
  BY DEF SessionInv, LiveIsCached
<1> QED
  BY <1>1, SessionInvariant, PTL
=============================================================================
