--------------------------- MODULE ProposalReads ---------------------------
(***************************************************************************)
(* getProposals: one call that needs several requests, on accounts that    *)
(* move between them.  It reads the multisig for the threshold, then the   *)
(* proposal accounts, a request per ChunkSize ids, and reports every       *)
(* proposal next to the threshold it read first.  Meanwhile members vote,  *)
(* execute and propose through the program.                                *)
(***************************************************************************)
EXTENDS SquadsProgram, SequencesExt

CONSTANTS
  ChunkSize,      \* MAX.multipleAccounts, the most accounts one request reads
  InitialChain,   \* the accounts the call may find
  NewPayload,     \* what members propose meanwhile
  Requests,       \* the lists of ids callers ask for
  MaxMoves        \* bound: how often the accounts move during one call

ASSUME ChunkSizeAssumption == ChunkSize \in Nat \ {0}
ASSUME RequestsAssumption == Requests \subseteq Seq(Index)
ASSUME MaxMovesAssumption == MaxMoves \in Nat
ASSUME ReadChainAssumption == \A c \in InitialChain : Sound(c)
ASSUME NewPayloadAssumption == NewPayload \subseteq Payload

VARIABLES
  chain,     \* the multisig's accounts
  ids,       \* the ids the call asks for; empty when no call is under way
  threshold, \* the threshold the call read first
  offset,    \* how many ids have been read
  answers,   \* the record the call builds, keyed by id
  seen       \* history: the accounts as they stood since the call began

vars == <<chain, ids, threshold, offset, answers, seen>>

Reading == ids # <<>>
Returned == Reading /\ offset >= Len(ids)

(***************************************************************************)
(* The call.                                                               *)
(***************************************************************************)
Absent == [exists |-> FALSE]

\* Mutant: the proposer counts as a confirmation.
ShownWithProposer(id, p, required) ==
  IF p.status = "none" THEN Absent
  ELSE [exists |-> TRUE, proposalId |-> id, confirmations |-> Cardinality(p.approved) + 1,
        threshold |-> required,
        status |-> IF p.status = "executed" THEN "executed" ELSE "pending",
        statusName |-> p.status, approved |-> p.approved, rejected |-> p.rejected]

\* What the record holds for an id whose account reads as p.
Shown(id, p, required) ==
  IF p.status = "none" THEN Absent
  ELSE [exists |-> TRUE, proposalId |-> id, confirmations |-> Cardinality(p.approved),
        threshold |-> required,
        status |-> IF p.status = "executed" THEN "executed" ELSE "pending",
        statusName |-> p.status, approved |-> p.approved, rejected |-> p.rejected]

Init ==
  /\ chain \in InitialChain
  /\ ids = <<>> /\ threshold = 0 /\ offset = 0
  /\ answers = <<>>
  /\ seen = {}

\* An empty list is answered without a request; a multisig that does not exist
\* makes the call throw.
Begin ==
  /\ ~Reading
  /\ \E request \in Requests \ {<<>>} : ids' = request
  /\ chain.created
  /\ threshold' = chain.threshold
  /\ offset' = 0
  /\ answers' = <<>>
  /\ seen' = {chain}
  /\ UNCHANGED chain

\* The ids of the next request, the accounts the node answers it with, and the
\* id the i-th of them is taken for.  Mutants: a request is one id short; the
\* position, in the list or in the request, is taken for the id.
ShortChunk == SubSeq(ids, offset + 1, Min({offset + ChunkSize - 1, Len(ids)}))
Chunk == SubSeq(ids, offset + 1, Min({offset + ChunkSize, Len(ids)}))
Response == [i \in DOMAIN Chunk |-> chain.props[Chunk[i]]]
PositionOf(i) == offset + i
IdInFirstRequest(i) == ids[i]
IdOf(i) == ids[offset + i]

ReadChunk ==
  /\ Reading /\ ~Returned
  /\ LET positions(id) == {i \in DOMAIN Response : IdOf(i) = id}
         shown(id) ==
           Shown(id, Response[CHOOSE i \in positions(id) : TRUE], threshold)
     IN  answers' = [id \in DOMAIN answers \cup {IdOf(i) : i \in DOMAIN Response} |->
                       IF positions(id) # {} THEN shown(id) ELSE answers[id]]
  /\ offset' = offset + ChunkSize
  /\ UNCHANGED <<chain, ids, threshold, seen>>

Return ==
  /\ Returned
  /\ ids' = <<>> /\ threshold' = 0 /\ offset' = 0
  /\ answers' = <<>>
  /\ seen' = {}
  /\ UNCHANGED chain

(***************************************************************************)
(* The members meanwhile, each through one transaction at a time.  A call  *)
(* that has returned no longer watches them.                               *)
(***************************************************************************)
Moves ==
  [op : {"create", "approve", "reject", "execute"}, signer : Address, index : Index,
   payload : NewPayload, run : BOOLEAN, masks : {NoChange.in}, threshold : {0}]

Move ==
  /\ ~Returned /\ Cardinality(seen) <= MaxMoves
  /\ \E tx \in Moves : Accepts(chain, tx, 0) /\ chain' = Outcome(chain, tx, 0)
  /\ seen' = IF Reading THEN seen \cup {chain'} ELSE {}
  /\ UNCHANGED <<ids, threshold, offset, answers>>

Next == Begin \/ ReadChunk \/ Return \/ Move

Spec == Init /\ [][Next]_vars

(***************************************************************************)
(* Properties.                                                             *)
(***************************************************************************)

\* The values the variables take.
TypeOK ==
  /\ WellFormed(chain)
  /\ ids \in Seq(Index) /\ offset \in Nat /\ threshold \in Nat
  /\ DOMAIN answers \subseteq ToSet(ids)
  /\ \A id \in DOMAIN answers : answers[id].exists => answers[id].proposalId = id

\* Every id has its answer once the call returns, whatever its place in the
\* list, repeated or not, and whether or not a proposal exists.
EveryIdAnswered == Returned => DOMAIN answers = ToSet(ids)

\* The record and the chain agree on what they say of one proposal.
Tells(c, id) ==
  LET p == c.props[id]
      answer == answers[id]
  IN  IF answer.exists
      THEN /\ p.status = answer.statusName
           /\ p.approved = answer.approved /\ p.rejected = answer.rejected
           /\ answer.confirmations = Cardinality(p.approved)
      ELSE p.status = "none"

\* The ids whose answer comes from the k-th request: a later one replaces it.
AnsweredBy(k) ==
  {ids[i] : i \in {j \in DOMAIN ids :
     /\ j \in k * ChunkSize + 1 .. (k + 1) * ChunkSize
     /\ \A l \in DOMAIN ids : l > (k + 1) * ChunkSize /\ l <= offset => ids[l] # ids[j]}}

\* The answers of one request stood on the chain together, at one moment of the
\* call: no answer is another proposal's, and none is older than the call.
OneRequestOneMoment ==
  \A k \in 0 .. Len(ids) :
    k * ChunkSize < offset =>
      \E c \in seen : \A id \in AnsweredBy(k) : Tells(c, id)

\* No configuration change landed since the call read the threshold.
Quiet == \A c, d \in seen : c.staleTransactionIndex = d.staleTransactionIndex

\* Unless a configuration change lands during the call, the threshold read
\* first fits the votes read later: a live proposal reads as open for votes
\* exactly below it, and as approved or executed only at or above it.
QuietReadsAgree ==
  Quiet =>
    \A id \in DOMAIN answers :
      answers[id].exists /\ id > chain.staleTransactionIndex =>
        LET answer == answers[id] IN
        /\ answer.statusName = "active" => answer.confirmations < answer.threshold
        /\ answer.statusName \in {"approved", "executed"}
             => answer.confirmations >= answer.threshold
=============================================================================
