-------------------------- MODULE ProposalLifecycle --------------------------
(***************************************************************************)
(* What the members of a multisig are promised about its proposals,        *)
(* whoever acts, with which tool, and however calls and landings overlap:  *)
(*                                                                         *)
(*   - indexes are given out one by one and a proposal keeps its content;  *)
(*   - a proposal is decided once and executed at most once, and rejecting,*)
(*     executing, cancelling or closing it is final;                       *)
(*   - the configuration changes only when a config proposal is executed,  *)
(*     by exactly the change it holds (or, in a controlled multisig, when  *)
(*     the config authority says so), and that ends the votes on every     *)
(*     proposal made before.                                               *)
(*                                                                         *)
(* Votes, time locks and transactions under way are not mentioned:         *)
(* MultisigLifecycle shows that MultisigAccount implements this.           *)
(***************************************************************************)
EXTENDS SquadsProgram

VARIABLES
  deployed,    \* the multisig exists
  controlled,  \* a config authority governs it
  config,      \* its members' masks and its threshold
  top,         \* the last index given out
  stale,       \* votes on proposals up to here are over
  stage,       \* per index: the status of its proposal; closed: beyond execution
  payload      \* per index: what it holds

vars == <<deployed, controlled, config, top, stale, stage, payload>>

Config == [masks : [Address -> Mask], threshold : Nat]

Settled == {"rejected", "executed", "cancelled"}

\* A history may already have begun; nothing is decided yet.
Init ==
  /\ deployed \in BOOLEAN
  /\ controlled \in BOOLEAN
  /\ config \in Config
  /\ top \in Index
  /\ stale \in 0 .. top
  /\ stage \in [Index -> {"none", "active", "closed"}]
  /\ payload \in [Index -> Payload]
  /\ \A i \in Index : stage[i] # "none" => i \in 1 .. top

Moves(i, to) == stage' = [stage EXCEPT ![i] = to]

\* The change a config proposal makes; other payloads leave the rules alone.
Runs(content, last) ==
  IF IsConfig(content)
  THEN /\ config' = [masks |-> Reconfigured(config.masks, content.change),
                     threshold |-> NewThreshold(config.threshold, content.change)]
       /\ stale' = last
  ELSE UNCHANGED <<config, stale>>

(***************************************************************************)
(* The steps.                                                              *)
(***************************************************************************)
Deploy ==
  /\ ~deployed
  /\ deployed' = TRUE
  /\ config' \in Config
  /\ UNCHANGED <<controlled, top, stale, stage, payload>>

\* The next index is given out, and holds its content from then on.
GivesOut(i) ==
  /\ deployed
  /\ i = top + 1
  /\ top' = i
  /\ payload'[i] \in Payload
  /\ payload' = [payload EXCEPT ![i] = payload'[i]]
  /\ UNCHANGED <<deployed, controlled>>

Propose(i) ==
  /\ GivesOut(i)
  /\ \E to \in {"none", "active"} : Moves(i, to)
  /\ UNCHANGED <<config, stale>>

\* Proposed, approved and executed in one transaction.
ProposeAndExecute(i) ==
  /\ GivesOut(i)
  /\ Moves(i, "executed")
  /\ Runs(payload'[i], i)

\* A transaction created without its proposal gets one.
Open(i) ==
  /\ stage[i] = "none"
  /\ i \in stale + 1 .. top
  /\ Moves(i, "active")
  /\ UNCHANGED <<deployed, controlled, config, top, stale, payload>>

Decide(i) ==
  /\ stage[i] = "active"
  /\ i > stale
  /\ \E to \in {"approved", "rejected"} : Moves(i, to)
  /\ UNCHANGED <<deployed, controlled, config, top, stale, payload>>

Cancel(i) ==
  /\ stage[i] = "approved"
  /\ Moves(i, "cancelled")
  /\ UNCHANGED <<deployed, controlled, config, top, stale, payload>>

\* Its transaction is gone, for good.
Close(i) ==
  /\ stage[i] \in Settled \/ i \in 1 .. stale
  /\ Moves(i, "closed")
  /\ UNCHANGED <<deployed, controlled, config, top, stale, payload>>

\* Once approved, or approved and executed in one transaction.
Execute(i) ==
  /\ \/ stage[i] = "approved"
     \/ stage[i] = "active" /\ i > stale
  /\ IsConfig(payload[i]) => i > stale
  /\ Moves(i, "executed")
  /\ Runs(payload[i], top)
  /\ UNCHANGED <<deployed, controlled, top, payload>>

\* The config authority.
Impose ==
  /\ deployed /\ controlled
  /\ config' \in Config
  /\ stale' = top
  /\ UNCHANGED <<deployed, controlled, top, stage, payload>>

Next ==
  \/ Deploy
  \/ \E i \in Index :
       \/ Propose(i) \/ ProposeAndExecute(i) \/ Open(i) \/ Decide(i)
       \/ Cancel(i) \/ Close(i) \/ Execute(i)
  \/ Impose

Spec == Init /\ [][Next]_vars

(***************************************************************************)
(* What follows for a member.                                              *)
(***************************************************************************)

\* A settled proposal stays as it is or is closed, and a closed one stays closed:
\* nothing rejected, cancelled or closed is ever executed, and nothing is executed
\* twice.
SettledStays ==
  \A i \in Index : stage[i] \in Settled \cup {"closed"} => stage'[i] \in {stage[i], "closed"}

SettledIsFinal == [][SettledStays]_vars

\* Without a config authority, the members and the threshold of a deployed
\* multisig change only in the step that executes a config proposal, by exactly
\* its change, and never one made before the last change.
MembersReconfigure ==
  deployed /\ ~controlled /\ config' # config =>
    \E i \in Index :
      /\ stage[i] # "executed" /\ stage'[i] = "executed"
      /\ IsConfig(payload'[i])
      /\ config'.masks = Reconfigured(config.masks, payload'[i].change)
      /\ config'.threshold = NewThreshold(config.threshold, payload'[i].change)
      /\ i > stale

OnlyProposalsReconfigure == [][MembersReconfigure]_vars
=============================================================================
