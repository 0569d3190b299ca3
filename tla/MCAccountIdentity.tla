------------------------- MODULE MCAccountIdentity -------------------------
(***************************************************************************)
(* An instance of AccountIdentity for TLC: the default program and a fork, *)
(* two create keys, every configuration and every override of them.        *)
(***************************************************************************)
EXTENDS AccountIdentity, TLC

CONSTANTS squads, fork

Programs == {squads, fork}
Keys == Permutations(CreateKey)
=============================================================================
