--------------------------- MODULE MCWalletSession ---------------------------
(***************************************************************************)
(* The instance of WalletSession that TLC checks: two attempts at a        *)
(* proposal with the account of one path, room in the chain for both or    *)
(* for one and another member's, one fork.                                 *)
(***************************************************************************)
EXTENDS WalletSession
=============================================================================
