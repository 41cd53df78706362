----------------------------- MODULE MCPolTrades ------------------------------
(***************************************************************************)
(* Instances of PolTrades: an isolation-mode vault v of the user u, who    *)
(* also trades with an account of his own.                                 *)
(***************************************************************************)
EXTENDS PolTrades, TLC

CONSTANTS u, v, ofU, ofV

UserOfAccount == ofU :> u @@ ofV :> v
VaultOfUser == u :> u @@ v :> u
=============================================================================
