------------------------------- MODULE MCVesting ------------------------------
(***************************************************************************)
(* Instances of Vesting: which owner each account belongs to.              *)
(***************************************************************************)
EXTENDS Vesting, TLC

CONSTANTS u1, u2, a1, a2

\* Two owners with one account each.
OneEach == a1 :> u1 @@ a2 :> u2
=============================================================================
