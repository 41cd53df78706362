------------------------------ MODULE MCAmmPairs -------------------------------
(***************************************************************************)
(* An instance of AmmPairs: two pairs with a token in common.              *)
(***************************************************************************)
EXTENDS AmmPairs, TLC

CONSTANTS p, q, u1, u2, t1, t2, t3

FirstTokens  == p :> t1 @@ q :> t2
SecondTokens == p :> t2 @@ q :> t3
=============================================================================
