-------------------------- MODULE MCMarginPositions ---------------------------
(***************************************************************************)
(* Instances of MarginPositions.                                           *)
(***************************************************************************)
EXTENDS MarginPositions, TLC

TokenSymmetry == Permutations(Tokens)
=============================================================================
