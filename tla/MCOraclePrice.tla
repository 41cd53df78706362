---------------------------- MODULE MCOraclePrice -----------------------------
(***************************************************************************)
(* Instances of OraclePrice.                                               *)
(***************************************************************************)
EXTENDS OraclePrice, TLC

PriceSymmetry == Permutations(Prices)
=============================================================================
