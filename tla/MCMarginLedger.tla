--------------------------- MODULE MCMarginLedger ----------------------------
(***************************************************************************)
(* Instances of MarginLedger: which owner each account belongs to.         *)
(***************************************************************************)
EXTENDS MarginLedger, TLC

CONSTANTS u1, u2, a1, a2

\* Two owners with one account each.
OneEach == a1 :> u1 @@ a2 :> u2

\* One owner with one account.
OneAccount == a1 :> u1

TokenSymmetry == Permutations(Tokens)
=============================================================================
