------------------------------ MODULE MCMarkets -------------------------------
(***************************************************************************)
(* Instances of Markets.                                                   *)
(***************************************************************************)
EXTENDS Markets

\* Supplied and owed, or all withdrawn and repaid.
FewPars == {[supply |-> 2, borrow |-> 1], [supply |-> 0, borrow |-> 0]}
=============================================================================
