---------------------------- MODULE MCTransactions -----------------------------
(***************************************************************************)
(* An instance of Transactions: a vault o1 of the user o2.                 *)
(***************************************************************************)
EXTENDS Transactions, TLC

CONSTANTS o1, o2

Symmetric == Permutations(WithdrawalKeys) \union Permutations(Markets)
VaultOfTwo == o1 :> o2 @@ o2 :> o2
=============================================================================
