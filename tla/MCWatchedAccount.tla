-------------------------- MODULE MCWatchedAccount ----------------------------
(***************************************************************************)
(* An instance of WatchedAccount: two owners with an account each.         *)
(***************************************************************************)
EXTENDS WatchedAccount, TLC

CONSTANTS u1, u2, a1, a2

TokenSymmetry == Permutations(Tokens)
OneEach == a1 :> u1 @@ a2 :> u2

\* No owner is a vault here, so VaultCreated never happens; ledger_vaults has it.
VaultlessSpec == Init /\ [][AccountEvent]_db
=============================================================================
