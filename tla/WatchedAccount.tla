---------------------------- MODULE WatchedAccount ----------------------------
(***************************************************************************)
(* MarginLedger implements AccountBook for any one account: the refinement *)
(* mapping reads the balance rows of the watched account and forgets       *)
(* everything the ledger keeps besides.                                    *)
(***************************************************************************)
EXTENDS MarginLedger

CONSTANT Watched

ASSUME WatchedAssumption == Watched \in Accounts

Book == INSTANCE AccountBook WITH
          CanBorrow <- Watched \in BorrowAccounts,
          par       <- [t \in Tokens |-> ParOf(db, Watched, t)],
          expiry    <- [t \in Tokens |-> db.values[Watched][t].expiration],
          opened    <- db.positions[Watched].status # "NONE"

\* helpers/margin.ts:358-472.  Whatever order the handlers load, delete and save
\* rows in, an event leaves in a balance row the par it reported and the
\* expiration that was there, and leaves the rows of other accounts alone.
ImplementsBook == Book!Spec
=============================================================================
