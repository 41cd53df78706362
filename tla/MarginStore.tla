----------------------------- MODULE MarginStore -----------------------------
(***************************************************************************)
(* The entity tables a DolomiteMargin balance event touches, and the       *)
(* helpers the handlers of the indexer share to read and write them        *)
(* (helpers/user.ts, helpers/isolation.ts, helpers/margin.ts and           *)
(* helpers/borrow-position.ts).  The store is one record d with a function *)
(* per table; a helper that mutates entities is an operator from the store *)
(* before the call to the store after it, so that a handler which calls    *)
(* several helpers composes them in the order of the code.                 *)
(*                                                                         *)
(* A row that is not in its table is the fresh row with stored = FALSE     *)
(* ("NONE" for positions); deleteUnsafe brings a row back to that value.   *)
(* The id arrays of accounts and positions are kept as the number of times *)
(* each token occurs: the code never reads their order, but it appends     *)
(* without looking, so an id may occur twice.                              *)
(***************************************************************************)
EXTENDS Integers

CONSTANTS Owners,         \* addresses that own margin accounts (User rows)
          Accounts,       \* margin accounts: (owner, accountNumber) pairs
          OwnerOf,        \* the owner part of each account
          BorrowAccounts, \* accounts whose accountNumber is >= 100
          Tokens,         \* listed markets
          Times,          \* non-zero expiration timestamps
          NoTime          \* expirationTimestamp === undefined

ASSUME OwnerOfAssumption == OwnerOf \in [Accounts -> Owners]
ASSUME BorrowAccountsAssumption == BorrowAccounts \subseteq Accounts
ASSUME NoTimeAssumption == NoTime \notin Times

-----------------------------------------------------------------------------
(* Rows                                                                    *)

TokenList == [Tokens -> Nat]
EmptyList == [t \in Tokens |-> 0]
Lists(list, t) == list[t] > 0
IsEmpty(list) == \A t \in Tokens : ~ Lists(list, t)

\* [...list, t], and list.splice(list.indexOf(t), 1) when t occurs.
Added(list, t) == [list EXCEPT ![t] = @ + 1]
\* Mutant: splice without the indexOf test.
RemovedUnchecked(list, t) == [list EXCEPT ![t] = @ - 1]
Removed(list, t) == IF Lists(list, t) THEN [list EXCEPT ![t] = @ - 1] ELSE list
AddedIfAbsent(list, t) == IF Lists(list, t) THEN list ELSE Added(list, t)

UserRow == [stored : BOOLEAN, effectiveUser : Owners, isEffectiveUser : BOOLEAN,
            totalBorrowPositionCount : Nat]
NewUser(u) == [stored |-> TRUE, effectiveUser |-> u, isEffectiveUser |-> TRUE,
               totalBorrowPositionCount |-> 0]
NoUser(u) == [NewUser(u) EXCEPT !.stored = FALSE]

AccountRow == [stored : BOOLEAN, effectiveUser : Owners,
               borrowTokens : TokenList, supplyTokens : TokenList,
               expirationTokens : TokenList,
               hasBorrowValue : BOOLEAN, hasSupplyValue : BOOLEAN,
               hasExpiration : BOOLEAN]
NewAccount(effectiveUser) ==
  [stored |-> TRUE, effectiveUser |-> effectiveUser,
   borrowTokens |-> EmptyList, supplyTokens |-> EmptyList,
   expirationTokens |-> EmptyList,
   hasBorrowValue |-> FALSE, hasSupplyValue |-> FALSE, hasExpiration |-> FALSE]
NoAccount(a) == [NewAccount(OwnerOf[a]) EXCEPT !.stored = FALSE]

\* MarginAccountTokenValue; the two expiry columns are always written together.
ValueRow == [stored : BOOLEAN, valuePar : Int, expiration : Times \union {NoTime}]
NoValue == [stored |-> FALSE, valuePar |-> 0, expiration |-> NoTime]

UserParRow == [stored : BOOLEAN, totalSupplyPar : Int, totalBorrowPar : Int]
NoUserPar == [stored |-> FALSE, totalSupplyPar |-> 0, totalBorrowPar |-> 0]

TotalParRow == [supplyPar : Int, borrowPar : Int]

PositionRow == [status : {"NONE", "OPEN", "CLOSED"}, effectiveUser : Owners,
                closeStamped : BOOLEAN,
                amounts : TokenList, allTokens : TokenList,
                supplyTokens : TokenList, borrowTokens : TokenList,
                effectiveSupplyTokens : TokenList,
                effectiveBorrowTokens : TokenList]
NewPosition(effectiveUser) ==
  [status |-> "OPEN", effectiveUser |-> effectiveUser, closeStamped |-> FALSE,
   amounts |-> EmptyList, allTokens |-> EmptyList,
   supplyTokens |-> EmptyList, borrowTokens |-> EmptyList,
   effectiveSupplyTokens |-> EmptyList, effectiveBorrowTokens |-> EmptyList]
NoPosition(a) == [NewPosition(OwnerOf[a]) EXCEPT !.status = "NONE"]

\* BorrowPositionAmount
AmountRow == [stored : BOOLEAN, amountPar : Int, expiration : Times \union {NoTime}]
NoAmount == [stored |-> FALSE, amountPar |-> 0, expiration |-> NoTime]

Store ==
  [users : [Owners -> UserRow],
   userCount : Nat, borrowPositionCount : Nat,       \* DolomiteMargin
   accounts : [Accounts -> AccountRow],
   values : [Accounts -> [Tokens -> ValueRow]],
   userPars : [Owners -> [Tokens -> UserParRow]],
   totalPar : [Tokens -> TotalParRow],
   positions : [Accounts -> PositionRow],
   amounts : [Accounts -> [Tokens -> AmountRow]]]

\* The tables once LogAddMarket has created the DolomiteMargin row and one
\* TotalPar row per token, which every balance event requires (getOrThrow).
EmptyStore ==
  [users |-> [u \in Owners |-> NoUser(u)],
   userCount |-> 0, borrowPositionCount |-> 0,
   accounts |-> [a \in Accounts |-> NoAccount(a)],
   values |-> [a \in Accounts |-> [t \in Tokens |-> NoValue]],
   userPars |-> [u \in Owners |-> [t \in Tokens |-> NoUserPar]],
   totalPar |-> [t \in Tokens |-> [supplyPar |-> 0, borrowPar |-> 0]],
   positions |-> [a \in Accounts |-> NoPosition(a)],
   amounts |-> [a \in Accounts |-> [t \in Tokens |-> NoAmount]]]

-----------------------------------------------------------------------------
(* Users and accounts                                                      *)

CreateUserIfNecessary(d, u) ==
  IF d.users[u].stored THEN d
  ELSE [d EXCEPT !.users[u] = NewUser(u), !.userCount = @ + 1]

EffectiveUserOf(d, u) == d.users[u].effectiveUser

\* The row is set by every caller modelled here before any other write.
GetOrCreateMarginAccount(d, a) ==
  IF d.accounts[a].stored THEN d
  ELSE LET created == CreateUserIfNecessary(d, OwnerOf[a])
       IN  [created EXCEPT
              !.accounts[a] = NewAccount(EffectiveUserOf(created, OwnerOf[a]))]

-----------------------------------------------------------------------------
(* Balances                                                                *)

Abs(x) == IF x < 0 THEN -x ELSE x
SupplyPart(par) == IF par > 0 THEN par ELSE 0
BorrowPart(par) == IF par < 0 THEN -par ELSE 0

\* Mutant: a zero balance is deleted whatever else the row says.
SavedValueIfPar(row) ==
  IF row.valuePar = 0 THEN NoValue ELSE [row EXCEPT !.stored = TRUE]

\* deleteTokenValueIfNecessary, then set when it did not delete.
SavedValue(row) ==
  IF row.valuePar = 0 /\ row.expiration = NoTime THEN NoValue
  ELSE [row EXCEPT !.stored = TRUE]

\* Mutant: the emptied row is set again instead of deleted.
SavedUserParAlways(row) == [row EXCEPT !.stored = TRUE]

SavedUserPar(row) ==
  IF row.totalSupplyPar = 0 /\ row.totalBorrowPar = 0 THEN NoUserPar
  ELSE [row EXCEPT !.stored = TRUE]

\* Mutant: the old par is rolled back on the side of the new one.
TotalParOneSided(row, oldPar, newPar) ==
  IF newPar > 0 THEN [row EXCEPT !.supplyPar = @ - SupplyPart(oldPar) + newPar]
  ELSE [row EXCEPT !.borrowPar = @ - BorrowPart(oldPar) - newPar]

\* handleTotalParChange: roll back oldPar, roll forward newPar.
TotalParAfter(row, oldPar, newPar) ==
  [supplyPar |-> row.supplyPar - SupplyPart(oldPar) + SupplyPart(newPar),
   borrowPar |-> row.borrowPar - BorrowPart(oldPar) + BorrowPart(newPar)]

Moved(row, supply, borrow) ==
  [row EXCEPT !.totalSupplyPar = @ + supply, !.totalBorrowPar = @ + borrow]

\* Mutant: a delta that crosses zero is booked on the side it started from.
UserParUnsplit(row, oldPar, newPar) ==
  IF oldPar > 0 \/ (oldPar = 0 /\ newPar > 0) THEN Moved(row, newPar - oldPar, 0)
  ELSE Moved(row, 0, oldPar - newPar)

\* The effective user's totals move by the delta; a delta that crosses zero
\* clears one side and books the excess on the other.
UserParAfter(row, oldPar, newPar) ==
  LET delta == newPar - oldPar
  IN  IF oldPar > 0
      THEN IF delta < 0 /\ Abs(delta) > oldPar
           THEN Moved(row, -oldPar, Abs(delta) - oldPar)
           ELSE Moved(row, delta, 0)
      ELSE IF oldPar < 0
           THEN IF delta > 0 /\ delta > Abs(oldPar)
                THEN Moved(row, delta - Abs(oldPar), -Abs(oldPar))
                ELSE Moved(row, 0, -delta)
           ELSE IF delta > 0 THEN Moved(row, delta, 0) ELSE Moved(row, 0, -delta)

\* Mutant: an exact repayment is not a repayment.
BorrowTokensPastZero(list, t, oldPar, newPar) ==
  IF oldPar < 0 /\ newPar > 0 THEN Removed(list, t)
  ELSE IF oldPar >= 0 /\ newPar < 0 THEN Added(list, t) ELSE list

BorrowTokensAfter(list, t, oldPar, newPar) ==
  IF oldPar < 0 /\ newPar >= 0 THEN Removed(list, t)
  ELSE IF oldPar >= 0 /\ newPar < 0 THEN Added(list, t) ELSE list

SupplyTokensAfter(list, t, oldPar, newPar) ==
  IF oldPar <= 0 /\ newPar > 0 THEN Added(list, t)
  ELSE IF oldPar > 0 /\ newPar <= 0 THEN Removed(list, t) ELSE list

AccountAfter(row, t, oldPar, newPar) ==
  LET borrows  == BorrowTokensAfter(row.borrowTokens, t, oldPar, newPar)
      supplies == SupplyTokensAfter(row.supplyTokens, t, oldPar, newPar)
  IN  [row EXCEPT !.borrowTokens = borrows, !.hasBorrowValue = ~ IsEmpty(borrows),
                  !.supplyTokens = supplies, !.hasSupplyValue = ~ IsEmpty(supplies)]

-----------------------------------------------------------------------------
(* Borrow positions                                                        *)

\* Mutant: a balance that changes sign leaves its old list and joins no other.
ListsAfterHalfFlip(p, t, oldAmount, newPar) ==
  CASE oldAmount # 0 /\ newPar = 0 ->
         [p EXCEPT !.amounts = Removed(@, t), !.allTokens = Removed(@, t),
                   !.supplyTokens = Removed(@, t), !.borrowTokens = Removed(@, t)]
    [] oldAmount = 0 /\ newPar > 0 ->
         [p EXCEPT !.amounts = Added(@, t), !.allTokens = Added(@, t),
                   !.supplyTokens = Added(@, t),
                   !.effectiveSupplyTokens = AddedIfAbsent(@, t)]
    [] oldAmount = 0 /\ newPar < 0 ->
         [p EXCEPT !.amounts = Added(@, t), !.allTokens = Added(@, t),
                   !.borrowTokens = Added(@, t),
                   !.effectiveBorrowTokens = AddedIfAbsent(@, t)]
    [] oldAmount > 0 /\ newPar < 0 -> [p EXCEPT !.supplyTokens = Removed(@, t)]
    [] oldAmount < 0 /\ newPar > 0 -> [p EXCEPT !.borrowTokens = Removed(@, t)]
    [] OTHER -> p

\* updateBorrowAndSupplyTokens: only a balance that appears or disappears moves
\* the lists, and what disappears leaves the list of its former sign.
ListsAfter(p, t, oldAmount, newPar) ==
  CASE oldAmount # 0 /\ newPar = 0 ->
         [p EXCEPT !.amounts = Removed(@, t), !.allTokens = Removed(@, t),
                   !.supplyTokens = IF oldAmount > 0 THEN Removed(@, t) ELSE @,
                   !.borrowTokens = IF oldAmount > 0 THEN @ ELSE Removed(@, t)]
    [] oldAmount = 0 /\ newPar > 0 ->
         [p EXCEPT !.amounts = Added(@, t), !.allTokens = Added(@, t),
                   !.supplyTokens = Added(@, t),
                   !.effectiveSupplyTokens = AddedIfAbsent(@, t)]
    [] oldAmount = 0 /\ newPar < 0 ->
         [p EXCEPT !.amounts = Added(@, t), !.allTokens = Added(@, t),
                   !.borrowTokens = Added(@, t),
                   !.effectiveBorrowTokens = AddedIfAbsent(@, t)]
    [] OTHER -> p

\* Mutant: a closed position that holds an amount again stays closed.
StatusNeverReopened(before, after) ==
  IF IsEmpty(after.amounts) /\ after.status # "CLOSED"
  THEN [after EXCEPT !.status = "CLOSED", !.closeStamped = TRUE] ELSE after

\* before: the position as loaded; after: the same with its lists updated.
StatusAfter(before, after) ==
  IF IsEmpty(after.amounts) /\ after.status # "CLOSED"
  THEN [after EXCEPT !.status = "CLOSED", !.closeStamped = TRUE]
  ELSE IF IsEmpty(before.amounts) /\ ~ IsEmpty(after.amounts)
       THEN [after EXCEPT !.status = "OPEN", !.closeStamped = FALSE]
       ELSE after

\* Mutant: the new amount is saved before the lists are compared with the old one.
UpdateBorrowPositionSavedFirst(d, a, t, newPar) ==
  IF d.positions[a].status = "NONE" THEN d
  ELSE LET p == d.positions[a]
       IN  [d EXCEPT !.positions[a] = StatusAfter(p, ListsAfter(p, t, newPar, newPar)),
                     !.amounts[a][t] = [@ EXCEPT !.stored = TRUE, !.amountPar = newPar]]

\* updateBorrowPositionForBalanceUpdate, called once the new balance is saved.
UpdateBorrowPosition(d, a, t, newPar) ==
  IF d.positions[a].status = "NONE" THEN d
  ELSE LET p     == d.positions[a]
           lists == ListsAfter(p, t, d.amounts[a][t].amountPar, newPar)
       IN  [d EXCEPT !.positions[a] = StatusAfter(p, lists),
                     !.amounts[a][t] = [@ EXCEPT !.stored = TRUE, !.amountPar = newPar]]

\* The rows handleDolomiteMarginBalanceUpdateForAccount writes for a loaded account.
BookBalance(d, a, t, newPar) ==
  LET oldPar == d.values[a][t].valuePar
      u      == d.accounts[a].effectiveUser
  IN  [d EXCEPT
        !.totalPar[t] = TotalParAfter(@, oldPar, newPar),
        !.accounts[a] = AccountAfter(@, t, oldPar, newPar),
        !.userPars[u][t] = SavedUserPar(UserParAfter(@, oldPar, newPar)),
        !.values[a][t] = SavedValue([@ EXCEPT !.valuePar = newPar])]

\* Mutant: the position is updated from the balance before the event.
BalanceUpdatePositionFirst(d, a, t, newPar) ==
  UpdateBorrowPosition(BookBalance(GetOrCreateMarginAccount(d, a), a, t, newPar),
                       a, t, d.values[a][t].valuePar)

\* handleDolomiteMarginBalanceUpdateForAccount: token t of account a is now newPar.
BalanceUpdate(d, a, t, newPar) ==
  UpdateBorrowPosition(BookBalance(GetOrCreateMarginAccount(d, a), a, t, newPar),
                       a, t, newPar)
=============================================================================
