---------------------------- MODULE MarginLedger -----------------------------
(***************************************************************************)
(* The account ledger of the indexer: one action per event handler that    *)
(* moves balances, opens borrow positions, sets expirations or binds       *)
(* isolation-mode vaults.  Events of a chain are handled one at a time in  *)
(* log order, so a handler is one step, but within it the entities are     *)
(* read, changed and saved in the order of the code.                       *)
(*                                                                         *)
(* The chain is the environment: an event carries the new par of every     *)
(* balance it moved, and the guards here say only what the DolomiteMargin  *)
(* contract guarantees of those numbers (a deposit never lowers a par, the *)
(* two sides of a transfer move in opposite directions, ...).              *)
(*                                                                         *)
(* MaxPar bounds the pars the chain reports and MaxList the number of      *)
(* times an id may occur in an array of a borrow position.                 *)
(***************************************************************************)
EXTENDS MarginStore, FiniteSets, FiniteSetsExt

CONSTANTS Vaults,  \* owners that are isolation-mode vaults
          MaxPar, MaxList

ASSUME VaultsAssumption == Vaults \subseteq Owners
ASSUME BoundsAssumption == MaxPar \in Nat /\ MaxList \in Nat

\* Addresses and account numbers are words of a fixed width.
ASSUME FinitenessAssumption == IsFiniteSet(Owners) /\ IsFiniteSet(Accounts)

VARIABLE db

Pars == -MaxPar .. MaxPar
ParOf(d, a, t) == d.values[a][t].valuePar
Ups(p) == p .. MaxPar
Downs(p) == -MaxPar .. p
Opposite(p, q, r, s) == (q <= p /\ s >= r) \/ (q >= p /\ s <= r)

WithinListBound(d) ==
  \A a \in Accounts, t \in Tokens :
    d.positions[a].supplyTokens[t] <= MaxList /\ d.positions[a].borrowTokens[t] <= MaxList

Step(d) == WithinListBound(d) /\ db' = d

Init == db = EmptyStore

-----------------------------------------------------------------------------
(* DolomiteMargin events                                                   *)

LogDeposit(a, t) ==
  \E par \in Ups(ParOf(db, a, t)) : Step(BalanceUpdate(db, a, t, par))

LogWithdraw(a, t) ==
  \E par \in Downs(ParOf(db, a, t)) : Step(BalanceUpdate(db, a, t, par))

\* The two sides may be the same account (Transfer.isSelfTransfer).
LogTransfer(one, two, t) ==
  \E parOne, parTwo \in Pars :
    LET first == BalanceUpdate(db, one, t, parOne)
    IN  /\ Opposite(ParOf(db, one, t), parOne, ParOf(first, two, t), parTwo)
        /\ Step(BalanceUpdate(first, two, t, parTwo))

\* Mutant: the counts bumped since the row was loaded are added to the stored row,
\* which has them already.
SavedMergedMargin(loaded, d) ==
  [d EXCEPT !.userCount = @ + (@ - loaded.userCount),
            !.borrowPositionCount = @ + (@ - loaded.borrowPositionCount)]

\* _handleTradeInternal loads DolomiteMargin before it updates the balances and
\* saves that copy after them.
SavedStaleMargin(loaded, d) ==
  [d EXCEPT !.userCount = loaded.userCount,
            !.borrowPositionCount = loaded.borrowPositionCount]

\* Mutant: the two balance updates are handed each other's new par.
BothUpdatesCrossed(d, a, input, output, inputPar, outputPar) ==
  BalanceUpdate(BalanceUpdate(d, a, input, outputPar), a, output, inputPar)

BothUpdates(d, a, input, output, inputPar, outputPar) ==
  BalanceUpdate(BalanceUpdate(d, a, input, inputPar), a, output, outputPar)

\* LogSell and LogBuy: the taker gives input tokens for output tokens.
LogSell(a, input, output) ==
  /\ input # output
  /\ \E inputPar \in Downs(ParOf(db, a, input)), outputPar \in Ups(ParOf(db, a, output)) :
       Step(SavedStaleMargin(db, BothUpdates(db, a, input, output, inputPar, outputPar)))

\* LogTrade: what the taker gives the maker gets, in either direction.
LogTrade(taker, maker, input, output) ==
  /\ taker # maker /\ input # output
  /\ \E takerIn, takerOut, makerIn, makerOut \in Pars :
       /\ Opposite(ParOf(db, taker, input), takerIn, ParOf(db, maker, input), makerIn)
       /\ Opposite(ParOf(db, taker, output), takerOut, ParOf(db, maker, output), makerOut)
       /\ Opposite(ParOf(db, taker, input), takerIn, ParOf(db, taker, output), takerOut)
       /\ Opposite(ParOf(db, maker, input), makerIn, ParOf(db, maker, output), makerOut)
       /\ Step(SavedStaleMargin(db,
                 BothUpdates(BothUpdates(db, taker, input, output, takerIn, takerOut),
                             maker, input, output, makerIn, makerOut)))

LogLiquidate(solid, liquid, held, owed) ==
  /\ solid # liquid /\ held # owed
  /\ ParOf(db, liquid, held) > 0 /\ ParOf(db, liquid, owed) < 0
  /\ \E liquidHeld \in 0 .. ParOf(db, liquid, held),
        liquidOwed \in ParOf(db, liquid, owed) .. 0,
        solidHeld \in Ups(ParOf(db, solid, held)),
        solidOwed \in Downs(ParOf(db, solid, owed)) :
       Step(BothUpdates(BothUpdates(db, liquid, held, owed, liquidHeld, liquidOwed),
                        solid, held, owed, solidHeld, solidOwed))

LogVaporize(solid, vapor, held, owed) ==
  /\ solid # vapor /\ held # owed
  /\ ParOf(db, vapor, owed) < 0
  /\ \E vaporOwed \in ParOf(db, vapor, owed) .. 0,
        solidHeld \in Ups(ParOf(db, solid, held)),
        solidOwed \in Downs(ParOf(db, solid, owed)) :
       Step(BothUpdates(BalanceUpdate(db, vapor, owed, vaporOwed),
                        solid, held, owed, solidHeld, solidOwed))

-----------------------------------------------------------------------------
(* BorrowPositionProxy, DolomiteMarginExpiry and IsolationModeFactory events *)

\* user.totalBorrowPositionCount, and the effective user's when it is another.
Bumped(users, u) == [users EXCEPT ![u].totalBorrowPositionCount = @ + 1]
\* Mutant: an owner that is its own effective user is counted for both.
CountPositionForBoth(d, u) ==
  [d EXCEPT !.users = Bumped(Bumped(@, u), EffectiveUserOf(d, u))]
CountPosition(d, u) ==
  LET e == EffectiveUserOf(d, u)
  IN  [d EXCEPT !.users = IF e = u THEN Bumped(@, u) ELSE Bumped(Bumped(@, u), e)]

PositionOpened(d, a) ==
  LET counted == CountPosition(GetOrCreateMarginAccount(d, a), OwnerOf[a])
  IN  [counted EXCEPT !.positions[a] = NewPosition(EffectiveUserOf(counted, OwnerOf[a])),
                      !.borrowPositionCount = @ + 1]

BorrowPositionOpen(a) ==
  /\ a \in BorrowAccounts
  /\ db.positions[a].status = "NONE"
  /\ Step(PositionOpened(db, a))

ExpirationsAfter(row, t, time) ==
  LET list == IF time = NoTime THEN Removed(row.expirationTokens, t)
              ELSE AddedIfAbsent(row.expirationTokens, t)
  IN  [row EXCEPT !.expirationTokens = list, !.hasExpiration = ~ IsEmpty(list)]

\* positionExpired: the account's margin position has an expirationTimestamp
\* before this block; its amount row then keeps the expiration it had.
ExpirySaved(d, a, t, time, positionExpired) ==
  LET loaded == GetOrCreateMarginAccount(d, a)
      keeps == \/ ~ loaded.amounts[a][t].stored
               \/ time = NoTime /\ positionExpired
  IN  [loaded EXCEPT
        !.accounts[a] = ExpirationsAfter(@, t, time),
        !.values[a][t] = SavedValue([@ EXCEPT !.expiration = time]),
        !.amounts[a][t] = IF keeps THEN @ ELSE [@ EXCEPT !.expiration = time]]

ExpirySet(a, t, time, positionExpired) ==
  Step(ExpirySaved(db, a, t, time, positionExpired))

\* Mutant: the vault is bound to an account nobody has created a user for.
VaultCreatedForUnknown(vault, account) ==
  /\ vault \in Vaults /\ account \notin Vaults
  /\ db.users[vault].isEffectiveUser
  /\ LET d == CreateUserIfNecessary(db, vault)
     IN  Step([d EXCEPT !.users[vault].effectiveUser = account,
                        !.users[vault].isEffectiveUser = FALSE])

VaultBound(d, vault, account) ==
  [CreateUserIfNecessary(CreateUserIfNecessary(d, vault), account) EXCEPT
     !.users[vault].effectiveUser = account, !.users[vault].isEffectiveUser = FALSE]

\* A vault is created once, for an account that is not itself a vault.
VaultCreated(vault, account) ==
  /\ vault \in Vaults /\ account \notin Vaults
  /\ db.users[vault].isEffectiveUser
  /\ Step(VaultBound(db, vault, account))

-----------------------------------------------------------------------------

\* An event of DolomiteMargin, of a borrow position or of an expiry.
AccountEvent ==
  \/ \E a \in Accounts, t \in Tokens : LogDeposit(a, t)
  \/ \E a \in Accounts, t \in Tokens : LogWithdraw(a, t)
  \/ \E one, two \in Accounts, t \in Tokens : LogTransfer(one, two, t)
  \/ \E a \in Accounts, input, output \in Tokens : LogSell(a, input, output)
  \/ \E taker, maker \in Accounts, input, output \in Tokens :
       LogTrade(taker, maker, input, output)
  \/ \E solid, liquid \in Accounts, held, owed \in Tokens :
       LogLiquidate(solid, liquid, held, owed)
  \/ \E solid, vapor \in Accounts, held, owed \in Tokens :
       LogVaporize(solid, vapor, held, owed)
  \/ \E a \in Accounts : BorrowPositionOpen(a)
  \/ \E a \in Accounts, t \in Tokens, time \in Times \union {NoTime},
        positionExpired \in BOOLEAN : ExpirySet(a, t, time, positionExpired)

Next == AccountEvent \/ \E vault, account \in Owners : VaultCreated(vault, account)

Spec == Init /\ [][Next]_db

-----------------------------------------------------------------------------
(* Properties.  Each is stated of a store d, and checked and proved of db.  *)

\* Every table holds rows of its type.
TypeOK == db \in Store

Indicator(condition) == IF condition THEN 1 ELSE 0

\* helpers/margin.ts:382-404.  An account lists a token under borrowTokens
\* exactly once while its par is negative and under supplyTokens exactly once
\* while it is positive, and its has* flags say whether the lists are empty.
ListsTrackBalancesIn(d) ==
  \A a \in Accounts :
    LET row == d.accounts[a] IN
      /\ row.hasBorrowValue <=> ~ IsEmpty(row.borrowTokens)
      /\ row.hasSupplyValue <=> ~ IsEmpty(row.supplyTokens)
      /\ \A t \in Tokens :
           /\ row.borrowTokens[t] = Indicator(ParOf(d, a, t) < 0)
           /\ row.supplyTokens[t] = Indicator(ParOf(d, a, t) > 0)
AccountListsTrackBalances == ListsTrackBalancesIn(db)

\* margin-expiration.ts:39-56 and 74-79 with helpers/margin.ts:465.  A token is
\* on its account's expiration list exactly while the balance row carries an
\* expiration: saving a zero balance must not lose it.
ExpirationsListedIn(d) ==
  \A a \in Accounts :
    LET row == d.accounts[a] IN
      /\ row.hasExpiration <=> ~ IsEmpty(row.expirationTokens)
      /\ \A t \in Tokens : row.expirationTokens[t]
                             = Indicator(d.values[a][t].expiration # NoTime)
ExpirationsListed == ExpirationsListedIn(db)

\* deleteTokenValueIfNecessary, deleteUserParValueIfNecessary and the creations
\* that persist: a balance row exists exactly while it says something, and only
\* for an account and a user that exist.
NoDeadRowsIn(d) ==
  /\ \A a \in Accounts, t \in Tokens :
       LET row == d.values[a][t] IN
         /\ row.stored <=> (row.valuePar # 0 \/ row.expiration # NoTime)
         /\ row.stored => d.accounts[a].stored
  /\ \A u \in Owners, t \in Tokens :
       LET row == d.userPars[u][t] IN
         /\ row.stored <=> (row.totalSupplyPar # 0 \/ row.totalBorrowPar # 0)
         /\ row.stored => d.users[u].stored
NoDeadRows == NoDeadRowsIn(db)

Supplies(d, t) == [a \in Accounts |-> SupplyPart(ParOf(d, a, t))]
Borrows(d, t) == [a \in Accounts |-> BorrowPart(ParOf(d, a, t))]
BoundTo(d, u) == {a \in Accounts : d.accounts[a].stored /\ d.accounts[a].effectiveUser = u}

\* handleTotalParChange: a token's TotalPar is the sum of the positive pars and
\* of the negative pars of all accounts, whatever crossed zero on the way.
TotalParIsSumIn(d) ==
  \A t \in Tokens : d.totalPar[t] = [supplyPar |-> SumFunction(Supplies(d, t)),
                                     borrowPar |-> SumFunction(Borrows(d, t))]
TotalParIsSum == TotalParIsSumIn(db)

\* The delta arithmetic of helpers/margin.ts:432-457: a user's UserParValue is
\* the sum over the accounts bound to that user when they were created.
UserParIsSumIn(d) ==
  \A u \in Owners, t \in Tokens :
    LET row == d.userPars[u][t] IN
      /\ row.totalSupplyPar = SumFunctionOnSet(Supplies(d, t), BoundTo(d, u))
      /\ row.totalBorrowPar = SumFunctionOnSet(Borrows(d, t), BoundTo(d, u))
UserParIsSum == UserParIsSumIn(db)

\* updateBorrowAndSupplyTokens: amounts and allTokens list a token exactly once
\* while its BorrowPositionAmount is non-zero, even after direct sign changes.
PositionListsAmountsIn(d) ==
  \A a \in Accounts, t \in Tokens :
    LET held == Indicator(d.amounts[a][t].amountPar # 0) IN
      /\ d.positions[a].amounts[t] = held
      /\ d.positions[a].allTokens[t] = held
PositionListsAmounts == PositionListsAmountsIn(db)

\* An amount row is the balance of its account, and exists only for a position:
\* every handler that moves a balance also moves the amount.
AmountsMirrorBalancesIn(d) ==
  \A a \in Accounts, t \in Tokens :
    LET row == d.amounts[a][t] IN
      /\ row.stored => /\ d.positions[a].status # "NONE"
                       /\ row.amountPar = ParOf(d, a, t)
      /\ ~ row.stored => row.amountPar = 0
AmountsMirrorBalances == AmountsMirrorBalancesIn(db)

\* updateBorrowPositionForBalanceUpdate: a position is closed, with its close
\* columns set, exactly when it has seen a balance event and holds no amount;
\* it is open while it holds one, and empty and open only before the first.
StatusTracksAmountsIn(d) ==
  \A a \in Accounts :
    LET p == d.positions[a]
        holds == \E t \in Tokens : d.amounts[a][t].amountPar # 0
        touched == \E t \in Tokens : d.amounts[a][t].stored
    IN  /\ p.status = "CLOSED" <=> (touched /\ ~ holds)
        /\ p.closeStamped <=> p.status = "CLOSED"
StatusTracksAmounts == StatusTracksAmountsIn(db)

\* A token that a position holds is on at least one of its sign lists, and is
\* only listed where effectiveSupplyTokens / effectiveBorrowTokens record it,
\* once.
HeldTokensAreListedIn(d) ==
  \A a \in Accounts, t \in Tokens :
    LET p == d.positions[a] IN
      /\ Lists(p.allTokens, t) => Lists(p.supplyTokens, t) \/ Lists(p.borrowTokens, t)
      /\ Lists(p.supplyTokens, t) => Lists(p.effectiveSupplyTokens, t)
      /\ Lists(p.borrowTokens, t) => Lists(p.effectiveBorrowTokens, t)
      /\ p.effectiveSupplyTokens[t] \in {0, 1} /\ p.effectiveBorrowTokens[t] \in {0, 1}
HeldTokensAreListed == HeldTokensAreListedIn(db)

Opened(d) == {a \in Accounts : d.positions[a].status # "NONE"}

\* borrow-position-proxy.ts:64-72 and 118-122: DolomiteMargin counts the
\* positions, a user those it owns and those it is the effective user of, once
\* each; no trade that saves a stale DolomiteMargin row loses one.
PositionCountsIn(d) ==
  /\ d.borrowPositionCount = Cardinality(Opened(d))
  /\ \A u \in Owners :
       d.users[u].totalBorrowPositionCount =
         Cardinality({a \in Opened(d) : u \in {OwnerOf[a], d.positions[a].effectiveUser}})
PositionCountsExact == PositionCountsIn(db)

\* helpers/isolation.ts:19-22 follows one effectiveUser hop with getOrThrow: a
\* stored user leads to a stored user that leads to itself, and so does every
\* account's cached one.
EffectiveUsersResolveIn(d) ==
  /\ \A u \in Owners :
       LET e == d.users[u].effectiveUser IN
         d.users[u].stored => d.users[e].stored /\ d.users[e].effectiveUser = e
  /\ \A a \in Accounts :
       d.accounts[a].stored => /\ d.users[OwnerOf[a]].stored
                               /\ d.users[d.accounts[a].effectiveUser].stored
EffectiveUsersResolve == EffectiveUsersResolveIn(db)

StoredUsers(d) == {u \in Owners : d.users[u].stored}

\* helpers/user.ts:42-44 against margin-core.ts:440: whatever trades create users and
\* save the copy they loaded before, no user is counted twice; a trade may only leave
\* the users it creates uncounted.
UsersCountedIn(d) == d.userCount <= Cardinality(StoredUsers(d))
UsersCountedAtMostOnce == UsersCountedIn(db)

\* helpers/user.ts:8-9 says that creating a user bumps DolomiteMargin.userCount.
UserCountExact == db.userCount = Cardinality(StoredUsers(db))

\* helpers/borrow-position.ts:140 says that the borrow/supply tokens of a
\* position are updated by every balance update.
PositionListsTrackSigns ==
  \A a \in Accounts, t \in Tokens :
    LET p == db.positions[a] IN
      /\ Lists(p.supplyTokens, t) => db.amounts[a][t].amountPar > 0
      /\ Lists(p.borrowTokens, t) => db.amounts[a][t].amountPar < 0
=============================================================================
