------------------------- MODULE MarginLedgerProofs --------------------------
(***************************************************************************)
(* Proofs about MarginLedger, and about the account book and the vesting   *)
(* positions that live in its store, for every set of owners, accounts and *)
(* tokens.                                                                 *)
(*                                                                         *)
(* A handler is a composition of the store helpers of MarginStore, so the  *)
(* proofs are too: for each helper a lemma says what it leaves alone and   *)
(* what it writes, a second one that it keeps the invariants, and a        *)
(* handler that performs two, three or four balance updates cites the      *)
(* lemma about one of them as many times.                                  *)
(*                                                                         *)
(* MarginLedger implements AccountBook for every account: each handler,    *)
(* seen from one account, is a step of the book or leaves it as it is.     *)
(*                                                                         *)
(* Vesting writes the UserParValue rows that UserParIsSum speaks of, and   *)
(* so breaks the invariant of the ledger.  Its proofs keep, next to db,    *)
(* the store that the ledger would have without vesting: there the         *)
(* invariant holds, and the two differ only by the par that positions lock.*)
(***************************************************************************)
EXTENDS WatchedAccount, Vesting, SumTheorems

-----------------------------------------------------------------------------
(* Types of the helpers                                                    *)

\* Appending to, and removing from, an id array gives an id array.
LEMMA ListOps ==
  ASSUME NEW list \in TokenList, NEW t \in Tokens
  PROVE  /\ Added(list, t) \in TokenList
         /\ Removed(list, t) \in TokenList
         /\ AddedIfAbsent(list, t) \in TokenList
  BY DEF TokenList, Added, Removed, AddedIfAbsent, Lists

LEMMA EmptyListType == EmptyList \in TokenList
  BY DEF EmptyList, TokenList

LEMMA UserParType ==
  ASSUME NEW row \in UserParRow, NEW old \in Int, NEW par \in Int
  PROVE  UserParAfter(row, old, par) \in UserParRow
  <1>1. ASSUME NEW s \in Int, NEW b \in Int
        PROVE  Moved(row, s, b) \in UserParRow
    <2>1. row.totalSupplyPar + s \in Int /\ row.totalBorrowPar + b \in Int
      BY DEF UserParRow
    <2>2. row.stored \in BOOLEAN
      BY DEF UserParRow
    <2> QED BY <2>1, <2>2 DEF Moved, UserParRow
  <1> QED BY <1>1 DEF UserParAfter, Abs

\* createUserIfNecessary writes one user row and the count, and stores u.
LEMMA CreateUserFacts ==
  ASSUME NEW d \in Store, NEW u \in Owners
  PROVE  LET e == CreateUserIfNecessary(d, u) IN
           /\ e \in Store
           /\ e.users[u].stored
           /\ \A v \in Owners : v # u => e.users[v] = d.users[v]
           /\ d.users[u].stored => e.users[u] = d.users[u] /\ e.userCount = d.userCount
           /\ ~ d.users[u].stored => /\ e.users[u] = NewUser(u)
                                    /\ e.userCount = d.userCount + 1
           /\ e.values = d.values /\ e.amounts = d.amounts
           /\ e.positions = d.positions /\ e.accounts = d.accounts
           /\ e.userPars = d.userPars /\ e.totalPar = d.totalPar
           /\ e.borrowPositionCount = d.borrowPositionCount
  <1>1. NewUser(u) \in UserRow
    BY DEF NewUser, UserRow
  <1>2. d.users \in [Owners -> UserRow] /\ d.userCount \in Nat
    BY DEF Store
  <1>3. [d.users EXCEPT ![u] = NewUser(u)] \in [Owners -> UserRow]
    BY <1>1, <1>2
  <1>4. d.userCount + 1 \in Nat
    BY <1>2
  <1>5. [d EXCEPT !.users[u] = NewUser(u), !.userCount = @ + 1] \in Store
    BY <1>3, <1>4 DEF Store
  <1>6. CreateUserIfNecessary(d, u) \in Store
    BY <1>5 DEF CreateUserIfNecessary
  <1>7. NewUser(u).stored
    BY DEF NewUser
  <1> QED BY <1>2, <1>6, <1>7 DEF CreateUserIfNecessary, Store

\* getOrCreateMarginAccount writes the row of a, which exists afterwards.
LEMMA GetAccountFacts ==
  ASSUME NEW d \in Store, NEW a \in Accounts
  PROVE  LET created == CreateUserIfNecessary(d, OwnerOf[a])
             e == GetOrCreateMarginAccount(d, a) IN
           /\ e \in Store
           /\ e.accounts[a].stored
           /\ \A b \in Accounts : b # a => e.accounts[b] = d.accounts[b]
           /\ d.accounts[a].stored => e = d
           /\ ~ d.accounts[a].stored =>
                /\ e.users = created.users /\ e.userCount = created.userCount
                /\ e.accounts[a] = NewAccount(EffectiveUserOf(created, OwnerOf[a]))
           /\ e.values = d.values /\ e.amounts = d.amounts
           /\ e.positions = d.positions
           /\ e.userPars = d.userPars /\ e.totalPar = d.totalPar
           /\ e.borrowPositionCount = d.borrowPositionCount
  <1> DEFINE created == CreateUserIfNecessary(d, OwnerOf[a])
             row == NewAccount(EffectiveUserOf(created, OwnerOf[a]))
             e == GetOrCreateMarginAccount(d, a)
  <1>0. OwnerOf[a] \in Owners
    BY OwnerOfAssumption
  <1>1. /\ created \in Store
        /\ created.values = d.values /\ created.amounts = d.amounts
        /\ created.positions = d.positions /\ created.accounts = d.accounts
        /\ created.userPars = d.userPars /\ created.totalPar = d.totalPar
        /\ created.borrowPositionCount = d.borrowPositionCount
    BY <1>0, CreateUserFacts
  <1>2. row \in AccountRow /\ row.stored
    BY <1>0, <1>1, EmptyListType
    DEF Store, EffectiveUserOf, NewAccount, AccountRow, UserRow
  <1>3. e = IF d.accounts[a].stored THEN d ELSE [created EXCEPT !.accounts[a] = row]
    BY DEF GetOrCreateMarginAccount
  <1> HIDE DEF created, row, e
  <1>4. created.accounts \in [Accounts -> AccountRow]
    BY <1>1 DEF Store
  <1>5. [created EXCEPT !.accounts[a] = row] \in Store
    BY <1>1, <1>2, <1>4, Zenon DEF Store
  <1>6. CASE d.accounts[a].stored
    BY <1>3, <1>6 DEF e
  <1>7. CASE ~ d.accounts[a].stored
    <2>1. /\ e.accounts = [d.accounts EXCEPT ![a] = row]
          /\ e.users = created.users /\ e.userCount = created.userCount
          /\ e.values = d.values /\ e.amounts = d.amounts
          /\ e.positions = d.positions
          /\ e.userPars = d.userPars /\ e.totalPar = d.totalPar
          /\ e.borrowPositionCount = d.borrowPositionCount
      BY <1>1, <1>3, <1>7 DEF Store
    <2>2. e \in Store
      BY <1>3, <1>5, <1>7
    <2> QED BY <1>1, <1>2, <1>4, <1>7, <2>1, <2>2 DEF e, created, row
  <1> QED BY <1>6, <1>7

\* The rows a balance event writes, before the borrow position.
LEMMA BookFacts ==
  ASSUME NEW d \in Store, NEW a \in Accounts, NEW t \in Tokens, NEW par \in Int
  PROVE  LET f == BookBalance(d, a, t, par)
             old == ParOf(d, a, t)
             u == d.accounts[a].effectiveUser IN
           /\ f \in Store
           /\ f.users = d.users /\ f.positions = d.positions /\ f.amounts = d.amounts
           /\ f.borrowPositionCount = d.borrowPositionCount /\ f.userCount = d.userCount
           /\ \A s \in Tokens : s # t => f.totalPar[s] = d.totalPar[s]
           /\ f.totalPar[t] = TotalParAfter(d.totalPar[t], old, par)
           /\ \A b \in Accounts : b # a => f.accounts[b] = d.accounts[b]
           /\ f.accounts[a] = AccountAfter(d.accounts[a], t, old, par)
           /\ \A b \in Accounts, s \in Tokens :
                b # a \/ s # t => f.values[b][s] = d.values[b][s]
           /\ f.values[a][t] = SavedValue([d.values[a][t] EXCEPT !.valuePar = par])
           /\ \A v \in Owners, s \in Tokens :
                v # u \/ s # t => f.userPars[v][s] = d.userPars[v][s]
           /\ f.userPars[u][t] = SavedUserPar(UserParAfter(d.userPars[u][t], old, par))
  <1> DEFINE old == d.values[a][t].valuePar
             u == d.accounts[a].effectiveUser
             total == TotalParAfter(d.totalPar[t], old, par)
             account == AccountAfter(d.accounts[a], t, old, par)
             userPar == SavedUserPar(UserParAfter(d.userPars[u][t], old, par))
             value == SavedValue([d.values[a][t] EXCEPT !.valuePar = par])
             f == BookBalance(d, a, t, par)
  <1>0. /\ old \in Int /\ u \in Owners
        /\ d.totalPar[t] \in TotalParRow
        /\ d.accounts[a] \in AccountRow
        /\ d.userPars[u][t] \in UserParRow
        /\ d.values[a][t] \in ValueRow
    BY DEF Store, ValueRow, AccountRow
  <1>f. /\ d.accounts \in [Accounts -> AccountRow]
        /\ d.values \in [Accounts -> [Tokens -> ValueRow]]
        /\ d.userPars \in [Owners -> [Tokens -> UserParRow]]
        /\ d.totalPar \in [Tokens -> TotalParRow]
    BY DEF Store
  <1>d. f = [d EXCEPT !.totalPar[t] = total, !.accounts[a] = account,
                      !.userPars[u][t] = userPar, !.values[a][t] = value]
    BY DEF BookBalance
  <1> HIDE DEF old, u, f
  <1>1. total \in TotalParRow
    BY <1>0 DEF TotalParAfter, TotalParRow, SupplyPart, BorrowPart
  <1>2. account \in AccountRow
    BY <1>0, ListOps, ZenonT(60) DEF AccountAfter, AccountRow, BorrowTokensAfter, SupplyTokensAfter
  <1>3. UserParAfter(d.userPars[u][t], old, par) \in UserParRow
    BY <1>0, UserParType
  <1>4. userPar \in UserParRow
    BY <1>3 DEF SavedUserPar, UserParRow, NoUserPar
  <1>5. value \in ValueRow
    BY <1>0 DEF SavedValue, ValueRow, NoValue
  <1> HIDE DEF total, account, userPar, value
  <1>6. f \in Store
    BY <1>0, <1>1, <1>2, <1>4, <1>5, <1>d DEF Store
  <1>7. /\ f.users = d.users /\ f.positions = d.positions /\ f.amounts = d.amounts
        /\ f.borrowPositionCount = d.borrowPositionCount /\ f.userCount = d.userCount
        /\ f.totalPar = [d.totalPar EXCEPT ![t] = total]
        /\ f.accounts = [d.accounts EXCEPT ![a] = account]
        /\ f.values = [d.values EXCEPT ![a] = [@ EXCEPT ![t] = value]]
        /\ f.userPars = [d.userPars EXCEPT ![u] = [@ EXCEPT ![t] = userPar]]
    BY <1>d DEF Store
  <1>8. /\ \A b \in Accounts : b # a => f.accounts[b] = d.accounts[b]
        /\ f.accounts[a] = account
    BY <1>7, <1>f
  <1>9. /\ \A b \in Accounts, s \in Tokens :
             b # a \/ s # t => f.values[b][s] = d.values[b][s]
        /\ f.values[a][t] = value
    BY <1>7, <1>f
  <1>10. /\ \A v \in Owners, s \in Tokens :
              v # u \/ s # t => f.userPars[v][s] = d.userPars[v][s]
         /\ f.userPars[u][t] = userPar
    BY <1>0, <1>7, <1>f
  <1>11. /\ \A s \in Tokens : s # t => f.totalPar[s] = d.totalPar[s]
         /\ f.totalPar[t] = total
    BY <1>7, <1>f
  <1> QED
    BY <1>6, <1>7, <1>8, <1>9, <1>10, <1>11, Zenon
    DEF ParOf, old, u, f, total, account, value, userPar

LEMMA ListsAfterType ==
  ASSUME NEW p \in PositionRow, NEW t \in Tokens, NEW old \in Int, NEW par \in Int
  PROVE  /\ ListsAfter(p, t, old, par) \in PositionRow
         /\ ListsAfter(p, t, old, par).status = p.status
         /\ ListsAfter(p, t, old, par).closeStamped = p.closeStamped
  BY ListOps DEF ListsAfter, PositionRow

LEMMA StatusAfterType ==
  ASSUME NEW p \in PositionRow, NEW q \in PositionRow
  PROVE  StatusAfter(p, q) \in PositionRow
  BY DEF StatusAfter, PositionRow

\* The position of a and its amount of t are the only rows written, and only if
\* there is a position.
LEMMA UpdatePositionFacts ==
  ASSUME NEW d \in Store, NEW a \in Accounts, NEW t \in Tokens, NEW par \in Int
  PROVE  LET g == UpdateBorrowPosition(d, a, t, par)
             p == d.positions[a]
             lists == ListsAfter(p, t, d.amounts[a][t].amountPar, par) IN
           /\ g \in Store
           /\ g.users = d.users /\ g.accounts = d.accounts /\ g.values = d.values
           /\ g.userPars = d.userPars /\ g.totalPar = d.totalPar
           /\ g.borrowPositionCount = d.borrowPositionCount /\ g.userCount = d.userCount
           /\ p.status = "NONE" => g = d
           /\ \A b \in Accounts : b # a => g.positions[b] = d.positions[b]
           /\ \A b \in Accounts, s \in Tokens :
                b # a \/ s # t => g.amounts[b][s] = d.amounts[b][s]
           /\ p.status # "NONE" =>
                /\ g.positions[a] = StatusAfter(p, lists)
                /\ g.amounts[a][t].stored /\ g.amounts[a][t].amountPar = par
  <1> DEFINE p == d.positions[a]
             row == d.amounts[a][t]
             lists == ListsAfter(p, t, row.amountPar, par)
             position == StatusAfter(p, lists)
             amount == [row EXCEPT !.stored = TRUE, !.amountPar = par]
             g == UpdateBorrowPosition(d, a, t, par)
  <1>0. p \in PositionRow /\ row \in AmountRow /\ row.amountPar \in Int
    BY DEF Store, AmountRow
  <1>f. /\ d.positions \in [Accounts -> PositionRow]
        /\ d.amounts \in [Accounts -> [Tokens -> AmountRow]]
    BY DEF Store
  <1>1. lists \in PositionRow /\ position \in PositionRow
    BY <1>0, ListsAfterType, StatusAfterType
  <1>2. amount \in AmountRow /\ amount.stored /\ amount.amountPar = par
    BY <1>0 DEF AmountRow
  <1>3. g = IF p.status = "NONE" THEN d
            ELSE [d EXCEPT !.positions[a] = position, !.amounts[a][t] = amount]
    BY DEF UpdateBorrowPosition
  <1>4. CASE p.status = "NONE"
    BY <1>3, <1>4
  <1>5. CASE p.status # "NONE"
    <2> HIDE DEF position, amount, g, p, lists, row
    <2>1. g = [d EXCEPT !.positions[a] = position, !.amounts[a][t] = amount]
      BY <1>3, <1>5
    <2>2. g \in Store
      BY <1>1, <1>2, <2>1 DEF Store
    <2>3. /\ g.users = d.users /\ g.accounts = d.accounts /\ g.values = d.values
          /\ g.userPars = d.userPars /\ g.totalPar = d.totalPar
          /\ g.borrowPositionCount = d.borrowPositionCount /\ g.userCount = d.userCount
          /\ g.positions = [d.positions EXCEPT ![a] = position]
          /\ g.amounts = [d.amounts EXCEPT ![a] = [@ EXCEPT ![t] = amount]]
      BY <2>1 DEF Store
    <2>4. /\ \A b \in Accounts : b # a => g.positions[b] = d.positions[b]
          /\ g.positions[a] = position
      BY <1>f, <2>3
    <2>5. /\ \A b \in Accounts, s \in Tokens :
               b # a \/ s # t => g.amounts[b][s] = d.amounts[b][s]
          /\ g.amounts[a][t] = amount
      BY <1>f, <2>3
    <2> QED BY <1>2, <1>5, <2>2, <2>3, <2>4, <2>5 DEF g, p, position, lists, row
  <1> QED BY <1>4, <1>5

-----------------------------------------------------------------------------
(* Account lists                                                           *)

\* What AccountListsTrackBalances and ExpirationsListed need of rows that do
\* not exist yet: creating an account must not clear anything.
FreshAccountsIn(d) ==
  \A a \in Accounts : ~ d.accounts[a].stored => d.accounts[a] = NoAccount(a)

AccountInv(d) ==
  FreshAccountsIn(d) /\ ListsTrackBalancesIn(d) /\ ExpirationsListedIn(d)

LEMMA GetAccountKeepsAccounts ==
  ASSUME NEW d \in Store, NEW a \in Accounts, AccountInv(d)
  PROVE  AccountInv(GetOrCreateMarginAccount(d, a))
  <1> DEFINE e == GetOrCreateMarginAccount(d, a)
  <1>1. CASE d.accounts[a].stored
    <2>1. e = d
      BY <1>1, GetAccountFacts
    <2> QED BY <2>1
  <1>2. CASE ~ d.accounts[a].stored
    <2>1. /\ e.values = d.values
          /\ e.accounts[a].stored
          /\ \A b \in Accounts : b # a => e.accounts[b] = d.accounts[b]
          /\ \E u : e.accounts[a] = NewAccount(u)
      BY <1>2, GetAccountFacts
    <2>2. d.accounts[a] = NoAccount(a)
      BY <1>2 DEF AccountInv, FreshAccountsIn
    <2>3. /\ e.accounts[a].borrowTokens = d.accounts[a].borrowTokens
          /\ e.accounts[a].supplyTokens = d.accounts[a].supplyTokens
          /\ e.accounts[a].expirationTokens = d.accounts[a].expirationTokens
          /\ e.accounts[a].hasBorrowValue = d.accounts[a].hasBorrowValue
          /\ e.accounts[a].hasSupplyValue = d.accounts[a].hasSupplyValue
          /\ e.accounts[a].hasExpiration = d.accounts[a].hasExpiration
      BY <2>1, <2>2 DEF NewAccount, NoAccount
    <2> HIDE DEF e
    <2>4. FreshAccountsIn(e)
      BY <2>1 DEF FreshAccountsIn, AccountInv
    <2>5. ListsTrackBalancesIn(e)
      BY <2>1, <2>3 DEF ListsTrackBalancesIn, AccountInv, ParOf
    <2>6. ExpirationsListedIn(e)
      BY <2>1, <2>3 DEF ExpirationsListedIn, AccountInv
    <2> QED BY <2>4, <2>5, <2>6 DEF AccountInv, e
  <1> QED BY <1>1, <1>2

\* Saving a balance keeps the expiration the row had, deleted or not.
LEMMA SavedValueKeeps ==
  ASSUME NEW row \in ValueRow, NEW par \in Int
  PROVE  LET saved == SavedValue([row EXCEPT !.valuePar = par]) IN
           saved.valuePar = par /\ saved.expiration = row.expiration
  BY DEF SavedValue, ValueRow, NoValue

LEMMA BookKeepsAccounts ==
  ASSUME NEW d \in Store, NEW a \in Accounts, NEW t \in Tokens, NEW par \in Int,
         AccountInv(d), d.accounts[a].stored
  PROVE  AccountInv(BookBalance(d, a, t, par))
  <1> DEFINE f == BookBalance(d, a, t, par)
             old == ParOf(d, a, t)
             row == d.accounts[a]
  <1>1. /\ \A b \in Accounts : b # a => f.accounts[b] = d.accounts[b]
        /\ f.accounts[a] = AccountAfter(row, t, old, par)
        /\ \A b \in Accounts, s \in Tokens :
             b # a \/ s # t => f.values[b][s] = d.values[b][s]
        /\ f.values[a][t] = SavedValue([d.values[a][t] EXCEPT !.valuePar = par])
    BY BookFacts
  <1>2. row \in AccountRow /\ d.values[a][t] \in ValueRow /\ old \in Int
    BY DEF Store, ValueRow, ParOf
  <1>3. f.values[a][t].valuePar = par
        /\ f.values[a][t].expiration = d.values[a][t].expiration
    BY <1>1, <1>2, SavedValueKeeps
  <1>4. /\ f.accounts[a].stored
        /\ f.accounts[a].borrowTokens = BorrowTokensAfter(row.borrowTokens, t, old, par)
        /\ f.accounts[a].supplyTokens = SupplyTokensAfter(row.supplyTokens, t, old, par)
        /\ f.accounts[a].hasBorrowValue = ~ IsEmpty(f.accounts[a].borrowTokens)
        /\ f.accounts[a].hasSupplyValue = ~ IsEmpty(f.accounts[a].supplyTokens)
        /\ f.accounts[a].expirationTokens = row.expirationTokens
        /\ f.accounts[a].hasExpiration = row.hasExpiration
    BY <1>1, <1>2 DEF AccountAfter, AccountRow
  <1> HIDE DEF f, old, row
  <1>5. \A s \in Tokens :
          /\ row.borrowTokens[s] = Indicator(ParOf(d, a, s) < 0)
          /\ row.supplyTokens[s] = Indicator(ParOf(d, a, s) > 0)
    BY DEF AccountInv, ListsTrackBalancesIn, row
  <1>6. row.borrowTokens \in TokenList /\ row.supplyTokens \in TokenList
    BY <1>2 DEF AccountRow
  <1>7. \A s \in Tokens : ParOf(f, a, s) = IF s = t THEN par ELSE ParOf(d, a, s)
    BY <1>1, <1>3 DEF ParOf
  <1>8. \A s \in Tokens :
          f.accounts[a].borrowTokens[s] = Indicator(ParOf(f, a, s) < 0)
    BY <1>2, <1>4, <1>5, <1>6, <1>7
    DEF BorrowTokensAfter, Removed, Added, Lists, TokenList, Indicator, old
  <1>9. \A s \in Tokens :
          f.accounts[a].supplyTokens[s] = Indicator(ParOf(f, a, s) > 0)
    BY <1>2, <1>4, <1>5, <1>6, <1>7
    DEF SupplyTokensAfter, Removed, Added, Lists, TokenList, Indicator, old
  <1>10. FreshAccountsIn(f)
    BY <1>1, <1>4 DEF FreshAccountsIn, AccountInv, row
  <1>11. ListsTrackBalancesIn(f)
    <2> SUFFICES ASSUME NEW b \in Accounts
                 PROVE  /\ f.accounts[b].hasBorrowValue <=> ~ IsEmpty(f.accounts[b].borrowTokens)
                        /\ f.accounts[b].hasSupplyValue <=> ~ IsEmpty(f.accounts[b].supplyTokens)
                        /\ \A s \in Tokens :
                             /\ f.accounts[b].borrowTokens[s] = Indicator(ParOf(f, b, s) < 0)
                             /\ f.accounts[b].supplyTokens[s] = Indicator(ParOf(f, b, s) > 0)
      BY Zenon DEF ListsTrackBalancesIn
    <2>1. CASE b = a
      <3>1. /\ f.accounts[a].hasBorrowValue <=> ~ IsEmpty(f.accounts[a].borrowTokens)
            /\ f.accounts[a].hasSupplyValue <=> ~ IsEmpty(f.accounts[a].supplyTokens)
        BY <1>4, Zenon
      <3> QED BY <1>8, <1>9, <2>1, <3>1, Zenon
    <2>2. CASE b # a
      <3>1. \A s \in Tokens : ParOf(f, b, s) = ParOf(d, b, s)
        BY <1>1, <2>2 DEF ParOf
      <3>2. f.accounts[b] = d.accounts[b]
        BY <1>1, <2>2
      <3> QED BY <3>1, <3>2, Zenon DEF ListsTrackBalancesIn, AccountInv
    <2> QED BY <2>1, <2>2
  <1>12. ExpirationsListedIn(f)
    BY <1>1, <1>3, <1>4 DEF ExpirationsListedIn, AccountInv, row
  <1> QED BY <1>10, <1>11, <1>12 DEF AccountInv, f

LEMMA BalanceUpdateKeepsAccounts ==
  ASSUME NEW d \in Store, NEW a \in Accounts, NEW t \in Tokens, NEW par \in Int,
         AccountInv(d)
  PROVE  /\ BalanceUpdate(d, a, t, par) \in Store
         /\ AccountInv(BalanceUpdate(d, a, t, par))
  <1> DEFINE e == GetOrCreateMarginAccount(d, a)
             f == BookBalance(e, a, t, par)
             g == UpdateBorrowPosition(f, a, t, par)
  <1>1. e \in Store /\ e.accounts[a].stored /\ AccountInv(e)
    BY GetAccountFacts, GetAccountKeepsAccounts
  <1> HIDE DEF e
  <1>2. f \in Store /\ AccountInv(f)
    BY <1>1, BookFacts, BookKeepsAccounts
  <1> HIDE DEF f
  <1>3. g \in Store /\ g.accounts = f.accounts /\ g.values = f.values
    BY <1>2, UpdatePositionFacts
  <1> HIDE DEF g
  <1>4. AccountInv(g)
    BY <1>2, <1>3
    DEF AccountInv, FreshAccountsIn, ListsTrackBalancesIn, ExpirationsListedIn, ParOf
  <1> QED BY <1>3, <1>4 DEF BalanceUpdate, e, f, g

-----------------------------------------------------------------------------
(* Borrow positions                                                        *)

PositionInv(d) ==
  /\ PositionListsAmountsIn(d)
  /\ AmountsMirrorBalancesIn(d)
  /\ StatusTracksAmountsIn(d)
  /\ HeldTokensAreListedIn(d)

\* The invariants of one position p whose amounts are row[t], in one formula.
PositionTracks(p, row) ==
  /\ \A t \in Tokens : /\ p.amounts[t] = Indicator(row[t].amountPar # 0)
                       /\ p.allTokens[t] = Indicator(row[t].amountPar # 0)
                       /\ Lists(p.allTokens, t) => Lists(p.supplyTokens, t) \/ Lists(p.borrowTokens, t)
                       /\ Lists(p.supplyTokens, t) => Lists(p.effectiveSupplyTokens, t)
                       /\ Lists(p.borrowTokens, t) => Lists(p.effectiveBorrowTokens, t)
                       /\ p.effectiveSupplyTokens[t] \in {0, 1}
                       /\ p.effectiveBorrowTokens[t] \in {0, 1}
  /\ p.status = "CLOSED" <=> /\ \E t \in Tokens : row[t].stored
                             /\ \A t \in Tokens : row[t].amountPar = 0
  /\ p.closeStamped <=> p.status = "CLOSED"

LEMMA PositionInvByAccount ==
  ASSUME NEW d
  PROVE  PositionInv(d) <=> /\ AmountsMirrorBalancesIn(d)
                            /\ \A a \in Accounts : PositionTracks(d.positions[a], d.amounts[a])
  BY ZenonT(60) DEF PositionInv, PositionTracks, PositionListsAmountsIn, StatusTracksAmountsIn,
                   HeldTokensAreListedIn

\* updateBorrowAndSupplyTokens keeps what PositionTracks says of the lists.
LEMMA ListsAfterTracks ==
  ASSUME NEW p \in PositionRow, NEW row \in [Tokens -> AmountRow],
         NEW t \in Tokens, NEW par \in Int, PositionTracks(p, row),
         NEW s \in Tokens
  PROVE  LET q == ListsAfter(p, t, row[t].amountPar, par)
             amount == IF s = t THEN par ELSE row[s].amountPar IN
           /\ q.amounts[s] = Indicator(amount # 0)
           /\ q.allTokens[s] = Indicator(amount # 0)
           /\ Lists(q.allTokens, s) => Lists(q.supplyTokens, s) \/ Lists(q.borrowTokens, s)
           /\ Lists(q.supplyTokens, s) => Lists(q.effectiveSupplyTokens, s)
           /\ Lists(q.borrowTokens, s) => Lists(q.effectiveBorrowTokens, s)
           /\ q.effectiveSupplyTokens[s] \in {0, 1}
           /\ q.effectiveBorrowTokens[s] \in {0, 1}
  <1> DEFINE old == row[t].amountPar
             q == ListsAfter(p, t, old, par)
  <1>0. old \in Int
    BY DEF AmountRow
  <1>1. /\ p.amounts \in TokenList /\ p.allTokens \in TokenList
        /\ p.supplyTokens \in TokenList /\ p.borrowTokens \in TokenList
        /\ p.effectiveSupplyTokens \in TokenList /\ p.effectiveBorrowTokens \in TokenList
    BY DEF PositionRow
  <1>2. /\ p.amounts[s] = Indicator(row[s].amountPar # 0)
        /\ p.allTokens[s] = Indicator(row[s].amountPar # 0)
        /\ Lists(p.allTokens, s) => Lists(p.supplyTokens, s) \/ Lists(p.borrowTokens, s)
        /\ Lists(p.supplyTokens, s) => Lists(p.effectiveSupplyTokens, s)
        /\ Lists(p.borrowTokens, s) => Lists(p.effectiveBorrowTokens, s)
        /\ p.effectiveSupplyTokens[s] \in {0, 1}
        /\ p.effectiveBorrowTokens[s] \in {0, 1}
    BY DEF PositionTracks
  <1>3. CASE old # 0 /\ par = 0
    <2>1. /\ q.amounts = Removed(p.amounts, t) /\ q.allTokens = Removed(p.allTokens, t)
          /\ q.supplyTokens = IF old > 0 THEN Removed(p.supplyTokens, t) ELSE p.supplyTokens
          /\ q.borrowTokens = IF old > 0 THEN p.borrowTokens ELSE Removed(p.borrowTokens, t)
          /\ q.effectiveSupplyTokens = p.effectiveSupplyTokens
          /\ q.effectiveBorrowTokens = p.effectiveBorrowTokens
      BY <1>0, <1>3 DEF ListsAfter, PositionRow
    <2> HIDE DEF q
    <2> QED BY <1>0, <1>1, <1>2, <1>3, <2>1 DEF Removed, Lists, TokenList, Indicator, q
  <1>4. CASE old = 0 /\ par > 0
    <2>1. /\ q.amounts = Added(p.amounts, t) /\ q.allTokens = Added(p.allTokens, t)
          /\ q.supplyTokens = Added(p.supplyTokens, t) /\ q.borrowTokens = p.borrowTokens
          /\ q.effectiveSupplyTokens = AddedIfAbsent(p.effectiveSupplyTokens, t)
          /\ q.effectiveBorrowTokens = p.effectiveBorrowTokens
      BY <1>0, <1>4 DEF ListsAfter, PositionRow
    <2> HIDE DEF q
    <2> QED BY <1>0, <1>1, <1>2, <1>4, <2>1
            DEF Added, AddedIfAbsent, Lists, TokenList, Indicator, q
  <1>5. CASE old = 0 /\ par < 0
    <2>0. ~ (par > 0) /\ ~ (old # 0 /\ par = 0)
      BY <1>5
    <2>1. /\ q.amounts = Added(p.amounts, t) /\ q.allTokens = Added(p.allTokens, t)
          /\ q.borrowTokens = Added(p.borrowTokens, t) /\ q.supplyTokens = p.supplyTokens
          /\ q.effectiveBorrowTokens = AddedIfAbsent(p.effectiveBorrowTokens, t)
          /\ q.effectiveSupplyTokens = p.effectiveSupplyTokens
      BY <1>0, <1>5, <2>0 DEF ListsAfter, PositionRow
    <2> HIDE DEF q
    <2> QED BY <1>0, <1>1, <1>2, <1>5, <2>1
            DEF Added, AddedIfAbsent, Lists, TokenList, Indicator, q
  <1>6. CASE (old = 0 /\ par = 0) \/ (old # 0 /\ par # 0)
    <2>1. q = p
      BY <1>0, <1>6 DEF ListsAfter
    <2> HIDE DEF q
    <2> QED BY <1>2, <1>6, <2>1 DEF Indicator, q
  <1> QED BY <1>0, <1>3, <1>4, <1>5, <1>6

\* Booking the new amount of t keeps PositionTracks: the lists as above, and the
\* status by whether the position held an amount before and holds one after.
LEMMA StatusAfterTracks ==
  ASSUME NEW p \in PositionRow, NEW row \in [Tokens -> AmountRow],
         NEW new \in [Tokens -> AmountRow],
         NEW t \in Tokens, NEW par \in Int, PositionTracks(p, row),
         \A s \in Tokens : s # t => new[s] = row[s],
         new[t].stored, new[t].amountPar = par
  PROVE  PositionTracks(StatusAfter(p, ListsAfter(p, t, row[t].amountPar, par)), new)
  <1> DEFINE q == ListsAfter(p, t, row[t].amountPar, par)
             r == StatusAfter(p, q)
  <1>0. row[t].amountPar \in Int /\ \A s \in Tokens : row[s].amountPar \in Int
    BY DEF AmountRow
  <1>1. q \in PositionRow /\ q.status = p.status /\ q.closeStamped = p.closeStamped
    BY <1>0, ListsAfterType
  <1>2. \A s \in Tokens :
           /\ q.amounts[s] = Indicator(new[s].amountPar # 0)
           /\ q.allTokens[s] = Indicator(new[s].amountPar # 0)
           /\ Lists(q.allTokens, s) => Lists(q.supplyTokens, s) \/ Lists(q.borrowTokens, s)
           /\ Lists(q.supplyTokens, s) => Lists(q.effectiveSupplyTokens, s)
           /\ Lists(q.borrowTokens, s) => Lists(q.effectiveBorrowTokens, s)
           /\ q.effectiveSupplyTokens[s] \in {0, 1}
           /\ q.effectiveBorrowTokens[s] \in {0, 1}
    <2> TAKE s \in Tokens
    <2>1. new[s].amountPar = IF s = t THEN par ELSE row[s].amountPar
      OBVIOUS
    <2> QED BY <2>1, ListsAfterTracks
  <1>3. IsEmpty(p.amounts) <=> \A s \in Tokens : row[s].amountPar = 0
    BY DEF PositionTracks, IsEmpty, Lists, Indicator
  <1> HIDE DEF q
  <1>4. IsEmpty(q.amounts) <=> \A s \in Tokens : new[s].amountPar = 0
    BY <1>2 DEF IsEmpty, Lists, Indicator
  <1>5. /\ r.amounts = q.amounts /\ r.allTokens = q.allTokens
        /\ r.supplyTokens = q.supplyTokens /\ r.borrowTokens = q.borrowTokens
        /\ r.effectiveSupplyTokens = q.effectiveSupplyTokens
        /\ r.effectiveBorrowTokens = q.effectiveBorrowTokens
    BY <1>1 DEF StatusAfter, PositionRow
  <1>6. /\ p.status = "CLOSED" <=> /\ \E s \in Tokens : row[s].stored
                                   /\ \A s \in Tokens : row[s].amountPar = 0
        /\ p.closeStamped <=> p.status = "CLOSED"
    BY Zenon DEF PositionTracks
  <1>7. r.status = "CLOSED" <=> \A s \in Tokens : new[s].amountPar = 0
    <2>1. CASE IsEmpty(q.amounts)
      <3>1. r.status = "CLOSED"
        BY <1>1, <2>1 DEF StatusAfter, PositionRow
      <3> QED BY <1>4, <2>1, <3>1
    <2>2. CASE ~ IsEmpty(q.amounts) /\ IsEmpty(p.amounts)
      <3>1. r.status = "OPEN"
        BY <1>1, <2>2 DEF StatusAfter, PositionRow
      <3> QED BY <1>4, <2>2, <3>1
    <2>3. CASE ~ IsEmpty(q.amounts) /\ ~ IsEmpty(p.amounts)
      <3>1. r = q
        BY <1>1, <2>3 DEF StatusAfter, PositionRow
      <3>2. p.status # "CLOSED"
        BY <1>3, <1>6, <2>3
      <3> QED BY <1>1, <1>4, <2>3, <3>1, <3>2
    <2> QED BY <2>1, <2>2, <2>3
  <1>8. r.closeStamped <=> r.status = "CLOSED"
    BY <1>1, <1>6 DEF StatusAfter, PositionRow
  <1> HIDE DEF r
  <1>9. \E s \in Tokens : new[s].stored
    OBVIOUS
  <1>10. /\ r.status = "CLOSED" <=> /\ \E s \in Tokens : new[s].stored
                                    /\ \A s \in Tokens : new[s].amountPar = 0
         /\ r.closeStamped <=> r.status = "CLOSED"
    BY <1>7, <1>8, <1>9, Zenon
  <1>11. \A s \in Tokens :
           /\ r.amounts[s] = Indicator(new[s].amountPar # 0)
           /\ r.allTokens[s] = Indicator(new[s].amountPar # 0)
           /\ Lists(r.allTokens, s) => Lists(r.supplyTokens, s) \/ Lists(r.borrowTokens, s)
           /\ Lists(r.supplyTokens, s) => Lists(r.effectiveSupplyTokens, s)
           /\ Lists(r.borrowTokens, s) => Lists(r.effectiveBorrowTokens, s)
           /\ r.effectiveSupplyTokens[s] \in {0, 1}
           /\ r.effectiveBorrowTokens[s] \in {0, 1}
    BY <1>2, <1>5
  <1>12. PositionTracks(r, new)
    BY <1>10, <1>11, Zenon DEF PositionTracks
  <1> QED BY <1>12 DEF r, q

\* getOrCreateMarginAccount and the balance rows leave positions alone; the call
\* of updateBorrowPositionForBalanceUpdate makes them follow the new balance.
LEMMA BalanceUpdateKeepsPositions ==
  ASSUME NEW d \in Store, NEW a \in Accounts, NEW t \in Tokens, NEW par \in Int,
         PositionInv(d)
  PROVE  PositionInv(BalanceUpdate(d, a, t, par))
  <1> DEFINE e == GetOrCreateMarginAccount(d, a)
             f == BookBalance(e, a, t, par)
             g == UpdateBorrowPosition(f, a, t, par)
  <1>1. e \in Store /\ e.values = d.values /\ e.amounts = d.amounts /\ e.positions = d.positions
    BY GetAccountFacts
  <1> HIDE DEF e
  <1>2. /\ f \in Store /\ f.amounts = d.amounts /\ f.positions = d.positions
        /\ \A b \in Accounts, s \in Tokens :
             b # a \/ s # t => f.values[b][s] = d.values[b][s]
        /\ f.values[a][t] = SavedValue([d.values[a][t] EXCEPT !.valuePar = par])
    BY <1>1, BookFacts
  <1> HIDE DEF f
  <1>3. f.values[a][t].valuePar = par
    <2>1. d.values[a][t] \in ValueRow
      BY DEF Store
    <2> QED BY <1>2, <2>1, SavedValueKeeps
  <1>4. /\ AmountsMirrorBalancesIn(d)
        /\ \A b \in Accounts : PositionTracks(d.positions[b], d.amounts[b])
    BY PositionInvByAccount
  <1>5. /\ g \in Store /\ g.values = f.values
        /\ d.positions[a].status = "NONE" => g = f
        /\ \A b \in Accounts : b # a => g.positions[b] = d.positions[b]
        /\ \A b \in Accounts, s \in Tokens :
             b # a \/ s # t => g.amounts[b][s] = d.amounts[b][s]
        /\ d.positions[a].status # "NONE" =>
             /\ g.positions[a] = StatusAfter(d.positions[a],
                  ListsAfter(d.positions[a], t, d.amounts[a][t].amountPar, par))
             /\ g.amounts[a][t].stored /\ g.amounts[a][t].amountPar = par
    BY <1>2, UpdatePositionFacts, SMTT(40)
  <1> HIDE DEF g
  <1>t. /\ d.positions \in [Accounts -> PositionRow]
        /\ d.amounts \in [Accounts -> [Tokens -> AmountRow]]
        /\ g.positions \in [Accounts -> PositionRow]
        /\ g.amounts \in [Accounts -> [Tokens -> AmountRow]]
    BY <1>5 DEF Store
  <1>6. ASSUME NEW b \in Accounts PROVE PositionTracks(g.positions[b], g.amounts[b])
    <2>1. CASE b # a
      <3>1. g.amounts[b] = d.amounts[b]
        BY <1>5, <1>t, <2>1
      <3> QED BY <1>4, <1>5, <2>1, <3>1
    <2>2. CASE b = a /\ d.positions[a].status = "NONE"
      BY <1>2, <1>4, <1>5, <2>2
    <2>3. CASE b = a /\ d.positions[a].status # "NONE"
      <3>1. /\ d.positions[a] \in PositionRow
            /\ d.amounts[a] \in [Tokens -> AmountRow]
            /\ g.amounts[a] \in [Tokens -> AmountRow]
            /\ \A s \in Tokens : s # t => g.amounts[a][s] = d.amounts[a][s]
        BY <1>5, <1>t
      <3> QED BY <1>4, <1>5, <2>3, <3>1, StatusAfterTracks
    <2> QED BY <2>1, <2>2, <2>3
  <1>7. AmountsMirrorBalancesIn(g)
    <2> SUFFICES ASSUME NEW b \in Accounts, NEW s \in Tokens
                 PROVE  /\ g.amounts[b][s].stored =>
                             /\ g.positions[b].status # "NONE"
                             /\ g.amounts[b][s].amountPar = g.values[b][s].valuePar
                        /\ ~ g.amounts[b][s].stored => g.amounts[b][s].amountPar = 0
      BY DEF AmountsMirrorBalancesIn, ParOf
    <2>0. /\ d.amounts[b][s].stored =>
                             /\ d.positions[b].status # "NONE"
                             /\ d.amounts[b][s].amountPar = d.values[b][s].valuePar
          /\ ~ d.amounts[b][s].stored => d.amounts[b][s].amountPar = 0
      BY <1>4 DEF AmountsMirrorBalancesIn, ParOf
    <2>1. CASE d.positions[a].status = "NONE"
      BY <1>2, <1>5, <2>0, <2>1
    <2>2. CASE d.positions[a].status # "NONE"
      <3>1. g.positions[a].status # "NONE"
        <4>1. d.positions[a] \in PositionRow /\ d.amounts[a][t].amountPar \in Int
          BY <1>t DEF AmountRow
        <4>2. /\ ListsAfter(d.positions[a], t, d.amounts[a][t].amountPar, par) \in PositionRow
              /\ ListsAfter(d.positions[a], t, d.amounts[a][t].amountPar, par).status # "NONE"
          BY <2>2, <4>1, ListsAfterType
        <4> QED BY <1>5, <2>2, <4>2 DEF StatusAfter, PositionRow
      <3> QED BY <1>2, <1>3, <1>5, <2>0, <2>2, <3>1, SMTT(40)
    <2> QED BY <2>1, <2>2
  <1>8. PositionInv(g)
    BY <1>6, <1>7, PositionInvByAccount
  <1> QED BY <1>8 DEF BalanceUpdate, e, f, g

-----------------------------------------------------------------------------
(* Users and the rows that refer to them                                   *)

\* EffectiveUsersResolve is not inductive: binding a vault would break it if
\* something already led to that vault, or if the new effective user were bound
\* to a third one.  Only vaults are ever bound, and only to owners that are not.
OnlyVaultsBoundIn(d) ==
  \A u \in Owners :
    LET e == d.users[u].effectiveUser IN e # u => u \in Vaults /\ e \notin Vaults

RowInv(d) == NoDeadRowsIn(d) /\ EffectiveUsersResolveIn(d) /\ OnlyVaultsBoundIn(d)

\* A user that is created leads to itself, so what led to a stored user still does.
LEMMA CreateUserKeepsRows ==
  ASSUME NEW d \in Store, NEW u \in Owners, RowInv(d)
  PROVE  /\ RowInv(CreateUserIfNecessary(d, u))
         /\ CreateUserIfNecessary(d, u).users[u].stored
         /\ \A v \in Owners : d.users[v].stored => CreateUserIfNecessary(d, u).users[v].stored
  <1> DEFINE e == CreateUserIfNecessary(d, u)
  <1>1. /\ e \in Store
        /\ e.users[u].stored
        /\ \A v \in Owners : v # u => e.users[v] = d.users[v]
        /\ d.users[u].stored => e.users[u] = d.users[u]
        /\ ~ d.users[u].stored => e.users[u] = NewUser(u)
        /\ e.values = d.values /\ e.accounts = d.accounts /\ e.userPars = d.userPars
    BY CreateUserFacts
  <1> HIDE DEF e
  <1>2. /\ \A v \in Owners : e.users[v].effectiveUser \in Owners
        /\ \A v \in Owners : d.users[v].effectiveUser \in Owners
        /\ \A b \in Accounts : d.accounts[b].effectiveUser \in Owners /\ OwnerOf[b] \in Owners
    BY <1>1, OwnerOfAssumption DEF Store, UserRow, AccountRow
  <1>3. \A v \in Owners : d.users[v].stored => e.users[v] = d.users[v]
    BY <1>1
  <1>4. \A v \in Owners : e.users[v] # d.users[v] =>
          v = u /\ e.users[v].stored /\ e.users[v].effectiveUser = v
    BY <1>1 DEF NewUser
  <1>5. \A v \in Owners : d.users[v].stored => e.users[v].stored
    BY <1>3
  <1>6. NoDeadRowsIn(e)
    BY <1>1, <1>5 DEF RowInv, NoDeadRowsIn
  <1>7. EffectiveUsersResolveIn(e)
    <2>1. \A v \in Owners : e.users[v].stored =>
            LET w == e.users[v].effectiveUser IN
              e.users[w].stored /\ e.users[w].effectiveUser = w
      BY <1>2, <1>3, <1>4 DEF RowInv, EffectiveUsersResolveIn
    <2>2. \A b \in Accounts : e.accounts[b].stored =>
            /\ e.users[OwnerOf[b]].stored
            /\ e.users[e.accounts[b].effectiveUser].stored
      BY <1>1, <1>2, <1>5 DEF RowInv, EffectiveUsersResolveIn
    <2> QED BY <2>1, <2>2 DEF EffectiveUsersResolveIn
  <1>8. OnlyVaultsBoundIn(e)
    BY <1>4 DEF RowInv, OnlyVaultsBoundIn
  <1> QED BY <1>1, <1>5, <1>6, <1>7, <1>8 DEF RowInv, e

LEMMA GetAccountKeepsRows ==
  ASSUME NEW d \in Store, NEW a \in Accounts, RowInv(d)
  PROVE  RowInv(GetOrCreateMarginAccount(d, a))
  <1> DEFINE created == CreateUserIfNecessary(d, OwnerOf[a])
             e == GetOrCreateMarginAccount(d, a)
  <1>0. OwnerOf[a] \in Owners
    BY OwnerOfAssumption
  <1>1. CASE d.accounts[a].stored
    <2>1. e = d
      BY <1>1, GetAccountFacts
    <2> QED BY <2>1
  <1>2. CASE ~ d.accounts[a].stored
    <2>1. created \in Store /\ created.accounts = d.accounts /\ created.values = d.values
          /\ created.userPars = d.userPars
      BY <1>0, CreateUserFacts
    <2>2. RowInv(created) /\ created.users[OwnerOf[a]].stored
      BY <1>0, CreateUserKeepsRows
    <2>3. /\ e.users = created.users /\ e.values = created.values
          /\ e.userPars = created.userPars
          /\ e.accounts[a] = NewAccount(EffectiveUserOf(created, OwnerOf[a]))
          /\ \A b \in Accounts : b # a => e.accounts[b] = created.accounts[b]
      BY <1>2, <2>1, GetAccountFacts
    <2> HIDE DEF created, e
    <2>4. /\ e.accounts[a].stored
          /\ e.accounts[a].effectiveUser = created.users[OwnerOf[a]].effectiveUser
      BY <2>3 DEF NewAccount, EffectiveUserOf
    <2>5. \A b \in Accounts : created.accounts[b].stored => e.accounts[b].stored
      BY <2>3, <2>4
    <2>6. NoDeadRowsIn(e)
      BY <2>2, <2>3, <2>5 DEF RowInv, NoDeadRowsIn
    <2>7. EffectiveUsersResolveIn(e)
      BY <1>0, <2>2, <2>3, <2>4 DEF RowInv, EffectiveUsersResolveIn
    <2>8. OnlyVaultsBoundIn(e)
      BY <2>2, <2>3 DEF RowInv, OnlyVaultsBoundIn
    <2> QED BY <2>6, <2>7, <2>8 DEF RowInv, e
  <1> QED BY <1>1, <1>2

\* deleteTokenValueIfNecessary and deleteUserParValueIfNecessary leave a row
\* exactly when it says something.
LEMMA SavedRows ==
  ASSUME NEW value \in ValueRow, NEW userPar \in UserParRow
  PROVE  /\ SavedValue(value).stored <=>
              SavedValue(value).valuePar # 0 \/ SavedValue(value).expiration # NoTime
         /\ SavedUserPar(userPar).stored <=>
              SavedUserPar(userPar).totalSupplyPar # 0 \/ SavedUserPar(userPar).totalBorrowPar # 0
  <1>1. SavedValue(value).stored <=>
          SavedValue(value).valuePar # 0 \/ SavedValue(value).expiration # NoTime
    <2>1. CASE value.valuePar = 0 /\ value.expiration = NoTime
      BY <2>1 DEF SavedValue, NoValue
    <2>2. CASE ~ (value.valuePar = 0 /\ value.expiration = NoTime)
      BY <2>2 DEF SavedValue, ValueRow
    <2> QED BY <2>1, <2>2
  <1>2. SavedUserPar(userPar).stored <=>
          SavedUserPar(userPar).totalSupplyPar # 0 \/ SavedUserPar(userPar).totalBorrowPar # 0
    <2>1. CASE userPar.totalSupplyPar = 0 /\ userPar.totalBorrowPar = 0
      BY <2>1 DEF SavedUserPar, NoUserPar
    <2>2. CASE ~ (userPar.totalSupplyPar = 0 /\ userPar.totalBorrowPar = 0)
      BY <2>2 DEF SavedUserPar, UserParRow
    <2> QED BY <2>1, <2>2
  <1> QED BY <1>1, <1>2

LEMMA BookKeepsRows ==
  ASSUME NEW d \in Store, NEW a \in Accounts, NEW t \in Tokens, NEW par \in Int,
         RowInv(d), d.accounts[a].stored
  PROVE  RowInv(BookBalance(d, a, t, par))
  <1> DEFINE f == BookBalance(d, a, t, par)
             old == ParOf(d, a, t)
             w == d.accounts[a].effectiveUser
  <1>1. /\ f.users = d.users
        /\ \A b \in Accounts : b # a => f.accounts[b] = d.accounts[b]
        /\ f.accounts[a] = AccountAfter(d.accounts[a], t, old, par)
        /\ \A b \in Accounts, s \in Tokens :
             b # a \/ s # t => f.values[b][s] = d.values[b][s]
        /\ f.values[a][t] = SavedValue([d.values[a][t] EXCEPT !.valuePar = par])
        /\ \A v \in Owners, s \in Tokens :
             v # w \/ s # t => f.userPars[v][s] = d.userPars[v][s]
        /\ f.userPars[w][t] = SavedUserPar(UserParAfter(d.userPars[w][t], old, par))
    BY BookFacts
  <1>2. /\ w \in Owners /\ d.accounts[a] \in AccountRow /\ old \in Int
        /\ d.values[a][t] \in ValueRow /\ d.userPars[w][t] \in UserParRow
    BY DEF Store, AccountRow, ValueRow, ParOf
  <1>3. /\ [d.values[a][t] EXCEPT !.valuePar = par] \in ValueRow
        /\ UserParAfter(d.userPars[w][t], old, par) \in UserParRow
    BY <1>2, UserParType DEF ValueRow
  <1>4. f.accounts[a].stored = d.accounts[a].stored /\ f.accounts[a].effectiveUser = w
    BY <1>1, <1>2 DEF AccountAfter, AccountRow
  <1> HIDE DEF f, old, w
  <1>5. d.users[w].stored
    BY DEF RowInv, EffectiveUsersResolveIn, w
  <1>6. /\ f.values[a][t].stored <=>
             f.values[a][t].valuePar # 0 \/ f.values[a][t].expiration # NoTime
        /\ f.userPars[w][t].stored <=>
             f.userPars[w][t].totalSupplyPar # 0 \/ f.userPars[w][t].totalBorrowPar # 0
    BY <1>1, <1>3, SavedRows
  <1>7. \A b \in Accounts : /\ f.accounts[b].stored = d.accounts[b].stored
                            /\ f.accounts[b].effectiveUser = d.accounts[b].effectiveUser
    BY <1>1, <1>4 DEF w
  <1>8. NoDeadRowsIn(f)
    <2>1. \A b \in Accounts, s \in Tokens :
            /\ f.values[b][s].stored <=>
                 f.values[b][s].valuePar # 0 \/ f.values[b][s].expiration # NoTime
            /\ f.values[b][s].stored => f.accounts[b].stored
      BY <1>1, <1>6, <1>7 DEF RowInv, NoDeadRowsIn
    <2>2. \A v \in Owners, s \in Tokens :
            /\ f.userPars[v][s].stored <=>
                 f.userPars[v][s].totalSupplyPar # 0 \/ f.userPars[v][s].totalBorrowPar # 0
            /\ f.userPars[v][s].stored => f.users[v].stored
      BY <1>1, <1>5, <1>6 DEF RowInv, NoDeadRowsIn
    <2> QED BY <2>1, <2>2 DEF NoDeadRowsIn
  <1>9. EffectiveUsersResolveIn(f)
    BY <1>1, <1>7 DEF RowInv, EffectiveUsersResolveIn
  <1>10. OnlyVaultsBoundIn(f)
    BY <1>1 DEF RowInv, OnlyVaultsBoundIn
  <1> QED BY <1>8, <1>9, <1>10 DEF RowInv, f

LEMMA BalanceUpdateKeepsRows ==
  ASSUME NEW d \in Store, NEW a \in Accounts, NEW t \in Tokens, NEW par \in Int, RowInv(d)
  PROVE  RowInv(BalanceUpdate(d, a, t, par))
  <1> DEFINE e == GetOrCreateMarginAccount(d, a)
             f == BookBalance(e, a, t, par)
             g == UpdateBorrowPosition(f, a, t, par)
  <1>1. e \in Store /\ e.accounts[a].stored /\ RowInv(e)
    BY GetAccountFacts, GetAccountKeepsRows
  <1> HIDE DEF e
  <1>2. f \in Store /\ RowInv(f)
    BY <1>1, BookFacts, BookKeepsRows
  <1> HIDE DEF f
  <1>3. /\ g.users = f.users /\ g.accounts = f.accounts /\ g.values = f.values
        /\ g.userPars = f.userPars
    BY <1>2, UpdatePositionFacts
  <1> HIDE DEF g
  <1>4. RowInv(g)
    BY <1>2, <1>3 DEF RowInv, NoDeadRowsIn, EffectiveUsersResolveIn, OnlyVaultsBoundIn
  <1> QED BY <1>4 DEF BalanceUpdate, e, f, g

-----------------------------------------------------------------------------
(* Totals                                                                  *)

SumInv(d) == TotalParIsSumIn(d) /\ UserParIsSumIn(d)

\* The delta of handleDolomiteMarginBalanceUpdateForAccount, split at zero or
\* not, takes the old par from its side and adds the new par to its own.
LEMMA UserParMoves ==
  ASSUME NEW row \in UserParRow, NEW old \in Int, NEW par \in Int
  PROVE  LET saved == SavedUserPar(UserParAfter(row, old, par)) IN
           /\ saved.totalSupplyPar = row.totalSupplyPar - SupplyPart(old) + SupplyPart(par)
           /\ saved.totalBorrowPar = row.totalBorrowPar - BorrowPart(old) + BorrowPart(par)
  <1> DEFINE after == UserParAfter(row, old, par)
  <1>1. row.totalSupplyPar \in Int /\ row.totalBorrowPar \in Int
    BY DEF UserParRow
  <1>2. /\ after.totalSupplyPar = row.totalSupplyPar - SupplyPart(old) + SupplyPart(par)
        /\ after.totalBorrowPar = row.totalBorrowPar - BorrowPart(old) + BorrowPart(par)
    <2>1. \A s, b : /\ Moved(row, s, b).totalSupplyPar = row.totalSupplyPar + s
                   /\ Moved(row, s, b).totalBorrowPar = row.totalBorrowPar + b
      BY DEF Moved, UserParRow
    <2>2. after = Moved(row, SupplyPart(par) - SupplyPart(old), BorrowPart(par) - BorrowPart(old))
      BY DEF UserParAfter, Abs, SupplyPart, BorrowPart
    <2>3. /\ SupplyPart(par) \in Int /\ SupplyPart(old) \in Int
          /\ BorrowPart(par) \in Int /\ BorrowPart(old) \in Int
      BY DEF SupplyPart, BorrowPart
    <2> HIDE DEF after
    <2> QED BY <1>1, <2>1, <2>2, <2>3
  <1>3. after \in UserParRow
    BY UserParType
  <1> HIDE DEF after
  <1>4. /\ SavedUserPar(after).totalSupplyPar = after.totalSupplyPar
        /\ SavedUserPar(after).totalBorrowPar = after.totalBorrowPar
    BY <1>3 DEF SavedUserPar, NoUserPar, UserParRow
  <1> QED BY <1>2, <1>4 DEF after

\* Booking a balance neither binds an account nor unbinds it.
LEMMA AccountAfterKeeps ==
  ASSUME NEW row \in AccountRow, NEW t \in Tokens, NEW old \in Int, NEW par \in Int
  PROVE  LET after == AccountAfter(row, t, old, par) IN
           after.stored = row.stored /\ after.effectiveUser = row.effectiveUser
  BY DEF AccountAfter, AccountRow

\* The parts of a par are integers, so the sums of finitely many are.
LEMMA PartTypes ==
  ASSUME NEW d \in Store, NEW t \in Tokens
  PROVE  /\ \A a \in Accounts : ParOf(d, a, t) \in Int
         /\ \A a \in Accounts : Supplies(d, t)[a] = SupplyPart(ParOf(d, a, t))
         /\ \A a \in Accounts : Borrows(d, t)[a] = BorrowPart(ParOf(d, a, t))
         /\ \A a \in Accounts : Supplies(d, t)[a] \in Int /\ Borrows(d, t)[a] \in Int
         /\ SumFunction(Supplies(d, t)) = SumFunctionOnSet(Supplies(d, t), Accounts)
         /\ SumFunction(Borrows(d, t)) = SumFunctionOnSet(Borrows(d, t), Accounts)
  <1>1. \A a \in Accounts : ParOf(d, a, t) \in Int
    BY DEF Store, ValueRow, ParOf
  <1>2. DOMAIN Supplies(d, t) = Accounts /\ DOMAIN Borrows(d, t) = Accounts
    BY DEF Supplies, Borrows
  <1> QED BY <1>1, <1>2 DEF Supplies, Borrows, SupplyPart, BorrowPart, SumFunction

\* A step that moves no par and binds no account moves no sum.
LEMMA SumsKept ==
  ASSUME NEW d, NEW e, SumInv(d),
         e.totalPar = d.totalPar, e.userPars = d.userPars,
         \A a \in Accounts, t \in Tokens : ParOf(e, a, t) = ParOf(d, a, t),
         \A a \in Accounts : /\ e.accounts[a].stored = d.accounts[a].stored
                             /\ e.accounts[a].effectiveUser = d.accounts[a].effectiveUser
  PROVE  SumInv(e)
  <1>1. \A t \in Tokens : Supplies(e, t) = Supplies(d, t) /\ Borrows(e, t) = Borrows(d, t)
    BY DEF Supplies, Borrows
  <1>2. \A u \in Owners : BoundTo(e, u) = BoundTo(d, u)
    BY DEF BoundTo
  <1> QED BY <1>1, <1>2 DEF SumInv, TotalParIsSumIn, UserParIsSumIn

\* An account has no par before it exists, so creating it adds zero.
LEMMA GetAccountKeepsSums ==
  ASSUME NEW d \in Store, NEW a \in Accounts, RowInv(d), SumInv(d)
  PROVE  SumInv(GetOrCreateMarginAccount(d, a))
  <1> DEFINE e == GetOrCreateMarginAccount(d, a)
  <1>1. CASE d.accounts[a].stored
    <2>1. e = d
      BY <1>1, GetAccountFacts
    <2> QED BY <2>1
  <1>2. CASE ~ d.accounts[a].stored
    <2>1. /\ e \in Store /\ e.accounts[a].stored
          /\ \A b \in Accounts : b # a => e.accounts[b] = d.accounts[b]
          /\ e.values = d.values /\ e.userPars = d.userPars /\ e.totalPar = d.totalPar
      BY GetAccountFacts
    <2> HIDE DEF e
    <2>2. \A t \in Tokens : Supplies(e, t) = Supplies(d, t) /\ Borrows(e, t) = Borrows(d, t)
      BY <2>1 DEF Supplies, Borrows, ParOf
    <2>3. \A t \in Tokens : ParOf(d, a, t) = 0
      BY <1>2 DEF RowInv, NoDeadRowsIn, ParOf
    <2>4. ASSUME NEW u \in Owners, NEW t \in Tokens
          PROVE  /\ SumFunctionOnSet(Supplies(d, t), BoundTo(e, u))
                      = SumFunctionOnSet(Supplies(d, t), BoundTo(d, u))
                 /\ SumFunctionOnSet(Borrows(d, t), BoundTo(e, u))
                      = SumFunctionOnSet(Borrows(d, t), BoundTo(d, u))
      <3>1. CASE e.accounts[a].effectiveUser # u
        <4>1. BoundTo(e, u) = BoundTo(d, u)
          BY <1>2, <2>1, <3>1 DEF BoundTo
        <4> QED BY <4>1
      <3>2. CASE e.accounts[a].effectiveUser = u
        <4>1. BoundTo(e, u) = BoundTo(d, u) \union {a} /\ a \notin BoundTo(d, u)
          BY <1>2, <2>1, <3>2 DEF BoundTo
        <4>2. IsFiniteSet(BoundTo(d, u)) /\ BoundTo(d, u) \subseteq Accounts
          BY FinitenessAssumption, FS_Subset DEF BoundTo
        <4>3. Supplies(d, t)[a] = 0 /\ Borrows(d, t)[a] = 0
          BY <2>3, PartTypes DEF SupplyPart, BorrowPart
        <4>4. \A b \in BoundTo(d, u) : Supplies(d, t)[b] \in Int /\ Borrows(d, t)[b] \in Int
          BY <4>2, PartTypes
        <4>5. /\ SumFunctionOnSet(Supplies(d, t), BoundTo(d, u)) \in Int
              /\ SumFunctionOnSet(Borrows(d, t), BoundTo(d, u)) \in Int
          BY <4>2, <4>4, SumType
        <4>6. /\ SumFunctionOnSet(Supplies(d, t), BoundTo(d, u) \union {a})
                   = SumFunctionOnSet(Supplies(d, t), BoundTo(d, u)) + 0
              /\ SumFunctionOnSet(Borrows(d, t), BoundTo(d, u) \union {a})
                   = SumFunctionOnSet(Borrows(d, t), BoundTo(d, u)) + 0
          BY <4>1, <4>2, <4>3, <4>4, SumWithNew
        <4> QED BY <4>1, <4>5, <4>6
      <3> QED BY <3>1, <3>2
    <2>5. TotalParIsSumIn(e)
      BY <2>1, <2>2 DEF SumInv, TotalParIsSumIn
    <2>6. UserParIsSumIn(e)
      BY <2>1, <2>2, <2>4 DEF SumInv, UserParIsSumIn
    <2> QED BY <2>5, <2>6 DEF SumInv, e
  <1> QED BY <1>1, <1>2

\* Booking a balance moves one par, and by the same amount the total of its token
\* and the total of the user its account is bound to.
LEMMA BookKeepsSums ==
  ASSUME NEW d \in Store, NEW a \in Accounts, NEW t \in Tokens, NEW par \in Int,
         SumInv(d), d.accounts[a].stored
  PROVE  SumInv(BookBalance(d, a, t, par))
  <1> DEFINE f == BookBalance(d, a, t, par)
             old == ParOf(d, a, t)
             w == d.accounts[a].effectiveUser
  <1>1. /\ f \in Store
        /\ \A s \in Tokens : s # t => f.totalPar[s] = d.totalPar[s]
        /\ f.totalPar[t] = TotalParAfter(d.totalPar[t], old, par)
        /\ \A b \in Accounts : b # a => f.accounts[b] = d.accounts[b]
        /\ f.accounts[a] = AccountAfter(d.accounts[a], t, old, par)
        /\ \A b \in Accounts, s \in Tokens :
             b # a \/ s # t => f.values[b][s] = d.values[b][s]
        /\ f.values[a][t] = SavedValue([d.values[a][t] EXCEPT !.valuePar = par])
        /\ \A v \in Owners, s \in Tokens :
             v # w \/ s # t => f.userPars[v][s] = d.userPars[v][s]
        /\ f.userPars[w][t] = SavedUserPar(UserParAfter(d.userPars[w][t], old, par))
    BY BookFacts
  <1>2. /\ w \in Owners /\ d.accounts[a] \in AccountRow /\ old \in Int
        /\ d.values[a][t] \in ValueRow /\ d.userPars[w][t] \in UserParRow
        /\ d.totalPar[t] \in TotalParRow
    BY DEF Store, AccountRow, ValueRow, ParOf
  <1> HIDE DEF f, old, w
  <1>3. f.accounts[a].stored = d.accounts[a].stored /\ f.accounts[a].effectiveUser = w
    <2> DEFINE row == d.accounts[a]
               after == AccountAfter(row, t, old, par)
    <2>1. f.accounts[a] = after
      BY <1>1
    <2>2. after.stored = row.stored /\ after.effectiveUser = row.effectiveUser
      <3> HIDE DEF row
      <3> QED BY <1>2, AccountAfterKeeps DEF row
    <2> HIDE DEF after
    <2> QED BY <2>1, <2>2 DEF w
  <1>4. ParOf(f, a, t) = par
    BY <1>1, <1>2, SavedValueKeeps DEF ParOf
  <1>5. \A b \in Accounts, s \in Tokens : b # a \/ s # t => ParOf(f, b, s) = ParOf(d, b, s)
    BY <1>1 DEF ParOf
  <1>6. \A u \in Owners : BoundTo(f, u) = BoundTo(d, u)
    <2>1. \A b \in Accounts : /\ f.accounts[b].stored = d.accounts[b].stored
                              /\ f.accounts[b].effectiveUser = d.accounts[b].effectiveUser
      BY <1>1, <1>3 DEF w
    <2> QED BY <2>1 DEF BoundTo
  <1>7. \A s \in Tokens : s # t =>
          Supplies(f, s) = Supplies(d, s) /\ Borrows(f, s) = Borrows(d, s)
    BY <1>5 DEF Supplies, Borrows
  <1>8. /\ Supplies(d, t)[a] = SupplyPart(old) /\ Supplies(f, t)[a] = SupplyPart(par)
        /\ Borrows(d, t)[a] = BorrowPart(old) /\ Borrows(f, t)[a] = BorrowPart(par)
        /\ SupplyPart(old) \in Int /\ SupplyPart(par) \in Int
        /\ BorrowPart(old) \in Int /\ BorrowPart(par) \in Int
    BY <1>1, <1>2, <1>4, PartTypes DEF old, SupplyPart, BorrowPart
  <1>9. \A b \in Accounts : /\ Supplies(d, t)[b] \in Int /\ Borrows(d, t)[b] \in Int
                            /\ b # a => /\ Supplies(f, t)[b] = Supplies(d, t)[b]
                                        /\ Borrows(f, t)[b] = Borrows(d, t)[b]
    BY <1>1, <1>5, PartTypes
  <1>10. ASSUME NEW S \in SUBSET Accounts, a \in S
         PROVE  /\ SumFunctionOnSet(Supplies(f, t), S)
                     = SumFunctionOnSet(Supplies(d, t), S) - SupplyPart(old) + SupplyPart(par)
                /\ SumFunctionOnSet(Borrows(f, t), S)
                     = SumFunctionOnSet(Borrows(d, t), S) - BorrowPart(old) + BorrowPart(par)
    <2>1. IsFiniteSet(S)
      BY FinitenessAssumption, FS_Subset
    <2>2. SumFunctionOnSet(Supplies(f, t), S)
            = SumFunctionOnSet(Supplies(d, t), S) - Supplies(d, t)[a] + Supplies(f, t)[a]
      BY <1>8, <1>9, <1>10, <2>1, SumChangedAtOne
    <2>3. SumFunctionOnSet(Borrows(f, t), S)
            = SumFunctionOnSet(Borrows(d, t), S) - Borrows(d, t)[a] + Borrows(f, t)[a]
      BY <1>8, <1>9, <1>10, <2>1, SumChangedAtOne
    <2> QED BY <1>8, <2>2, <2>3
  <1>11. TotalParIsSumIn(f)
    <2>1. f.totalPar[t] = [supplyPar |-> SumFunction(Supplies(f, t)),
                           borrowPar |-> SumFunction(Borrows(f, t))]
      <3>1. /\ d.totalPar[t].supplyPar = SumFunctionOnSet(Supplies(d, t), Accounts)
            /\ d.totalPar[t].borrowPar = SumFunctionOnSet(Borrows(d, t), Accounts)
        <4>1. d.totalPar[t] = [supplyPar |-> SumFunction(Supplies(d, t)),
                               borrowPar |-> SumFunction(Borrows(d, t))]
          BY DEF SumInv, TotalParIsSumIn
        <4>2. /\ SumFunction(Supplies(d, t)) = SumFunctionOnSet(Supplies(d, t), Accounts)
              /\ SumFunction(Borrows(d, t)) = SumFunctionOnSet(Borrows(d, t), Accounts)
          BY PartTypes
        <4> QED BY <4>1, <4>2
      <3>2. /\ SumFunctionOnSet(Supplies(f, t), Accounts)
                 = SumFunctionOnSet(Supplies(d, t), Accounts) - SupplyPart(old) + SupplyPart(par)
            /\ SumFunctionOnSet(Borrows(f, t), Accounts)
                 = SumFunctionOnSet(Borrows(d, t), Accounts) - BorrowPart(old) + BorrowPart(par)
        BY <1>10
      <3>3. /\ SumFunction(Supplies(f, t)) = SumFunctionOnSet(Supplies(f, t), Accounts)
            /\ SumFunction(Borrows(f, t)) = SumFunctionOnSet(Borrows(f, t), Accounts)
        BY <1>1, PartTypes
      <3> QED BY <1>1, <3>1, <3>2, <3>3 DEF TotalParAfter
    <2> QED BY <1>1, <1>7, <2>1 DEF SumInv, TotalParIsSumIn
  <1>12. UserParIsSumIn(f)
    <2> SUFFICES ASSUME NEW u \in Owners, NEW s \in Tokens
                 PROVE  /\ f.userPars[u][s].totalSupplyPar
                             = SumFunctionOnSet(Supplies(f, s), BoundTo(d, u))
                        /\ f.userPars[u][s].totalBorrowPar
                             = SumFunctionOnSet(Borrows(f, s), BoundTo(d, u))
      BY <1>6 DEF UserParIsSumIn
    <2>1. /\ d.userPars[u][s].totalSupplyPar = SumFunctionOnSet(Supplies(d, s), BoundTo(d, u))
          /\ d.userPars[u][s].totalBorrowPar = SumFunctionOnSet(Borrows(d, s), BoundTo(d, u))
      BY DEF SumInv, UserParIsSumIn
    <2>2. CASE s # t
      BY <1>1, <1>7, <2>1, <2>2
    <2>3. CASE s = t /\ u # w
      <3>1. a \notin BoundTo(d, u) /\ BoundTo(d, u) \subseteq Accounts
        BY <2>3 DEF BoundTo, w
      <3>2. IsFiniteSet(BoundTo(d, u))
        BY <3>1, FinitenessAssumption, FS_Subset
      <3>3. /\ \A b \in BoundTo(d, u) : /\ Supplies(d, t)[b] \in Int
                                         /\ Supplies(f, t)[b] = Supplies(d, t)[b]
            /\ \A b \in BoundTo(d, u) : /\ Borrows(d, t)[b] \in Int
                                         /\ Borrows(f, t)[b] = Borrows(d, t)[b]
        BY <1>9, <3>1
      <3>4. /\ SumFunctionOnSet(Supplies(f, t), BoundTo(d, u))
                 = SumFunctionOnSet(Supplies(d, t), BoundTo(d, u))
            /\ SumFunctionOnSet(Borrows(f, t), BoundTo(d, u))
                 = SumFunctionOnSet(Borrows(d, t), BoundTo(d, u))
        BY <3>2, <3>3, SumAgrees
      <3> QED BY <1>1, <2>1, <2>3, <3>4
    <2>4. CASE s = t /\ u = w
      <3>1. a \in BoundTo(d, w) /\ BoundTo(d, w) \in SUBSET Accounts
        BY DEF BoundTo, w
      <3>2. /\ f.userPars[w][t].totalSupplyPar
                 = d.userPars[w][t].totalSupplyPar - SupplyPart(old) + SupplyPart(par)
            /\ f.userPars[w][t].totalBorrowPar
                 = d.userPars[w][t].totalBorrowPar - BorrowPart(old) + BorrowPart(par)
        BY <1>1, <1>2, UserParMoves
      <3> QED BY <1>10, <2>1, <2>4, <3>1, <3>2
    <2> QED BY <2>2, <2>3, <2>4
  <1> QED BY <1>11, <1>12 DEF SumInv, f

LEMMA BalanceUpdateKeepsSums ==
  ASSUME NEW d \in Store, NEW a \in Accounts, NEW t \in Tokens, NEW par \in Int,
         RowInv(d), SumInv(d)
  PROVE  SumInv(BalanceUpdate(d, a, t, par))
  <1> DEFINE e == GetOrCreateMarginAccount(d, a)
             f == BookBalance(e, a, t, par)
             g == UpdateBorrowPosition(f, a, t, par)
  <1>1. e \in Store /\ e.accounts[a].stored /\ SumInv(e)
    BY GetAccountFacts, GetAccountKeepsSums
  <1> HIDE DEF e
  <1>2. f \in Store /\ SumInv(f)
    BY <1>1, BookFacts, BookKeepsSums
  <1> HIDE DEF f
  <1>3. /\ g.accounts = f.accounts /\ g.values = f.values
        /\ g.userPars = f.userPars /\ g.totalPar = f.totalPar
    BY <1>2, UpdatePositionFacts
  <1> HIDE DEF g
  <1>4. SumInv(g)
    BY <1>2, <1>3, SumsKept DEF ParOf
  <1> QED BY <1>4 DEF BalanceUpdate, e, f, g

-----------------------------------------------------------------------------
(* Counts                                                                  *)

\* PositionCountsExact is not inductive: a user is created with a count of zero,
\* so a user that does not exist must have none; and it is created its own
\* effective user, as it was taken to be before.
FreshUsersIn(d) ==
  \A u \in Owners : ~ d.users[u].stored => /\ d.users[u].totalBorrowPositionCount = 0
                                           /\ d.users[u].effectiveUser = u

CountInv(d) == PositionCountsIn(d) /\ UsersCountedIn(d) /\ FreshUsersIn(d)

Counted(d, u) == {a \in Opened(d) : u \in {OwnerOf[a], d.positions[a].effectiveUser}}

\* No row of a user disappears, and no vault is released.
UsersStay(d, e) ==
  \A u \in Owners : /\ d.users[u].stored => e.users[u].stored
                    /\ d.users[u].effectiveUser # u => e.users[u].effectiveUser # u
                    /\ ~ e.users[u].stored
                         => e.users[u].effectiveUser = d.users[u].effectiveUser

\* What a handler may leave in DolomiteMargin.userCount after others created
\* users: the count of users that it has loaded.
Grows(d, e) ==
  UsersStay(d, e) /\ e.borrowPositionCount = d.borrowPositionCount

LEMMA StoredUsersFinite ==
  ASSUME NEW d
  PROVE  IsFiniteSet(StoredUsers(d)) /\ Cardinality(StoredUsers(d)) \in Nat
  <1>1. StoredUsers(d) \in SUBSET Owners
    BY DEF StoredUsers
  <1> QED BY <1>1, FinitenessAssumption, FS_Subset, FS_CardinalityType

LEMMA OpenedFinite ==
  ASSUME NEW d
  PROVE  /\ IsFiniteSet(Opened(d)) /\ Cardinality(Opened(d)) \in Nat
         /\ \A u : IsFiniteSet(Counted(d, u)) /\ Cardinality(Counted(d, u)) \in Nat
  <1>1. Opened(d) \in SUBSET Accounts /\ \A u : Counted(d, u) \in SUBSET Accounts
    BY DEF Opened, Counted
  <1> QED BY <1>1, FinitenessAssumption, FS_Subset, FS_CardinalityType

\* A step that opens no position and loses no user keeps the counts, even if it
\* leaves an older count of the users.
LEMMA CountsKept ==
  ASSUME NEW d \in Store, NEW e \in Store, CountInv(d), Grows(d, e),
         e.userCount <= Cardinality(StoredUsers(d)),
         \A u \in Owners :
           e.users[u].totalBorrowPositionCount = d.users[u].totalBorrowPositionCount,
         \A a \in Accounts : /\ e.positions[a].status = "NONE" <=> d.positions[a].status = "NONE"
                             /\ e.positions[a].effectiveUser = d.positions[a].effectiveUser
  PROVE  CountInv(e)
  <1>1. Opened(e) = Opened(d)
    BY DEF Opened
  <1>2. \A u \in Owners : Counted(e, u) = Counted(d, u)
    BY <1>1 DEF Counted, Opened
  <1>3. PositionCountsIn(e)
    BY <1>1, <1>2 DEF PositionCountsIn, CountInv, Counted, Grows
  <1>4. UsersCountedIn(e)
    <2>1. StoredUsers(d) \in SUBSET StoredUsers(e)
      BY DEF StoredUsers, Grows, UsersStay
    <2>2. Cardinality(StoredUsers(d)) <= Cardinality(StoredUsers(e))
      BY <2>1, StoredUsersFinite, FS_Subset
    <2>3. e.userCount \in Nat
      BY DEF Store
    <2> QED BY <2>2, <2>3, StoredUsersFinite DEF UsersCountedIn
  <1>5. FreshUsersIn(e)
    BY DEF FreshUsersIn, CountInv, Grows, UsersStay
  <1> QED BY <1>3, <1>4, <1>5 DEF CountInv

\* Creating a user raises the count and the number of users together.
LEMMA CreateUserKeepsCounts ==
  ASSUME NEW d \in Store, NEW u \in Owners, CountInv(d)
  PROVE  /\ CountInv(CreateUserIfNecessary(d, u))
         /\ Grows(d, CreateUserIfNecessary(d, u))
  <1> DEFINE e == CreateUserIfNecessary(d, u)
  <1>1. /\ e \in Store /\ e.users[u].stored
        /\ \A v \in Owners : v # u => e.users[v] = d.users[v]
        /\ d.users[u].stored => e.users[u] = d.users[u] /\ e.userCount = d.userCount
        /\ ~ d.users[u].stored => e.users[u] = NewUser(u) /\ e.userCount = d.userCount + 1
        /\ e.positions = d.positions /\ e.borrowPositionCount = d.borrowPositionCount
    BY CreateUserFacts
  <1> HIDE DEF e
  <1>2. Grows(d, e)
    BY <1>1 DEF Grows, UsersStay, CountInv, FreshUsersIn
  <1>3. \A v \in Owners :
          e.users[v].totalBorrowPositionCount = d.users[v].totalBorrowPositionCount
    <2>1. NewUser(u).totalBorrowPositionCount = 0
      BY DEF NewUser
    <2>2. ~ d.users[u].stored => d.users[u].totalBorrowPositionCount = 0
      BY DEF CountInv, FreshUsersIn
    <2> QED BY <1>1, <2>1, <2>2
  <1>4. d.userCount \in Nat /\ d.userCount <= Cardinality(StoredUsers(d))
    BY DEF Store, CountInv, UsersCountedIn
  <1>5. CASE d.users[u].stored
    BY <1>1, <1>2, <1>3, <1>4, <1>5, CountsKept DEF e
  <1>6. CASE ~ d.users[u].stored
    <2>1. StoredUsers(e) = StoredUsers(d) \union {u} /\ u \notin StoredUsers(d)
      BY <1>1, <1>6 DEF StoredUsers
    <2>2. Cardinality(StoredUsers(e)) = Cardinality(StoredUsers(d)) + 1
      BY <2>1, StoredUsersFinite, FS_AddElement
    <2>3. UsersCountedIn(e)
      BY <1>1, <1>4, <1>6, <2>2, StoredUsersFinite DEF UsersCountedIn
    <2>4. PositionCountsIn(e)
      BY <1>1, <1>3 DEF PositionCountsIn, CountInv, Opened
    <2>5. FreshUsersIn(e)
      BY <1>1, <1>3 DEF FreshUsersIn, CountInv
    <2> QED BY <1>2, <2>3, <2>4, <2>5 DEF CountInv, e
  <1> QED BY <1>5, <1>6

LEMMA GetAccountKeepsCounts ==
  ASSUME NEW d \in Store, NEW a \in Accounts, CountInv(d)
  PROVE  /\ CountInv(GetOrCreateMarginAccount(d, a))
         /\ Grows(d, GetOrCreateMarginAccount(d, a))
  <1> DEFINE created == CreateUserIfNecessary(d, OwnerOf[a])
             e == GetOrCreateMarginAccount(d, a)
  <1>1. CASE d.accounts[a].stored
    <2>1. e = d
      BY <1>1, GetAccountFacts
    <2> QED BY <2>1 DEF Grows, UsersStay
  <1>2. CASE ~ d.accounts[a].stored
    <2>1. OwnerOf[a] \in Owners
      BY OwnerOfAssumption
    <2>2. /\ created \in Store /\ CountInv(created) /\ Grows(d, created)
          /\ created.positions = d.positions
          /\ created.borrowPositionCount = d.borrowPositionCount
      BY <2>1, CreateUserFacts, CreateUserKeepsCounts
    <2>3. /\ e \in Store /\ e.users = created.users /\ e.userCount = created.userCount
          /\ e.positions = d.positions /\ e.borrowPositionCount = d.borrowPositionCount
      BY <1>2, GetAccountFacts
    <2> HIDE DEF created, e
    <2>4. Grows(created, e) /\ Grows(d, e)
      BY <2>2, <2>3 DEF Grows, UsersStay
    <2>5. e.userCount <= Cardinality(StoredUsers(created))
      BY <2>2, <2>3 DEF CountInv, UsersCountedIn
    <2>6. CountInv(e)
      BY <2>2, <2>3, <2>4, <2>5, CountsKept
    <2> QED BY <2>4, <2>6 DEF e
  <1> QED BY <1>1, <1>2

\* Booking a balance writes no user and no position.
LEMMA BookLeaves ==
  ASSUME NEW d \in Store, NEW a \in Accounts, NEW t \in Tokens, NEW par \in Int
  PROVE  LET f == BookBalance(d, a, t, par) IN
           /\ f \in Store /\ f.users = d.users /\ f.userCount = d.userCount
           /\ f.positions = d.positions /\ f.borrowPositionCount = d.borrowPositionCount
  <1> DEFINE f == BookBalance(d, a, t, par)
  <1>1. f \in Store
    BY BookFacts
  <1>2. f.users = d.users /\ f.positions = d.positions
    BY BookFacts
  <1>3. f.borrowPositionCount = d.borrowPositionCount
    BY BookFacts
  <1>4. f.userCount = d.userCount
    BY BookFacts
  <1> QED BY <1>1, <1>2, <1>3, <1>4

\* A balance event neither opens a position nor gives it to another user.
LEMMA BalanceUpdateKeepsCounts ==
  ASSUME NEW d \in Store, NEW a \in Accounts, NEW t \in Tokens, NEW par \in Int,
         CountInv(d)
  PROVE  /\ CountInv(BalanceUpdate(d, a, t, par))
         /\ Grows(d, BalanceUpdate(d, a, t, par))
  <1> DEFINE e == GetOrCreateMarginAccount(d, a)
             f == BookBalance(e, a, t, par)
             g == UpdateBorrowPosition(f, a, t, par)
             p == f.positions[a]
             lists == ListsAfter(p, t, f.amounts[a][t].amountPar, par)
  <1>1. e \in Store /\ CountInv(e) /\ Grows(d, e)
    BY GetAccountFacts, GetAccountKeepsCounts
  <1> HIDE DEF e
  <1>2. /\ f \in Store /\ f.users = e.users /\ f.userCount = e.userCount
        /\ f.positions = e.positions /\ f.borrowPositionCount = e.borrowPositionCount
    BY <1>1, BookLeaves
  <1> HIDE DEF f
  <1>3. /\ g \in Store /\ g.users = f.users /\ g.userCount = f.userCount
        /\ g.borrowPositionCount = f.borrowPositionCount
        /\ p.status = "NONE" => g = f
        /\ \A b \in Accounts : b # a => g.positions[b] = f.positions[b]
        /\ p.status # "NONE" => g.positions[a] = StatusAfter(p, lists)
    BY <1>2, UpdatePositionFacts
  <1>4. p \in PositionRow /\ f.amounts[a][t].amountPar \in Int
    BY <1>2 DEF Store, AmountRow
  <1>5. /\ StatusAfter(p, lists).effectiveUser = p.effectiveUser
        /\ p.status # "NONE" => StatusAfter(p, lists).status # "NONE"
    <2>1. /\ lists \in PositionRow /\ lists.status = p.status
          /\ lists.effectiveUser = p.effectiveUser
      BY <1>4, ListsAfterType DEF ListsAfter, PositionRow
    <2> HIDE DEF lists, p
    <2> QED BY <2>1 DEF StatusAfter, PositionRow
  <1> HIDE DEF g
  <1>6. \A b \in Accounts : /\ g.positions[b].status = "NONE" <=> e.positions[b].status = "NONE"
                            /\ g.positions[b].effectiveUser = e.positions[b].effectiveUser
    BY <1>2, <1>3, <1>5
  <1>7. Grows(e, g) /\ Grows(d, g)
    BY <1>1, <1>2, <1>3 DEF Grows, UsersStay
  <1>8. g.userCount <= Cardinality(StoredUsers(e))
    BY <1>1, <1>2, <1>3 DEF CountInv, UsersCountedIn
  <1>9. CountInv(g)
    BY <1>1, <1>2, <1>3, <1>6, <1>7, <1>8, CountsKept
  <1> QED BY <1>7, <1>9 DEF BalanceUpdate, e, f, g

-----------------------------------------------------------------------------
(* Handlers                                                                *)

LedgerInv(d) ==
  d \in Store /\ AccountInv(d) /\ PositionInv(d) /\ RowInv(d) /\ SumInv(d) /\ CountInv(d)

LEMMA InitHolds == LedgerInv(EmptyStore)
  <1> DEFINE d == EmptyStore
  <1>1. \A u \in Owners : NoUser(u) \in UserRow
    BY DEF NoUser, NewUser, UserRow
  <1>2. \A a \in Accounts : NoAccount(a) \in AccountRow /\ NoPosition(a) \in PositionRow
    BY OwnerOfAssumption, EmptyListType
    DEF NoAccount, NewAccount, AccountRow, NoPosition, NewPosition, PositionRow
  <1>3. NoValue \in ValueRow /\ NoUserPar \in UserParRow /\ NoAmount \in AmountRow
    BY DEF NoValue, ValueRow, NoUserPar, UserParRow, NoAmount, AmountRow
  <1>4. d \in Store
    BY <1>1, <1>2, <1>3 DEF EmptyStore, Store, TotalParRow
  <1>5. AccountInv(d)
    <2>1. \A a \in Accounts : d.accounts[a] = NoAccount(a)
      BY DEF EmptyStore
    <2>2. \A a \in Accounts, t \in Tokens : d.values[a][t] = NoValue
      BY DEF EmptyStore
    <2>3. \A a \in Accounts :
            LET row == NoAccount(a) IN
              /\ row.borrowTokens = EmptyList /\ row.supplyTokens = EmptyList
              /\ row.expirationTokens = EmptyList
              /\ ~ row.hasBorrowValue /\ ~ row.hasSupplyValue /\ ~ row.hasExpiration
      BY DEF NoAccount, NewAccount
    <2>4. IsEmpty(EmptyList) /\ \A t \in Tokens : EmptyList[t] = 0
      BY DEF IsEmpty, EmptyList, Lists
    <2>5. ListsTrackBalancesIn(d)
      BY <2>1, <2>2, <2>3, <2>4 DEF ListsTrackBalancesIn, ParOf, NoValue, Indicator
    <2>6. ExpirationsListedIn(d)
      BY <2>1, <2>2, <2>3, <2>4 DEF ExpirationsListedIn, NoValue, Indicator
    <2> QED BY <2>1, <2>5, <2>6 DEF AccountInv, FreshAccountsIn
  <1>6. PositionInv(d)
    <2>1. \A a \in Accounts : d.positions[a] = NoPosition(a)
      BY DEF EmptyStore
    <2>2. \A a \in Accounts, t \in Tokens : d.amounts[a][t] = NoAmount
      BY DEF EmptyStore
    <2>3. \A a \in Accounts, t \in Tokens :
            LET p == NoPosition(a) IN
              /\ p.amounts[t] = 0 /\ p.allTokens[t] = 0
              /\ p.supplyTokens[t] = 0 /\ p.borrowTokens[t] = 0
              /\ p.effectiveSupplyTokens[t] = 0 /\ p.effectiveBorrowTokens[t] = 0
      BY DEF NoPosition, NewPosition, EmptyList
    <2>4. \A a \in Accounts : NoPosition(a).status = "NONE" /\ ~ NoPosition(a).closeStamped
      BY DEF NoPosition, NewPosition
    <2>5. ~ NoAmount.stored /\ NoAmount.amountPar = 0
      BY DEF NoAmount
    <2>6. AmountsMirrorBalancesIn(d)
      BY <2>2, <2>5 DEF AmountsMirrorBalancesIn
    <2> HIDE DEF d
    <2>7. \A a \in Accounts : PositionTracks(d.positions[a], d.amounts[a])
      <3> TAKE a \in Accounts
      <3>1. ~ \E t \in Tokens : d.amounts[a][t].stored
        BY <2>2, <2>5
      <3>2. d.positions[a].status # "CLOSED" /\ ~ d.positions[a].closeStamped
        BY <2>1, <2>4
      <3> QED BY <2>1, <2>2, <2>3, <2>5, <3>1, <3>2 DEF PositionTracks, Lists, Indicator
    <2> QED BY <2>6, <2>7, PositionInvByAccount
  <1>7. RowInv(d)
    BY OwnerOfAssumption
    DEF RowInv, NoDeadRowsIn, EffectiveUsersResolveIn, OnlyVaultsBoundIn, EmptyStore,
        NoUser, NewUser, NoAccount, NewAccount, NoValue, NoUserPar
  <1>8. SumInv(d)
    <2>1. \A u \in Owners : BoundTo(d, u) = {}
      BY DEF BoundTo, EmptyStore, NoAccount, NewAccount
    <2>2. \A a \in Accounts, t \in Tokens : ParOf(d, a, t) = 0
      BY DEF ParOf, EmptyStore, NoValue
    <2>3. \A t \in Tokens : d.totalPar[t] = [supplyPar |-> 0, borrowPar |-> 0]
      BY DEF EmptyStore
    <2>4. \A u \in Owners, t \in Tokens :
            d.userPars[u][t].totalSupplyPar = 0 /\ d.userPars[u][t].totalBorrowPar = 0
      BY DEF EmptyStore, NoUserPar
    <2> HIDE DEF d
    <2>5. ASSUME NEW t \in Tokens
          PROVE  SumFunction(Supplies(d, t)) = 0 /\ SumFunction(Borrows(d, t)) = 0
      <3>1. \A a \in Accounts : Supplies(d, t)[a] = 0 /\ Borrows(d, t)[a] = 0
        BY <1>4, <2>2, PartTypes DEF SupplyPart, BorrowPart
      <3>2. /\ SumFunctionOnSet(Supplies(d, t), Accounts) = 0
            /\ SumFunctionOnSet(Borrows(d, t), Accounts) = 0
        BY <3>1, FinitenessAssumption, SumOfZeros
      <3> QED BY <1>4, <3>2, PartTypes
    <2>6. TotalParIsSumIn(d)
      BY <2>3, <2>5 DEF TotalParIsSumIn
    <2>7. UserParIsSumIn(d)
      BY <2>1, <2>4, SumOfNone DEF UserParIsSumIn
    <2> QED BY <2>6, <2>7 DEF SumInv
  <1>9. CountInv(d)
    <2>1. Opened(d) = {}
      BY DEF Opened, EmptyStore, NoPosition, NewPosition
    <2>2. StoredUsers(d) = {}
      BY DEF StoredUsers, EmptyStore, NoUser, NewUser
    <2>3. /\ d.borrowPositionCount = 0 /\ d.userCount = 0
          /\ \A u \in Owners : /\ d.users[u].totalBorrowPositionCount = 0
                               /\ d.users[u].effectiveUser = u
      BY DEF EmptyStore, NoUser, NewUser
    <2> HIDE DEF d
    <2>4. PositionCountsIn(d)
      <3>1. \A u : {a \in Opened(d) : u \in {OwnerOf[a], d.positions[a].effectiveUser}} = {}
        BY <2>1
      <3> QED BY <2>1, <2>3, <3>1, FS_EmptySet DEF PositionCountsIn
    <2>5. UsersCountedIn(d) /\ FreshUsersIn(d)
      BY <2>2, <2>3, FS_EmptySet DEF UsersCountedIn, FreshUsersIn
    <2> QED BY <2>4, <2>5 DEF CountInv
  <1> QED BY <1>4, <1>5, <1>6, <1>7, <1>8, <1>9 DEF LedgerInv

LEMMA BalanceUpdateKeeps ==
  ASSUME NEW d, LedgerInv(d), NEW a \in Accounts, NEW t \in Tokens, NEW par \in Int
  PROVE  LedgerInv(BalanceUpdate(d, a, t, par)) /\ Grows(d, BalanceUpdate(d, a, t, par))
  BY BalanceUpdateKeepsAccounts, BalanceUpdateKeepsPositions, BalanceUpdateKeepsRows,
     BalanceUpdateKeepsSums, BalanceUpdateKeepsCounts
  DEF LedgerInv

LEMMA BothUpdatesKeep ==
  ASSUME NEW d, LedgerInv(d), NEW a \in Accounts, NEW input \in Tokens, NEW output \in Tokens,
         NEW inputPar \in Int, NEW outputPar \in Int
  PROVE  /\ LedgerInv(BothUpdates(d, a, input, output, inputPar, outputPar))
         /\ Grows(d, BothUpdates(d, a, input, output, inputPar, outputPar))
  <1> DEFINE e == BalanceUpdate(d, a, input, inputPar)
  <1>1. LedgerInv(e) /\ Grows(d, e)
    BY BalanceUpdateKeeps
  <1> HIDE DEF e
  <1>2. LedgerInv(BalanceUpdate(e, a, output, outputPar))
        /\ Grows(e, BalanceUpdate(e, a, output, outputPar))
    BY <1>1, BalanceUpdateKeeps
  <1> QED BY <1>1, <1>2 DEF BothUpdates, Grows, UsersStay, e

\* Saving a stale DolomiteMargin row touches its two counters only, and what was
\* handled in between counted no position and lost no user.
LEMMA SavedStaleMarginKeeps ==
  ASSUME NEW d, LedgerInv(d), NEW loaded, LedgerInv(loaded), Grows(loaded, d)
  PROVE  /\ LedgerInv(SavedStaleMargin(loaded, d))
         /\ UsersStay(loaded, SavedStaleMargin(loaded, d))
  <1> DEFINE e == SavedStaleMargin(loaded, d)
  <1>1. /\ e \in Store /\ e.users = d.users /\ e.accounts = d.accounts
        /\ e.values = d.values /\ e.userPars = d.userPars /\ e.totalPar = d.totalPar
        /\ e.positions = d.positions /\ e.amounts = d.amounts
        /\ e.userCount = loaded.userCount
        /\ e.borrowPositionCount = loaded.borrowPositionCount
    BY DEF SavedStaleMargin, Store, LedgerInv
  <1> HIDE DEF e
  <1>2. AccountInv(e)
    BY <1>1 DEF LedgerInv, AccountInv, FreshAccountsIn, ListsTrackBalancesIn,
                ExpirationsListedIn, ParOf
  <1>3. PositionInv(e)
    BY <1>1 DEF LedgerInv, PositionInv, PositionListsAmountsIn, AmountsMirrorBalancesIn,
                StatusTracksAmountsIn, HeldTokensAreListedIn, ParOf
  <1>4. RowInv(e)
    BY <1>1 DEF LedgerInv, RowInv, NoDeadRowsIn, EffectiveUsersResolveIn, OnlyVaultsBoundIn
  <1>5. SumInv(e)
    BY <1>1, SumsKept DEF LedgerInv, ParOf
  <1>6. CountInv(e)
    <2>1. StoredUsers(loaded) \in SUBSET StoredUsers(d)
      BY DEF StoredUsers, Grows, UsersStay
    <2>2. Cardinality(StoredUsers(loaded)) <= Cardinality(StoredUsers(d))
      BY <2>1, StoredUsersFinite, FS_Subset
    <2>3. e.userCount \in Nat /\ e.userCount <= Cardinality(StoredUsers(loaded))
      BY <1>1 DEF Store, LedgerInv, CountInv, UsersCountedIn
    <2>4. e.userCount <= Cardinality(StoredUsers(d))
      BY <2>2, <2>3, StoredUsersFinite
    <2>5. Grows(d, e)
      BY <1>1 DEF Grows, UsersStay
    <2> QED BY <1>1, <2>4, <2>5, CountsKept DEF LedgerInv
  <1>7. UsersStay(loaded, e)
    BY <1>1 DEF Grows, UsersStay
  <1> QED BY <1>1, <1>2, <1>3, <1>4, <1>5, <1>6, <1>7 DEF LedgerInv, e

LEMMA CreateUserKeeps ==
  ASSUME NEW d, LedgerInv(d), NEW u \in Owners
  PROVE  /\ LedgerInv(CreateUserIfNecessary(d, u))
         /\ UsersStay(d, CreateUserIfNecessary(d, u))
  <1> DEFINE e == CreateUserIfNecessary(d, u)
  <1>1. RowInv(e) /\ CountInv(e) /\ UsersStay(d, e)
    BY CreateUserKeepsRows, CreateUserKeepsCounts DEF LedgerInv, Grows
  <1>2. /\ e \in Store /\ e.values = d.values /\ e.amounts = d.amounts
        /\ e.positions = d.positions /\ e.accounts = d.accounts
        /\ e.userPars = d.userPars /\ e.totalPar = d.totalPar
    BY CreateUserFacts DEF LedgerInv
  <1> HIDE DEF e
  <1>3. AccountInv(e)
    BY <1>2 DEF LedgerInv, AccountInv, FreshAccountsIn, ListsTrackBalancesIn,
                ExpirationsListedIn, ParOf
  <1>4. PositionInv(e)
    BY <1>2 DEF LedgerInv, PositionInv, PositionListsAmountsIn, AmountsMirrorBalancesIn,
                StatusTracksAmountsIn, HeldTokensAreListedIn, ParOf
  <1>5. SumInv(e)
    BY <1>2, SumsKept DEF LedgerInv, ParOf
  <1> QED BY <1>1, <1>2, <1>3, <1>4, <1>5 DEF LedgerInv, e

LEMMA GetAccountKeeps ==
  ASSUME NEW d, LedgerInv(d), NEW a \in Accounts
  PROVE  /\ LedgerInv(GetOrCreateMarginAccount(d, a))
         /\ UsersStay(d, GetOrCreateMarginAccount(d, a))
  <1> DEFINE e == GetOrCreateMarginAccount(d, a)
  <1>1. /\ e \in Store /\ AccountInv(e) /\ RowInv(e) /\ SumInv(e) /\ CountInv(e)
        /\ UsersStay(d, e)
    BY GetAccountFacts, GetAccountKeepsAccounts, GetAccountKeepsRows, GetAccountKeepsSums,
       GetAccountKeepsCounts
    DEF LedgerInv, Grows
  <1>2. e.values = d.values /\ e.amounts = d.amounts /\ e.positions = d.positions
    BY GetAccountFacts DEF LedgerInv
  <1> HIDE DEF e
  <1>3. PositionInv(e)
    BY <1>2 DEF LedgerInv, PositionInv, PositionListsAmountsIn, AmountsMirrorBalancesIn,
                StatusTracksAmountsIn, HeldTokensAreListedIn, ParOf
  <1> QED BY <1>1, <1>3 DEF LedgerInv, e

\* One more for v, and nothing else of any user.
LEMMA BumpedFacts ==
  ASSUME NEW users \in [Owners -> UserRow], NEW v \in Owners
  PROVE  /\ Bumped(users, v) \in [Owners -> UserRow]
         /\ \A w \in Owners :
              /\ Bumped(users, v)[w].stored = users[w].stored
              /\ Bumped(users, v)[w].effectiveUser = users[w].effectiveUser
              /\ Bumped(users, v)[w].totalBorrowPositionCount
                   = users[w].totalBorrowPositionCount + Indicator(w = v)
  <1> DEFINE row == [users[v] EXCEPT !.totalBorrowPositionCount = @ + 1]
  <1>1. users[v] \in UserRow /\ \A w \in Owners : users[w].totalBorrowPositionCount \in Nat
    BY DEF UserRow
  <1>2. users[v].totalBorrowPositionCount + 1 \in Nat
    BY <1>1
  <1>3. /\ row \in UserRow /\ row.stored = users[v].stored
        /\ row.effectiveUser = users[v].effectiveUser
        /\ row.totalBorrowPositionCount = users[v].totalBorrowPositionCount + 1
    BY <1>1, <1>2 DEF UserRow
  <1>4. Bumped(users, v) = [users EXCEPT ![v] = row]
    BY DEF Bumped
  <1> HIDE DEF row
  <1> QED BY <1>1, <1>3, <1>4 DEF Indicator

\* Counting a position raises the count of its owner, and of the effective user
\* of its owner if that is another, by one.
LEMMA CountPositionFacts ==
  ASSUME NEW d \in Store, NEW u \in Owners
  PROVE  LET e == CountPosition(d, u) IN
           /\ e \in Store
           /\ \A v \in Owners :
                /\ e.users[v].stored = d.users[v].stored
                /\ e.users[v].effectiveUser = d.users[v].effectiveUser
                /\ e.users[v].totalBorrowPositionCount
                     = d.users[v].totalBorrowPositionCount
                         + Indicator(v \in {u, EffectiveUserOf(d, u)})
           /\ e.accounts = d.accounts /\ e.values = d.values /\ e.userPars = d.userPars
           /\ e.totalPar = d.totalPar /\ e.positions = d.positions /\ e.amounts = d.amounts
           /\ e.borrowPositionCount = d.borrowPositionCount /\ e.userCount = d.userCount
  <1> DEFINE e == CountPosition(d, u)
             w == EffectiveUserOf(d, u)
             once == Bumped(d.users, u)
             twice == Bumped(once, w)
  <1>1. d.users \in [Owners -> UserRow] /\ w \in Owners
    BY DEF Store, EffectiveUserOf, UserRow
  <1>2. /\ once \in [Owners -> UserRow]
        /\ \A v \in Owners : /\ once[v].stored = d.users[v].stored
                             /\ once[v].effectiveUser = d.users[v].effectiveUser
                             /\ once[v].totalBorrowPositionCount
                                  = d.users[v].totalBorrowPositionCount + Indicator(v = u)
    BY <1>1, BumpedFacts
  <1>3. e = [d EXCEPT !.users = IF w = u THEN once ELSE twice]
    BY DEF CountPosition
  <1>4. \A v \in Owners : d.users[v].totalBorrowPositionCount \in Nat
    BY <1>1 DEF UserRow
  <1> HIDE DEF once, w, e
  <1>5. /\ twice \in [Owners -> UserRow]
        /\ \A v \in Owners : /\ twice[v].stored = once[v].stored
                             /\ twice[v].effectiveUser = once[v].effectiveUser
                             /\ twice[v].totalBorrowPositionCount
                                  = once[v].totalBorrowPositionCount + Indicator(v = w)
    BY <1>1, <1>2, BumpedFacts
  <1> HIDE DEF twice
  <1>6. CASE w = u
    <2>1. e = [d EXCEPT !.users = once]
      BY <1>3, <1>6
    <2>2. e.users = once
      BY <2>1 DEF Store
    <2>3. \A v \in Owners : v \in {u, w} <=> v = u
      BY <1>6
    <2>4. \A v \in Owners : Indicator(v \in {u, w}) = Indicator(v = u)
      BY <2>3 DEF Indicator
    <2>5. e \in Store
      BY <1>2, <2>1 DEF Store
    <2> QED BY <1>2, <2>1, <2>2, <2>4, <2>5 DEF e, w, Store
  <1>7. CASE w # u
    <2>1. e = [d EXCEPT !.users = twice]
      BY <1>3, <1>7
    <2>2. e.users = twice
      BY <2>1 DEF Store
    <2>3. \A v \in Owners : Indicator(v \in {u, w}) = Indicator(v = u) + Indicator(v = w)
      BY <1>7 DEF Indicator
    <2>4. \A v \in Owners : twice[v].totalBorrowPositionCount
            = d.users[v].totalBorrowPositionCount + Indicator(v \in {u, w})
      <3>1. \A c : Indicator(c) \in Int
        BY DEF Indicator
      <3>2. ASSUME NEW v \in Owners
            PROVE  twice[v].totalBorrowPositionCount
                     = d.users[v].totalBorrowPositionCount + Indicator(v \in {u, w})
        <4> DEFINE first == Indicator(v = u)
                   second == Indicator(v = w)
                   both == Indicator(v \in {u, w})
        <4>1. /\ first \in Int /\ second \in Int
              /\ d.users[v].totalBorrowPositionCount \in Int
          BY <1>4, <3>1
        <4>2. both = first + second
          BY <2>3
        <4>3. /\ once[v].totalBorrowPositionCount
                   = d.users[v].totalBorrowPositionCount + first
              /\ twice[v].totalBorrowPositionCount
                   = once[v].totalBorrowPositionCount + second
          BY <1>2, <1>5
        <4> HIDE DEF first, second, both
        <4>4. twice[v].totalBorrowPositionCount = d.users[v].totalBorrowPositionCount + both
          BY <4>1, <4>2, <4>3
        <4> QED BY <4>4 DEF both
      <3> QED BY <3>2
    <2>5. e \in Store
      BY <1>5, <2>1 DEF Store
    <2> QED BY <1>2, <1>5, <2>1, <2>2, <2>4, <2>5 DEF e, w, Store
  <1> QED BY <1>6, <1>7

\* A position opened on any balances starts with no amounts, as it must: amount
\* rows exist only for positions.
LEMMA PositionOpenedKeeps ==
  ASSUME NEW x, LedgerInv(x), NEW a \in Accounts, x.positions[a].status = "NONE"
  PROVE  LedgerInv(PositionOpened(x, a)) /\ UsersStay(x, PositionOpened(x, a))
  <1> DEFINE loaded == GetOrCreateMarginAccount(x, a)
             d == CountPosition(loaded, OwnerOf[a])
             p == NewPosition(EffectiveUserOf(d, OwnerOf[a]))
             e == [d EXCEPT !.positions[a] = p, !.borrowPositionCount = @ + 1]
  <1>0. OwnerOf[a] \in Owners
    BY OwnerOfAssumption
  <1>1. LedgerInv(loaded) /\ loaded.accounts[a].stored /\ UsersStay(x, loaded)
    BY GetAccountKeeps, GetAccountFacts DEF LedgerInv
  <1>2. PositionOpened(x, a) = e /\ loaded.positions = x.positions
    BY GetAccountFacts DEF PositionOpened, LedgerInv
  <1> HIDE DEF loaded
  <1>3. /\ d \in Store
        /\ \A v \in Owners :
             /\ d.users[v].stored = loaded.users[v].stored
             /\ d.users[v].effectiveUser = loaded.users[v].effectiveUser
             /\ d.users[v].totalBorrowPositionCount
                  = loaded.users[v].totalBorrowPositionCount
                      + Indicator(v \in {OwnerOf[a], EffectiveUserOf(loaded, OwnerOf[a])})
        /\ d.accounts = loaded.accounts /\ d.values = loaded.values
        /\ d.userPars = loaded.userPars /\ d.totalPar = loaded.totalPar
        /\ d.positions = loaded.positions /\ d.amounts = loaded.amounts
        /\ d.borrowPositionCount = loaded.borrowPositionCount /\ d.userCount = loaded.userCount
    BY <1>0, <1>1, CountPositionFacts DEF LedgerInv
  <1> HIDE DEF d
  <1>4. /\ p.status = "OPEN" /\ ~ p.closeStamped
        /\ p.amounts = EmptyList /\ p.allTokens = EmptyList
        /\ p.supplyTokens = EmptyList /\ p.borrowTokens = EmptyList
        /\ p.effectiveSupplyTokens = EmptyList /\ p.effectiveBorrowTokens = EmptyList
        /\ p.effectiveUser = EffectiveUserOf(d, OwnerOf[a])
    BY DEF NewPosition
  <1>5. p \in PositionRow
    BY <1>0, <1>3, EmptyListType DEF NewPosition, PositionRow, EffectiveUserOf, Store, UserRow
  <1> HIDE DEF p
  <1>6. /\ e \in Store
        /\ e.users = d.users /\ e.accounts = d.accounts /\ e.values = d.values
        /\ e.userPars = d.userPars /\ e.amounts = d.amounts /\ e.totalPar = d.totalPar
        /\ e.borrowPositionCount = d.borrowPositionCount + 1 /\ e.userCount = d.userCount
        /\ e.positions[a] = p
        /\ \A b \in Accounts : b # a => e.positions[b] = d.positions[b]
    <2>1. d.positions \in [Accounts -> PositionRow] /\ d.borrowPositionCount + 1 \in Nat
      BY <1>3 DEF Store
    <2>2. [d.positions EXCEPT ![a] = p] \in [Accounts -> PositionRow]
      BY <1>5, <2>1
    <2>3. /\ e.users = d.users /\ e.accounts = d.accounts /\ e.values = d.values
          /\ e.userPars = d.userPars /\ e.amounts = d.amounts /\ e.totalPar = d.totalPar
          /\ e.borrowPositionCount = d.borrowPositionCount + 1 /\ e.userCount = d.userCount
          /\ e.positions = [d.positions EXCEPT ![a] = p]
      BY <1>3 DEF Store
    <2>4. e \in Store
      BY <1>3, <2>1, <2>2 DEF Store
    <2> HIDE DEF e
    <2> QED BY <2>1, <2>3, <2>4
  <1> HIDE DEF e
  <1>7. AccountInv(e)
    BY <1>1, <1>3, <1>6 DEF LedgerInv, AccountInv, FreshAccountsIn, ListsTrackBalancesIn,
                            ExpirationsListedIn, ParOf
  <1>8. PositionInv(e)
    <2>1. /\ AmountsMirrorBalancesIn(loaded)
          /\ \A b \in Accounts : PositionTracks(loaded.positions[b], loaded.amounts[b])
      BY <1>1, PositionInvByAccount DEF LedgerInv
    <2>2. \A s \in Tokens : ~ e.amounts[a][s].stored /\ e.amounts[a][s].amountPar = 0
      BY <1>2, <1>3, <1>6, <2>1 DEF AmountsMirrorBalancesIn
    <2>3. AmountsMirrorBalancesIn(e)
      BY <1>3, <1>6, <2>1, <2>2 DEF AmountsMirrorBalancesIn, ParOf
    <2>4. PositionTracks(p, e.amounts[a])
      <3>1. p.status # "CLOSED" /\ \A s \in Tokens : EmptyList[s] = 0
        BY <1>4 DEF EmptyList
      <3> QED BY <1>4, <2>2, <3>1 DEF PositionTracks, Lists, Indicator
    <2>5. \A b \in Accounts : PositionTracks(e.positions[b], e.amounts[b])
      BY <1>3, <1>6, <2>1, <2>4
    <2> QED BY <2>3, <2>5, PositionInvByAccount
  <1>9. RowInv(e)
    <2>1. /\ NoDeadRowsIn(loaded) /\ EffectiveUsersResolveIn(loaded) /\ OnlyVaultsBoundIn(loaded)
      BY <1>1 DEF LedgerInv, RowInv
    <2>2. /\ \A v \in Owners : /\ e.users[v].stored = loaded.users[v].stored
                               /\ e.users[v].effectiveUser = loaded.users[v].effectiveUser
          /\ e.accounts = loaded.accounts /\ e.values = loaded.values
          /\ e.userPars = loaded.userPars
      BY <1>3, <1>6
    <2>3. /\ \A v \in Owners : loaded.users[v].effectiveUser \in Owners
          /\ \A b \in Accounts : loaded.accounts[b].effectiveUser \in Owners /\ OwnerOf[b] \in Owners
      BY <1>1, OwnerOfAssumption DEF LedgerInv, Store, UserRow, AccountRow
    <2>4. NoDeadRowsIn(e)
      BY <2>1, <2>2 DEF NoDeadRowsIn
    <2>5. EffectiveUsersResolveIn(e)
      BY <2>1, <2>2, <2>3 DEF EffectiveUsersResolveIn
    <2>6. OnlyVaultsBoundIn(e)
      BY <2>1, <2>2 DEF OnlyVaultsBoundIn
    <2> QED BY <2>4, <2>5, <2>6 DEF RowInv
  <1>10. SumInv(e)
    BY <1>1, <1>3, <1>6, SumsKept DEF LedgerInv, ParOf
  <1>11. CountInv(e)
    <2> DEFINE owner == OwnerOf[a]
               w == EffectiveUserOf(loaded, owner)
    <2>1. CountInv(loaded) /\ loaded \in Store
      BY <1>1 DEF LedgerInv
    <2>2. p.effectiveUser = w /\ w \in Owners
      BY <1>0, <1>3, <1>4, <2>1 DEF EffectiveUserOf, Store, UserRow
    <2>3. loaded.users[owner].stored /\ loaded.users[w].stored
      BY <1>0, <1>1 DEF LedgerInv, RowInv, EffectiveUsersResolveIn, EffectiveUserOf
    <2> HIDE DEF w
    <2>4. /\ Opened(e) = Opened(loaded) \union {a} /\ a \notin Opened(loaded)
          /\ \A b \in Accounts : b # a => e.positions[b] = loaded.positions[b]
      BY <1>2, <1>3, <1>4, <1>6 DEF Opened
    <2>5. Cardinality(Opened(e)) = Cardinality(Opened(loaded)) + 1
      BY <2>4, OpenedFinite, FS_AddElement
    <2>6. ASSUME NEW u \in Owners
          PROVE  e.users[u].totalBorrowPositionCount = Cardinality(Counted(e, u))
      <3>1. loaded.users[u].totalBorrowPositionCount = Cardinality(Counted(loaded, u))
        BY <2>1 DEF CountInv, PositionCountsIn, Counted
      <3>2. e.users[u].totalBorrowPositionCount
              = loaded.users[u].totalBorrowPositionCount + Indicator(u \in {owner, w})
        BY <1>3, <1>6 DEF w
      <3>3. CASE u \in {owner, w}
        <4>1. Counted(e, u) = Counted(loaded, u) \union {a} /\ a \notin Counted(loaded, u)
          BY <1>6, <2>2, <2>4, <3>3 DEF Counted, Opened
        <4>2. Cardinality(Counted(e, u)) = Cardinality(Counted(loaded, u)) + 1
          BY <4>1, OpenedFinite, FS_AddElement
        <4> QED BY <3>1, <3>2, <3>3, <4>2 DEF Indicator
      <3>4. CASE u \notin {owner, w}
        <4>1. Counted(e, u) = Counted(loaded, u)
          BY <1>6, <2>2, <2>4, <3>4 DEF Counted, Opened
        <4> QED BY <3>1, <3>2, <3>4, <4>1, OpenedFinite DEF Indicator
      <3> QED BY <3>3, <3>4
    <2>7. PositionCountsIn(e)
      BY <1>3, <1>6, <2>1, <2>5, <2>6 DEF PositionCountsIn, CountInv, Counted
    <2>8. UsersCountedIn(e)
      <3>1. StoredUsers(e) = StoredUsers(loaded)
        BY <1>3, <1>6 DEF StoredUsers
      <3> QED BY <1>3, <1>6, <2>1, <3>1 DEF CountInv, UsersCountedIn
    <2>9. FreshUsersIn(e)
      <3> SUFFICES ASSUME NEW u \in Owners, ~ e.users[u].stored
                   PROVE  /\ e.users[u].totalBorrowPositionCount = 0
                          /\ e.users[u].effectiveUser = u
        BY DEF FreshUsersIn
      <3>1. ~ loaded.users[u].stored
        BY <1>3, <1>6
      <3>2. /\ u \notin {owner, w} /\ loaded.users[u].totalBorrowPositionCount = 0
            /\ e.users[u].effectiveUser = loaded.users[u].effectiveUser
            /\ loaded.users[u].effectiveUser = u
        BY <1>3, <1>6, <2>1, <2>3, <3>1 DEF CountInv, FreshUsersIn
      <3>3. e.users[u].totalBorrowPositionCount
              = loaded.users[u].totalBorrowPositionCount + Indicator(u \in {owner, w})
        BY <1>3, <1>6 DEF w
      <3> QED BY <3>2, <3>3 DEF Indicator
    <2> QED BY <2>7, <2>8, <2>9 DEF CountInv
  <1>12. UsersStay(x, e)
    <2>1. \A v \in Owners : /\ e.users[v].stored = loaded.users[v].stored
                            /\ e.users[v].effectiveUser = loaded.users[v].effectiveUser
      BY <1>3, <1>6
    <2> QED BY <1>1, <2>1 DEF UsersStay
  <1> QED BY <1>2, <1>6, <1>7, <1>8, <1>9, <1>10, <1>11, <1>12 DEF LedgerInv

\* ExpirySet moves the list and the balance row together, and of the amount row
\* only its expiration.
LEMMA ExpirySavedKeeps ==
  ASSUME NEW x, LedgerInv(x), NEW a \in Accounts, NEW t \in Tokens,
         NEW time \in Times \union {NoTime}, NEW expired \in BOOLEAN
  PROVE  /\ LedgerInv(ExpirySaved(x, a, t, time, expired))
         /\ UsersStay(x, ExpirySaved(x, a, t, time, expired))
  <1> DEFINE d == GetOrCreateMarginAccount(x, a)
             keeps == ~ d.amounts[a][t].stored \/ (time = NoTime /\ expired)
             account == ExpirationsAfter(d.accounts[a], t, time)
             value == SavedValue([d.values[a][t] EXCEPT !.expiration = time])
             amount == IF keeps THEN d.amounts[a][t]
                       ELSE [d.amounts[a][t] EXCEPT !.expiration = time]
             e == [d EXCEPT !.accounts[a] = account, !.values[a][t] = value,
                            !.amounts[a][t] = amount]
  <1>1. LedgerInv(d) /\ d.accounts[a].stored /\ UsersStay(x, d)
    BY GetAccountKeeps, GetAccountFacts DEF LedgerInv
  <1>2. ExpirySaved(x, a, t, time, expired) = e
    BY DEF ExpirySaved
  <1> HIDE DEF d
  <1>3. /\ d.accounts \in [Accounts -> AccountRow]
        /\ d.values \in [Accounts -> [Tokens -> ValueRow]]
        /\ d.amounts \in [Accounts -> [Tokens -> AmountRow]]
        /\ d.accounts[a] \in AccountRow /\ d.accounts[a].expirationTokens \in TokenList
        /\ d.values[a][t] \in ValueRow /\ d.amounts[a][t] \in AmountRow
    BY <1>1 DEF LedgerInv, Store, AccountRow
  <1>4. /\ account \in AccountRow
        /\ account.stored = d.accounts[a].stored
        /\ account.effectiveUser = d.accounts[a].effectiveUser
        /\ account.borrowTokens = d.accounts[a].borrowTokens
        /\ account.supplyTokens = d.accounts[a].supplyTokens
        /\ account.hasBorrowValue = d.accounts[a].hasBorrowValue
        /\ account.hasSupplyValue = d.accounts[a].hasSupplyValue
        /\ account.expirationTokens = IF time = NoTime
                                      THEN Removed(d.accounts[a].expirationTokens, t)
                                      ELSE AddedIfAbsent(d.accounts[a].expirationTokens, t)
        /\ account.hasExpiration = ~ IsEmpty(account.expirationTokens)
    <2>1. /\ Removed(d.accounts[a].expirationTokens, t) \in TokenList
          /\ AddedIfAbsent(d.accounts[a].expirationTokens, t) \in TokenList
      BY <1>3, ListOps
    <2> QED BY <1>3, <2>1 DEF ExpirationsAfter, AccountRow
  <1>5. /\ value \in ValueRow
        /\ value.valuePar = d.values[a][t].valuePar /\ value.expiration = time
        /\ value.stored <=> value.valuePar # 0 \/ value.expiration # NoTime
    <2> DEFINE moved == [d.values[a][t] EXCEPT !.expiration = time]
    <2>1. moved \in ValueRow /\ moved.valuePar = d.values[a][t].valuePar
          /\ moved.expiration = time
      BY <1>3 DEF ValueRow
    <2> HIDE DEF moved
    <2>2. CASE moved.valuePar = 0 /\ moved.expiration = NoTime
      BY <2>1, <2>2 DEF SavedValue, NoValue, moved, ValueRow
    <2>3. CASE ~ (moved.valuePar = 0 /\ moved.expiration = NoTime)
      <3>1. value = [moved EXCEPT !.stored = TRUE]
        BY <2>3 DEF SavedValue, moved
      <3> QED BY <2>1, <2>3, <3>1 DEF ValueRow
    <2> QED BY <2>2, <2>3
  <1>6. /\ amount \in AmountRow
        /\ amount.stored = d.amounts[a][t].stored
        /\ amount.amountPar = d.amounts[a][t].amountPar
    BY <1>3 DEF AmountRow
  <1> HIDE DEF account, value, amount, keeps
  <1>7. e \in Store
    BY <1>1, <1>3, <1>4, <1>5, <1>6 DEF LedgerInv, Store
  <1>8. /\ e.users = d.users /\ e.userPars = d.userPars /\ e.positions = d.positions
        /\ e.totalPar = d.totalPar /\ e.userCount = d.userCount
        /\ e.borrowPositionCount = d.borrowPositionCount
        /\ e.accounts[a] = account
        /\ \A b \in Accounts : b # a => e.accounts[b] = d.accounts[b]
        /\ e.values[a][t] = value
        /\ \A b \in Accounts, s \in Tokens : b # a \/ s # t => e.values[b][s] = d.values[b][s]
        /\ \A b \in Accounts, s \in Tokens : /\ e.amounts[b][s].stored = d.amounts[b][s].stored
                                             /\ e.amounts[b][s].amountPar = d.amounts[b][s].amountPar
    <2>1. /\ e.users = d.users /\ e.userPars = d.userPars /\ e.positions = d.positions
          /\ e.totalPar = d.totalPar /\ e.userCount = d.userCount
          /\ e.borrowPositionCount = d.borrowPositionCount
          /\ e.accounts = [d.accounts EXCEPT ![a] = account]
          /\ e.values = [d.values EXCEPT ![a] = [@ EXCEPT ![t] = value]]
          /\ e.amounts = [d.amounts EXCEPT ![a] = [@ EXCEPT ![t] = amount]]
      BY <1>1 DEF LedgerInv, Store
    <2> HIDE DEF e
    <2> QED BY <1>3, <1>6, <2>1
  <1> HIDE DEF e
  <1>9. \A b \in Accounts, s \in Tokens : ParOf(e, b, s) = ParOf(d, b, s)
    BY <1>5, <1>8 DEF ParOf
  <1>10. AccountInv(e)
    <2>1. FreshAccountsIn(e)
      BY <1>1, <1>4, <1>8 DEF LedgerInv, AccountInv, FreshAccountsIn
    <2>2. \A b \in Accounts :
            /\ e.accounts[b].borrowTokens = d.accounts[b].borrowTokens
            /\ e.accounts[b].supplyTokens = d.accounts[b].supplyTokens
            /\ e.accounts[b].hasBorrowValue = d.accounts[b].hasBorrowValue
            /\ e.accounts[b].hasSupplyValue = d.accounts[b].hasSupplyValue
      BY <1>4, <1>8
    <2>3. ListsTrackBalancesIn(e)
      BY <1>1, <1>9, <2>2 DEF LedgerInv, AccountInv, ListsTrackBalancesIn
    <2>4. ExpirationsListedIn(e)
      <3>1. \A b \in Accounts, s \in Tokens : d.accounts[b].expirationTokens[s]
                                                = Indicator(d.values[b][s].expiration # NoTime)
        BY <1>1 DEF LedgerInv, AccountInv, ExpirationsListedIn
      <3>2. \A s \in Tokens : e.accounts[a].expirationTokens[s]
                                = Indicator(e.values[a][s].expiration # NoTime)
        BY <1>3, <1>4, <1>5, <1>8, <3>1
        DEF Removed, AddedIfAbsent, Added, Lists, TokenList, Indicator
      <3>3. e.accounts[a].hasExpiration <=> ~ IsEmpty(e.accounts[a].expirationTokens)
        BY <1>4, <1>8, Zenon
      <3> QED BY <1>1, <1>8, <3>2, <3>3 DEF LedgerInv, AccountInv, ExpirationsListedIn
    <2> QED BY <2>1, <2>3, <2>4 DEF AccountInv
  <1>11. PositionInv(e)
    <2>1. PositionInv(d)
      BY <1>1 DEF LedgerInv
    <2>2. PositionListsAmountsIn(e) /\ HeldTokensAreListedIn(e)
      BY <1>8, <2>1 DEF PositionInv, PositionListsAmountsIn, HeldTokensAreListedIn
    <2>3. AmountsMirrorBalancesIn(e)
      BY <1>8, <1>9, <2>1 DEF PositionInv, AmountsMirrorBalancesIn
    <2>4. StatusTracksAmountsIn(e)
      BY <1>8, <2>1 DEF PositionInv, StatusTracksAmountsIn
    <2> QED BY <2>2, <2>3, <2>4 DEF PositionInv
  <1>12. RowInv(e)
    <2>1. NoDeadRowsIn(d) /\ EffectiveUsersResolveIn(d) /\ OnlyVaultsBoundIn(d)
      BY <1>1 DEF LedgerInv, RowInv
    <2>2. \A b \in Accounts : /\ e.accounts[b].stored = d.accounts[b].stored
                              /\ e.accounts[b].effectiveUser = d.accounts[b].effectiveUser
      BY <1>4, <1>8
    <2>3. NoDeadRowsIn(e)
      BY <1>1, <1>5, <1>8, <2>1, <2>2 DEF NoDeadRowsIn
    <2>4. EffectiveUsersResolveIn(e) /\ OnlyVaultsBoundIn(e)
      BY <1>8, <2>1, <2>2 DEF EffectiveUsersResolveIn, OnlyVaultsBoundIn
    <2> QED BY <2>3, <2>4 DEF RowInv
  <1>13. SumInv(e)
    <2>1. \A b \in Accounts : /\ e.accounts[b].stored = d.accounts[b].stored
                              /\ e.accounts[b].effectiveUser = d.accounts[b].effectiveUser
      BY <1>4, <1>8
    <2> QED BY <1>1, <1>8, <1>9, <2>1, SumsKept DEF LedgerInv
  <1>14. CountInv(e)
    <2>1. Grows(d, e)
      BY <1>8 DEF Grows, UsersStay
    <2>2. e.userCount <= Cardinality(StoredUsers(d))
      BY <1>1, <1>8 DEF LedgerInv, CountInv, UsersCountedIn
    <2> QED BY <1>1, <1>7, <1>8, <2>1, <2>2, CountsKept DEF LedgerInv
  <1>15. UsersStay(x, e)
    BY <1>1, <1>8 DEF UsersStay
  <1> QED BY <1>2, <1>7, <1>10, <1>11, <1>12, <1>13, <1>14, <1>15 DEF LedgerInv

\* The owner a vault is bound to is stored, leads to itself and is no vault, and
\* nothing else leads to the vault.
LEMMA VaultBoundKeeps ==
  ASSUME NEW x, LedgerInv(x), NEW vault \in Vaults, NEW account \in Owners \ Vaults
  PROVE  /\ LedgerInv(VaultBound(x, vault, account))
         /\ UsersStay(x, VaultBound(x, vault, account))
  <1> DEFINE first == CreateUserIfNecessary(x, vault)
             d == CreateUserIfNecessary(first, account)
             e == [d EXCEPT !.users[vault].effectiveUser = account,
                            !.users[vault].isEffectiveUser = FALSE]
  <1>0. VaultBound(x, vault, account) = e
    BY DEF VaultBound
  <1>1. /\ vault \in Owners /\ vault \in Vaults
        /\ account \in Owners /\ account \notin Vaults /\ vault # account
    BY VaultsAssumption
  <1>2. /\ first \in Store /\ RowInv(first) /\ first.users[vault].stored
        /\ first.values = x.values /\ first.amounts = x.amounts
        /\ first.positions = x.positions /\ first.accounts = x.accounts
        /\ first.userPars = x.userPars /\ first.totalPar = x.totalPar
        /\ CountInv(first) /\ UsersStay(x, first)
    BY <1>1, CreateUserFacts, CreateUserKeepsRows, CreateUserKeepsCounts DEF LedgerInv, Grows
  <1> HIDE DEF first
  <1>3. /\ d \in Store /\ RowInv(d) /\ d.users[vault].stored /\ d.users[account].stored
        /\ d.values = x.values /\ d.amounts = x.amounts
        /\ d.positions = x.positions /\ d.accounts = x.accounts
        /\ d.userPars = x.userPars /\ d.totalPar = x.totalPar
        /\ CountInv(d) /\ UsersStay(first, d)
    BY <1>1, <1>2, CreateUserFacts, CreateUserKeepsRows, CreateUserKeepsCounts DEF Grows
  <1> HIDE DEF d
  <1>4. /\ e \in Store
        /\ e.values = d.values /\ e.amounts = d.amounts /\ e.userPars = d.userPars
        /\ e.positions = d.positions /\ e.accounts = d.accounts
        /\ e.totalPar = d.totalPar /\ e.userCount = d.userCount
        /\ e.borrowPositionCount = d.borrowPositionCount
        /\ \A u \in Owners :
             /\ e.users[u].stored = d.users[u].stored
             /\ e.users[u].totalBorrowPositionCount = d.users[u].totalBorrowPositionCount
        /\ \A u \in Owners : u # vault => e.users[u] = d.users[u]
        /\ e.users[vault].effectiveUser = account
    <2> DEFINE row == [d.users[vault] EXCEPT !.effectiveUser = account, !.isEffectiveUser = FALSE]
    <2>1. d.users \in [Owners -> UserRow] /\ d.users[vault] \in UserRow
      BY <1>1, <1>3 DEF Store
    <2>2. /\ row \in UserRow /\ row.stored = d.users[vault].stored
          /\ row.effectiveUser = account
          /\ row.totalBorrowPositionCount = d.users[vault].totalBorrowPositionCount
      BY <1>1, <2>1 DEF UserRow
    <2>3. e = [d EXCEPT !.users[vault] = row]
      BY <1>1, <1>3, <2>1 DEF Store, UserRow
    <2> HIDE DEF row, e
    <2>4. /\ e.users = [d.users EXCEPT ![vault] = row]
          /\ e.values = d.values /\ e.amounts = d.amounts /\ e.userPars = d.userPars
          /\ e.positions = d.positions /\ e.accounts = d.accounts
          /\ e.totalPar = d.totalPar /\ e.userCount = d.userCount
          /\ e.borrowPositionCount = d.borrowPositionCount
      BY <1>3, <2>3 DEF Store
    <2>5. e \in Store
      BY <1>1, <1>3, <2>1, <2>2, <2>3 DEF Store
    <2> QED BY <1>1, <2>1, <2>2, <2>4, <2>5
  <1> HIDE DEF e
  <1>5. AccountInv(e)
    BY <1>3, <1>4 DEF LedgerInv, AccountInv, FreshAccountsIn, ListsTrackBalancesIn,
                      ExpirationsListedIn, ParOf
  <1>6. PositionInv(e)
    BY <1>3, <1>4 DEF LedgerInv, PositionInv, PositionListsAmountsIn, AmountsMirrorBalancesIn,
                      StatusTracksAmountsIn, HeldTokensAreListedIn, ParOf
  <1>7. RowInv(e)
    <2>1. NoDeadRowsIn(d) /\ EffectiveUsersResolveIn(d) /\ OnlyVaultsBoundIn(d)
      BY <1>3 DEF RowInv
    <2>2. /\ \A u \in Owners : d.users[u].effectiveUser \in Owners
          /\ \A b \in Accounts : d.accounts[b].effectiveUser \in Owners /\ OwnerOf[b] \in Owners
      BY <1>3, OwnerOfAssumption DEF Store, UserRow, AccountRow
    <2>3. d.users[account].effectiveUser = account
      BY <1>1, <2>1 DEF OnlyVaultsBoundIn
    <2>4. \A u \in Owners : u # vault => d.users[u].effectiveUser # vault
      BY <1>1, <2>1 DEF OnlyVaultsBoundIn
    <2>5. NoDeadRowsIn(e)
      BY <1>4, <2>1 DEF NoDeadRowsIn
    <2>6. EffectiveUsersResolveIn(e)
      <3>1. \A u \in Owners : e.users[u].stored =>
              LET w == e.users[u].effectiveUser IN
                e.users[w].stored /\ e.users[w].effectiveUser = w
        BY <1>1, <1>3, <1>4, <2>1, <2>2, <2>3, <2>4 DEF EffectiveUsersResolveIn
      <3>2. \A b \in Accounts : e.accounts[b].stored =>
              /\ e.users[OwnerOf[b]].stored
              /\ e.users[e.accounts[b].effectiveUser].stored
        BY <1>4, <2>1, <2>2 DEF EffectiveUsersResolveIn
      <3> QED BY <3>1, <3>2 DEF EffectiveUsersResolveIn
    <2>7. OnlyVaultsBoundIn(e)
      BY <1>1, <1>4, <2>1 DEF OnlyVaultsBoundIn
    <2> QED BY <2>5, <2>6, <2>7 DEF RowInv
  <1>8. SumInv(e)
    BY <1>3, <1>4, SumsKept DEF LedgerInv, ParOf
  <1>9. CountInv(e)
    <2>1. Grows(d, e)
      BY <1>1, <1>3, <1>4 DEF Grows, UsersStay
    <2>2. e.userCount <= Cardinality(StoredUsers(d))
      BY <1>3, <1>4 DEF CountInv, UsersCountedIn
    <2> QED BY <1>3, <1>4, <2>1, <2>2, CountsKept
  <1>10. UsersStay(x, e)
    <2>1. UsersStay(d, e)
      BY <1>1, <1>3, <1>4 DEF UsersStay
    <2> QED BY <1>2, <1>3, <2>1 DEF UsersStay
  <1> QED BY <1>0, <1>4, <1>5, <1>6, <1>7, <1>8, <1>9, <1>10 DEF LedgerInv

-----------------------------------------------------------------------------
(* Theorems                                                                *)

\* The pars an event may carry are integers.
LEMMA ParTypes ==
  /\ Pars \subseteq Int
  /\ \A p \in Int : Ups(p) \subseteq Int /\ Downs(p) \subseteq Int /\ p .. 0 \subseteq Int
  /\ \A d \in Store, a \in Accounts, t \in Tokens : ParOf(d, a, t) \in Int
  <1>1. \A d \in Store, a \in Accounts, t \in Tokens : ParOf(d, a, t) \in Int
    BY DEF ParOf, Store, ValueRow
  <1>2. Pars \subseteq Int /\ \A p \in Int : Ups(p) \subseteq Int /\ Downs(p) \subseteq Int
                                             /\ p .. 0 \subseteq Int
    BY BoundsAssumption DEF Pars, Ups, Downs
  <1> QED BY <1>1, <1>2

LEMMA NextKeeps ==
  ASSUME LedgerInv(db), [Next]_db
  PROVE  LedgerInv(db')
  <1>0. db \in Store
    BY DEF LedgerInv
  <1>1. ASSUME NEW a \in Accounts, NEW t \in Tokens, LogDeposit(a, t)
        PROVE  LedgerInv(db')
    BY <1>0, <1>1, ParTypes, BalanceUpdateKeeps DEF LogDeposit, Step
  <1>2. ASSUME NEW a \in Accounts, NEW t \in Tokens, LogWithdraw(a, t)
        PROVE  LedgerInv(db')
    BY <1>0, <1>2, ParTypes, BalanceUpdateKeeps DEF LogWithdraw, Step
  <1>3. ASSUME NEW one \in Accounts, NEW two \in Accounts, NEW t \in Tokens,
               LogTransfer(one, two, t)
        PROVE  LedgerInv(db')
    BY <1>3, ParTypes, BalanceUpdateKeeps DEF LogTransfer, Step
  <1>4. ASSUME NEW a \in Accounts, NEW input \in Tokens, NEW output \in Tokens,
               LogSell(a, input, output)
        PROVE  LedgerInv(db')
    <2>1. PICK inputPar \in Int, outputPar \in Int :
            db' = SavedStaleMargin(db, BothUpdates(db, a, input, output, inputPar, outputPar))
      BY <1>0, <1>4, ParTypes DEF LogSell, Step
    <2> QED BY <1>0, <2>1, BothUpdatesKeep, SavedStaleMarginKeeps
  <1>5. ASSUME NEW taker \in Accounts, NEW maker \in Accounts,
               NEW input \in Tokens, NEW output \in Tokens,
               LogTrade(taker, maker, input, output)
        PROVE  LedgerInv(db')
    <2>1. PICK takerIn \in Int, takerOut \in Int, makerIn \in Int, makerOut \in Int :
            db' = SavedStaleMargin(db,
                    BothUpdates(BothUpdates(db, taker, input, output, takerIn, takerOut),
                                maker, input, output, makerIn, makerOut))
      BY <1>5, ParTypes DEF LogTrade, Step
    <2> DEFINE d == BothUpdates(db, taker, input, output, takerIn, takerOut)
               e == BothUpdates(d, maker, input, output, makerIn, makerOut)
    <2>2. LedgerInv(d) /\ Grows(db, d)
      BY BothUpdatesKeep
    <2> HIDE DEF d
    <2>3. LedgerInv(e) /\ Grows(d, e)
      BY <2>2, BothUpdatesKeep
    <2> HIDE DEF e
    <2>4. Grows(db, e)
      BY <2>2, <2>3 DEF Grows, UsersStay
    <2>5. db' = SavedStaleMargin(db, e)
      BY <2>1 DEF d, e
    <2> QED BY <2>3, <2>4, <2>5, SavedStaleMarginKeeps
  <1>6. ASSUME NEW solid \in Accounts, NEW liquid \in Accounts,
               NEW held \in Tokens, NEW owed \in Tokens,
               LogLiquidate(solid, liquid, held, owed)
        PROVE  LedgerInv(db')
    <2>1. PICK liquidHeld \in Int, liquidOwed \in Int, solidHeld \in Int, solidOwed \in Int :
            db' = BothUpdates(BothUpdates(db, liquid, held, owed, liquidHeld, liquidOwed),
                              solid, held, owed, solidHeld, solidOwed)
      <3>1. /\ \A p \in 0 .. ParOf(db, liquid, held) : p \in Int
            /\ \A p \in ParOf(db, liquid, owed) .. 0 : p \in Int
        OBVIOUS
      <3> QED BY <1>0, <1>6, <3>1, ParTypes DEF LogLiquidate, Step
    <2>2. LedgerInv(BothUpdates(db, liquid, held, owed, liquidHeld, liquidOwed))
      BY BothUpdatesKeep
    <2> QED BY <2>1, <2>2, BothUpdatesKeep
  <1>7. ASSUME NEW solid \in Accounts, NEW vapor \in Accounts,
               NEW held \in Tokens, NEW owed \in Tokens,
               LogVaporize(solid, vapor, held, owed)
        PROVE  LedgerInv(db')
    <2>1. PICK vaporOwed \in Int, solidHeld \in Int, solidOwed \in Int :
            db' = BothUpdates(BalanceUpdate(db, vapor, owed, vaporOwed),
                              solid, held, owed, solidHeld, solidOwed)
      BY <1>0, <1>7, ParTypes DEF LogVaporize, Step
    <2>2. LedgerInv(BalanceUpdate(db, vapor, owed, vaporOwed))
      BY BalanceUpdateKeeps
    <2> QED BY <2>1, <2>2, BothUpdatesKeep
  <1>8. ASSUME NEW a \in Accounts, BorrowPositionOpen(a)
        PROVE  LedgerInv(db')
    BY <1>8, PositionOpenedKeeps DEF BorrowPositionOpen, Step
  <1>9. ASSUME NEW a \in Accounts, NEW t \in Tokens, NEW time \in Times \union {NoTime},
               NEW positionExpired \in BOOLEAN, ExpirySet(a, t, time, positionExpired)
        PROVE  LedgerInv(db')
    BY <1>9, ExpirySavedKeeps DEF ExpirySet, Step
  <1>10. ASSUME NEW vault \in Owners, NEW account \in Owners, VaultCreated(vault, account)
         PROVE  LedgerInv(db')
    BY <1>10, VaultBoundKeeps DEF VaultCreated, Step
  <1>11. CASE UNCHANGED db
    BY <1>11
  <1> QED BY <1>1, <1>2, <1>3, <1>4, <1>5, <1>6, <1>7, <1>8, <1>9, <1>10, <1>11 DEF Next, AccountEvent

\* The conjunction of everything proved here is inductive.
THEOREM LedgerInvariant == Spec => []LedgerInv(db)
  <1>1. Init => LedgerInv(db)
    BY InitHolds DEF Init
  <1>2. LedgerInv(db) /\ [Next]_db => LedgerInv(db)'
    BY NextKeeps
  <1> QED BY <1>1, <1>2, PTL DEF Spec

\* Whatever the events report, every handler leaves well-typed rows behind.
THEOREM TypeCorrect == Spec => []TypeOK
  <1>1. LedgerInv(db) => TypeOK
    BY DEF LedgerInv, TypeOK
  <1> QED BY <1>1, LedgerInvariant, PTL

\* helpers/margin.ts:382-404: the token arrays of an account list exactly its
\* negative and its positive balances, once each.
THEOREM AccountListsCorrect == Spec => []AccountListsTrackBalances
  <1>1. LedgerInv(db) => AccountListsTrackBalances
    BY DEF LedgerInv, AccountInv, AccountListsTrackBalances
  <1> QED BY <1>1, LedgerInvariant, PTL

\* The expiration list of an account and the expirations of its rows agree, also
\* across balance updates that delete and recreate rows.
THEOREM ExpirationListsCorrect == Spec => []ExpirationsListed
  <1>1. LedgerInv(db) => ExpirationsListed
    BY DEF LedgerInv, AccountInv, ExpirationsListed
  <1> QED BY <1>1, LedgerInvariant, PTL

\* No empty balance row survives, and none outlives its account or user.
THEOREM RowsAlive == Spec => []NoDeadRows
  <1>1. LedgerInv(db) => NoDeadRows
    BY DEF LedgerInv, RowInv, NoDeadRows
  <1> QED BY <1>1, LedgerInvariant, PTL

\* The one effectiveUser hop the helpers follow never fails a getOrThrow.
THEOREM EffectiveUsersCorrect == Spec => []EffectiveUsersResolve
  <1>1. LedgerInv(db) => EffectiveUsersResolve
    BY DEF LedgerInv, RowInv, EffectiveUsersResolve
  <1> QED BY <1>1, LedgerInvariant, PTL

\* The amounts and allTokens arrays of a borrow position list its non-zero
\* amounts, once each.
THEOREM PositionAmountsCorrect == Spec => []PositionListsAmounts
  <1>1. LedgerInv(db) => PositionListsAmounts
    BY DEF LedgerInv, PositionInv, PositionListsAmounts
  <1> QED BY <1>1, LedgerInvariant, PTL

\* The amounts of a borrow position are the balances of its account, whatever
\* the order of deposits, trades, transfers, liquidations and sign changes.
THEOREM AmountsMirrorCorrect == Spec => []AmountsMirrorBalances
  <1>1. LedgerInv(db) => AmountsMirrorBalances
    BY DEF LedgerInv, PositionInv, AmountsMirrorBalances
  <1> QED BY <1>1, LedgerInvariant, PTL

\* A position is closed exactly while it has been touched and holds nothing.
THEOREM PositionStatusCorrect == Spec => []StatusTracksAmounts
  <1>1. LedgerInv(db) => StatusTracksAmounts
    BY DEF LedgerInv, PositionInv, StatusTracksAmounts
  <1> QED BY <1>1, LedgerInvariant, PTL

\* A held token is on a sign list, and sign lists stay within the effective ones.
THEOREM HeldTokensCorrect == Spec => []HeldTokensAreListed
  <1>1. LedgerInv(db) => HeldTokensAreListed
    BY DEF LedgerInv, PositionInv, HeldTokensAreListed
  <1> QED BY <1>1, LedgerInvariant, PTL

\* handleTotalParChange: however many accounts there are and whatever crosses
\* zero, each TotalPar row is the sum of the balances of its sign.
THEOREM TotalParCorrect == Spec => []TotalParIsSum
  <1>1. LedgerInv(db) => TotalParIsSum
    BY DEF LedgerInv, SumInv, TotalParIsSum
  <1> QED BY <1>1, LedgerInvariant, PTL

\* The delta arithmetic of helpers/margin.ts:432-457 keeps each user's row the
\* sum over the accounts bound to that user, also when a delta crosses zero.
THEOREM UserParCorrect == Spec => []UserParIsSum
  <1>1. LedgerInv(db) => UserParIsSum
    BY DEF LedgerInv, SumInv, UserParIsSum
  <1> QED BY <1>1, LedgerInvariant, PTL

\* DolomiteMargin and the users count every opened position once, also across
\* the trades that save the DolomiteMargin row they loaded first.
THEOREM PositionCountsCorrect == Spec => []PositionCountsExact
  <1>1. LedgerInv(db) => PositionCountsExact
    BY DEF LedgerInv, CountInv, PositionCountsExact
  <1> QED BY <1>1, LedgerInvariant, PTL

\* A trade may lose the count of a user it created, but no user is counted twice.
THEOREM UsersCountedCorrect == Spec => []UsersCountedAtMostOnce
  <1>1. LedgerInv(db) => UsersCountedAtMostOnce
    BY DEF LedgerInv, CountInv, UsersCountedAtMostOnce
  <1> QED BY <1>1, LedgerInvariant, PTL

-----------------------------------------------------------------------------
(* The book of an account                                                  *)

\* The book of the watched account in the store d.
ParView(d) == [t \in Tokens |-> ParOf(d, Watched, t)]
ExpiryView(d) == [t \in Tokens |-> d.values[Watched][t].expiration]
OpenView(d) == d.positions[Watched].status # "NONE"

SameRest(d, e) == ExpiryView(e) = ExpiryView(d) /\ OpenView(e) = OpenView(d)

\* A balance update writes one balance row.
LEMMA BookValues ==
  ASSUME NEW d \in Store, NEW a \in Accounts, NEW t \in Tokens, NEW p \in Int,
         NEW b \in Accounts, NEW s \in Tokens, b # a \/ s # t
  PROVE  BookBalance(d, a, t, p).values[b][s] = d.values[b][s]
  <1> DEFINE value == SavedValue([d.values[a][t] EXCEPT !.valuePar = p])
  <1>1. BookBalance(d, a, t, p).values = [d.values EXCEPT ![a] = [@ EXCEPT ![t] = value]]
    BY DEF BookBalance, Store
  <1>2. d.values \in [Accounts -> [Tokens -> ValueRow]]
    BY DEF Store
  <1> HIDE DEF value
  <1> QED BY <1>1, <1>2

\* A balance update writes one par, of the account it names, and no more of the
\* book: it keeps the expiration of the row, and reopens or closes a position
\* but never creates one.
LEMMA BalanceUpdateView ==
  ASSUME NEW d \in Store, NEW a \in Accounts, NEW t \in Tokens, NEW p \in Int
  PROVE  LET e == BalanceUpdate(d, a, t, p) IN
           /\ e \in Store
           /\ SameRest(d, e)
           /\ ParView(e) = IF a = Watched THEN [ParView(d) EXCEPT ![t] = p] ELSE ParView(d)
  <1> DEFINE c == GetOrCreateMarginAccount(d, a)
             f == BookBalance(c, a, t, p)
             e == UpdateBorrowPosition(f, a, t, p)
  <1>1. c \in Store /\ c.values = d.values /\ c.positions = d.positions
    BY GetAccountFacts
  <1> HIDE DEF c
  <1>2. /\ f \in Store /\ f.positions = c.positions
        /\ \A b \in Accounts, s \in Tokens : b # a \/ s # t => f.values[b][s] = c.values[b][s]
        /\ f.values[a][t].valuePar = p
        /\ f.values[a][t].expiration = c.values[a][t].expiration
    <2>1. c.values[a][t] \in ValueRow
      BY <1>1 DEF Store
    <2>2. f.values[a][t] = SavedValue([c.values[a][t] EXCEPT !.valuePar = p])
      BY <1>1, BookFacts
    <2>3. f.values[a][t].valuePar = p /\ f.values[a][t].expiration = c.values[a][t].expiration
      BY <2>1, <2>2, SavedValueKeeps
    <2>c. c \in Store
      BY <1>1
    <2>4. f \in Store /\ f.positions = c.positions
      BY <2>c, BookFacts, ZenonT(40)
    <2>5. \A b \in Accounts, s \in Tokens : b # a \/ s # t => f.values[b][s] = c.values[b][s]
      BY <2>c, BookValues
    <2> QED BY <2>3, <2>4, <2>5
  <1> HIDE DEF f
  <1>3. /\ e \in Store /\ e.values = f.values
        /\ \A b \in Accounts : b # a => e.positions[b] = f.positions[b]
        /\ (e.positions[a].status = "NONE") <=> (f.positions[a].status = "NONE")
    <2> DEFINE lists == ListsAfter(f.positions[a], t, f.amounts[a][t].amountPar, p)
    <2>1. f.positions[a] \in PositionRow /\ f.amounts[a][t].amountPar \in Int
      BY <1>2 DEF Store, AmountRow
    <2>2. lists \in PositionRow /\ lists.status = f.positions[a].status
      BY <2>1, ListsAfterType
    <2> HIDE DEF lists
    <2>3. (StatusAfter(f.positions[a], lists).status = "NONE") => lists.status = "NONE"
      BY <2>2 DEF StatusAfter, PositionRow
    <2> QED BY <1>2, <2>2, <2>3, UpdatePositionFacts DEF lists
  <1>4. BalanceUpdate(d, a, t, p) = e
    BY DEF BalanceUpdate, c, f
  <1> HIDE DEF e
  <1>5. OpenView(e) = OpenView(d)
    BY <1>1, <1>2, <1>3, WatchedAssumption DEF OpenView
  <1>6. \A s \in Tokens : e.values[Watched][s].expiration = d.values[Watched][s].expiration
    BY <1>1, <1>2, <1>3, WatchedAssumption
  <1>7. \A s \in Tokens : e.values[Watched][s].valuePar
                            = IF a = Watched /\ s = t THEN p ELSE d.values[Watched][s].valuePar
    BY <1>1, <1>2, <1>3, WatchedAssumption
  <1>8. ExpiryView(e) = ExpiryView(d)
    BY <1>6 DEF ExpiryView
  <1>9. ParView(e) = IF a = Watched THEN [ParView(d) EXCEPT ![t] = p] ELSE ParView(d)
    BY <1>7 DEF ParView, ParOf
  <1> QED BY <1>3, <1>4, <1>5, <1>8, <1>9 DEF SameRest

LEMMA BothUpdatesView ==
  ASSUME NEW d \in Store, NEW a \in Accounts, NEW input \in Tokens, NEW output \in Tokens,
         NEW p \in Int, NEW q \in Int
  PROVE  LET e == BothUpdates(d, a, input, output, p, q) IN
           /\ e \in Store
           /\ SameRest(d, e)
           /\ ParView(e) = IF a = Watched THEN [ParView(d) EXCEPT ![input] = p, ![output] = q]
                           ELSE ParView(d)
  <1> DEFINE f == BalanceUpdate(d, a, input, p)
             e == BalanceUpdate(f, a, output, q)
  <1>1. /\ f \in Store /\ SameRest(d, f)
        /\ ParView(f) = IF a = Watched THEN [ParView(d) EXCEPT ![input] = p] ELSE ParView(d)
    BY BalanceUpdateView
  <1> HIDE DEF f
  <1>2. /\ e \in Store /\ SameRest(f, e)
        /\ ParView(e) = IF a = Watched THEN [ParView(f) EXCEPT ![output] = q] ELSE ParView(f)
    <2>1. f \in Store
      BY <1>1
    <2> QED BY <2>1, BalanceUpdateView
  <1> HIDE DEF e
  <1>3. SameRest(d, e)
    BY <1>1, <1>2 DEF SameRest
  <1> QED BY <1>1, <1>2, <1>3 DEF BothUpdates, f, e

LEMMA SavedStaleMarginView ==
  ASSUME NEW d \in Store, NEW loaded \in Store
  PROVE  LET e == SavedStaleMargin(loaded, d) IN
           SameRest(d, e) /\ ParView(e) = ParView(d)
  <1>1. /\ SavedStaleMargin(loaded, d).values = d.values
        /\ SavedStaleMargin(loaded, d).positions = d.positions
    BY DEF SavedStaleMargin, Store
  <1> QED BY <1>1 DEF SameRest, ParView, ExpiryView, OpenView, ParOf

-----------------------------------------------------------------------------
(* Steps                                                                   *)

\* The watched account sees nothing of the step.
Unseen == SameRest(db, db') /\ ParView(db') = ParView(db)

LEMMA UnseenStutters == Unseen => UNCHANGED Book!book
  BY DEF Unseen, SameRest, ParView, ExpiryView, OpenView, Book!book

\* One of its pars moves.
LEMMA OneMoves ==
  ASSUME NEW t \in Tokens, NEW p, SameRest(db, db'),
         ParView(db') = [ParView(db) EXCEPT ![t] = p]
  PROVE  Book!Move(t, p)
  BY DEF Book!Move, SameRest, ParView, ExpiryView, OpenView

\* Two of its pars move.
LEMMA TwoMove ==
  ASSUME NEW s \in Tokens, NEW t \in Tokens, NEW p, NEW q, SameRest(db, db'),
         ParView(db') = [ParView(db) EXCEPT ![s] = p, ![t] = q]
  PROVE  Book!MoveBoth(s, t, p, q)
  BY DEF Book!MoveBoth, SameRest, ParView, ExpiryView, OpenView

\* The sides of a trade go opposite ways, so one token is given for the other.
LEMMA TradeMoves ==
  ASSUME db \in Store, NEW s \in Tokens, NEW t \in Tokens, NEW p \in Pars, NEW q \in Pars, s # t,
         SameRest(db, db'), ParView(db') = [ParView(db) EXCEPT ![s] = p, ![t] = q],
         Opposite(ParOf(db, Watched, s), p, ParOf(db, Watched, t), q)
  PROVE  Book!Trade(s, t) \/ Book!Trade(t, s)
  <1>0. /\ ParOf(db, Watched, s) \in Int /\ ParOf(db, Watched, t) \in Int
        /\ MaxPar \in Nat
    BY ParTypes, WatchedAssumption, BoundsAssumption
  <1>1. CASE p <= ParOf(db, Watched, s) /\ q >= ParOf(db, Watched, t)
    <2>1. Book!MoveBoth(s, t, p, q)
      BY TwoMove
    <2>2. p \in Book!Downs(ParOf(db, Watched, s)) /\ q \in Book!Ups(ParOf(db, Watched, t))
      BY <1>0, <1>1 DEF Book!Downs, Book!Ups, Pars
    <2> QED BY <2>1, <2>2 DEF Book!Trade
  <1>2. CASE p >= ParOf(db, Watched, s) /\ q <= ParOf(db, Watched, t)
    <2>1. ParView(db') = [ParView(db) EXCEPT ![t] = q, ![s] = p]
      BY DEF ParView
    <2>2. Book!MoveBoth(t, s, q, p)
      BY <2>1, TwoMove
    <2>3. q \in Book!Downs(ParOf(db, Watched, t)) /\ p \in Book!Ups(ParOf(db, Watched, s))
      BY <1>0, <1>2 DEF Book!Downs, Book!Ups, Pars
    <2> QED BY <2>2, <2>3 DEF Book!Trade
  <1> QED BY <1>1, <1>2 DEF Opposite

BookStep == Book!Next \/ UNCHANGED Book!book

\* The two balance updates of one account, alone or after another account's.
LEMMA SellRefines ==
  ASSUME db \in Store, NEW a \in Accounts, NEW input \in Tokens, NEW output \in Tokens,
         LogSell(a, input, output)
  PROVE  BookStep
  <1>1. PICK p \in Downs(ParOf(db, a, input)), q \in Ups(ParOf(db, a, output)) :
          db' = SavedStaleMargin(db, BothUpdates(db, a, input, output, p, q))
    BY DEF LogSell, Step
  <1>2. p \in Int /\ q \in Int /\ ParOf(db, a, input) \in Int /\ ParOf(db, a, output) \in Int
    BY ParTypes
  <1> DEFINE e == BothUpdates(db, a, input, output, p, q)
  <1>3. /\ e \in Store /\ SameRest(db, e)
        /\ ParView(e) = IF a = Watched THEN [ParView(db) EXCEPT ![input] = p, ![output] = q]
                        ELSE ParView(db)
    BY <1>2, BothUpdatesView
  <1> HIDE DEF e
  <1>4. SameRest(e, db') /\ ParView(db') = ParView(e)
    BY <1>1, <1>3, SavedStaleMarginView DEF e
  <1>5. SameRest(db, db')
    BY <1>3, <1>4 DEF SameRest
  <1>6. CASE a = Watched
    <2>1. Book!MoveBoth(input, output, p, q)
      BY <1>3, <1>4, <1>5, <1>6, TwoMove
    <2>2. p \in Book!Downs(ParOf(db, Watched, input)) /\ q \in Book!Ups(ParOf(db, Watched, output))
      BY <1>6 DEF Downs, Ups, Book!Downs, Book!Ups
    <2>3. Book!Trade(input, output)
      BY <2>1, <2>2 DEF Book!Trade, LogSell
    <2> QED BY <2>3 DEF BookStep, Book!Next
  <1>7. CASE a # Watched
    <2>1. Unseen
      BY <1>3, <1>4, <1>5, <1>7 DEF Unseen
    <2> QED BY <2>1, UnseenStutters DEF BookStep
  <1> QED BY <1>6, <1>7

LEMMA TradeRefines ==
  ASSUME db \in Store, NEW taker \in Accounts, NEW maker \in Accounts,
         NEW input \in Tokens, NEW output \in Tokens, LogTrade(taker, maker, input, output)
  PROVE  BookStep
  <1>1. PICK takerIn \in Pars, takerOut \in Pars, makerIn \in Pars, makerOut \in Pars :
          /\ Opposite(ParOf(db, taker, input), takerIn, ParOf(db, taker, output), takerOut)
          /\ Opposite(ParOf(db, maker, input), makerIn, ParOf(db, maker, output), makerOut)
          /\ db' = SavedStaleMargin(db,
                     BothUpdates(BothUpdates(db, taker, input, output, takerIn, takerOut),
                                 maker, input, output, makerIn, makerOut))
    BY DEF LogTrade, Step
  <1>2. takerIn \in Int /\ takerOut \in Int /\ makerIn \in Int /\ makerOut \in Int
    BY ParTypes
  <1> DEFINE e == BothUpdates(db, taker, input, output, takerIn, takerOut)
             f == BothUpdates(e, maker, input, output, makerIn, makerOut)
  <1>3. /\ e \in Store /\ SameRest(db, e)
        /\ ParView(e) = IF taker = Watched
                        THEN [ParView(db) EXCEPT ![input] = takerIn, ![output] = takerOut]
                        ELSE ParView(db)
    BY <1>2, BothUpdatesView
  <1> HIDE DEF e
  <1>4. e \in Store
    BY <1>3
  <1>5. /\ f \in Store /\ SameRest(e, f)
        /\ ParView(f) = IF maker = Watched
                        THEN [ParView(e) EXCEPT ![input] = makerIn, ![output] = makerOut]
                        ELSE ParView(e)
    BY <1>2, <1>4, BothUpdatesView
  <1> HIDE DEF f
  <1>6. f \in Store /\ db' = SavedStaleMargin(db, f)
    BY <1>1, <1>5 DEF e, f
  <1>7. SameRest(f, db') /\ ParView(db') = ParView(f)
    BY <1>6, SavedStaleMarginView
  <1>8. SameRest(db, db') /\ taker # maker /\ input # output
    BY <1>3, <1>5, <1>7 DEF SameRest, LogTrade
  <1>9. CASE taker = Watched
    <2>1. ParView(db') = [ParView(db) EXCEPT ![input] = takerIn, ![output] = takerOut]
      BY <1>3, <1>5, <1>7, <1>8, <1>9
    <2>2. Opposite(ParOf(db, Watched, input), takerIn, ParOf(db, Watched, output), takerOut)
      BY <1>1, <1>9
    <2> QED BY <1>8, <2>1, <2>2, TradeMoves DEF BookStep, Book!Next
  <1>10. CASE maker = Watched
    <2>1. ParView(db') = [ParView(db) EXCEPT ![input] = makerIn, ![output] = makerOut]
      BY <1>3, <1>5, <1>7, <1>8, <1>10
    <2>2. Opposite(ParOf(db, Watched, input), makerIn, ParOf(db, Watched, output), makerOut)
      BY <1>1, <1>10
    <2> QED BY <1>8, <2>1, <2>2, TradeMoves DEF BookStep, Book!Next
  <1>11. CASE taker # Watched /\ maker # Watched
    <2>1. Unseen
      BY <1>3, <1>5, <1>7, <1>8, <1>11 DEF Unseen
    <2> QED BY <2>1, UnseenStutters DEF BookStep
  <1> QED BY <1>9, <1>10, <1>11

\* The solid account gives what it gets held collateral for: a trade.
LEMMA SolidRefines ==
  ASSUME db \in Store, NEW e \in Store, NEW solid \in Accounts, NEW held \in Tokens, NEW owed \in Tokens,
         NEW p \in Ups(ParOf(db, solid, held)), NEW q \in Downs(ParOf(db, solid, owed)),
         held # owed, SameRest(db, e), ParView(e) = ParView(db),
         db' = BothUpdates(e, solid, held, owed, p, q)
  PROVE  BookStep
  <1>1. p \in Int /\ q \in Int /\ ParOf(db, solid, held) \in Int /\ ParOf(db, solid, owed) \in Int
    BY ParTypes
  <1> DEFINE f == BothUpdates(e, solid, held, owed, p, q)
  <1>2. /\ SameRest(e, f)
        /\ ParView(f) = IF solid = Watched THEN [ParView(e) EXCEPT ![held] = p, ![owed] = q]
                        ELSE ParView(e)
    BY <1>1, BothUpdatesView
  <1> HIDE DEF f
  <1>3. SameRest(db, db') /\ ParView(db') = ParView(f)
    BY <1>2 DEF SameRest, f
  <1>4. CASE solid = Watched
    <2>1. ParView(db') = [ParView(db) EXCEPT ![owed] = q, ![held] = p]
      BY <1>2, <1>3, <1>4 DEF ParView
    <2>2. Book!MoveBoth(owed, held, q, p)
      BY <1>3, <2>1, TwoMove
    <2>3. q \in Book!Downs(ParOf(db, Watched, owed)) /\ p \in Book!Ups(ParOf(db, Watched, held))
      BY <1>4 DEF Downs, Ups, Book!Downs, Book!Ups
    <2>4. Book!Trade(owed, held)
      BY <2>2, <2>3 DEF Book!Trade
    <2> QED BY <2>4 DEF BookStep, Book!Next
  <1>5. CASE solid # Watched
    <2>1. Unseen
      BY <1>2, <1>3, <1>5 DEF Unseen
    <2> QED BY <2>1, UnseenStutters DEF BookStep
  <1> QED BY <1>4, <1>5

LEMMA LiquidateRefines ==
  ASSUME db \in Store, NEW solid \in Accounts, NEW liquid \in Accounts,
         NEW held \in Tokens, NEW owed \in Tokens, LogLiquidate(solid, liquid, held, owed)
  PROVE  BookStep
  <1>1. PICK lh \in 0 .. ParOf(db, liquid, held), lo \in ParOf(db, liquid, owed) .. 0,
             sh \in Ups(ParOf(db, solid, held)), so \in Downs(ParOf(db, solid, owed)) :
          db' = BothUpdates(BothUpdates(db, liquid, held, owed, lh, lo), solid, held, owed, sh, so)
    BY DEF LogLiquidate, Step
  <1>2. lh \in Int /\ lo \in Int /\ sh \in Int /\ so \in Int
    BY ParTypes
  <1> DEFINE e == BothUpdates(db, liquid, held, owed, lh, lo)
  <1>3. /\ e \in Store /\ SameRest(db, e)
        /\ ParView(e) = IF liquid = Watched THEN [ParView(db) EXCEPT ![held] = lh, ![owed] = lo]
                        ELSE ParView(db)
    BY <1>2, BothUpdatesView
  <1>4. db' = BothUpdates(e, solid, held, owed, sh, so)
    BY <1>1
  <1> HIDE DEF e
  <1>5. e \in Store /\ SameRest(db, e) /\ solid # liquid /\ held # owed
    BY <1>3 DEF LogLiquidate
  <1>6. CASE liquid = Watched
    <2> DEFINE f == BothUpdates(e, solid, held, owed, sh, so)
    <2>1. SameRest(e, f) /\ ParView(f) = ParView(e)
      BY <1>2, <1>5, <1>6, BothUpdatesView
    <2> HIDE DEF f
    <2>2. SameRest(db, db') /\ ParView(db') = [ParView(db) EXCEPT ![held] = lh, ![owed] = lo]
      BY <1>3, <1>4, <1>6, <2>1 DEF SameRest, f
    <2>3. Book!MoveBoth(held, owed, lh, lo)
      BY <2>2, TwoMove
    <2>4. /\ ParOf(db, Watched, held) > 0 /\ ParOf(db, Watched, owed) < 0
          /\ lh \in 0 .. ParOf(db, Watched, held) /\ lo \in ParOf(db, Watched, owed) .. 0
      BY <1>6 DEF LogLiquidate
    <2>5. Book!Liquidate(held, owed)
      BY <2>3, <2>4 DEF Book!Liquidate
    <2> QED BY <2>5 DEF BookStep, Book!Next
  <1>7. CASE liquid # Watched
    BY <1>3, <1>4, <1>5, <1>7, SolidRefines
  <1> QED BY <1>6, <1>7

LEMMA VaporizeRefines ==
  ASSUME db \in Store, NEW solid \in Accounts, NEW vapor \in Accounts,
         NEW held \in Tokens, NEW owed \in Tokens, LogVaporize(solid, vapor, held, owed)
  PROVE  BookStep
  <1>1. PICK vo \in ParOf(db, vapor, owed) .. 0,
             sh \in Ups(ParOf(db, solid, held)), so \in Downs(ParOf(db, solid, owed)) :
          db' = BothUpdates(BalanceUpdate(db, vapor, owed, vo), solid, held, owed, sh, so)
    BY DEF LogVaporize, Step
  <1>2. vo \in Int /\ sh \in Int /\ so \in Int
    BY ParTypes
  <1> DEFINE e == BalanceUpdate(db, vapor, owed, vo)
  <1>3. /\ e \in Store /\ SameRest(db, e)
        /\ ParView(e) = IF vapor = Watched THEN [ParView(db) EXCEPT ![owed] = vo] ELSE ParView(db)
    BY <1>2, BalanceUpdateView
  <1>4. db' = BothUpdates(e, solid, held, owed, sh, so)
    BY <1>1
  <1> HIDE DEF e
  <1>5. e \in Store /\ SameRest(db, e) /\ solid # vapor /\ held # owed
    BY <1>3 DEF LogVaporize
  <1>6. CASE vapor = Watched
    <2> DEFINE f == BothUpdates(e, solid, held, owed, sh, so)
    <2>1. SameRest(e, f) /\ ParView(f) = ParView(e)
      BY <1>2, <1>5, <1>6, BothUpdatesView
    <2> HIDE DEF f
    <2>2. SameRest(db, db') /\ ParView(db') = [ParView(db) EXCEPT ![owed] = vo]
      BY <1>3, <1>4, <1>6, <2>1 DEF SameRest, f
    <2>3. Book!Move(owed, vo)
      BY <2>2, OneMoves
    <2>4. ParOf(db, Watched, owed) < 0 /\ vo \in ParOf(db, Watched, owed) .. 0
      BY <1>6 DEF LogVaporize
    <2>5. Book!Vaporize(owed)
      BY <2>3, <2>4 DEF Book!Vaporize
    <2> QED BY <2>5 DEF BookStep, Book!Next
  <1>7. CASE vapor # Watched
    BY <1>3, <1>4, <1>5, <1>7, SolidRefines
  <1> QED BY <1>6, <1>7

\* One balance moves: deposits and withdrawals.
LEMMA UpdateRefines ==
  ASSUME db \in Store, NEW a \in Accounts, NEW t \in Tokens, NEW p \in Int,
         db' = BalanceUpdate(db, a, t, p)
  PROVE  \/ a = Watched /\ Book!Move(t, p)
         \/ UNCHANGED Book!book
  <1>1. /\ SameRest(db, db')
        /\ ParView(db') = IF a = Watched THEN [ParView(db) EXCEPT ![t] = p] ELSE ParView(db)
    BY BalanceUpdateView
  <1>2. CASE a = Watched
    BY <1>1, <1>2, OneMoves
  <1>3. CASE a # Watched
    BY <1>1, <1>3, UnseenStutters DEF Unseen
  <1> QED BY <1>2, <1>3

LEMMA TransferRefines ==
  ASSUME db \in Store, NEW one \in Accounts, NEW two \in Accounts, NEW t \in Tokens,
         LogTransfer(one, two, t)
  PROVE  BookStep
  <1>1. PICK p \in Pars, q \in Pars :
          db' = BalanceUpdate(BalanceUpdate(db, one, t, p), two, t, q)
    BY DEF LogTransfer, Step
  <1>2. p \in Int /\ q \in Int
    BY ParTypes
  <1> DEFINE e == BalanceUpdate(db, one, t, p)
             f == BalanceUpdate(e, two, t, q)
  <1>3. /\ e \in Store /\ SameRest(db, e)
        /\ ParView(e) = IF one = Watched THEN [ParView(db) EXCEPT ![t] = p] ELSE ParView(db)
    BY <1>2, BalanceUpdateView
  <1> HIDE DEF e
  <1>4. e \in Store
    BY <1>3
  <1>5. /\ SameRest(e, f)
        /\ ParView(f) = IF two = Watched THEN [ParView(e) EXCEPT ![t] = q] ELSE ParView(e)
    BY <1>2, <1>4, BalanceUpdateView
  <1>6. db' = f
    BY <1>1 DEF e
  <1> HIDE DEF f
  <1>7. SameRest(db, db')
    BY <1>3, <1>5, <1>6 DEF SameRest
  <1>8. Pars = Book!Pars
    BY DEF Pars, Book!Pars
  <1>9. CASE two = Watched
    <2>1. ParView(db') = [ParView(db) EXCEPT ![t] = q]
      BY <1>3, <1>5, <1>6, <1>9 DEF ParView
    <2> QED BY <1>7, <1>8, <2>1, OneMoves DEF BookStep, Book!Next, Book!Transfer
  <1>10. CASE two # Watched /\ one = Watched
    <2>1. ParView(db') = [ParView(db) EXCEPT ![t] = p]
      BY <1>3, <1>5, <1>6, <1>10
    <2> QED BY <1>7, <1>8, <2>1, OneMoves DEF BookStep, Book!Next, Book!Transfer
  <1>11. CASE two # Watched /\ one # Watched
    <2>1. Unseen
      BY <1>3, <1>5, <1>6, <1>7, <1>11 DEF Unseen
    <2> QED BY <2>1, UnseenStutters DEF BookStep
  <1> QED BY <1>9, <1>10, <1>11

LEMMA OpenRefines ==
  ASSUME LedgerInv(db), NEW a \in Accounts, BorrowPositionOpen(a)
  PROVE  BookStep
  <1> DEFINE d == CountPosition(GetOrCreateMarginAccount(db, a), OwnerOf[a])
             row == NewPosition(EffectiveUserOf(d, OwnerOf[a]))
  <1>1. /\ d \in Store /\ d.values = db.values /\ d.positions = db.positions
        /\ a \in BorrowAccounts /\ db.positions[a].status = "NONE"
        /\ db' = [d EXCEPT !.positions[a] = row, !.borrowPositionCount = @ + 1]
    BY OwnerOfAssumption, GetAccountFacts, CountPositionFacts
    DEF BorrowPositionOpen, PositionOpened, Step, LedgerInv
  <1>2. row.status = "OPEN"
    BY DEF NewPosition
  <1> HIDE DEF d, row
  <1>3. /\ db'.values = db.values
        /\ db'.positions = [db.positions EXCEPT ![a] = row]
        /\ db.positions \in [Accounts -> PositionRow]
    BY <1>1 DEF Store
  <1>4. ExpiryView(db') = ExpiryView(db) /\ ParView(db') = ParView(db)
    BY <1>3 DEF ExpiryView, ParView, ParOf
  <1>5. CASE a = Watched
    <2>1. Book!OpenBorrowPosition
      BY <1>1, <1>2, <1>3, <1>4, <1>5 DEF Book!OpenBorrowPosition, ExpiryView, ParView
    <2> QED BY <2>1 DEF BookStep, Book!Next
  <1>6. CASE a # Watched
    <2>1. OpenView(db') = OpenView(db)
      BY <1>3, <1>6, WatchedAssumption DEF OpenView
    <2> QED BY <1>4, <2>1, UnseenStutters DEF BookStep, Unseen, SameRest
  <1> QED BY <1>5, <1>6

LEMMA ExpiryRefines ==
  ASSUME LedgerInv(db), NEW a \in Accounts, NEW t \in Tokens,
         NEW time \in Times \union {NoTime}, NEW expired \in BOOLEAN,
         ExpirySet(a, t, time, expired)
  PROVE  BookStep
  <1> DEFINE d == GetOrCreateMarginAccount(db, a)
             value == SavedValue([d.values[a][t] EXCEPT !.expiration = time])
  <1>1. d \in Store /\ d.values = db.values /\ d.positions = db.positions
    BY GetAccountFacts DEF LedgerInv
  <1>2. value.expiration = time /\ value.valuePar = db.values[a][t].valuePar
    <2>1. d.values[a][t] \in ValueRow
      BY <1>1 DEF Store
    <2> QED BY <1>1, <2>1 DEF SavedValue, ValueRow, NoValue
  <1>3. /\ db'.values = [db.values EXCEPT ![a] = [@ EXCEPT ![t] = value]]
        /\ db'.positions = db.positions
    BY <1>1 DEF ExpirySet, ExpirySaved, Step, Store
  <1>4. db.values \in [Accounts -> [Tokens -> ValueRow]]
    BY DEF LedgerInv, Store
  <1> HIDE DEF d, value
  <1>5. OpenView(db') = OpenView(db) /\ ParView(db') = ParView(db)
    BY <1>2, <1>3, <1>4, WatchedAssumption DEF OpenView, ParView, ParOf
  <1>6. CASE a = Watched
    <2>1. ExpiryView(db') = [ExpiryView(db) EXCEPT ![t] = time]
      BY <1>2, <1>3, <1>4, <1>6 DEF ExpiryView
    <2>2. Book!SetExpiry(t, time)
      BY <1>5, <2>1 DEF Book!SetExpiry, ParView, ExpiryView, OpenView
    <2> QED BY <2>2 DEF BookStep, Book!Next
  <1>7. CASE a # Watched
    <2>1. ExpiryView(db') = ExpiryView(db)
      BY <1>3, <1>4, <1>7, WatchedAssumption DEF ExpiryView
    <2> QED BY <1>5, <2>1, UnseenStutters DEF BookStep, Unseen, SameRest
  <1> QED BY <1>6, <1>7

\* Binding a vault touches users only.
LEMMA VaultRefines ==
  ASSUME LedgerInv(db), NEW vault \in Owners, NEW account \in Owners,
         VaultCreated(vault, account)
  PROVE  BookStep
  <1> DEFINE first == CreateUserIfNecessary(db, vault)
             d == CreateUserIfNecessary(first, account)
  <1>1. first \in Store /\ first.values = db.values /\ first.positions = db.positions
    BY CreateUserFacts DEF LedgerInv
  <1> HIDE DEF first
  <1>2. d \in Store /\ d.values = db.values /\ d.positions = db.positions
    BY <1>1, CreateUserFacts
  <1>3. db'.values = db.values /\ db'.positions = db.positions
    BY <1>2 DEF VaultCreated, VaultBound, Step, Store, first
  <1>4. Unseen
    BY <1>3 DEF Unseen, SameRest, ParView, ExpiryView, OpenView, ParOf
  <1> QED BY <1>4, UnseenStutters DEF BookStep

LEMMA StepRefines ==
  ASSUME LedgerInv(db), [Next]_db
  PROVE  BookStep
  <1>0. db \in Store
    BY DEF LedgerInv
  <1>1. ASSUME NEW a \in Accounts, NEW t \in Tokens, LogDeposit(a, t)
        PROVE  BookStep
    <2>1. PICK p \in Ups(ParOf(db, a, t)) : db' = BalanceUpdate(db, a, t, p)
      BY <1>1 DEF LogDeposit, Step
    <2>2. p \in Int /\ (a = Watched => p \in Book!Ups(ParOf(db, Watched, t)))
      BY <1>0, ParTypes DEF Ups, Book!Ups
    <2>3. (a = Watched /\ Book!Move(t, p)) \/ UNCHANGED Book!book
      BY <1>0, <2>1, <2>2, UpdateRefines
    <2> QED BY <2>2, <2>3 DEF BookStep, Book!Next, Book!Deposit
  <1>2. ASSUME NEW a \in Accounts, NEW t \in Tokens, LogWithdraw(a, t)
        PROVE  BookStep
    <2>1. PICK p \in Downs(ParOf(db, a, t)) : db' = BalanceUpdate(db, a, t, p)
      BY <1>2 DEF LogWithdraw, Step
    <2>2. p \in Int /\ (a = Watched => p \in Book!Downs(ParOf(db, Watched, t)))
      BY <1>0, ParTypes DEF Downs, Book!Downs
    <2>3. (a = Watched /\ Book!Move(t, p)) \/ UNCHANGED Book!book
      BY <1>0, <2>1, <2>2, UpdateRefines
    <2> QED BY <2>2, <2>3 DEF BookStep, Book!Next, Book!Withdraw
  <1>3. CASE UNCHANGED db
    <2>1. Unseen
      BY <1>3 DEF Unseen, SameRest, ParView, ExpiryView, OpenView, ParOf
    <2> QED BY <2>1, UnseenStutters DEF BookStep
  <1> QED BY <1>0, <1>1, <1>2, <1>3, TransferRefines, SellRefines, TradeRefines,
             LiquidateRefines, VaporizeRefines, OpenRefines, ExpiryRefines, VaultRefines
          DEF Next, AccountEvent

\* MarginLedger implements AccountBook: whatever rows its handlers create,
\* delete and recreate, an account's pars and expirations are those its last
\* events reported, and no event of another account disturbs them.
THEOREM LedgerImplementsBook == Spec => ImplementsBook
  <1>1. Init => Book!Init
    BY WatchedAssumption
    DEF Init, EmptyStore, Book!Init, ParOf, NoValue, NoPosition, NewPosition
  <1>2. LedgerInv(db) /\ [Next]_db => [Book!Next]_(Book!book)
    BY StepRefines DEF BookStep
  <1> QED BY <1>1, <1>2, LedgerInvariant, PTL DEF Spec, ImplementsBook, Book!Spec

-----------------------------------------------------------------------------
(* The ledger under a store                                                *)

\* Vesting breaks UserParIsSum, on which the ledger's invariant rests, but only
\* by the par it adds.  So the proofs look at a second store s, the ledger as
\* it would be without vesting: every handler of the ledger moves both alike, d
\* being s but for its UserParValue rows, and there the row of u holds over[u]
\* more of the pair token.
With(d, rows) == [d EXCEPT !.userPars = rows]
UserPars == [Owners -> [Tokens -> UserParRow]]
Extra(over, u, t) == IF t = PairToken THEN over[u] ELSE 0
Carries(rows, s, over) ==
  \A u \in Owners, t \in Tokens :
    /\ rows[u][t].totalSupplyPar = s.userPars[u][t].totalSupplyPar + Extra(over, u, t)
    /\ rows[u][t].totalBorrowPar = s.userPars[u][t].totalBorrowPar
Under(s, d, over) ==
  /\ LedgerInv(s) /\ over \in [Owners -> Int]
  /\ d.userPars \in UserPars /\ d = With(s, d.userPars) /\ Carries(d.userPars, s, over)

\* The store with other UserParValue rows has every other table unchanged.
LEMMA WithFacts ==
  ASSUME NEW d \in Store, NEW rows \in UserPars
  PROVE  LET e == With(d, rows) IN
           /\ e \in Store /\ e.userPars = rows
           /\ e.users = d.users /\ e.userCount = d.userCount
           /\ e.borrowPositionCount = d.borrowPositionCount
           /\ e.accounts = d.accounts /\ e.values = d.values /\ e.totalPar = d.totalPar
           /\ e.positions = d.positions /\ e.amounts = d.amounts
  BY DEF With, Store, UserPars

\* The same, of a store and the ledger under it.
LEMMA UnderFacts ==
  ASSUME NEW s, NEW d, NEW over, Under(s, d, over)
  PROVE  /\ s \in Store /\ d \in Store
         /\ d.users = s.users /\ d.userCount = s.userCount
         /\ d.borrowPositionCount = s.borrowPositionCount
         /\ d.accounts = s.accounts /\ d.values = s.values /\ d.totalPar = s.totalPar
         /\ d.positions = s.positions /\ d.amounts = s.amounts
  <1>1. s \in Store /\ d.userPars \in UserPars /\ d = With(s, d.userPars)
    BY DEF Under, LedgerInv
  <1> QED BY <1>1, WithFacts

\* A handler that writes no UserParValue row does to d what it does to s.
LEMMA UnderAfter ==
  ASSUME NEW s, NEW d, NEW over, Under(s, d, over),
         NEW t, LedgerInv(t), t.userPars = s.userPars,
         NEW e, e = With(t, d.userPars)
  PROVE  Under(t, e, over)
  <1>1. t \in Store /\ d.userPars \in UserPars
    BY DEF LedgerInv, Under
  <1>2. e.userPars = d.userPars
    BY <1>1, WithFacts
  <1>3. Carries(e.userPars, t, over)
    BY <1>2 DEF Under, Carries
  <1> QED BY <1>1, <1>2, <1>3 DEF Under

-----------------------------------------------------------------------------
(* Handlers that write no UserParValue row                                 *)

\* Such a handler commutes with the exchange of the UserParValue rows, which it
\* neither reads nor writes: so does the creation of a user,
LEMMA CreateUserWith ==
  ASSUME NEW d \in Store, NEW rows, NEW u \in Owners
  PROVE  CreateUserIfNecessary(With(d, rows), u) = With(CreateUserIfNecessary(d, u), rows)
  BY DEF CreateUserIfNecessary, With, Store

\* that of an account,
LEMMA GetAccountWith ==
  ASSUME NEW d \in Store, NEW rows, NEW a \in Accounts
  PROVE  GetOrCreateMarginAccount(With(d, rows), a)
           = With(GetOrCreateMarginAccount(d, a), rows)
  <1> DEFINE u == OwnerOf[a]
             e == CreateUserIfNecessary(d, u)
  <1>1. u \in Owners
    BY OwnerOfAssumption
  <1>2. CreateUserIfNecessary(With(d, rows), u) = With(e, rows) /\ e \in Store
    BY <1>1, CreateUserWith, CreateUserFacts
  <1>3. With(d, rows).accounts = d.accounts
    BY DEF With, Store
  <1> HIDE DEF e, u
  <1> QED BY <1>2, <1>3 DEF GetOrCreateMarginAccount, With, Store, EffectiveUserOf, e, u

\* the update of a borrow position,
LEMMA UpdatePositionWith ==
  ASSUME NEW d \in Store, NEW rows, NEW a \in Accounts, NEW t \in Tokens, NEW par \in Int
  PROVE  UpdateBorrowPosition(With(d, rows), a, t, par)
           = With(UpdateBorrowPosition(d, a, t, par), rows)
  BY DEF UpdateBorrowPosition, With, Store

\* its opening,
LEMMA PositionOpenedWith ==
  ASSUME NEW d \in Store, NEW rows, NEW a \in Accounts
  PROVE  PositionOpened(With(d, rows), a) = With(PositionOpened(d, a), rows)
  <1> DEFINE e == GetOrCreateMarginAccount(d, a)
             u == OwnerOf[a]
  <1>1. e \in Store /\ GetOrCreateMarginAccount(With(d, rows), a) = With(e, rows)
    BY GetAccountFacts, GetAccountWith
  <1> HIDE DEF e
  <1> DEFINE f == CountPosition(e, u)
  <1>2. /\ CountPosition(With(e, rows), u) = With(f, rows)
        /\ DOMAIN f = DOMAIN e
    BY <1>1 DEF CountPosition, EffectiveUserOf, With, Store
  <1> HIDE DEF f
  <1>3. /\ With(f, rows).users = f.users
    BY <1>1, <1>2 DEF With, Store
  <1>4. [With(f, rows) EXCEPT !.positions[a] = NewPosition(EffectiveUserOf(f, u)),
                              !.borrowPositionCount = @ + 1]
          = With([f EXCEPT !.positions[a] = NewPosition(EffectiveUserOf(f, u)),
                           !.borrowPositionCount = @ + 1], rows)
    BY <1>1, <1>2 DEF With, Store
  <1> QED BY <1>1, <1>2, <1>3, <1>4 DEF PositionOpened, EffectiveUserOf, e, f, u

\* the write of an expiration,
LEMMA ExpirySavedWith ==
  ASSUME NEW d \in Store, NEW rows, NEW a \in Accounts, NEW t \in Tokens, NEW time, NEW expired
  PROVE  ExpirySaved(With(d, rows), a, t, time, expired)
           = With(ExpirySaved(d, a, t, time, expired), rows)
  <1> DEFINE e == GetOrCreateMarginAccount(d, a)
  <1>1. e \in Store /\ GetOrCreateMarginAccount(With(d, rows), a) = With(e, rows)
    BY GetAccountFacts, GetAccountWith
  <1> HIDE DEF e
  <1> QED BY <1>1 DEF ExpirySaved, With, Store, e

\* the binding of a vault,
LEMMA VaultBoundWith ==
  ASSUME NEW d \in Store, NEW rows, NEW vault \in Owners, NEW account \in Owners
  PROVE  VaultBound(With(d, rows), vault, account) = With(VaultBound(d, vault, account), rows)
  <1> DEFINE e == CreateUserIfNecessary(d, vault)
             f == CreateUserIfNecessary(e, account)
  <1>1. e \in Store /\ CreateUserIfNecessary(With(d, rows), vault) = With(e, rows)
    BY CreateUserFacts, CreateUserWith
  <1> HIDE DEF e
  <1>2. f \in Store /\ CreateUserIfNecessary(With(e, rows), account) = With(f, rows)
    BY <1>1, CreateUserFacts, CreateUserWith
  <1> HIDE DEF f
  <1> QED BY <1>1, <1>2 DEF VaultBound, With, Store, e, f

\* and the late save of DolomiteMargin.
LEMMA SavedStaleMarginWith ==
  ASSUME NEW d \in Store, NEW rows, NEW loaded \in Store, NEW old
  PROVE  SavedStaleMargin(With(loaded, old), With(d, rows))
           = With(SavedStaleMargin(loaded, d), rows)
  BY DEF SavedStaleMargin, With, Store

\* What these handlers leave alone: the opening of a position the UserParValue
\* rows of the ledger,
LEMMA PositionParsLeft ==
  ASSUME NEW d \in Store, NEW a \in Accounts
  PROVE  PositionOpened(d, a).userPars = d.userPars
  <1> DEFINE e == GetOrCreateMarginAccount(d, a)
             f == CountPosition(e, OwnerOf[a])
  <1>1. e \in Store /\ e.userPars = d.userPars
    BY GetAccountFacts
  <1> HIDE DEF e
  <1>2. f.userPars = e.userPars /\ DOMAIN f = DOMAIN e
    BY <1>1 DEF CountPosition, Store
  <1> HIDE DEF f
  <1> QED BY <1>1, <1>2 DEF PositionOpened, Store, e, f

\* and so the write of an expiration
LEMMA ExpiryParsLeft ==
  ASSUME NEW d \in Store, NEW a \in Accounts, NEW t, NEW time, NEW expired
  PROVE  ExpirySaved(d, a, t, time, expired).userPars = d.userPars
  <1> DEFINE e == GetOrCreateMarginAccount(d, a)
  <1>1. e \in Store /\ e.userPars = d.userPars
    BY GetAccountFacts
  <1> HIDE DEF e
  <1> QED BY <1>1 DEF ExpirySaved, Store, e

\* and the binding of a vault.
LEMMA VaultParsLeft ==
  ASSUME NEW d \in Store, NEW vault \in Owners, NEW account \in Owners
  PROVE  VaultBound(d, vault, account).userPars = d.userPars
  <1> DEFINE e == CreateUserIfNecessary(d, vault)
             f == CreateUserIfNecessary(e, account)
  <1>1. e \in Store /\ e.userPars = d.userPars
    BY CreateUserFacts
  <1> HIDE DEF e
  <1>2. f \in Store /\ f.userPars = d.userPars
    BY <1>1, CreateUserFacts
  <1> HIDE DEF f
  <1> QED BY <1>2 DEF VaultBound, Store, e, f

-----------------------------------------------------------------------------
(* Balance events                                                          *)

\* What a balance event makes of the rows of the users.
Booking(rows, u, t, old, par) ==
  [rows EXCEPT ![u] = [@ EXCEPT ![t] = SavedUserPar(UserParAfter(rows[u][t], old, par))]]

\* A balance event reads the UserParValue row that it writes and no other: it is
\* Booking on these rows and the same as ever on the other tables.
LEMMA BookWith ==
  ASSUME NEW d \in Store, NEW rows \in UserPars, NEW a \in Accounts, NEW t \in Tokens,
         NEW par \in Int
  PROVE  BookBalance(With(d, rows), a, t, par)
           = With(BookBalance(d, a, t, par),
                  Booking(rows, d.accounts[a].effectiveUser, t, ParOf(d, a, t), par))
  <1> DEFINE u == d.accounts[a].effectiveUser
             old == d.values[a][t].valuePar
             total == TotalParAfter(d.totalPar[t], old, par)
             account == AccountAfter(d.accounts[a], t, old, par)
             value == SavedValue([d.values[a][t] EXCEPT !.valuePar = par])
             e == With(d, rows)
  <1>1. /\ e.accounts = d.accounts /\ e.values = d.values /\ e.totalPar = d.totalPar
        /\ e.userPars = rows
    BY WithFacts
  <1>2. BookBalance(d, a, t, par)
          = [d EXCEPT !.totalPar[t] = total, !.accounts[a] = account,
                      !.userPars[u][t] = SavedUserPar(UserParAfter(d.userPars[u][t], old, par)),
                      !.values[a][t] = value]
    BY DEF BookBalance
  <1>3. BookBalance(e, a, t, par)
          = [e EXCEPT !.totalPar[t] = total, !.accounts[a] = account,
                      !.userPars[u][t] = SavedUserPar(UserParAfter(rows[u][t], old, par)),
                      !.values[a][t] = value]
    BY <1>1 DEF BookBalance
  <1> DEFINE one == SavedUserPar(UserParAfter(d.userPars[u][t], old, par))
             two == SavedUserPar(UserParAfter(rows[u][t], old, par))
  <1> HIDE DEF total, account, value, one, two
  <1>4. [e EXCEPT !.totalPar[t] = total, !.accounts[a] = account,
                  !.userPars[u][t] = two, !.values[a][t] = value]
          = With([d EXCEPT !.totalPar[t] = total, !.accounts[a] = account,
                           !.userPars[u][t] = one, !.values[a][t] = value],
                 [rows EXCEPT ![u] = [@ EXCEPT ![t] = two]])
    BY <1>1 DEF With, Store
  <1> QED BY <1>2, <1>3, <1>4 DEF Booking, ParOf, one, two, e

\* The delta that a balance event adds to a row does not depend on the row.
LEMMA BookingCarries ==
  ASSUME NEW rows \in UserPars, NEW s \in Store, NEW e \in Store, NEW over \in [Owners -> Int],
         Carries(rows, s, over),
         NEW u \in Owners, NEW t \in Tokens, NEW old \in Int, NEW par \in Int,
         \A v \in Owners, q \in Tokens :
           v # u \/ q # t => e.userPars[v][q] = s.userPars[v][q],
         e.userPars[u][t] = SavedUserPar(UserParAfter(s.userPars[u][t], old, par))
  PROVE  /\ Booking(rows, u, t, old, par) \in UserPars
         /\ Carries(Booking(rows, u, t, old, par), e, over)
  <1> DEFINE row == SavedUserPar(UserParAfter(rows[u][t], old, par))
             new == Booking(rows, u, t, old, par)
  <1>1. rows[u][t] \in UserParRow /\ s.userPars[u][t] \in UserParRow
    BY DEF UserPars, Store
  <1>2. UserParAfter(rows[u][t], old, par) \in UserParRow
    BY <1>1, UserParType
  <1>3. row \in UserParRow
    BY <1>2 DEF SavedUserPar, UserParRow, NoUserPar
  <1>4. /\ row.totalSupplyPar = rows[u][t].totalSupplyPar - SupplyPart(old) + SupplyPart(par)
        /\ row.totalBorrowPar = rows[u][t].totalBorrowPar - BorrowPart(old) + BorrowPart(par)
    BY <1>1, UserParMoves
  <1>5. /\ e.userPars[u][t].totalSupplyPar
             = s.userPars[u][t].totalSupplyPar - SupplyPart(old) + SupplyPart(par)
        /\ e.userPars[u][t].totalBorrowPar
             = s.userPars[u][t].totalBorrowPar - BorrowPart(old) + BorrowPart(par)
    BY <1>1, UserParMoves
  <1> HIDE DEF row
  <1>6. new = [rows EXCEPT ![u] = [@ EXCEPT ![t] = row]]
    BY DEF Booking, row
  <1>7. /\ new \in UserPars /\ new[u][t] = row
        /\ \A v \in Owners, q \in Tokens : v # u \/ q # t => new[v][q] = rows[v][q]
    BY <1>3, <1>6 DEF UserPars
  <1>8. /\ rows[u][t].totalSupplyPar = s.userPars[u][t].totalSupplyPar + Extra(over, u, t)
        /\ rows[u][t].totalBorrowPar = s.userPars[u][t].totalBorrowPar
    BY DEF Carries
  <1>9. /\ s.userPars[u][t].totalSupplyPar \in Int /\ SupplyPart(old) \in Int
        /\ SupplyPart(par) \in Int /\ Extra(over, u, t) \in Int
    BY <1>1 DEF UserParRow, SupplyPart, Extra
  <1>10. /\ row.totalSupplyPar = e.userPars[u][t].totalSupplyPar + Extra(over, u, t)
         /\ row.totalBorrowPar = e.userPars[u][t].totalBorrowPar
    BY <1>4, <1>5, <1>8, <1>9
  <1> HIDE DEF new
  <1>11. Carries(new, e, over)
    <2> SUFFICES ASSUME NEW v \in Owners, NEW q \in Tokens
                 PROVE  /\ new[v][q].totalSupplyPar
                             = e.userPars[v][q].totalSupplyPar + Extra(over, v, q)
                        /\ new[v][q].totalBorrowPar = e.userPars[v][q].totalBorrowPar
      BY DEF Carries
    <2>1. CASE v = u /\ q = t
      BY <1>7, <1>10, <2>1
    <2>2. CASE v # u \/ q # t
      <3>1. new[v][q] = rows[v][q] /\ e.userPars[v][q] = s.userPars[v][q]
        BY <1>7, <2>2
      <3> QED BY <3>1 DEF Carries
    <2> QED BY <2>1, <2>2
  <1> QED BY <1>7, <1>11 DEF new

\* One balance event moves both stores alike.
LEMMA BalanceUpdateUnder ==
  ASSUME NEW s, NEW d, NEW over, Under(s, d, over),
         NEW a \in Accounts, NEW t \in Tokens, NEW par \in Int
  PROVE  Under(BalanceUpdate(s, a, t, par), BalanceUpdate(d, a, t, par), over)
  <1> DEFINE rows == d.userPars
             e == GetOrCreateMarginAccount(s, a)
             f == BookBalance(e, a, t, par)
             g == UpdateBorrowPosition(f, a, t, par)
             u == e.accounts[a].effectiveUser
             old == ParOf(e, a, t)
             new == Booking(rows, u, t, old, par)
  <1>1. /\ s \in Store /\ rows \in UserPars /\ d = With(s, rows)
        /\ over \in [Owners -> Int] /\ Carries(rows, s, over)
    BY DEF Under, LedgerInv
  <1>2. e \in Store /\ e.userPars = s.userPars
    BY <1>1, GetAccountFacts
  <1>3. GetOrCreateMarginAccount(d, a) = With(e, rows)
    BY <1>1, GetAccountWith
  <1> HIDE DEF e
  <1>4. u \in Owners /\ old \in Int
    BY <1>2 DEF Store, AccountRow, ValueRow, ParOf
  <1>5. BookBalance(With(e, rows), a, t, par) = With(f, new)
    BY <1>1, <1>2, BookWith
  <1>6. /\ f \in Store
        /\ \A v \in Owners, q \in Tokens :
             v # u \/ q # t => f.userPars[v][q] = s.userPars[v][q]
        /\ f.userPars[u][t] = SavedUserPar(UserParAfter(s.userPars[u][t], old, par))
    <2>1. f \in Store
      BY <1>2, BookFacts
    <2>2. \A v \in Owners, q \in Tokens :
            v # u \/ q # t => f.userPars[v][q] = e.userPars[v][q]
      BY <1>2, BookFacts
    <2>3. f.userPars[u][t] = SavedUserPar(UserParAfter(e.userPars[u][t], old, par))
      BY <1>2, BookFacts
    <2> QED BY <1>2, <2>1, <2>2, <2>3
  <1> HIDE DEF f, u, old
  <1>7. UpdateBorrowPosition(With(f, new), a, t, par) = With(g, new)
    BY <1>6, UpdatePositionWith
  <1>8. g \in Store /\ g.userPars = f.userPars
    BY <1>6, UpdatePositionFacts
  <1> HIDE DEF g
  <1>9. new \in UserPars /\ Carries(new, g, over)
    BY <1>1, <1>4, <1>6, <1>8, BookingCarries
  <1>10. g = BalanceUpdate(s, a, t, par)
    BY DEF BalanceUpdate, e, f, g
  <1>11. BalanceUpdate(d, a, t, par) = With(g, new)
    <2> HIDE DEF new
    <2> QED BY <1>3, <1>5, <1>7 DEF BalanceUpdate
  <1>12. LedgerInv(g)
    BY <1>10, BalanceUpdateKeeps DEF Under
  <1>13. With(g, new).userPars = new
    BY <1>8, <1>9, WithFacts
  <1> HIDE DEF new
  <1>14. Under(g, With(g, new), over)
    BY <1>1, <1>9, <1>12, <1>13 DEF Under
  <1> QED BY <1>10, <1>11, <1>14

\* So do the two of a handler that updates two tokens of an account.
LEMMA BothUpdatesUnder ==
  ASSUME NEW s, NEW d, NEW over, Under(s, d, over),
         NEW a \in Accounts, NEW input \in Tokens, NEW output \in Tokens,
         NEW inputPar \in Int, NEW outputPar \in Int
  PROVE  Under(BothUpdates(s, a, input, output, inputPar, outputPar),
               BothUpdates(d, a, input, output, inputPar, outputPar), over)
  <1> DEFINE t == BalanceUpdate(s, a, input, inputPar)
             e == BalanceUpdate(d, a, input, inputPar)
  <1>1. Under(t, e, over)
    BY BalanceUpdateUnder
  <1> HIDE DEF t, e
  <1>2. Under(BalanceUpdate(t, a, output, outputPar), BalanceUpdate(e, a, output, outputPar), over)
    BY <1>1, BalanceUpdateUnder
  <1> QED BY <1>2 DEF BothUpdates, t, e

-----------------------------------------------------------------------------
(* Events of the ledger                                                    *)

\* After an event the store d is over a ledger that has lost no user.
Stays(s, d, over) == \E t : Under(t, d, over) /\ UsersStay(s, t)

\* The creation of a user,
LEMMA CreateUserUnder ==
  ASSUME NEW s, NEW d, NEW over, Under(s, d, over), NEW u \in Owners
  PROVE  /\ Under(CreateUserIfNecessary(s, u), CreateUserIfNecessary(d, u), over)
         /\ UsersStay(s, CreateUserIfNecessary(s, u))
  <1>1. LedgerInv(s) /\ s \in Store /\ d = With(s, d.userPars)
    BY DEF Under, LedgerInv
  <1>2. /\ LedgerInv(CreateUserIfNecessary(s, u))
        /\ UsersStay(s, CreateUserIfNecessary(s, u))
    BY <1>1, CreateUserKeeps
  <1>3. CreateUserIfNecessary(s, u).userPars = s.userPars
    BY <1>1, CreateUserFacts
  <1>4. CreateUserIfNecessary(d, u) = With(CreateUserIfNecessary(s, u), d.userPars)
    BY <1>1, CreateUserWith
  <1> QED BY <1>2, <1>3, <1>4, UnderAfter

\* A trade saves the counters that it loaded from both stores.
LEMMA SavedStaleMarginUnder ==
  ASSUME NEW s, NEW d, NEW over, Under(s, d, over),
         NEW t, NEW e, Under(t, e, over), Grows(s, t)
  PROVE  Stays(s, SavedStaleMargin(d, e), over)
  <1>1. /\ LedgerInv(s) /\ s \in Store /\ d = With(s, d.userPars)
        /\ LedgerInv(t) /\ t \in Store /\ e = With(t, e.userPars)
    BY DEF Under, LedgerInv
  <1>2. LedgerInv(SavedStaleMargin(s, t)) /\ UsersStay(s, SavedStaleMargin(s, t))
    BY <1>1, SavedStaleMarginKeeps
  <1>3. SavedStaleMargin(s, t).userPars = t.userPars
    BY <1>1 DEF SavedStaleMargin, Store
  <1>4. SavedStaleMargin(d, e) = With(SavedStaleMargin(s, t), e.userPars)
    BY <1>1, SavedStaleMarginWith
  <1>5. Under(SavedStaleMargin(s, t), SavedStaleMargin(d, e), over)
    BY <1>2, <1>3, <1>4, UnderAfter
  <1> QED BY <1>2, <1>5 DEF Stays

\* Every event of the ledger moves db as it moves the ledger under it.
LEMMA AccountEventUnder ==
  ASSUME NEW s, NEW over, Under(s, db, over), AccountEvent
  PROVE  Stays(s, db', over)
  <1>0. /\ LedgerInv(s) /\ s \in Store /\ db \in Store /\ db = With(s, db.userPars)
        /\ db.positions = s.positions
    BY UnderFacts DEF Under
  <1>u. ASSUME NEW t, Under(t, db', over), Grows(s, t)
        PROVE  Stays(s, db', over)
    BY <1>u DEF Stays, Grows
  <1>1. ASSUME NEW a \in Accounts, NEW t \in Tokens, NEW par \in Int,
               db' = BalanceUpdate(db, a, t, par)
        PROVE  Stays(s, db', over)
    BY <1>0, <1>1, <1>u, BalanceUpdateUnder, BalanceUpdateKeeps
  <1>2. ASSUME NEW a \in Accounts, NEW t \in Tokens, LogDeposit(a, t) \/ LogWithdraw(a, t)
        PROVE  Stays(s, db', over)
    BY <1>0, <1>1, <1>2, ParTypes DEF LogDeposit, LogWithdraw, Step
  <1>3. ASSUME NEW one \in Accounts, NEW two \in Accounts, NEW t \in Tokens,
               LogTransfer(one, two, t)
        PROVE  Stays(s, db', over)
    <2>1. PICK parOne \in Int, parTwo \in Int :
            db' = BalanceUpdate(BalanceUpdate(db, one, t, parOne), two, t, parTwo)
      BY <1>3, ParTypes DEF LogTransfer, Step
    <2> DEFINE x == BalanceUpdate(s, one, t, parOne)
               y == BalanceUpdate(db, one, t, parOne)
    <2>2. Under(x, y, over) /\ LedgerInv(x) /\ Grows(s, x)
      BY <1>0, BalanceUpdateUnder, BalanceUpdateKeeps
    <2>3. db' = BalanceUpdate(y, two, t, parTwo)
      BY <2>1
    <2> HIDE DEF x, y
    <2>4. /\ Under(BalanceUpdate(x, two, t, parTwo), db', over)
          /\ Grows(x, BalanceUpdate(x, two, t, parTwo))
      BY <2>2, <2>3, BalanceUpdateUnder, BalanceUpdateKeeps
    <2>5. Grows(s, BalanceUpdate(x, two, t, parTwo))
      BY <2>2, <2>4 DEF Grows, UsersStay
    <2> QED BY <1>u, <2>4, <2>5
  <1>4. ASSUME NEW a \in Accounts, NEW input \in Tokens, NEW output \in Tokens,
               LogSell(a, input, output)
        PROVE  Stays(s, db', over)
    <2>1. PICK inputPar \in Int, outputPar \in Int :
            db' = SavedStaleMargin(db, BothUpdates(db, a, input, output, inputPar, outputPar))
      BY <1>0, <1>4, ParTypes DEF LogSell, Step
    <2> DEFINE x == BothUpdates(s, a, input, output, inputPar, outputPar)
               y == BothUpdates(db, a, input, output, inputPar, outputPar)
    <2>2. Under(x, y, over) /\ Grows(s, x)
      BY <1>0, BothUpdatesUnder, BothUpdatesKeep
    <2>3. db' = SavedStaleMargin(db, y)
      BY <2>1
    <2> HIDE DEF x, y
    <2> QED BY <2>2, <2>3, SavedStaleMarginUnder
  <1>5. ASSUME NEW one \in Accounts, NEW two \in Accounts,
               NEW input \in Tokens, NEW output \in Tokens,
               NEW p \in Int, NEW q \in Int, NEW p2 \in Int, NEW q2 \in Int,
               NEW y, y = BothUpdates(BothUpdates(db, one, input, output, p, q),
                                      two, input, output, p2, q2)
        PROVE  \E x : Under(x, y, over) /\ Grows(s, x)
    <2> DEFINE v == BothUpdates(s, one, input, output, p, q)
               w == BothUpdates(db, one, input, output, p, q)
    <2>1. Under(v, w, over) /\ LedgerInv(v) /\ Grows(s, v)
      BY <1>0, BothUpdatesUnder, BothUpdatesKeep
    <2>2. y = BothUpdates(w, two, input, output, p2, q2)
      BY <1>5
    <2> HIDE DEF v, w
    <2> DEFINE x == BothUpdates(v, two, input, output, p2, q2)
    <2>3. Under(x, y, over) /\ Grows(v, x)
      BY <2>1, <2>2, BothUpdatesUnder, BothUpdatesKeep
    <2> HIDE DEF x
    <2>4. Grows(s, x)
      BY <2>1, <2>3 DEF Grows, UsersStay
    <2> QED BY <2>3, <2>4
  <1>6. ASSUME NEW taker \in Accounts, NEW maker \in Accounts,
               NEW input \in Tokens, NEW output \in Tokens,
               LogTrade(taker, maker, input, output)
        PROVE  Stays(s, db', over)
    <2>1. PICK takerIn \in Int, takerOut \in Int, makerIn \in Int, makerOut \in Int :
            db' = SavedStaleMargin(db,
                    BothUpdates(BothUpdates(db, taker, input, output, takerIn, takerOut),
                                maker, input, output, makerIn, makerOut))
      BY <1>6, ParTypes DEF LogTrade, Step
    <2> DEFINE y == BothUpdates(BothUpdates(db, taker, input, output, takerIn, takerOut),
                                maker, input, output, makerIn, makerOut)
    <2>2. PICK x : Under(x, y, over) /\ Grows(s, x)
      BY <1>5
    <2>3. db' = SavedStaleMargin(db, y)
      BY <2>1
    <2> HIDE DEF y
    <2> QED BY <2>2, <2>3, SavedStaleMarginUnder
  <1>7. ASSUME NEW solid \in Accounts, NEW liquid \in Accounts,
               NEW held \in Tokens, NEW owed \in Tokens,
               LogLiquidate(solid, liquid, held, owed)
        PROVE  Stays(s, db', over)
    <2>1. PICK liquidHeld \in Int, liquidOwed \in Int, solidHeld \in Int, solidOwed \in Int :
            db' = BothUpdates(BothUpdates(db, liquid, held, owed, liquidHeld, liquidOwed),
                              solid, held, owed, solidHeld, solidOwed)
      <3>1. /\ \A p \in 0 .. ParOf(db, liquid, held) : p \in Int
            /\ \A p \in ParOf(db, liquid, owed) .. 0 : p \in Int
        OBVIOUS
      <3> QED BY <1>0, <1>7, <3>1, ParTypes DEF LogLiquidate, Step
    <2>2. PICK x : Under(x, db', over) /\ Grows(s, x)
      BY <1>5, <2>1
    <2> QED BY <1>u, <2>2
  <1>8. ASSUME NEW solid \in Accounts, NEW vapor \in Accounts,
               NEW held \in Tokens, NEW owed \in Tokens,
               LogVaporize(solid, vapor, held, owed)
        PROVE  Stays(s, db', over)
    <2>1. PICK vaporOwed \in Int, solidHeld \in Int, solidOwed \in Int :
            db' = BothUpdates(BalanceUpdate(db, vapor, owed, vaporOwed),
                              solid, held, owed, solidHeld, solidOwed)
      BY <1>0, <1>8, ParTypes DEF LogVaporize, Step
    <2> DEFINE v == BalanceUpdate(s, vapor, owed, vaporOwed)
               w == BalanceUpdate(db, vapor, owed, vaporOwed)
    <2>2. Under(v, w, over) /\ LedgerInv(v) /\ Grows(s, v)
      BY <1>0, BalanceUpdateUnder, BalanceUpdateKeeps
    <2>3. db' = BothUpdates(w, solid, held, owed, solidHeld, solidOwed)
      BY <2>1
    <2> HIDE DEF v, w
    <2> DEFINE x == BothUpdates(v, solid, held, owed, solidHeld, solidOwed)
    <2>4. Under(x, db', over) /\ Grows(v, x)
      BY <2>2, <2>3, BothUpdatesUnder, BothUpdatesKeep
    <2> HIDE DEF x
    <2>5. Grows(s, x)
      BY <2>2, <2>4 DEF Grows, UsersStay
    <2> QED BY <1>u, <2>4, <2>5
  <1>9. ASSUME NEW a \in Accounts, BorrowPositionOpen(a)
        PROVE  Stays(s, db', over)
    <2> DEFINE x == PositionOpened(s, a)
    <2>1. s.positions[a].status = "NONE" /\ db' = PositionOpened(db, a)
      BY <1>0, <1>9 DEF BorrowPositionOpen, Step
    <2>2. LedgerInv(x) /\ UsersStay(s, x)
      BY <1>0, <2>1, PositionOpenedKeeps
    <2>3. x.userPars = s.userPars
      BY <1>0, PositionParsLeft
    <2>4. db' = With(x, db.userPars)
      BY <1>0, <2>1, PositionOpenedWith
    <2> HIDE DEF x
    <2>5. Under(x, db', over)
      BY <2>2, <2>3, <2>4, UnderAfter
    <2> QED BY <2>2, <2>5 DEF Stays
  <1>10. ASSUME NEW a \in Accounts, NEW t \in Tokens, NEW time \in Times \union {NoTime},
                NEW positionExpired \in BOOLEAN, ExpirySet(a, t, time, positionExpired)
         PROVE  Stays(s, db', over)
    <2> DEFINE x == ExpirySaved(s, a, t, time, positionExpired)
    <2>1. db' = ExpirySaved(db, a, t, time, positionExpired)
      BY <1>10 DEF ExpirySet, Step
    <2>2. LedgerInv(x) /\ UsersStay(s, x)
      BY <1>0, ExpirySavedKeeps
    <2>3. x.userPars = s.userPars
      BY <1>0, ExpiryParsLeft
    <2>4. db' = With(x, db.userPars)
      BY <1>0, <2>1, ExpirySavedWith
    <2> HIDE DEF x
    <2>5. Under(x, db', over)
      BY <2>2, <2>3, <2>4, UnderAfter
    <2> QED BY <2>2, <2>5 DEF Stays
  <1> QED BY <1>2, <1>3, <1>4, <1>6, <1>7, <1>8, <1>9, <1>10 DEF AccountEvent

\* VaultCreated.
LEMMA VaultCreatedUnder ==
  ASSUME NEW s, NEW over, Under(s, db, over), NEW vault \in Owners, NEW account \in Owners,
         VaultCreated(vault, account)
  PROVE  Stays(s, db', over)
  <1> DEFINE x == VaultBound(s, vault, account)
  <1>0. LedgerInv(s) /\ s \in Store /\ db = With(s, db.userPars)
    BY UnderFacts DEF Under
  <1>1. /\ vault \in Vaults /\ account \in Owners \ Vaults
        /\ db' = VaultBound(db, vault, account)
    BY DEF VaultCreated, Step
  <1>2. LedgerInv(x) /\ UsersStay(s, x)
    BY <1>0, <1>1, VaultBoundKeeps
  <1>3. x.userPars = s.userPars
    BY <1>0, VaultParsLeft
  <1>4. db' = With(x, db.userPars)
    BY <1>0, <1>1, VaultBoundWith
  <1> HIDE DEF x
  <1>5. Under(x, db', over)
    BY <1>2, <1>3, <1>4, UnderAfter
  <1> QED BY <1>2, <1>5 DEF Stays

-----------------------------------------------------------------------------
(* What vesting adds                                                       *)

\* What the users have more than in the ledger, when u gets p of it.
Bump(f, u, p) == [f EXCEPT ![u] = @ + p]

\* It moves the sum over the users by as much.
LEMMA BumpFacts ==
  ASSUME NEW f \in [Owners -> Int], NEW u \in Owners, NEW p \in Int
  PROVE  /\ Bump(f, u, p) \in [Owners -> Int]
         /\ SumFunction(Bump(f, u, p)) = SumFunction(f) + p
         /\ SumFunction(f) \in Int
  <1> DEFINE h == Bump(f, u, p)
  <1>1. /\ h \in [Owners -> Int] /\ h[u] = f[u] + p /\ f[u] \in Int
        /\ \A v \in Owners \ {u} : h[v] = f[v]
    BY DEF Bump
  <1>2. DOMAIN h = Owners /\ DOMAIN f = Owners
    BY <1>1
  <1>3. /\ \A v \in Owners : f[v] \in Int
        /\ h[u] \in Int
    BY <1>1
  <1> HIDE DEF h
  <1>4. SumFunctionOnSet(h, Owners) = SumFunctionOnSet(f, Owners) - f[u] + h[u]
    BY <1>1, <1>3, FinitenessAssumption, SumChangedAtOne
  <1>5. SumFunctionOnSet(f, Owners) \in Int
    BY <1>3, FinitenessAssumption, SumType
  <1> QED BY <1>1, <1>2, <1>4, <1>5 DEF SumFunction, h

\* The write of a vesting handler moves only what d has more than the ledger.
LEMMA BookedUnder ==
  ASSUME NEW s, NEW d, NEW over, Under(s, d, over), NEW u \in Owners, NEW par \in Int
  PROVE  Under(s, Booked(d, u, par), Bump(over, u, par))
  <1> DEFINE rows == d.userPars
             row == RaisedBy(rows[u][PairToken], par)
             new == [rows EXCEPT ![u] = [@ EXCEPT ![PairToken] = row]]
             e == Booked(d, u, par)
  <1>1. /\ LedgerInv(s) /\ s \in Store /\ over \in [Owners -> Int]
        /\ rows \in UserPars /\ d = With(s, rows) /\ Carries(rows, s, over)
    BY DEF Under, LedgerInv
  <1>2. d \in Store
    BY UnderFacts
  <1>3. e = [d EXCEPT !.userPars = new]
    BY <1>2 DEF Booked, Store
  <1>4. rows[u][PairToken] \in UserParRow
    BY <1>1, PairTokenAssumption DEF UserPars
  <1>5. /\ row \in UserParRow
        /\ row.totalSupplyPar = rows[u][PairToken].totalSupplyPar + par
        /\ row.totalBorrowPar = rows[u][PairToken].totalBorrowPar
    BY <1>4 DEF UserParRow, RaisedBy
  <1> HIDE DEF row
  <1>6. /\ new \in UserPars /\ new[u][PairToken] = row
        /\ \A v \in Owners, t \in Tokens : v # u \/ t # PairToken => new[v][t] = rows[v][t]
    BY <1>1, <1>5, PairTokenAssumption DEF UserPars
  <1> HIDE DEF new
  <1>7. e = With(s, new) /\ e.userPars = new
    <2>1. e = With(s, new)
      BY <1>1, <1>3 DEF With, Store
    <2> QED BY <1>1, <1>6, <2>1, WithFacts
  <1>8. /\ Bump(over, u, par) \in [Owners -> Int]
        /\ Bump(over, u, par)[u] = over[u] + par /\ over[u] \in Int
        /\ \A v \in Owners : v # u => Bump(over, u, par)[v] = over[v]
    BY <1>1 DEF Bump
  <1>9. Carries(new, s, Bump(over, u, par))
    <2> SUFFICES ASSUME NEW v \in Owners, NEW t \in Tokens
                 PROVE  /\ new[v][t].totalSupplyPar = s.userPars[v][t].totalSupplyPar
                                                      + Extra(Bump(over, u, par), v, t)
                        /\ new[v][t].totalBorrowPar = s.userPars[v][t].totalBorrowPar
      BY DEF Carries
    <2>1. /\ rows[v][t].totalSupplyPar = s.userPars[v][t].totalSupplyPar + Extra(over, v, t)
          /\ rows[v][t].totalBorrowPar = s.userPars[v][t].totalBorrowPar
          /\ s.userPars[v][t].totalSupplyPar \in Int
      BY <1>1 DEF Carries, Store, UserParRow
    <2>2. CASE v = u /\ t = PairToken
      BY <1>5, <1>6, <1>8, <2>1, <2>2 DEF Extra
    <2>3. CASE v # u \/ t # PairToken
      <3>1. new[v][t] = rows[v][t]
        BY <1>6, <2>3
      <3>2. Extra(Bump(over, u, par), v, t) = Extra(over, v, t)
        BY <1>8, <2>3 DEF Extra
      <3> QED BY <2>1, <3>1, <3>2
    <2> QED BY <2>2, <2>3
  <1> QED BY <1>1, <1>6, <1>7, <1>8, <1>9 DEF Under

\* The rows of positions: none yet, or one with a status.
VestingRow ==
  {NoRow} \union [status : {"ACTIVE", "CLOSED", "FORCE_CLOSED", "EMERGENCY_CLOSED"},
                  owner : Owners, par : Nat]

\* LockedPar of every user, in the rows v.
LocksIn(v, u) == {n \in Nfts : v[n].status = "ACTIVE" /\ v[n].owner = u}
LocksOf(v) == [u \in Owners |-> SumFunction([n \in LocksIn(v, u) |-> v[n].par])]

\* It is a sum over finitely many positions.
LEMMA LocksFacts ==
  ASSUME NEW v \in [Nfts -> VestingRow]
  PROVE  /\ LocksOf(v) \in [Owners -> Int]
         /\ \A u \in Owners :
              /\ IsFiniteSet(LocksIn(v, u))
              /\ \A n \in LocksIn(v, u) : v[n].par \in Nat
              /\ LocksOf(v)[u] = SumFunctionOnSet([n \in LocksIn(v, u) |-> v[n].par],
                                                  LocksIn(v, u))
  <1>1. ASSUME NEW u \in Owners
        PROVE  /\ IsFiniteSet(LocksIn(v, u))
               /\ \A n \in LocksIn(v, u) : v[n].par \in Nat
               /\ LocksOf(v)[u] = SumFunctionOnSet([n \in LocksIn(v, u) |-> v[n].par],
                                                   LocksIn(v, u))
               /\ LocksOf(v)[u] \in Int
    <2> DEFINE f == [n \in LocksIn(v, u) |-> v[n].par]
    <2>1. IsFiniteSet(LocksIn(v, u))
      <3>1. LocksIn(v, u) \subseteq Nfts
        BY DEF LocksIn
      <3> QED BY <3>1, NftsAssumption, FS_Subset
    <2>2. \A n \in LocksIn(v, u) : v[n].par \in Nat
      BY DEF LocksIn, VestingRow, NoRow
    <2>3. LocksOf(v)[u] = SumFunctionOnSet(f, LocksIn(v, u))
      BY DEF LocksOf, SumFunction
    <2>4. \A n \in LocksIn(v, u) : f[n] \in Int
      BY <2>2
    <2> HIDE DEF f
    <2>5. SumFunctionOnSet(f, LocksIn(v, u)) \in Int
      BY <2>1, <2>4, SumType
    <2> QED BY <2>1, <2>2, <2>3, <2>5 DEF f
  <1> QED BY <1>1 DEF LocksOf

\* A position that becomes active adds its par to what its owner locks.
LEMMA LocksGain ==
  ASSUME NEW v \in [Nfts -> VestingRow], NEW w \in [Nfts -> VestingRow], NEW n \in Nfts,
         v[n].status # "ACTIVE", w[n].status = "ACTIVE",
         \A m \in Nfts : m # n => w[m] = v[m]
  PROVE  LocksOf(w) = Bump(LocksOf(v), w[n].owner, w[n].par)
  <1> DEFINE o == w[n].owner
  <1>1. o \in Owners /\ w[n].par \in Nat
    BY DEF VestingRow, NoRow
  <1>2. /\ LocksOf(v) \in [Owners -> Int] /\ LocksOf(w) \in [Owners -> Int]
    BY LocksFacts
  <1>3. ASSUME NEW u \in Owners, u # o PROVE LocksOf(w)[u] = LocksOf(v)[u]
    <2>1. LocksIn(w, u) = LocksIn(v, u) /\ \A m \in LocksIn(v, u) : m # n
      BY <1>3 DEF LocksIn
    <2>2. [m \in LocksIn(w, u) |-> w[m].par] = [m \in LocksIn(v, u) |-> v[m].par]
      BY <2>1 DEF LocksIn
    <2> QED BY <2>2 DEF LocksOf
  <1>4. LocksOf(w)[o] = LocksOf(v)[o] + w[n].par
    <2> DEFINE S == LocksIn(v, o)
               f == [m \in S |-> v[m].par]
               h == [m \in S \union {n} |-> w[m].par]
    <2>1. LocksIn(w, o) = S \union {n} /\ n \notin S /\ \A m \in S : m # n /\ m \in Nfts
      BY DEF LocksIn
    <2>2. /\ IsFiniteSet(S) /\ \A m \in S : f[m] \in Int
          /\ LocksOf(v)[o] = SumFunctionOnSet(f, S)
      BY <1>1, LocksFacts
    <2>3. LocksOf(w)[o] = SumFunctionOnSet(h, S \union {n})
      <3>1. LocksOf(w)[o] = SumFunctionOnSet([m \in LocksIn(w, o) |-> w[m].par], LocksIn(w, o))
        BY <1>1, LocksFacts
      <3> QED BY <2>1, <3>1
    <2>4. h[n] = w[n].par /\ \A m \in S : h[m] = f[m]
      BY <2>1
    <2>5. h[n] \in Int
      BY <1>1, <2>4
    <2> HIDE DEF S, f, h
    <2>6. SumFunctionOnSet(h, S \union {n}) = SumFunctionOnSet(f, S) + h[n]
      <3>1. n \notin S
        BY <2>1
      <3>2. IsFiniteSet(S) /\ \A m \in S : f[m] \in Int
        BY <2>2
      <3>3. \A m \in S : h[m] = f[m]
        BY <2>4
      <3>4. IsFiniteSet(S)
        BY <3>2
      <3>5. \A m \in S : f[m] \in Int
        BY <3>2
      <3> QED BY <2>5, <3>1, <3>3, <3>4, <3>5, SumWithNew
    <2> QED BY <2>2, <2>3, <2>4, <2>6
  <1> HIDE DEF o
  <1>5. \A u \in Owners : LocksOf(w)[u] = Bump(LocksOf(v), o, w[n].par)[u]
    BY <1>1, <1>2, <1>3, <1>4 DEF Bump
  <1>6. Bump(LocksOf(v), o, w[n].par) \in [Owners -> Int]
    BY <1>1, <1>2 DEF Bump
  <1> QED BY <1>2, <1>5, <1>6 DEF o

\* One that is no longer active takes it away again.
LEMMA LocksLose ==
  ASSUME NEW v \in [Nfts -> VestingRow], NEW w \in [Nfts -> VestingRow], NEW n \in Nfts,
         v[n].status = "ACTIVE", w[n].status # "ACTIVE",
         \A m \in Nfts : m # n => w[m] = v[m]
  PROVE  LocksOf(w) = Bump(LocksOf(v), v[n].owner, -v[n].par)
  <1>1. LocksOf(v) = Bump(LocksOf(w), v[n].owner, v[n].par)
    BY LocksGain
  <1>2. LocksOf(w) \in [Owners -> Int]
    BY LocksFacts
  <1>3. v[n].owner \in Owners /\ v[n].par \in Nat
    BY DEF VestingRow, NoRow
  <1> DEFINE f == LocksOf(w)
             o == v[n].owner
             p == v[n].par
  <1> HIDE DEF f, o, p
  <1>4. ASSUME f \in [Owners -> Int], o \in Owners, p \in Nat
        PROVE  f = Bump(Bump(f, o, p), o, -p)
    <2> DEFINE g == Bump(f, o, p)
               h == Bump(g, o, -p)
    <2>1. /\ g \in [Owners -> Int] /\ g[o] = f[o] + p
          /\ \A u \in Owners : u # o => g[u] = f[u]
      BY <1>4 DEF Bump
    <2> HIDE DEF g
    <2>2. /\ h \in [Owners -> Int] /\ h[o] = g[o] - p
          /\ \A u \in Owners : u # o => h[u] = g[u]
      BY <1>4, <2>1 DEF Bump
    <2> HIDE DEF h
    <2>3. ASSUME NEW u \in Owners PROVE h[u] = f[u]
      <3>1. f[o] \in Int
        BY <1>4
      <3>2. CASE u = o
        BY <1>4, <2>1, <2>2, <3>1, <3>2
      <3>3. CASE u # o
        BY <2>1, <2>2, <3>3
      <3> QED BY <3>2, <3>3
    <2>4. h = f
      BY <1>4, <2>2, <2>3
    <2> QED BY <2>4 DEF h, g
  <1> QED BY <1>1, <1>2, <1>3, <1>4 DEF f, o, p

\* One that changes its owner is taken from the one and given to the other.
LEMMA LocksMove ==
  ASSUME NEW v \in [Nfts -> VestingRow], NEW n \in Nfts, NEW to \in Owners,
         v[n].status = "ACTIVE"
  PROVE  LET w == [v EXCEPT ![n].owner = to] IN
           /\ w \in [Nfts -> VestingRow]
           /\ LocksOf(w) = Bump(Bump(LocksOf(v), v[n].owner, -v[n].par), to, v[n].par)
  <1> DEFINE w == [v EXCEPT ![n].owner = to]
             x == [v EXCEPT ![n] = NoRow]
  <1>1. /\ v[n] \in [status : {"ACTIVE", "CLOSED", "FORCE_CLOSED", "EMERGENCY_CLOSED"},
                     owner : Owners, par : Nat]
    BY DEF VestingRow, NoRow
  <1>2. /\ w \in [Nfts -> VestingRow] /\ w[n].status = "ACTIVE"
        /\ w[n].owner = to /\ w[n].par = v[n].par
        /\ \A m \in Nfts : m # n => w[m] = v[m]
    BY <1>1 DEF VestingRow
  <1>3. /\ x \in [Nfts -> VestingRow] /\ x[n].status # "ACTIVE"
        /\ \A m \in Nfts : m # n => x[m] = v[m]
    BY DEF VestingRow, NoRow
  <1> HIDE DEF w, x
  <1>4. LocksOf(x) = Bump(LocksOf(v), v[n].owner, -v[n].par)
    BY <1>3, LocksLose
  <1>5. LocksOf(w) = Bump(LocksOf(x), w[n].owner, w[n].par)
    <2>1. \A m \in Nfts : m # n => w[m] = x[m]
      BY <1>2, <1>3
    <2> QED BY <1>2, <1>3, <2>1, LocksGain
  <1> QED BY <1>2, <1>4, <1>5 DEF w

-----------------------------------------------------------------------------
(* The invariant                                                           *)

\* A position has a row only once one of its creation events is handled, and the
\* row then agrees with the contract; a position whose events are all handled
\* has one.
ChainRow ==
  {Unminted} \union [life : {"live", "burned"}, owner : Owners, par : Nat,
                     holders : SUBSET Owners, pending : SUBSET CreationEvents]
Agrees(c, v) ==
  /\ v # NoRow => c.life # "unminted" /\ v.owner = c.owner /\ v.par = c.par
  /\ c.life # "unminted" => c.owner \in c.holders
  /\ c.life = "live" => IF v = NoRow THEN c.pending = CreationEvents ELSE v.status = "ACTIVE"
  /\ c.life = "burned" => v.status # "ACTIVE" /\ c.pending = {}

ChainInv ==
  /\ chain \in [Nfts -> ChainRow] /\ vesting \in [Nfts -> VestingRow]
  /\ \A n \in Nfts : Agrees(chain[n], vesting[n])

\* What db has more than the ledger under it is in total what the active
\* positions lock, and for each user if no vault has owned one.
AccountsFor(over) ==
  /\ SumFunction(over) = SumFunction(LocksOf(vesting))
  /\ (\A n \in Nfts : NeverHeldByVault(n)) => over = LocksOf(vesting)
Backed == \E s, over : Under(s, db, over) /\ AccountsFor(over)

VestingInv == ChainInv /\ Backed

\* A vault that has held a position still is a vault, and still has held it.
LEMMA NeverHeldBefore ==
  ASSUME NEW s, NEW over, Under(s, db, over), NEW t, NEW after, Under(t, db', after),
         UsersStay(s, t), \A n \in Nfts : chain[n].holders \subseteq chain'[n].holders,
         \A n \in Nfts : chain[n].holders \subseteq Owners,
         (\A n \in Nfts : NeverHeldByVault(n))'
  PROVE  \A n \in Nfts : NeverHeldByVault(n)
  <1>1. db.users = s.users /\ db'.users = t.users
    BY UnderFacts
  <1>2. ASSUME NEW n \in Nfts, NEW u \in chain[n].holders PROVE db.users[u].effectiveUser = u
    <2>1. u \in chain'[n].holders /\ u \in Owners
      BY <1>2
    <2>2. db'.users[u].effectiveUser = u
      BY <2>1 DEF NeverHeldByVault, EffectiveUserOf
    <2> QED BY <1>1, <2>1, <2>2 DEF UsersStay
  <1> QED BY <1>2 DEF NeverHeldByVault, EffectiveUserOf

\* The step of a handler that leaves the rows of the positions alone.
LEMMA BackedStays ==
  ASSUME NEW s, NEW over, Under(s, db, over), AccountsFor(over), Stays(s, db', over),
         vesting' = vesting, \A n \in Nfts : chain[n].holders \subseteq chain'[n].holders,
         \A n \in Nfts : chain[n].holders \subseteq Owners
  PROVE  Backed'
  <1>1. PICK t : Under(t, db', over) /\ UsersStay(s, t)
    BY DEF Stays
  <1>2. (\A n \in Nfts : NeverHeldByVault(n))' => \A n \in Nfts : NeverHeldByVault(n)
    BY <1>1, NeverHeldBefore
  <1>3. AccountsFor(over)'
    BY <1>2 DEF AccountsFor
  <1> QED BY <1>1, <1>3 DEF Backed

\* Before the first event.
LEMMA VestingInitHolds ==
  ASSUME VestingInit PROVE VestingInv
  <1>1. ChainInv
    BY DEF VestingInit, ChainInv, ChainRow, VestingRow, Agrees, Unminted, NoRow
  <1> DEFINE zero == [u \in Owners |-> 0]
  <1>2. LocksOf(vesting) = zero
    <2>1. \A u \in Owners : LocksIn(vesting, u) = {}
      BY DEF VestingInit, LocksIn, NoRow
    <2>2. \A u \in Owners : LocksOf(vesting)[u] = SumFunctionOnSet(
              [n \in LocksIn(vesting, u) |-> vesting[n].par], LocksIn(vesting, u))
      BY <1>1, LocksFacts DEF ChainInv
    <2>3. \A u \in Owners : LocksOf(vesting)[u] = 0
      BY <2>1, <2>2, SumOfNone
    <2> QED BY <2>3 DEF LocksOf
  <1>3. Under(EmptyStore, db, zero)
    <2>1. LedgerInv(EmptyStore) /\ EmptyStore \in Store /\ db = EmptyStore
      BY InitHolds DEF LedgerInv, VestingInit, Init
    <2>2. EmptyStore = With(EmptyStore, EmptyStore.userPars)
      BY <2>1 DEF With, Store
    <2>3. EmptyStore.userPars \in UserPars
      BY <2>1 DEF Store, UserPars
    <2>4. Carries(EmptyStore.userPars, EmptyStore, zero)
      BY <2>3 DEF Carries, Extra, UserPars, UserParRow
    <2> QED BY <2>1, <2>2, <2>3, <2>4 DEF Under
  <1>4. AccountsFor(zero)
    BY <1>2 DEF AccountsFor
  <1> QED BY <1>1, <1>3, <1>4 DEF VestingInv, Backed

\* The rows of one position and of its token on the chain.
LEMMA PositionFacts ==
  ASSUME ChainInv, NEW n \in Nfts
  PROVE  /\ chain[n].holders \subseteq Owners
         /\ chain[n].life = "unminted" => chain[n] = Unminted /\ vesting[n] = NoRow
         /\ chain[n].life # "unminted" =>
              /\ chain[n] \in [life : {"live", "burned"}, owner : Owners, par : Nat,
                               holders : SUBSET Owners, pending : SUBSET CreationEvents]
              /\ chain[n].owner \in Owners /\ chain[n].par \in Nat
              /\ chain[n].owner \in chain[n].holders
         /\ vesting[n] # NoRow =>
              /\ vesting[n] \in [status : {"ACTIVE", "CLOSED", "FORCE_CLOSED", "EMERGENCY_CLOSED"},
                                 owner : Owners, par : Nat]
              /\ vesting[n].owner = chain[n].owner /\ vesting[n].par = chain[n].par
         /\ Agrees(chain[n], vesting[n])
  <1>1. /\ chain[n] \in ChainRow /\ vesting[n] \in VestingRow /\ Agrees(chain[n], vesting[n])
    BY DEF ChainInv
  <1>2. CASE chain[n] = Unminted
    <2>1. chain[n].holders = {} /\ chain[n].life = "unminted"
      BY <1>2 DEF Unminted
    <2> QED BY <1>1, <1>2, <2>1 DEF Agrees, VestingRow
  <1>3. CASE chain[n] # Unminted
    <2>1. chain[n] \in [life : {"live", "burned"}, owner : Owners, par : Nat,
                        holders : SUBSET Owners, pending : SUBSET CreationEvents]
      BY <1>1, <1>3 DEF ChainRow
    <2>2. /\ chain[n].life # "unminted" /\ chain[n].holders \subseteq Owners
          /\ chain[n].owner \in Owners /\ chain[n].par \in Nat
      BY <2>1
    <2> QED BY <1>1, <2>1, <2>2 DEF Agrees, VestingRow
  <1> QED BY <1>2, <1>3

\* An event of the ledger.
LEMMA LedgerStep ==
  ASSUME VestingInv, UNCHANGED <<chain, vesting>>,
         AccountEvent \/ \E vault, account \in Owners : VaultCreated(vault, account)
  PROVE  VestingInv'
  <1>1. PICK s, over : Under(s, db, over) /\ AccountsFor(over)
    BY DEF VestingInv, Backed
  <1>2. Stays(s, db', over)
    BY <1>1, AccountEventUnder, VaultCreatedUnder
  <1>3. ChainInv'
    BY DEF VestingInv, ChainInv
  <1>4. \A n \in Nfts : chain[n].holders \subseteq chain'[n].holders /\ chain[n].holders \subseteq Owners
    BY PositionFacts DEF VestingInv
  <1>5. Backed'
    BY <1>1, <1>2, <1>4, BackedStays
  <1> QED BY <1>3, <1>5 DEF VestingInv

\* A position of the contract that the indexer has seen nothing of.
LEMMA VestStep ==
  ASSUME VestingInv, NEW n \in Nfts, NEW owner \in Owners, NEW par \in 1 .. MaxPar,
         Vest(n, owner, par)
  PROVE  VestingInv'
  <1> DEFINE c == [life |-> "live", owner |-> owner, par |-> par, holders |-> {owner},
                   pending |-> CreationEvents]
  <1>1. /\ chain' = [chain EXCEPT ![n] = c] /\ db' = db /\ vesting' = vesting
        /\ chain \in [Nfts -> ChainRow] /\ vesting \in [Nfts -> VestingRow]
        /\ chain[n] = Unminted /\ vesting[n] = NoRow
    BY PositionFacts DEF Vest, VestingInv, ChainInv
  <1>2. c \in ChainRow /\ Agrees(c, NoRow)
    BY BoundsAssumption DEF ChainRow, Agrees
  <1> HIDE DEF c
  <1>3. ChainInv'
    BY <1>1, <1>2 DEF VestingInv, ChainInv
  <1>4. PICK s, over : Under(s, db, over) /\ AccountsFor(over)
    BY DEF VestingInv, Backed
  <1>5. Stays(s, db', over)
    BY <1>1, <1>4 DEF Stays, UsersStay
  <1>6. \A m \in Nfts : chain[m].holders \subseteq chain'[m].holders /\ chain[m].holders \subseteq Owners
    <2>1. chain[n].holders = {}
      BY <1>1 DEF Unminted
    <2> QED BY <1>1, <2>1, PositionFacts DEF VestingInv
  <1>7. Backed'
    BY <1>1, <1>4, <1>5, <1>6, BackedStays
  <1> QED BY <1>3, <1>7 DEF VestingInv

\* The ERC721 events of a mint and of a burn create at most a user.
LEMMA MintOrBurnStep ==
  ASSUME VestingInv, NEW n \in Nfts, MintOrBurn(n)
  PROVE  VestingInv'
  <1>1. chain' = chain /\ vesting' = vesting
    BY DEF MintOrBurn
  <1>2. PICK s, over : Under(s, db, over) /\ AccountsFor(over)
    BY DEF VestingInv, Backed
  <1>3. chain[n].owner \in Owners
    BY PositionFacts DEF MintOrBurn, VestingInv
  <1>4. Stays(s, db', over)
    <2>1. CASE db' = db
      BY <1>2, <2>1 DEF Stays, UsersStay
    <2>2. CASE db' = CreateUserIfNecessary(db, chain[n].owner)
      BY <1>2, <1>3, <2>2, CreateUserUnder DEF Stays
    <2> QED BY <2>1, <2>2 DEF MintOrBurn
  <1>5. ChainInv'
    BY <1>1 DEF VestingInv, ChainInv
  <1>6. \A m \in Nfts : chain[m].holders \subseteq chain'[m].holders /\ chain[m].holders \subseteq Owners
    BY <1>1, PositionFacts DEF VestingInv
  <1>7. Backed'
    BY <1>1, <1>2, <1>4, <1>6, BackedStays
  <1> QED BY <1>5, <1>7 DEF VestingInv

\* The first creation event of a position books its par, the second does not.
LEMMA CreatedStep ==
  ASSUME VestingInv, NEW n \in Nfts, NEW event \in CreationEvents, VestingCreated(n, event)
  PROVE  VestingInv'
  <1> DEFINE o == chain[n].owner
             p == chain[n].par
             c == [chain[n] EXCEPT !.pending = chain[n].pending \ {event}]
             d == CreateUserIfNecessary(db, o)
  <1>1. /\ event \in chain[n].pending
        /\ chain' = [chain EXCEPT ![n] = c]
        /\ IF vesting[n] # NoRow THEN db' = d /\ vesting' = vesting
           ELSE db' = Booked(d, o, p) /\ vesting' = [vesting EXCEPT ![n] = NewRow(n)]
    BY DEF VestingCreated, CreationHandled
  <1>2. /\ chain \in [Nfts -> ChainRow] /\ vesting \in [Nfts -> VestingRow]
        /\ \A m \in Nfts : Agrees(chain[m], vesting[m])
        /\ \A m \in Nfts : chain[m].holders \subseteq Owners
    BY PositionFacts DEF VestingInv, ChainInv
  <1>3. chain[n].life # "unminted"
    <2>1. Unminted.pending = {}
      BY DEF Unminted
    <2> QED BY <1>1, <2>1, PositionFacts DEF VestingInv
  <1>4. /\ chain[n] \in [life : {"live", "burned"}, owner : Owners, par : Nat,
                         holders : SUBSET Owners, pending : SUBSET CreationEvents]
        /\ o \in Owners /\ p \in Nat /\ o \in chain[n].holders /\ Agrees(chain[n], vesting[n])
    BY <1>3, PositionFacts DEF VestingInv
  <1>5. chain[n].life = "live"
    BY <1>1, <1>4 DEF Agrees
  <1>6. /\ c \in [life : {"live", "burned"}, owner : Owners, par : Nat,
                  holders : SUBSET Owners, pending : SUBSET CreationEvents]
        /\ c.life = "live" /\ c.owner = o /\ c.par = p /\ c.holders = chain[n].holders
    BY <1>4, <1>5
  <1> HIDE DEF c
  <1>7. /\ chain' \in [Nfts -> ChainRow] /\ chain'[n] = c
        /\ \A m \in Nfts : m # n => chain'[m] = chain[m]
        /\ \A m \in Nfts : chain'[m].holders = chain[m].holders
    BY <1>1, <1>2, <1>6 DEF ChainRow
  <1>8. PICK s, over : Under(s, db, over) /\ AccountsFor(over)
    BY DEF VestingInv, Backed
  <1>9. PICK t : Under(t, d, over) /\ UsersStay(s, t)
    BY <1>4, <1>8, CreateUserUnder
  <1> HIDE DEF o, p, d
  <1>10. CASE vesting[n] # NoRow
    <2>1. db' = d /\ vesting' = vesting
      BY <1>1, <1>10
    <2>2. Agrees(c, vesting[n])
      BY <1>4, <1>5, <1>6, <1>10 DEF Agrees, o, p
    <2>3. ChainInv'
      BY <1>2, <1>7, <2>1, <2>2 DEF ChainInv
    <2>4. Stays(s, db', over)
      BY <1>9, <2>1 DEF Stays
    <2>5. Backed'
      BY <1>2, <1>7, <1>8, <2>1, <2>4, BackedStays
    <2> QED BY <2>3, <2>5 DEF VestingInv
  <1>11. CASE vesting[n] = NoRow
    <2>1. db' = Booked(d, o, p) /\ vesting' = [vesting EXCEPT ![n] = NewRow(n)]
      BY <1>1, <1>11
    <2>2. /\ NewRow(n) \in [status : {"ACTIVE", "CLOSED", "FORCE_CLOSED", "EMERGENCY_CLOSED"},
                            owner : Owners, par : Nat]
          /\ NewRow(n).status = "ACTIVE" /\ NewRow(n).owner = o /\ NewRow(n).par = p
      BY <1>4 DEF NewRow, o, p
    <2>3. /\ vesting' \in [Nfts -> VestingRow] /\ vesting'[n] = NewRow(n)
          /\ \A m \in Nfts : m # n => vesting'[m] = vesting[m]
      BY <1>2, <2>1, <2>2 DEF VestingRow
    <2>4. Agrees(c, NewRow(n))
      <3>1. NewRow(n) # NoRow
        BY <2>2 DEF NoRow
      <3> QED BY <1>4, <1>6, <2>2, <3>1 DEF Agrees, o
    <2>5. ChainInv'
      BY <1>2, <1>7, <2>3, <2>4 DEF ChainInv
    <2>6. LocksOf(vesting') = Bump(LocksOf(vesting), o, p)
      <3>1. vesting[n].status # "ACTIVE" /\ vesting'[n].status = "ACTIVE"
        BY <1>11, <2>2, <2>3 DEF NoRow
      <3> QED BY <1>2, <2>2, <2>3, <3>1, LocksGain
    <2>7. o \in Owners /\ p \in Int
      BY <1>4
    <2>b. PICK after : after = Bump(over, o, p)
      OBVIOUS
    <2>8. Under(t, db', after)
      BY <1>9, <2>1, <2>7, <2>b, BookedUnder
    <2>9. (\A m \in Nfts : NeverHeldByVault(m))' => \A m \in Nfts : NeverHeldByVault(m)
      <3>1. \A m \in Nfts : chain[m].holders \subseteq chain'[m].holders
        BY <1>7
      <3> QED BY <1>2, <1>8, <1>9, <2>8, <3>1, NeverHeldBefore
    <2>10. AccountsFor(after)'
      <3>1. SumFunction(after) = SumFunction(over) + p
        BY <1>8, <2>7, <2>b, BumpFacts DEF Under
      <3>2. SumFunction(LocksOf(vesting')) = SumFunction(LocksOf(vesting)) + p
        BY <1>2, <2>6, <2>7, LocksFacts, BumpFacts
      <3>3. SumFunction(over) = SumFunction(LocksOf(vesting))
        BY <1>8 DEF AccountsFor
      <3>4. (\A m \in Nfts : NeverHeldByVault(m))' => over = LocksOf(vesting)
        BY <1>8, <2>9 DEF AccountsFor
      <3> QED BY <2>6, <2>b, <3>1, <3>2, <3>3, <3>4 DEF AccountsFor
    <2>11. Backed'
      BY <2>8, <2>10 DEF Backed
    <2> QED BY <2>5, <2>11 DEF VestingInv
  <1> QED BY <1>10, <1>11

\* A transfer between holders moves the par in the rows of the users as it moves
\* the position, to other users than the holders only if one of them is a vault.
LEMMA TransferStep ==
  ASSUME VestingInv, NEW n \in Nfts, NEW to \in Owners, Transfer(n, to)
  PROVE  VestingInv'
  <1> DEFINE o == chain[n].owner
             p == vesting[n].par
             c == [chain[n] EXCEPT !.owner = to, !.holders = @ \union {to}]
             v == [vesting[n] EXCEPT !.owner = to]
             d == CreateUserIfNecessary(db, to)
             from == EffectiveUserOf(d, o)
             onto == EffectiveUserOf(d, to)
  <1>1. /\ chain[n].life = "live" /\ chain[n].pending = {}
        /\ vesting' = [vesting EXCEPT ![n] = v]
        /\ db' = Booked(Booked(d, from, -p), onto, p)
    BY DEF Transfer, Reported, ParMoved
  <1>2. /\ chain \in [Nfts -> ChainRow] /\ vesting \in [Nfts -> VestingRow]
        /\ \A m \in Nfts : Agrees(chain[m], vesting[m])
        /\ \A m \in Nfts : chain[m].holders \subseteq Owners
    BY PositionFacts DEF VestingInv, ChainInv
  <1>3. /\ chain[n] \in [life : {"live", "burned"}, owner : Owners, par : Nat,
                         holders : SUBSET Owners, pending : SUBSET CreationEvents]
        /\ o \in Owners /\ o \in chain[n].holders /\ Agrees(chain[n], vesting[n])
    BY <1>1, PositionFacts DEF VestingInv
  <1>4. vesting[n] # NoRow /\ vesting[n].status = "ACTIVE"
    BY <1>1, <1>3 DEF Agrees, CreationEvents
  <1>5. /\ vesting[n] \in [status : {"ACTIVE", "CLOSED", "FORCE_CLOSED", "EMERGENCY_CLOSED"},
                           owner : Owners, par : Nat]
        /\ vesting[n].owner = o /\ p = chain[n].par /\ p \in Nat
    BY <1>4, PositionFacts DEF VestingInv
  <1>6. chain' = [chain EXCEPT ![n] = c]
    <2>1. chain' = [chain EXCEPT ![n].owner = to, ![n].holders = @ \union {to}]
      BY DEF Transfer
    <2> QED BY <1>2, <1>3, <2>1
  <1>7. /\ c \in [life : {"live", "burned"}, owner : Owners, par : Nat,
                  holders : SUBSET Owners, pending : SUBSET CreationEvents]
        /\ c.life = "live" /\ c.owner = to /\ c.par = p /\ c.holders = chain[n].holders \union {to}
    BY <1>1, <1>3, <1>5
  <1>8. /\ v \in [status : {"ACTIVE", "CLOSED", "FORCE_CLOSED", "EMERGENCY_CLOSED"},
                  owner : Owners, par : Nat]
        /\ v.status = "ACTIVE" /\ v.owner = to /\ v.par = p
    BY <1>4, <1>5
  <1> HIDE DEF c, v
  <1>9. /\ chain' \in [Nfts -> ChainRow] /\ chain'[n] = c
        /\ \A m \in Nfts : m # n => chain'[m] = chain[m]
    BY <1>2, <1>6, <1>7 DEF ChainRow
  <1>10. /\ vesting' \in [Nfts -> VestingRow] /\ vesting'[n] = v
         /\ \A m \in Nfts : m # n => vesting'[m] = vesting[m]
    BY <1>1, <1>2, <1>8 DEF VestingRow
  <1>11. ChainInv'
    <2>1. v # NoRow
      BY <1>8 DEF NoRow
    <2>2. Agrees(c, v)
      BY <1>7, <1>8, <2>1 DEF Agrees
    <2> QED BY <1>2, <1>9, <1>10, <2>2 DEF ChainInv
  <1>12. PICK s, over : Under(s, db, over) /\ AccountsFor(over)
    BY DEF VestingInv, Backed
  <1>13. PICK t : Under(t, d, over) /\ UsersStay(s, t)
    BY <1>12, CreateUserUnder
  <1>14. d \in Store /\ d.users = t.users
    BY <1>13, UnderFacts
  <1> HIDE DEF d
  <1>15. from \in Owners /\ onto \in Owners
    BY <1>3, <1>14 DEF Store, UserRow, EffectiveUserOf
  <1> HIDE DEF from, onto
  <1>16. p \in Int /\ -p \in Int
    BY <1>5
  <1> HIDE DEF p
  <1>17. PICK one : one = Bump(over, from, -p)
    OBVIOUS
  <1>18. PICK after : after = Bump(one, onto, p)
    OBVIOUS
  <1>19. Under(t, Booked(d, from, -p), one)
    BY <1>13, <1>15, <1>16, <1>17, BookedUnder
  <1>20. Under(t, db', after)
    BY <1>1, <1>15, <1>16, <1>18, <1>19, BookedUnder
  <1>21. LocksOf(vesting') = Bump(Bump(LocksOf(vesting), o, -p), to, p)
    <2>1. vesting' = [vesting EXCEPT ![n].owner = to]
      BY DEF Transfer
    <2> QED BY <1>2, <1>4, <1>5, <2>1, LocksMove DEF p
  <1>22. SumFunction(after) = SumFunction(LocksOf(vesting'))
    <2>1. over \in [Owners -> Int] /\ LocksOf(vesting) \in [Owners -> Int]
      BY <1>2, <1>12, LocksFacts DEF Under
    <2>2. /\ one \in [Owners -> Int] /\ SumFunction(over) \in Int
          /\ SumFunction(one) = SumFunction(over) + -p
      BY <1>15, <1>16, <1>17, <2>1, BumpFacts
    <2>3. SumFunction(after) = SumFunction(one) + p
      BY <1>15, <1>16, <1>18, <2>2, BumpFacts
    <2> DEFINE half == Bump(LocksOf(vesting), o, -p)
    <2>4. /\ half \in [Owners -> Int] /\ SumFunction(LocksOf(vesting)) \in Int
          /\ SumFunction(half) = SumFunction(LocksOf(vesting)) + -p
      BY <1>3, <1>16, <2>1, BumpFacts
    <2>5. LocksOf(vesting') = Bump(half, to, p)
      BY <1>21
    <2> HIDE DEF half
    <2>6. SumFunction(LocksOf(vesting')) = SumFunction(half) + p
      BY <1>16, <2>4, <2>5, BumpFacts
    <2>7. SumFunction(over) = SumFunction(LocksOf(vesting))
      BY <1>12 DEF AccountsFor
    <2> QED BY <1>16, <2>2, <2>3, <2>4, <2>6, <2>7
  <1>23. (\A m \in Nfts : NeverHeldByVault(m))' => after = LocksOf(vesting')
    <2> SUFFICES ASSUME (\A m \in Nfts : NeverHeldByVault(m))'
                 PROVE  after = LocksOf(vesting')
      OBVIOUS
    <2>1. \A m \in Nfts : chain[m].holders \subseteq chain'[m].holders
      BY <1>7, <1>9
    <2>2. \A m \in Nfts : NeverHeldByVault(m)
      BY <1>2, <1>12, <1>13, <1>20, <2>1, NeverHeldBefore
    <2>3. over = LocksOf(vesting)
      BY <1>12, <2>2 DEF AccountsFor
    <2>4. o \in chain'[n].holders /\ to \in chain'[n].holders
      BY <1>3, <1>7, <1>9
    <2>5. db'.users = d.users
      BY <1>14, <1>20, UnderFacts
    <2>6. from = o /\ onto = to
      BY <2>4, <2>5 DEF NeverHeldByVault, EffectiveUserOf, from, onto
    <2> QED BY <1>17, <1>18, <1>21, <2>3, <2>6
  <1>24. Backed'
    BY <1>20, <1>22, <1>23 DEF Backed, AccountsFor
  <1> QED BY <1>11, <1>24 DEF VestingInv

\* A close takes the par from the row of the owner, where the position is active.
LEMMA ClosedStep ==
  ASSUME VestingInv, NEW n \in Nfts, NEW event \in CloseEvents, VestingClosed(n, event)
  PROVE  VestingInv'
  <1> DEFINE o == vesting[n].owner
             p == vesting[n].par
             c == [chain[n] EXCEPT !.life = "burned"]
             v == [vesting[n] EXCEPT !.status = ClosedStatus[event]]
  <1>1. /\ chain[n].life = "live" /\ chain[n].pending = {}
        /\ chain' = [chain EXCEPT ![n] = c] /\ vesting' = [vesting EXCEPT ![n] = v]
        /\ db' = Booked(db, o, -p)
    BY DEF VestingClosed, Reported
  <1>2. /\ chain \in [Nfts -> ChainRow] /\ vesting \in [Nfts -> VestingRow]
        /\ \A m \in Nfts : Agrees(chain[m], vesting[m])
        /\ \A m \in Nfts : chain[m].holders \subseteq Owners
    BY PositionFacts DEF VestingInv, ChainInv
  <1>3. /\ chain[n] \in [life : {"live", "burned"}, owner : Owners, par : Nat,
                         holders : SUBSET Owners, pending : SUBSET CreationEvents]
        /\ chain[n].owner \in chain[n].holders /\ Agrees(chain[n], vesting[n])
    BY <1>1, PositionFacts DEF VestingInv
  <1>4. vesting[n] # NoRow /\ vesting[n].status = "ACTIVE"
    BY <1>1, <1>3 DEF Agrees, CreationEvents
  <1>5. /\ vesting[n] \in [status : {"ACTIVE", "CLOSED", "FORCE_CLOSED", "EMERGENCY_CLOSED"},
                           owner : Owners, par : Nat]
        /\ o = chain[n].owner /\ o \in Owners /\ p = chain[n].par /\ p \in Nat
    BY <1>4, PositionFacts DEF VestingInv
  <1>6. ClosedStatus[event] \in {"CLOSED", "FORCE_CLOSED", "EMERGENCY_CLOSED"}
    BY DEF ClosedStatus, CloseEvents
  <1>7. /\ c \in [life : {"live", "burned"}, owner : Owners, par : Nat,
                  holders : SUBSET Owners, pending : SUBSET CreationEvents]
        /\ c.life = "burned" /\ c.owner = o /\ c.par = p /\ c.holders = chain[n].holders
        /\ c.pending = {}
    BY <1>1, <1>3, <1>5
  <1>8. /\ v \in [status : {"ACTIVE", "CLOSED", "FORCE_CLOSED", "EMERGENCY_CLOSED"},
                  owner : Owners, par : Nat]
        /\ v.status # "ACTIVE" /\ v.owner = o /\ v.par = p
    BY <1>5, <1>6
  <1> HIDE DEF c, v
  <1>9. /\ chain' \in [Nfts -> ChainRow] /\ chain'[n] = c
        /\ \A m \in Nfts : m # n => chain'[m] = chain[m]
        /\ \A m \in Nfts : chain'[m].holders = chain[m].holders
    BY <1>1, <1>2, <1>7 DEF ChainRow
  <1>10. /\ vesting' \in [Nfts -> VestingRow] /\ vesting'[n] = v
         /\ \A m \in Nfts : m # n => vesting'[m] = vesting[m]
    BY <1>1, <1>2, <1>8 DEF VestingRow
  <1>11. ChainInv'
    <2>1. Agrees(c, v)
      BY <1>3, <1>5, <1>7, <1>8 DEF Agrees
    <2> QED BY <1>2, <1>9, <1>10, <2>1 DEF ChainInv
  <1>12. PICK s, over : Under(s, db, over) /\ AccountsFor(over)
    BY DEF VestingInv, Backed
  <1>13. p \in Int /\ -p \in Int
    BY <1>5
  <1>14. LocksOf(vesting') = Bump(LocksOf(vesting), o, -p)
    BY <1>2, <1>4, <1>8, <1>10, LocksLose
  <1> HIDE DEF o, p
  <1>15. PICK after : after = Bump(over, o, -p)
    OBVIOUS
  <1>16. Under(s, db', after)
    BY <1>1, <1>5, <1>12, <1>13, <1>15, BookedUnder
  <1>17. SumFunction(after) = SumFunction(LocksOf(vesting'))
    <2>1. over \in [Owners -> Int] /\ LocksOf(vesting) \in [Owners -> Int]
      BY <1>2, <1>12, LocksFacts DEF Under
    <2>2. SumFunction(after) = SumFunction(over) + -p
      BY <1>5, <1>13, <1>15, <2>1, BumpFacts
    <2>3. SumFunction(LocksOf(vesting')) = SumFunction(LocksOf(vesting)) + -p
      <3>1. SumFunction(Bump(LocksOf(vesting), o, -p)) = SumFunction(LocksOf(vesting)) + -p
        BY <1>5, <1>13, <2>1, BumpFacts
      <3> QED BY <1>14, <3>1
    <2>4. SumFunction(over) = SumFunction(LocksOf(vesting))
      BY <1>12 DEF AccountsFor
    <2> QED BY <2>2, <2>3, <2>4
  <1>18. (\A m \in Nfts : NeverHeldByVault(m))' => after = LocksOf(vesting')
    <2>1. UsersStay(s, s)
      BY DEF UsersStay
    <2>2. \A m \in Nfts : chain[m].holders \subseteq chain'[m].holders
      BY <1>9
    <2>3. (\A m \in Nfts : NeverHeldByVault(m))' => \A m \in Nfts : NeverHeldByVault(m)
      BY <1>2, <1>12, <1>16, <2>1, <2>2, NeverHeldBefore
    <2>4. (\A m \in Nfts : NeverHeldByVault(m))' => over = LocksOf(vesting)
      BY <1>12, <2>3 DEF AccountsFor
    <2> QED BY <1>14, <1>15, <2>4
  <1>19. Backed'
    BY <1>16, <1>17, <1>18 DEF Backed, AccountsFor
  <1> QED BY <1>11, <1>19 DEF VestingInv

\* Every step.
LEMMA VestingNextKeeps ==
  ASSUME VestingInv, [VestingNext]_vars
  PROVE  VestingInv'
  <1>1. CASE UNCHANGED vars
    <2>1. chain' = chain /\ vesting' = vesting /\ db' = db
      BY <1>1 DEF vars
    <2> QED BY <2>1 DEF VestingInv, ChainInv, Backed, AccountsFor, NeverHeldByVault
  <1> QED BY <1>1, LedgerStep, VestStep, CreatedStep, MintOrBurnStep, TransferStep, ClosedStep
          DEF VestingNext

\* In a ledger the rows of the users add up to the total of the token: an account
\* that is bound to nobody has no par.
LEMMA LedgerRowsSum ==
  ASSUME NEW s, LedgerInv(s), NEW t \in Tokens
  PROVE  SumFunctionOnSet([u \in Owners |-> s.userPars[u][t].totalSupplyPar], Owners)
           = s.totalPar[t].supplyPar
  <1> DEFINE f == Supplies(s, t)
             g == [a \in Accounts |-> s.accounts[a].effectiveUser]
             S == {a \in Accounts : s.accounts[a].stored}
  <1>1. s \in Store /\ NoDeadRowsIn(s) /\ TotalParIsSumIn(s) /\ UserParIsSumIn(s)
    BY DEF LedgerInv, RowInv, SumInv
  <1>2. /\ \A a \in Accounts : f[a] \in Int /\ f[a] = SupplyPart(ParOf(s, a, t))
        /\ SumFunction(f) = SumFunctionOnSet(f, Accounts)
    BY <1>1, PartTypes
  <1>3. s.totalPar[t].supplyPar = SumFunctionOnSet(f, Accounts)
    <2>1. s.totalPar[t] = [supplyPar |-> SumFunction(Supplies(s, t)),
                           borrowPar |-> SumFunction(Borrows(s, t))]
      BY <1>1 DEF TotalParIsSumIn
    <2>2. s.totalPar[t].supplyPar = SumFunction(Supplies(s, t))
      BY <2>1
    <2> QED BY <1>2, <2>2
  <1>4. \A a \in Accounts \ S : f[a] = 0
    <2>1. ASSUME NEW a \in Accounts, ~ s.accounts[a].stored PROVE ParOf(s, a, t) = 0
      BY <1>1, <2>1 DEF NoDeadRowsIn, ParOf
    <2> QED BY <1>2, <2>1 DEF SupplyPart
  <1>5. S \in SUBSET Accounts /\ IsFiniteSet(S) /\ \A a \in S : g[a] \in Owners /\ f[a] \in Int
    <2>1. \A a \in Accounts : s.accounts[a].effectiveUser \in Owners
      BY <1>1 DEF Store, AccountRow
    <2> QED BY <1>2, <2>1, FinitenessAssumption, FS_Subset
  <1>6. \A u \in Owners :
          s.userPars[u][t].totalSupplyPar = SumFunctionOnSet(f, {a \in S : g[a] = u})
    <2>1. \A u \in Owners : BoundTo(s, u) = {a \in S : g[a] = u}
      BY DEF BoundTo
    <2>2. \A u \in Owners :
            s.userPars[u][t].totalSupplyPar = SumFunctionOnSet(f, BoundTo(s, u))
      BY <1>1 DEF UserParIsSumIn
    <2> HIDE DEF f, g, S
    <2> QED BY <2>1, <2>2
  <1> HIDE DEF f, g, S
  <1>7. SumFunctionOnSet(f, Accounts) = SumFunctionOnSet(f, S)
    BY <1>2, <1>4, <1>5, FinitenessAssumption, SumOfPart
  <1>8. SumFunctionOnSet([u \in Owners |-> SumFunctionOnSet(f, {a \in S : g[a] = u})], Owners)
          = SumFunctionOnSet(f, S)
    <2>1. \A a \in S : f[a] \in Int
      BY <1>5
    <2>2. \A a \in S : g[a] \in Owners
      BY <1>5
    <2> QED BY <1>5, <2>1, <2>2, FinitenessAssumption, SumByGroup
  <1>9. [u \in Owners |-> SumFunctionOnSet(f, {a \in S : g[a] = u})]
          = [u \in Owners |-> s.userPars[u][t].totalSupplyPar]
    BY <1>6
  <1> QED BY <1>3, <1>7, <1>8, <1>9

\* What the invariant says of the rows that db holds of the pair token.
LEMMA VestingRows ==
  ASSUME VestingInv
  PROVE  /\ LockedParConserved
         /\ UserParWithVesting
         /\ TypeOK /\ AccountListsTrackBalances /\ ExpirationsListed /\ TotalParIsSum
         /\ PositionListsAmounts /\ AmountsMirrorBalances /\ StatusTracksAmounts
         /\ HeldTokensAreListed /\ EffectiveUsersResolve
         /\ PositionCountsExact /\ UsersCountedAtMostOnce
  <1> DEFINE locks == LocksOf(vesting)
  <1>1. PICK s, over : Under(s, db, over) /\ AccountsFor(over)
    BY DEF VestingInv, Backed
  <1>2. /\ s \in Store /\ db \in Store
        /\ db.users = s.users /\ db.userCount = s.userCount
        /\ db.borrowPositionCount = s.borrowPositionCount
        /\ db.accounts = s.accounts /\ db.values = s.values /\ db.totalPar = s.totalPar
        /\ db.positions = s.positions /\ db.amounts = s.amounts
    BY <1>1, UnderFacts
  <1>3. /\ LedgerInv(s) /\ over \in [Owners -> Int]
        /\ \A u \in Owners : db.userPars[u][PairToken].totalSupplyPar
                               = s.userPars[u][PairToken].totalSupplyPar + over[u]
    BY <1>1, PairTokenAssumption DEF Under, Carries, Extra
  <1>4. locks \in [Owners -> Int] /\ locks = [u \in Owners |-> LockedPar(u)]
    <2>1. locks \in [Owners -> Int]
      BY LocksFacts DEF VestingInv, ChainInv
    <2> QED BY <2>1 DEF LocksOf, LocksIn, LockedPar, Locked
  <1> HIDE DEF locks
  <1>5. LockedParConserved
    <2> DEFINE h == [u \in Owners |-> db.userPars[u][PairToken].totalSupplyPar]
               f == [u \in Owners |-> s.userPars[u][PairToken].totalSupplyPar]
    <2>1. \A u \in Owners : s.userPars[u][PairToken].totalSupplyPar \in Int
      BY <1>2, PairTokenAssumption DEF Store, UserParRow
    <2>2. \A u \in Owners : f[u] \in Int /\ over[u] \in Int /\ h[u] = f[u] + over[u]
      BY <1>3, <2>1
    <2>3. SumFunctionOnSet(f, Owners) = db.totalPar[PairToken].supplyPar
      BY <1>2, <1>3, PairTokenAssumption, LedgerRowsSum
    <2>4. DOMAIN h = Owners
      OBVIOUS
    <2> HIDE DEF h, f
    <2>5. SumFunctionOnSet(h, Owners) = SumFunctionOnSet(f, Owners) + SumFunctionOnSet(over, Owners)
      BY <2>2, FinitenessAssumption, SumAdds
    <2>6. DOMAIN over = Owners /\ DOMAIN locks = Owners
      BY <1>3, <1>4
    <2>7. SumFunction(over) = SumFunction(locks)
      BY <1>1 DEF AccountsFor, locks
    <2>8. SumFunction(h) = db.totalPar[PairToken].supplyPar + SumFunction(locks)
      BY <2>3, <2>4, <2>5, <2>6, <2>7 DEF SumFunction
    <2> QED BY <1>4, <2>8 DEF LockedParConserved, h
  <1>6. UserParWithVesting
    <2> SUFFICES ASSUME \A n \in Nfts : NeverHeldByVault(n), NEW u \in Owners
                 PROVE  db.userPars[u][PairToken].totalSupplyPar
                          = LockedPar(u) + SumFunctionOnSet(Supplies(db, PairToken), BoundTo(db, u))
      BY DEF UserParWithVesting
    <2>1. over[u] = LockedPar(u) /\ LockedPar(u) \in Int
      BY <1>1, <1>4 DEF AccountsFor, locks
    <2>2. s.userPars[u][PairToken].totalSupplyPar
            = SumFunctionOnSet(Supplies(s, PairToken), BoundTo(s, u))
      BY <1>3, PairTokenAssumption DEF LedgerInv, SumInv, UserParIsSumIn
    <2>3. Supplies(s, PairToken) = Supplies(db, PairToken) /\ BoundTo(s, u) = BoundTo(db, u)
      BY <1>2 DEF Supplies, BoundTo, ParOf
    <2>4. s.userPars[u][PairToken].totalSupplyPar \in Int
      BY <1>2, PairTokenAssumption DEF Store, UserParRow
    <2> QED BY <1>3, <2>1, <2>2, <2>3, <2>4
  <1>7. /\ AccountListsTrackBalances /\ ExpirationsListed
    BY <1>2, <1>3 DEF LedgerInv, AccountInv, AccountListsTrackBalances, ListsTrackBalancesIn,
                      ExpirationsListed, ExpirationsListedIn, ParOf
  <1>8. TotalParIsSum
    BY <1>2, <1>3 DEF LedgerInv, SumInv, TotalParIsSum, TotalParIsSumIn, Supplies, Borrows, ParOf
  <1>9. /\ PositionListsAmounts /\ AmountsMirrorBalances /\ StatusTracksAmounts
        /\ HeldTokensAreListed
    BY <1>2, <1>3 DEF LedgerInv, PositionInv, PositionListsAmounts, AmountsMirrorBalances,
                      StatusTracksAmounts, HeldTokensAreListed, PositionListsAmountsIn,
                      AmountsMirrorBalancesIn, StatusTracksAmountsIn, HeldTokensAreListedIn, ParOf
  <1>10. EffectiveUsersResolve
    BY <1>2, <1>3 DEF LedgerInv, RowInv, EffectiveUsersResolve, EffectiveUsersResolveIn
  <1>11. PositionCountsExact /\ UsersCountedAtMostOnce
    BY <1>2, <1>3 DEF LedgerInv, CountInv, PositionCountsExact, PositionCountsIn,
                      UsersCountedAtMostOnce, UsersCountedIn, Opened, StoredUsers
  <1> QED BY <1>2, <1>5, <1>6, <1>7, <1>8, <1>9, <1>10, <1>11 DEF TypeOK

-----------------------------------------------------------------------------
(* Theorems about Vesting                                                  *)

\* The rows of the positions follow the contract, and what the ledger's rows hold
\* besides their own par is what the positions lock.
THEOREM VestingInvariant == VestingSpec => []VestingInv
  <1>1. VestingInit => VestingInv
    BY VestingInitHolds
  <1>2. VestingInv /\ [VestingNext]_vars => VestingInv'
    BY VestingNextKeeps
  <1> QED BY <1>1, <1>2, PTL DEF VestingSpec

\* liquidity-mining.ts:85 and 228-239 against helpers/margin.ts:432-457: the
\* users' rows of the pair token are what the accounts supply and the active
\* positions lock, whoever owned them and in whatever order the events came.
THEOREM LockedParCorrect == VestingSpec => []LockedParConserved
  <1>1. VestingInv => LockedParConserved
    BY VestingRows
  <1> QED BY <1>1, VestingInvariant, PTL

\* The same for every user, as long as no vault has owned a position.
THEOREM UserParWithVestingCorrect == VestingSpec => []UserParWithVesting
  <1>1. VestingInv => UserParWithVesting
    BY VestingRows
  <1> QED BY <1>1, VestingInvariant, PTL

\* The properties of the ledger that are not about UserParValue rows hold with
\* vesting as they do without it.
LedgerKept ==
  /\ TypeOK /\ AccountListsTrackBalances /\ ExpirationsListed /\ TotalParIsSum
  /\ PositionListsAmounts /\ AmountsMirrorBalances /\ StatusTracksAmounts
  /\ HeldTokensAreListed /\ EffectiveUsersResolve
  /\ PositionCountsExact /\ UsersCountedAtMostOnce
THEOREM LedgerUnderVesting == VestingSpec => []LedgerKept
  <1>1. VestingInv => LedgerKept
    BY VestingRows DEF LedgerKept
  <1> QED BY <1>1, VestingInvariant, PTL
=============================================================================
