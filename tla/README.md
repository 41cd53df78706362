# Dolomite indexer: TLA+ specifications and proofs

The repository is an Envio HyperIndex indexer of the Dolomite Margin protocol: a port
of a subgraph that turns the event logs of several chains into 52 entity
tables (`src/schema.graphql`). Everything hard about it is bookkeeping. One event
reads, changes, saves and deletes half a dozen rows in a fixed order, the next event
relies on what it left, and nothing ever checks a row against the chain again. A wrong
row stays wrong; a row that is missing where the code calls `getOrThrow` stops the
indexer. The repository's only test (`src/src/indexer.test.ts`) checks that the
handlers load.

This directory specifies the parts that carry state from one event to a later one,
model-checks them with TLC on small instances, and proves their main properties with
TLAPS for all instances.

## How the program works

* **Events.** `src/config.yaml` lists the contracts; every `indexer.onEvent` is an
  asynchronous handler. Events of a chain are handled one after the other, in block
  and log order; a handler sees the rows its predecessors saved. Rows of different
  chains have different ids (`helpers/ids.ts` prefixes the chain id), so one chain is
  the whole system as far as rows are concerned.
* **Rows.** `context.X.get` returns a row that must not be changed; handlers copy it,
  change the copy, pass it on to helpers, and `set` it. `set` overwrites the whole
  row. A copy that is saved late overwrites what was saved since it was loaded: this
  is the one kind of concurrency the program has, and it happens inside a handler.
* **Preloading.** Envio runs the handlers of a batch once beforehand to collect their
  reads. What that run writes is dropped, so it has no place in the models.
* **Effects.** RPC reads go through `context.effect` (`effects.ts`). A result of an
  effect with `cache: true` is stored under its input for good.
* **Failures.** An exception in a handler stops the indexer at that event. After a
  restart it handles the event again from the rows before it, so a handler either
  happens or does not.

## Components

| Component | State | Operations | What makes it correct |
| --- | --- | --- | --- |
| Account ledger (`margin-core.ts`, `helpers/margin.ts`, `margin-expiration.ts`) | `MarginAccount`, `MarginAccountTokenValue`, `UserParValue`, `TotalPar`, `DolomiteMargin` | `LogDeposit`, `LogWithdraw`, `LogTransfer`, `LogBuy`, `LogSell`, `LogTrade`, `LogLiquidate`, `LogVaporize`, `ExpirySet` | token lists, totals per market and per user, and expirations agree with the balances after any sequence of events |
| Users and vaults (`helpers/user.ts`, `helpers/isolation.ts`, `isolation-mode-vaults.ts`) | `User`, `DolomiteMargin.userCount` | creation on first use, `VaultCreated` | every user is counted; the effective user always exists |
| Borrow positions (`borrow-position-proxy.ts`, `helpers/borrow-position.ts`) | `BorrowPosition`, `BorrowPositionAmount`, counts | `BorrowPositionOpen`, every balance update | amounts are the balances, lists are the amounts, status follows them |
| Margin positions (`margin-position-proxy.ts`, parts of `margin-core.ts`, `margin-expiration.ts`, `helpers/margin.ts`) | `MarginPosition` | `MarginPositionOpen`, `MarginPositionClose`, transfers, liquidations, vaporizations, expirations, `ExpirySet` | pars are those of the markets it was last told of, what has ended stays ended, the close columns say how |
| Oracle prices (`helpers/pricing.ts`, `effects.ts`) | `OraclePrice`, stored effect results | lookup, `LogOraclePrice`, `LogAddMarket`, `LogRemoveMarket` | a row holds a price of the block it names |
| Trades (`_handleTradeInternal`, `helpers/margin.ts`) | `Trade`, `IntermediateTrade`, `actionCount`, `tradeCount`, `transactionCount`, `User.totalTradeCount` | `LogBuy`, `LogSell`, `LogTrade`, every action | a trade is one row and is counted once for each side |
| Interest (`helpers/interest-*.ts`, `modular-interest-setter.ts`, `LogSetEarningsRate`) | `InterestIndex`, `InterestRate` | `LogIndexUpdate`, rate updates, earnings rate | a supply rate contains the present earnings rate |
| Protocol liquidity and volumes (`changeProtocolBalance`, `helpers/volume.ts`) | liquidity columns of `Token` and `DolomiteMargin` | every balance event, `LogOraclePrice` | protocol totals are sums over the tokens that are not POL |
| Market administration (`margin-admin.ts`, `helpers/token.ts`) | `Token`, `TokenMarketIdReverseLookup`, `TotalPar`, `MarketRiskInfo` | `LogAddMarket`, `LogRemoveMarket`, setters | market ids resolve to the right token, with all its rows |
| AMM (`amm-core.ts`, `amm-factory.ts`, `helpers/amm.ts`) | `AmmPair`, `AmmMint`, `AmmBurn`, `AmmLiquidityPosition`, arrays of a `Transaction`, `AmmFactory` | `PairCreated`, `Transfer`, `Sync`, `Mint`, `Burn`, `Swap` | every logical mint and burn is one complete row; balances settle |
| Liquidity mining (`liquidity-mining.ts`, `helpers/liquidity-mining-helpers.ts`) | `LiquidityMiningVestingPosition`, `UserParValue`, claims | vesting life cycle, claims, level requests | a position's par is counted once, for its owner, while it is open |
| Event emitter (`event-emitter-registry.ts`) | `AsyncDeposit`, `AsyncWithdrawal`, settings | created, updated, executed, failed, cancelled | what has ended is not retryable; liquidation trades are marked |
| Zaps (`zap.ts`, `helpers/zap-helpers.ts`) | `Zap`, counts and volumes | `ZapExecuted` | the transfers of the zap are found; totals are sums |
| Ids, numbers, transactions, constants, effects | none, or written once | | |

Interactions: the ledger calls the user helpers and the borrow-position helper from
inside each balance update, and every balance event goes on to the protocol totals,
which ask the price cache. Trades and liquidations read and write margin positions.
Vesting writes the ledger's `UserParValue`. Asynchronous withdrawals and zaps read
the rows that other handlers wrote in the same transaction. `DolomiteMargin` is one
row that almost every handler loads, changes and saves.

The behaviours that are hard to test are listed, line by line, in `PROJECT.json`
under `hazards`. They are of four kinds: copies saved after a newer row (user count,
users shared by maker and taker, effective users cached in accounts), orders of events
nobody wrote down (close, liquidate, expire, reopen; the two halves of a POL trade; the
events that a mint or a burn is put together from), comparisons with zero in both
directions (lists, totals, deltas that cross zero), and answers that are not of the
event (cached prices, the market behind an id, balances read at the head).

## Modules

```
MarginStore <- MarginLedger <- MCMarginLedger               ledger_user_count,
                ^  ^  ^                                     ledger_position_lists
                |  |  +-- MarginLedgerProofs  (also on Vesting and WatchedAccount)
                |  +-- Vesting <- MCVesting                 ledger_vaults
            WatchedAccount <- MCWatchedAccount              ledger_trades
     INSTANCE   v
            AccountBook <- MarginPositions <- MCMarginPositions   positions
                                ^-- MarginPositionsProofs
OraclePrice <- MCOraclePrice, OraclePriceProofs             prices, prices_stale
PolTrades   <- MCPolTrades,   PolTradesProofs               trades_pol, trades_parties
Markets     <- MCMarkets,     MarketsProofs                 markets
AmmPairs    <- MCAmmPairs,    AmmPairsProofs                amm
AsyncRequests <--+
Zaps <---------- Transactions <- MCTransactions, TransactionsProofs   transactions

SumTheorems <- MarginLedgerProofs, MarketsProofs, AmmPairsProofs, TransactionsProofs
```

**MarginStore** is the store: one record with a function per entity table, and one
operator per helper of `helpers/user.ts`, `helpers/isolation.ts`, `helpers/margin.ts`
and `helpers/borrow-position.ts`, from the store before the call to the store after
it. A row that is not in its table is the row the code would create, with `stored`
false. Ids are replaced by what they are made of. The id arrays are kept as the number
of times each id occurs, because the code appends without looking (so an id may occur
twice), removes one occurrence, and never reads the order.

**MarginLedger** has one action per handler, a composition of these operators in the
order of the code; the late save of `DolomiteMargin` by trades is `SavedStaleMargin`.
Its actions are the balance part of the handlers: the amounts in USD, the volumes and
the log rows are left out, and so are the later parts of the same handlers that other
modules model (margin positions, trades, prices). Those parts write other rows and
read the ledger only, so that leaving them out takes no behaviour away.

**AccountBook** is the abstract specification of one account: a par and an expiration
per market and whether a borrow position was opened, nothing of how they are stored.
**WatchedAccount** gives the refinement mapping: an absent balance row is a zero par
without an expiration, and the other accounts disappear.

**MarginPositions** composes AccountBook with the handlers that change a
`MarginPosition`: every action is a step of the account, conjoined with what the
handler does to the position. The row does not hear of direct deposits, withdrawals
and trades, and hears of liquidations, vaporizations and expirations whatever markets
they name, whose pars it then takes over. So it cannot always show the account's pars
in its own markets. The history variables `heldShows` and `owedShows` name, for each of
the two par columns, the market whose par the column last took over, and nothing once
that par has moved without the row. `MirrorsAccount` says that the column shows the par
of that market, and that it is the position's own while the position is open or closed.
Prices and Wei amounts are reduced to whether the columns are set.

**OraclePrice** is the price row of one market with the stored result of the
`getMarketPrice` effect. While the indexer catches up, an RPC read is answered for the
head of the chain and may return any price (`AtHead = FALSE`); it may also fail
(`RpcFails`). The histories `inBlock` and `reported` say what the oracle said in the
current block.

**PolTrades** follows trade events to `Trade` rows. A trade with a POL market is two
actions of the chain; `pair` is the one whose second action is due. Events that are no
action come at any time, also between those two: they call
`getOrCreateDolomiteMarginForCall` as well, which sets the transaction's hash and raises
`transactionCount`, but leave it to their handlers to save the row. `LogOraclePrice`
stands for all of them, since each handler saves the row it has loaded. The accounts'
users and effective users are constants, since a vault is bound before it trades.

**Vesting** extends the ledger with the vesting positions of liquidity mining, because
both write `UserParValue`: the ledger's actions and the vesting handlers share `db`.
`chain` is the vester contract with its unhandled events, `vesting` the rows.
`VestingCreated` is the handler of either creation event; the second one must find the
row of the first. Creation and close book on the owner, a transfer on the effective
users, as in the code, so that a position that a vault has held can leave par with one
user that belongs to another; `LockedParConserved` holds all the same, and
`UserParWithVesting` says who has what as long as no vault was involved.

**Markets** is the registry of markets with the liquidity of the protocol. It follows
the rows of a market (`market`, `interestIndex`, `oraclePrice`), the reverse lookup,
which survives the removal, the liquidity columns of `Token` and `DolomiteMargin`
(`tokens`, `margin`), and which earnings rate each interest rate contains. Every
balance event is reduced to the bookings it makes: `OneMarketEvent` and
`TwoMarketEvent` take how often each market is booked, and the `TotalPar` that the
ledger leaves. `Throw` is a `getOrThrow` that does not find its row; the indexer then
stops. `Booked` is `changeProtocolBalanceApplied`.

**AmmPairs** is a Uniswap V2 pair and its handlers with the queue of events between
them. A call of the pair appends its events to the transaction (`pending`), which then
goes to the `queue` as a whole; `Handle` takes the next event. Mints and burns are
assembled by four operators in the order of the handler of `Transfer` (`Minted`,
`SentToPair`, `Burned`, then the positions). Balances are read from the chain variable
`balance`, not from the event: the head is ahead by what is pending and queued. The
first message of a transaction finds no rows (`Opened`), since ids carry the hash of
the transaction. `reported` is history: what the calls of the present transaction did,
and whether their transfers were `tidy`, so that the events alone say how they belong
together. A mint that also mints a fee is not tidy, because its first transfer looks
like a mint of its own. Nor is a burn of what the call before it did not send, because
the handler takes the last unfinished burn row for its own, or of exactly the ignored
amount with a fee, because the fee stays among the mints.

**AsyncRequests** and **Zaps** are the handlers that search rows of their own
transaction: the execution of an asynchronous withdrawal looks for `Trade` rows, a zap
for `Transfer` rows. **Transactions** composes the two by the end of a transaction,
which takes these rows out of reach. Neither reads what the other writes, so that the
variable `part` lets a behaviour follow one of them.

Definitions keep the names of the functions they stand for. Operators whose comment
begins with *Mutant* are deliberately wrong variants; `PROJECT.json` lists for each
property one such variant that breaks it, and no specification uses them.

### What is assumed of the chain

The guards say what the contracts guarantee of their events and nothing more.

* `LogAddMarket` comes before any event of a market; the ledger begins with the
  `DolomiteMargin` row and the `TotalPar` rows in place.
* A deposit does not lower a par, a withdrawal does not raise one, the sides of a
  transfer or a trade move in opposite directions, taker and maker differ, input and
  output differ, a liquidation moves the debt towards zero and takes collateral.
* A vault is created once, for an account that is not itself a vault; before or after
  the vault's own accounts exist.
* The router emits `MarginPositionOpen` and `MarginPositionClose` after its trade,
  with the pars the ledger then has, for accounts without a borrow position.
* `ExpirySet` sets expirations in the future.
* The two events of a POL trade are consecutive actions with the same taker, and the
  expiry contract is not the trader of such a pair.
* A market that is listed is not added again before it is removed. A market may be
  removed, its id given to another token, and its token listed under another id.
* The vester is an ERC721 contract. A vest call reports the position by two events, in
  either order (the handlers exist for both orders); a position is transferred and
  closed only after both. The ERC721 events of a mint or a burn come at any time.
* The calls of an AMM pair are those of a Uniswap V2 pair: the first mint locks the
  minimum, a mint or burn may first mint a fee, anyone may send liquidity to the pair
  and burn later or in another transaction. Recipients of mints are providers. A pair
  exists before the first call of any pair. Reserves are equal to the supply. No
  provider is a pair: what one pair holds of another is not followed.
* An asynchronous request is created once and ends when it is executed or cancelled;
  the trades of a withdrawal come before its execution, in the same transaction.
* A zap moves one amount in and one out before `ZapExecuted`, in the same transaction.
  An owner has one account and, within a transaction, one zap account (its number is a
  hash that contains the time); other owners may zap and transfer in between, and the
  store returns the transfers in any order.

Pars and prices are integers here; the code divides by powers of ten and never rounds
the par of an event.

## Runs

| Run | Instance | Distinct states | Shows |
| --- | --- | --- | --- |
| `ledger_trades` | 2 owners, an account each, one of them with a borrow position and watched as a book; 2 tokens; pars -1..1; no vaults, no expirations | 6 670 | account lists, market and user totals, borrow-position amounts, lists and status follow the balances through all balance events; no user is counted twice, whatever trades save a `DolomiteMargin` loaded before; the ledger refines AccountBook |
| `ledger_vaults` | an isolation vault and its owner, an account each, one borrow position; 1 token, also the pair token of 1 vesting position; 1 expiration time; pars -1..1 | 161 827 | positions are counted once per user, effective users resolve, expirations are listed; the par locked by vesting is added once and taken away once, whatever the ledger does to the row in between |
| `positions` | 3 markets, pars -1..1, expiration at 1, time 0..2 | 930 288 | the columns of the margin position show the par of the market they were last told of, its own while it is open or closed; close columns fit the status; a position only ends, and only the router moves its close time once written |
| `prices` | 3 prices, 4 blocks, catching up, failing RPC | 347 | a reported price prevails, rows follow the blocks |
| `trades_pol` | a vault and its owner, 5 actions, 5 transactions, events that are no action | 411 767 | no handler throws, pairs become single trades and are credited to both sides, every transaction that calls `DolomiteMargin` is counted once |
| `markets` | 2 market ids, 2 tokens, one of them POL, 3 listings; indexes 1 and 2, earnings rates 1 and 2, one override | 821 002 | protocol totals are sums across removals and recycled ids; liquidity is par at the index; the value of the borrows catches up; markets listed for the first time resolve, also when their id was another token's; rates contain the present earnings rate |
| `amm` | 2 pairs with a token in common, 2 providers, one of whom gets the fees; 4 calls, the head ahead of the handled event | 2 333 298 | rows match the calls of the pair; what can stop the handlers; supply, providers and liquidity add up; balances settle |
| `transactions` | 1 deposit and 2 withdrawals in 2 markets, or a vault and its user that zap; 6 events | 1 025 830 | what has ended is not retryable, trades of liquidations are marked and no others; a zap finds its transfers among those of others, and its totals are sums |
| `ledger_user_count` | 2 owners, 2 tokens | violated | finding 1 |
| `ledger_position_lists` | 1 position, 1 token | violated | finding 2 |
| `prices_stale` | 2 prices, 3 blocks, at the head, RPC always answers | violated | finding 3 |
| `trades_parties` | one POL trade | violated | finding 4 |

**Bounds.** `MaxPar` bounds the pars the chain reports: with 1 every sign change
happens, directly and through zero, and a delta crosses zero with an excess on the
other side. `MaxList` cuts off stores in which an id occurs more often in a sign list
of a borrow position (a consequence of finding 2); with 1 the bound cuts only
repetitions, and `ledger_vaults` and `ledger_position_lists` allow 2. Two accounts are
the parties of the largest handler, and a third account would only take the place of
one of them; its rows are left alone, which is part of the lemmas. Two tokens give
input and output, the third of `positions` is the foreign market. `MaxNow = 2` leaves
times before, at and after the expiration. `ledger_trades` has neither vaults nor
expirations and runs the specification without `VaultCreated`, which no owner enables
there; `ledger_vaults` has both, and the theorem `LedgerImplementsBook` covers the
refinement with both. `MaxBlock = 3` gives a report, a lookup in a later block, a
removal and an addition again. `MaxActions = 5` gives two POL pairs next to each other
and an action before, between or after them, within a transaction or across one;
`MaxTransactions = 5` lets each action have a transaction of its own, or
transactions without an action, with other events or none, come between.
`MaxListings = 3` with two ids gives a removal, its id for the other token, and the
first token again under the other id; in `markets` an override is set and never
cleared and no earnings rate is zero (a third rate takes the run beyond its time;
`Rescaled` treats zero as the code does). `MaxCalls = 4` gives a first mint, a
send, a burn with or without a fee, and one more call of either pair between them;
`MaxLag = 1` lets a transaction of the chain begin while one event is not handled.
`MaxEvents = 6` gives two withdrawals that are created, traded and executed in one
transaction, or two zaps with their transfers.

Deadlock is checked in `ledger_trades`, `ledger_vaults`, `positions` and the `prices`
runs. In the others the system stops: `trades_*`, `amm` and `transactions` end at their
bound, and in `amm`, `markets` and `transactions` an exception stops the indexer.

**Fairness.** Only AmmPairs states fairness, weak fairness of `EndTransaction` and of
`Handle`: a transaction that has begun is finished, being atomic, and Envio delivers
every event of a finished transaction to its handler, in order. Nothing is assumed of
calls: the chain may fall silent at any time. Under it `BalancesSettle` says that a
balance read at the head, which may be ahead of the event, is right in the end. The
other handlers depend on nothing outside their event and its predecessors: no handler
waits for another, and nothing is queued or retried within the indexer. What should
follow an event is stated there as what holds once the second event has been handled
(`PairsBecomeTrades`), or as `NeverHalts`.

## Proofs

All proofs hold for every set of owners, accounts, tokens, times and prices and for
every bound. They use the named assumptions on the constants of the modules only, all
of which TLC evaluates in the runs: that sets of addresses, account ids and ids of
vesting positions are finite, as words of a fixed width are (`FinitenessAssumption`,
`TokensFinite`, `NftsAssumption`, `HoldersAssumption`, which also says that no provider
is a pair); that the value which stands for a row that is not there, `undefined` in the
code, is not itself a row (`NoneAssumption`, `AsyncAssumption`); and what each constant
is a set of.

**SumTheorems.** What `SumFunctionOnSet` of the community modules computes: the sum
over a finite set is an integer, and no negative one if the summands are not
(`SumNotNegative`), changes by the difference when the function changes at
one place (`SumChangedAtOne`), grows by the new value with a new element
(`SumWithNew`), does not see elements of value zero (`SumOfPart`), and adds up when two
functions are added (`SumAdds`) or when elements are summed group by group
(`SumByGroup`). Its definition is recursive over the subsets, in an order that is not
specified. That it exists and does not depend on the order is shown by a least
counterexample, a subset that is least among those where the claim fails, since the
induction theorems of the library cannot be instantiated.

**MarginLedgerProofs.** `LedgerInvariant` is the inductive invariant `LedgerInv`. Its
parts are the type of the store; the account part (account lists, expiration lists);
the position part (`AmountsMirrorBalances`, `PositionListsAmounts`,
`StatusTracksAmounts`, `HeldTokensAreListed`); the row part (`NoDeadRows`,
`EffectiveUsersResolve`); the totals per market and per user; and the counts
(`PositionCountsExact`, `UsersCountedAtMostOnce`). They are not inductive one by one:
lists are updated from the comparison of the old with the new par, so that each needs
the old lists to be right, and the position part needs `AmountsMirrorBalances`, because
the lists are compared with the stored amount rather than with the balance. Three
strengthenings were needed. *FreshAccounts*: an account without a row has no balances,
or the row created later would begin with empty lists that are wrong. *OnlyVaultsBound*:
only vaults have another user as effective user, or binding a vault could make a second
hop necessary. *FreshUsersIn*: a user without a row leads to itself and has no positions
counted, or its count would be wrong from its creation on. The sum of a user is taken over the accounts
bound to it; an account is bound when its row is created, and by FreshAccounts it then
has no par, so that no sum moves. The count of users is only ever too low (finding 1);
what is invariant is that it never exceeds the number of rows, for which *Grows* says of
each helper that no row of a user disappears, so that a handler may save the count it
loaded before. For each helper a lemma says what it writes and leaves alone, another
that it keeps the invariant; a handler with four balance updates cites the lemma four
times. From `LedgerInvariant` follow `TypeCorrect`, `AccountListsCorrect`,
`ExpirationListsCorrect`, `RowsAlive`, `EffectiveUsersCorrect`,
`PositionAmountsCorrect`, `AmountsMirrorCorrect`, `PositionStatusCorrect`,
`HeldTokensCorrect`, `TotalParCorrect`, `UserParCorrect`, `PositionCountsCorrect` and
`UsersCountedCorrect`.

The same module has two results that look at the store through a simpler one.

`LedgerImplementsBook`: the initial store maps to an empty book and every action to one
of the book's actions or to a stutter. The argument is again by helper: a balance update
changes one par of one account and nothing else of any book (`BalanceUpdateView`); the
late save of `DolomiteMargin` changes none.

`VestingInvariant`, from which `LockedParCorrect`, `UserParWithVestingCorrect` and
`LedgerUnderVesting` follow. Vesting adds par to rows of `UserParValue`, so the part
`UserParIsSum` of the ledger's invariant is false with it, and the other totals cannot be
had without that invariant. The proof therefore speaks of a second store `s`, the ledger
as it would be without vesting: `Under(s, d, over)` says that `LedgerInv` holds of `s`
and that `d` is `s` but for its rows of `UserParValue`, where user `u` has `over[u]` more
of the pair token. Each handler of the ledger moves `d` and `s` alike and leaves `over`
(lemmas *...With* for the helpers that write no such row, *...Under* for those that do:
the delta that a balance event books does not depend on the row it finds, although the
row may be deleted in one of the stores and not in the other). The handlers of vesting
change `over` alone. What is invariant is that `over` adds up to the par of the active
positions, and is that par user by user as long as no vault has owned a position; that
it is not so otherwise is the hazard at `liquidity-mining.ts:85`. Beside it
*Agrees* relates each row with the contract: a row exists only after one of the two
creation events, with the contract's owner and par, and is active exactly while the
position lives. `LedgerUnderVesting` says that everything else `LedgerInv` promises, the
rows of users aside, holds with vesting as well.

**MarginPositionsProofs.** `PositionInvariant`, from which `PositionTypes`,
`PositionMirrors`, `PositionColumnsFit` and `PositionsOnlyEnd` follow. The
strengthening is that an initialised position names two different markets; without it
a router event could be taken for the opening one, and both sides could be given the
same par. Each handler's effect on the row is a lemma about the row alone.
`PositionMirrors` says which par a column shows, not that it is always the position's
own: a liquidated or expired position may show those of other markets, and the theorem
says that no other position does. `PositionsOnlyEnd` lets the router stamp a row that
has ended before and shows that no other handler moves a close time.

**OraclePriceProofs.** `ReportedPrevails` and `RowsFollowBlocks`, with the
strengthening that a row is never of a later block.

**PolTradesProofs.** `TradesNeverHalt`, `EveryPairIsATrade`, `TransactionsCountedOnce`,
`CreditsCorrect`. The strengthening says that between the two events of a pair there is
exactly one intermediate row, the one of the last action, with a maker exactly when the
second event will ask for it; that serial ids grow, so that every trade is a new row;
and that a transaction is counted as soon as its hash is the last one, whether an
action left it there or another event. For the credits,
a serial id names one trade only (*CreditsAreSides*), so that the sides of trades can
be counted by it; the case that takes work is that of two wallets that share a user,
where the second credit is written to a row the first has just written.

**MarketsProofs.** `FirstListingCorrect`, `RatesCorrect`, `LiquidityCorrect`,
`TotalsCorrect`, and the action property `BorrowValueCorrect`. What resolves for a
listed token depends on what a removal takes away, which it finds through the lookup of
another. The strengthening therefore speaks of all rows: a lookup names a token under
one id only (*LookupIsInjective*), every token ever listed is counted and its id below
the next one (*ListedIsCounted*), and the rows of a token come and go together
(*RowsTogether*). Liquidity and rates then follow market by market, the totals by
SumTheorems over the tokens that are not POL.

**TransactionsProofs.** `SettledCorrect`, `LiquidationsCorrect`, `ZapStopsCorrect`,
`ZapTotalsCorrect`, and the action property `ZapSearchCorrect`. For the requests: a
trade of a withdrawal concerns that withdrawal's markets (*TradesConcernTheirs*), and
what was executed is settled (*ExecutedIsSettled*), so that no later status reopens
it. For the zaps: what the zap under way has moved is among the
transfers, none of which stays within a zap account (*TransfersOfZaps*); and until an
owner has finished a zap in the transaction, its zap account has no other transfers
(*FirstZapIsAlone*). The search of `zap.ts:61-76` is a fold over the
transfers in any order. `FoundSteps` says what each step of it knows; that it is true
of every step is once more a least counterexample. The proof also corrected a property:
`StopsOnlyOnNothing` used to say that the empty transfer is one of the zap's own two.
That is true of the instance the run checks and false of larger ones, since a third
zap from one account in one transaction may find the transfers of the second. It now
says that some transfer of the account has moved nothing.

**AmmPairsProofs.** `AmmInvariant`, from which `RowsMatchCorrect`, `HaltsCorrect`,
`PairRowsCorrect` and `LiquidityCorrect` follow, and `BalancesCorrect`. What a handler
does right depends on which events may follow each other, and what the rows show lags
behind the chain by the messages that are not handled. The proof therefore has a state
of its own, *Ghost*: the pairs that exist, the supply that each row should show, and how
far the call under way has come (between two calls, after a send to a pair, after a fee,
after the transfer of a mint or of a burn). *Turn* says for each of eleven kinds of
message in which states it may come and what the state is afterwards. The invariant
`AmmInv` says that the rows follow some state `g` (*Follows*: supply and number of
providers of each pair, the rows of the transaction, the one of the call under way at
the end), that the chain has reached some state `h` (*Leads*: the pairs that exist, the
supply without the locked minimum and with the ignored burns), and that the unhandled
messages are a path of turns from `g` to `h`. A handler takes the first turn of the path
(`HandlerFollows`, one lemma for each kind of message); a call of the chain appends its
turns to the end, and the end of a transaction moves the messages from one sequence to
the other without changing the path. When all is handled, `g` is `h`. For the supply the
chain part says that it is at least the locked minimum and the sum of what is held, so
that no burn takes it to zero and the minimum is locked once. Liquidity is a sum over
the pairs, from SumTheorems.

The proof corrected a property here too: `RowsMatchCalls` used to hold of every
transaction in which no mint paid a fee. That is true of four calls, which the run
makes, and false of more: a burn of what was sent earlier, after a burn of another pair,
finds that burn's row as the last one, whose `needsComplete` is never reset, and writes
its fee into it. The property now speaks of transactions in which every burn followed
its own send.

`BalancesCorrect` is the safety half of `BalancesSettle`: whenever no message is left,
every provider is shown with its balance, unless it sent away what the handlers ignore.
Its invariant is that a balance which is not shown belongs to a sender or recipient of a
transfer that is not handled yet (*Awaited*); a handler that creates a position with
zero does not break it, since an absent position is shown only for an empty balance.

**Model-checked only.** `BalancesSettle` itself is a liveness property, and the provers
do not reason about fairness; what is left of it is that all messages get handled. The
four violations are refuted by TLC and have no theorem.

## Findings

1. **Lost user count** (`ledger_user_count`). `_handleTradeInternal` loads
   `DolomiteMargin` (`margin-core.ts:440`) before the balance updates of the trade,
   which may create the taker's or maker's `User` and raise `userCount` in the stored
   row. `changeProtocolBalanceApplied` then saves the copy from before
   (`helpers/margin.ts:539`). `helpers/user.ts:8-9` says that creating a user bumps
   the count. No user is counted twice (`UsersCountedAtMostOnce`), so the count is
   only ever too low.
2. **Sign lists of borrow positions** (`ledger_position_lists`).
   `updateBorrowAndSupplyTokens` moves the lists only when an amount appears or
   disappears (`helpers/borrow-position.ts:66`). A balance that goes from supply to
   borrow in one event stays under `supplyTokens`; when the debt is repaid the token
   is removed from `borrowTokens`, where it is not, and stays under `supplyTokens` for
   good, to be added once more the next time. `helpers/borrow-position.ts:140` relies
   on the lists. What does hold is `HeldTokensAreListed`.
3. **Price of another block** (`prices_stale`). The input of the price effect names no
   block, and its results are stored (`helpers/pricing.ts:44`, `effects.ts:138`). From
   the second lookup on it returns the first price it ever fetched, which is written
   with the current block number over what `LogOraclePrice` reported in earlier
   blocks. `helpers/pricing.ts:22-24` says that the rows are keyed by block number.
   What does hold is that a report prevails within its block.
4. **Accounts of POL trades** (`trades_parties`). For a POL input the handler takes
   the maker of the `LogTrade` as the taker, as the comment at `margin-core.ts:573`
   says, but sets `makerMarginAccount_id` to the account that
   `takerMarginAccount_id` already has (`margin-core.ts:586-597`), so that the `Trade`
   has one account on both sides.

Also met, without a run of its own, since no text of the repository says otherwise or
since the models leave the column out:

* `MarginPosition.status` becomes `UNKNOWN` (`margin-position-proxy.ts:65`), which the
  comment at `src/schema.graphql:571` does not list among the values of the column.
* `LogLiquidate`, `LogVaporize` and the expiration branch of a trade write the pars of
  the markets of the event into the margin position of the account, whether or not they
  are its own (`margin-core.ts:1234-1257`, `1444-1450`, `846-853`), so that
  `heldAmountPar` and `owedAmountPar` of a position that has ended may be another
  market's. `MirrorsAccount` says that this is the only way it happens.
* A router event that leaves nothing owed stamps `closeTimestamp` anew and sets what was
  seized to zero, also for a position that was closed, liquidated or expired before
  (`margin-position-proxy.ts:140-156`), which `PositionOnlyEnds` excepts.
* `LogRemoveMarket` deletes the reverse lookup under the id of the token, where there
  is none (`margin-admin.ts:236`), and raises `numberOfMarkets`. An event of a market
  whose id is still free, or the loop of `LogSetEarningsRate`, then throws on the rows
  that were removed; a token that is listed again gets no lookup for its new id. Before
  the first removal nothing of this can happen (`FirstListingResolves`).
* `borrowLiquidityUSD` is the value of the liquidity before the event
  (`helpers/margin.ts:514`); the next booking makes up for it (`BorrowValueCatchesUp`).
* A supply rate that an override set is divided by an earnings rate it never contained
  (`margin-admin.ts:425-438`), which `RatesFollowEarnings` excepts.
* A vesting position that a vault has owned is booked on the vault when it is created
  or closed and on the vault's user when it is transferred.
* A second zap of an owner from the same zap account in one transaction finds the
  transfers of the first among its own (`zap.ts:66`), which `ZapsFindTheirTransfers`
  excepts.
* `needsComplete` of a burn row is never reset (`amm-core.ts:142-144`). A burn that did
  not follow its own send takes the row of the burn before it in the transaction, which
  may be another pair's, and has no row of its own; `RowsMatchCalls` excepts it.
* An executed deposit keeps `isRetryable` (`event-emitter-registry.ts:97-165`).
* A claim of mining rewards that is reported twice is added twice
  (`helpers/liquidity-mining-helpers.ts:77`); claims are not modelled.

## Not modelled

* *Dollar amounts and volumes* (`helpers/volume.ts`, most of `effects.ts` and of the
  conversions in `helpers/`): running sums of decimals that no handler reads again.
  Pars, indexes and prices are small integers where a property needs a value, and any
  value of a set elsewhere; rounding is left out.
* *Formulas*: the interest rate from the utilisation, and the price of an AMM token
  along its pairs, give any value. What they enter is modelled, the result is not.
* *Rows written once*: log rows, snapshots, `StrategyPosition`, `MostRecentTrade`,
  serial ids, token metadata.
* *Setters that overwrite one column* and are read by no handler: parameters of
  DolomiteMargin, operators, special traders, interest-setter parameters, settings,
  distributors, level requests, seasons and claims.
* *Tables and declarations*: `constants.ts`, address tables, `config.yaml`, the schema,
  the start-up test. String ids are keys of functions.

`PROJECT.json` has the status of each component and what is left out of it.

## Plan

Done, in this order: the store and the ledger with their proofs; the account book and
the refinement; margin positions on top of the book; the price cache; POL trades;
vesting on top of the ledger; the registry of markets and the protocol's liquidity; AMM
pairs with fairness and liveness; requests and zaps with the transactions they share.

Done as proofs: the ledger with its totals and counts, the refinement, vesting, margin
positions, prices, POL trades, the registry of markets with the protocol's liquidity,
AMM pairs, requests and zaps. Every safety property that a run checks and finds true has
its theorem.

Left: the piecewise interest formula and the price route as operators against a
reference definition, and `amountParBorrowed` (`helpers/margin.ts:407`).

## Running

`tlc -config <run>.cfg <module>` with the module named in `PROJECT.json`, and
`tlapm <module>.tla` for the eight proof modules. On two cores the longest run,
`positions`, takes less than four minutes, the others three at most.
