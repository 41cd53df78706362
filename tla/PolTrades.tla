------------------------------ MODULE PolTrades -------------------------------
(***************************************************************************)
(* How trade events become Trade rows.  A trade with a POL market on one   *)
(* side is two consecutive actions of one transaction, a LogSell and a     *)
(* LogTrade; _handleTradeInternal keeps the first of them as an            *)
(* IntermediateTrade under its serial id, finds it from the second, whose  *)
(* serial id is one more, and makes one Trade of both.                     *)
(*                                                                         *)
(* Balances, prices and amounts are left out.  The events of a pair are    *)
(* consecutive actions with the same taker: the handler relies on both, in *)
(* serialId - 1 and where it takes the maker of a pair from the other      *)
(* event's taker.  Events that are no action may come between them.        *)
(* MaxActions and MaxTransactions bound a run.                             *)
(***************************************************************************)
EXTENDS Integers, FiniteSets, Sequences

CONSTANTS Accounts, Users,
          UserOf,        \* MarginAccount.user
          EffectiveUser, \* User.effectiveUser
          NoAccount,     \* no maker
          NoPair,
          MaxActions, MaxTransactions

\* The parties of a POL trade that the chain is making.
PolPair == [side : {"input", "output"}, taker : Accounts, maker : Accounts]

IntermediateTradeRow ==
  [tx : Nat, serialId : Nat, taker : Accounts, maker : Accounts \union {NoAccount}]

\* wallets: walletsConcatenated, without the maker if there is none.
TradeRow ==
  [serialId : 1 .. MaxActions, taker : Accounts, maker : Accounts \union {NoAccount},
   wallets : Seq(Users)]

ASSUME TradeConstantsAssumption ==
  /\ UserOf \in [Accounts -> Users] /\ EffectiveUser \in [Users -> Users]
  /\ NoAccount \notin Accounts /\ NoPair \notin PolPair
  /\ MaxActions \in Nat /\ MaxTransactions \in Nat \ {0}

VARIABLES actionCount,      \* DolomiteMargin
          tradeCount,
          transactionCount,
          lastTransactionHash,
          intermediates,    \* IntermediateTrade rows
          trades,           \* Trade rows
          totalTradeCount,  \* User
          halted,           \* a handler threw
          tx,               \* the transaction whose events are handled
          pair,             \* the POL trade whose second event is due
          traded,           \* history: how many trades the chain made
          transactions      \* history: the transactions that called DolomiteMargin

margin == <<actionCount, transactionCount, lastTransactionHash>>
rows == <<tradeCount, intermediates, trades, totalTradeCount, halted>>
vars == <<margin, rows, tx, pair, traded, transactions>>

Init ==
  /\ actionCount = 0 /\ tradeCount = 0 /\ transactionCount = 0
  /\ lastTransactionHash = 0 \* "0x"
  /\ intermediates = {} /\ trades = {} /\ totalTradeCount = [u \in Users |-> 0]
  /\ halted = FALSE
  /\ tx = 1 /\ pair = NoPair /\ traded = 0 /\ transactions = {}

-----------------------------------------------------------------------------
(* DolomiteMargin                                                          *)

\* Mutant: only an action, whose row the function saves itself, leaves its hash.
GetOrCreateDolomiteMarginUnsaved(isAction) ==
  /\ transactionCount' = IF lastTransactionHash = tx THEN transactionCount
                         ELSE transactionCount + 1
  /\ lastTransactionHash' = IF isAction THEN tx ELSE lastTransactionHash
  /\ actionCount' = IF isAction THEN actionCount + 1 ELSE actionCount

\* The row of an action is saved by the function, any other by its caller; all
\* of them do, whatever else they change in it.
GetOrCreateDolomiteMarginForCall(isAction) ==
  /\ transactionCount' = IF lastTransactionHash = tx THEN transactionCount
                         ELSE transactionCount + 1
  /\ lastTransactionHash' = tx
  /\ actionCount' = IF isAction THEN actionCount + 1 ELSE actionCount

Call(isAction) ==
  /\ ~ halted
  /\ GetOrCreateDolomiteMarginForCall(isAction)
  /\ transactions' = transactions \union {tx}
  /\ UNCHANGED tx

Action == actionCount < MaxActions /\ Call(TRUE)

-----------------------------------------------------------------------------
(* Trade rows                                                              *)

\* The rows of a user and of its effective user, each read before it is saved.
Credited(counts, u) ==
  LET own == [counts EXCEPT ![u] = @ + 1]
  IN  IF EffectiveUser[u] = u THEN own ELSE [own EXCEPT ![EffectiveUser[u]] = @ + 1]

\* Mutant: both users are read before either is saved.
AllCreditedStale(counts, users) ==
  [u \in Users |-> IF \E i \in DOMAIN users : u \in {users[i], EffectiveUser[users[i]]}
                   THEN counts[u] + 1 ELSE counts[u]]

\* The maker, if there is one, then the taker.
AllCredited(counts, users) ==
  Credited(IF Len(users) = 2 THEN Credited(counts, users[2]) ELSE counts, users[1])

Wallets(taker, maker) ==
  IF maker = NoAccount THEN <<UserOf[taker]>> ELSE <<UserOf[taker], UserOf[maker]>>

RecordTrade(taker, maker, wallets) ==
  /\ trades' = trades \union
       {[serialId |-> actionCount', taker |-> taker, maker |-> maker, wallets |-> wallets]}
  /\ tradeCount' = tradeCount + 1
  /\ totalTradeCount' = AllCredited(totalTradeCount, wallets)
  /\ UNCHANGED halted

SaveIntermediate(taker, maker) ==
  /\ intermediates' = intermediates \union
       {[tx |-> tx, serialId |-> actionCount', taker |-> taker, maker |-> maker]}
  /\ UNCHANGED <<tradeCount, trades, totalTradeCount, halted>>

\* A property of null or undefined is read, or a row is missing.
Throw == halted' = TRUE /\ UNCHANGED <<tradeCount, intermediates, trades, totalTradeCount>>

\* Mutant: the previous action is looked up by this action's serial id.
PreviousAtOwnSerial == {i \in intermediates : i.tx = tx /\ i.serialId = actionCount'}

Previous == {i \in intermediates : i.tx = tx /\ i.serialId = actionCount' - 1}

\* LogSell, LogBuy and LogTrade between two markets that are not POL.
HandleTrade(taker, maker) ==
  RecordTrade(taker, maker, Wallets(taker, maker)) /\ UNCHANGED intermediates

\* The input token is POL: LogSell, then LogTrade, whose maker is the taker of the trade.
HandlePolInput(taker, maker) ==
  IF Previous = {} THEN SaveIntermediate(taker, NoAccount)
  ELSE IF maker = NoAccount THEN Throw
  ELSE \E i \in Previous :
         /\ RecordTrade(i.taker, i.taker, Wallets(maker, i.taker))
         /\ intermediates' = intermediates \ {i}

\* The output token is POL: LogTrade, then LogSell.
HandlePolOutput(taker, maker) ==
  IF Previous = {} THEN IF maker = NoAccount THEN Throw ELSE SaveIntermediate(taker, maker)
  ELSE \E i \in Previous :
         IF i.maker = NoAccount THEN Throw
         ELSE /\ RecordTrade(i.taker, i.maker, Wallets(i.taker, i.maker))
              /\ intermediates' = intermediates \ {i}

-----------------------------------------------------------------------------
(* Events                                                                  *)

LogSell(taker) ==
  /\ Action /\ pair = NoPair
  /\ HandleTrade(taker, NoAccount)
  /\ traded' = traded + 1 /\ UNCHANGED pair

LogTrade(taker, maker) ==
  /\ Action /\ pair = NoPair /\ taker # maker
  /\ HandleTrade(taker, maker)
  /\ traded' = traded + 1 /\ UNCHANGED pair

\* The chain is between the two events of a POL trade.
Begin(side, taker, maker) == pair' = [side |-> side, taker |-> taker, maker |-> maker]

PolInputSell(taker, maker) ==
  /\ Action /\ pair = NoPair /\ taker # maker
  /\ HandlePolInput(taker, NoAccount)
  /\ Begin("input", taker, maker) /\ UNCHANGED traded

PolInputTrade ==
  /\ Action /\ pair # NoPair /\ pair.side = "input"
  /\ HandlePolInput(pair.taker, pair.maker)
  /\ pair' = NoPair /\ traded' = traded + 1

PolOutputTrade(taker, maker) ==
  /\ Action /\ pair = NoPair /\ taker # maker
  /\ HandlePolOutput(taker, maker)
  /\ Begin("output", taker, maker) /\ UNCHANGED traded

PolOutputSell ==
  /\ Action /\ pair # NoPair /\ pair.side = "output"
  /\ HandlePolOutput(pair.taker, NoAccount)
  /\ pair' = NoPair /\ traded' = traded + 1

\* LogCall, or any other action.
LogCall == Action /\ pair = NoPair /\ UNCHANGED <<rows, pair, traded>>

\* The handlers that are no action: LogOraclePrice, listing and removal of markets
\* and the setters of DolomiteMargin (margin-admin.ts:144-561), LogExpiryRampTimeSet
\* (margin-expiration.ts:120) and the transfer of a vesting position
\* (liquidity-mining.ts:196-242).
LogOraclePrice == Call(FALSE) /\ UNCHANGED <<rows, pair, traded>>

NewTransaction ==
  /\ pair = NoPair /\ tx < MaxTransactions
  /\ tx' = tx + 1
  /\ UNCHANGED <<margin, rows, pair, traded, transactions>>

Next ==
  \/ \E a \in Accounts : LogSell(a)
  \/ \E a, b \in Accounts : \/ LogTrade(a, b)
                            \/ PolInputSell(a, b)
                            \/ PolOutputTrade(a, b)
  \/ PolInputTrade
  \/ PolOutputSell
  \/ LogCall
  \/ LogOraclePrice
  \/ NewTransaction

Spec == Init /\ [][Next]_vars

-----------------------------------------------------------------------------
(* Properties                                                              *)

\* Rows, counters and histories have their types.
TypeOK ==
  /\ actionCount \in 0 .. MaxActions /\ tradeCount \in Nat /\ transactionCount \in Nat
  /\ lastTransactionHash \in Nat
  /\ intermediates \subseteq IntermediateTradeRow /\ trades \subseteq TradeRow
  /\ totalTradeCount \in [Users -> Nat] /\ halted \in BOOLEAN
  /\ tx \in Nat /\ pair \in PolPair \union {NoPair}
  /\ traded \in Nat /\ transactions \subseteq Nat

\* margin-core.ts:532-650.  The second event of a pair always finds the first, so
\* that no handler reads the maker of an event that has none.
NeverHalts == ~ halted

\* margin-core.ts:532-565, 603-632, 769 and 879-882.  Every trade of the chain is
\* one Trade row and counted once: a pair is neither two trades nor none, and
\* what its first event left behind is gone when the second has been handled.
PairsBecomeTrades ==
  /\ Cardinality(trades) = traded /\ tradeCount = traded
  /\ pair = NoPair => intermediates = {}

Sides == UNION {{<<t.serialId, i>> : i \in DOMAIN t.wallets} : t \in trades}
WalletAt(s) == (CHOOSE t \in trades : t.serialId = s[1]).wallets[s[2]]

\* margin-core.ts:782-812.  A user's totalTradeCount is the number of sides of
\* trades that are his or those of a user he is the effective user of: nothing is
\* lost when taker and maker share a row, as a vault and its owner do.
CreditsMatchWallets ==
  \A u \in Users :
    totalTradeCount[u] = Cardinality({s \in Sides : u \in {WalletAt(s), EffectiveUser[WalletAt(s)]}})

\* margin.ts:289-297.  A transaction is counted with the first event that calls
\* DolomiteMargin and not again, be it an action, whose row the function saves, or
\* another event, whose handler does; the two may alternate in any order, also
\* between the events of a pair.
TransactionsCounted == transactionCount = Cardinality(transactions)

\* margin-core.ts:573 and 586.  The accounts of a Trade are those of the users its
\* wallets name, in the same order.
AccountsMatchWallets == \A t \in trades : t.wallets = Wallets(t.taker, t.maker)
=============================================================================
