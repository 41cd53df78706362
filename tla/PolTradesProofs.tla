--------------------------- MODULE PolTradesProofs ----------------------------
(***************************************************************************)
(* No handler throws, every trade of the chain becomes one Trade row, and  *)
(* transactions are counted once, for any accounts, users and number of    *)
(* actions.                                                                *)
(*                                                                         *)
(* The strengthening is PairIsStored: between the two events of a POL trade*)
(* exactly one intermediate row exists, the one of the action just handled,*)
(* with a maker if and only if the second event will ask for it.  For the  *)
(* counts one needs that serial ids only grow (SerialsGrow), that a        *)
(* transaction has been counted as soon as its hash is the last one        *)
(* (HashIsLast), and that a serial id names one trade only, so that the    *)
(* sides of trades can be counted by it (CreditsAreSides).                 *)
(***************************************************************************)
EXTENDS PolTrades, FiniteSetTheorems, TLAPS

Stored(p) ==
  [tx |-> tx, serialId |-> actionCount, taker |-> p.taker,
   maker |-> IF p.side = "output" THEN p.maker ELSE NoAccount]

PairIsStored == intermediates = IF pair = NoPair THEN {} ELSE {Stored(pair)}

SerialsGrow ==
  /\ \A t \in trades : t.serialId <= actionCount
  /\ IsFiniteSet(trades) /\ Cardinality(trades) = traded /\ tradeCount = traded

HashIsLast ==
  /\ IsFiniteSet(transactions) /\ Cardinality(transactions) = transactionCount
  /\ \A x \in transactions : x <= tx
  /\ tx \in transactions <=> lastTransactionHash = tx
  /\ lastTransactionHash <= tx

\* The sides of the trades in ts that are of u or of a user u is effective for.
SidesIn(ts, u) ==
  UNION {{<<t.serialId, i>> : i \in {j \in DOMAIN t.wallets :
                                      u \in {t.wallets[j], EffectiveUser[t.wallets[j]]}}} : t \in ts}

CreditsAreSides ==
  /\ \A s, t \in trades : s.serialId = t.serialId => s = t
  /\ \A u \in Users : /\ IsFiniteSet(SidesIn(trades, u))
                      /\ totalTradeCount[u] = Cardinality(SidesIn(trades, u))

TradesInv == TypeOK /\ ~ halted /\ PairIsStored /\ SerialsGrow /\ HashIsLast /\ CreditsAreSides

-----------------------------------------------------------------------------
(* The parts of a handler                                                  *)

\* Nothing is stored before the first event.
LEMMA TradesInvInit == Init => TradesInv
<1> SUFFICES ASSUME Init PROVE TradesInv
  OBVIOUS
<1>1. TypeOK
  <2>1. halted \in BOOLEAN
    BY DEF Init
  <2>2. totalTradeCount \in [Users -> Nat]
    BY DEF Init
  <2> QED BY <2>1, <2>2, TradeConstantsAssumption DEF Init, TypeOK
<1>2. SerialsGrow /\ HashIsLast
  BY FS_EmptySet DEF Init, SerialsGrow, HashIsLast
<1>3. CreditsAreSides
  <2>1. \A u \in Users : SidesIn(trades, u) = {}
    BY DEF Init, SidesIn
  <2> QED BY <2>1, FS_EmptySet DEF Init, CreditsAreSides
<1> QED BY <1>1, <1>2, <1>3 DEF Init, TradesInv, PairIsStored

\* Every call counts its transaction, be it an action or not.
LEMMA CallStep ==
  ASSUME TradesInv, Call(TRUE) \/ Call(FALSE)
  PROVE  /\ tx' = tx /\ tx \in Nat
         /\ lastTransactionHash' \in Nat /\ transactionCount' \in Nat
         /\ transactions' \subseteq Nat
         /\ HashIsLast'
<1>1. /\ tx' = tx /\ lastTransactionHash' = tx
      /\ transactionCount' = IF lastTransactionHash = tx THEN transactionCount
                             ELSE transactionCount + 1
      /\ transactions' = transactions \union {tx}
  BY DEF Call, GetOrCreateDolomiteMarginForCall
<1>2. transactionCount \in Nat /\ tx \in Nat /\ transactions \subseteq Nat
  BY DEF TradesInv, TypeOK
<1>3. /\ IsFiniteSet(transactions')
      /\ Cardinality(transactions') = IF tx \in transactions THEN Cardinality(transactions)
                                      ELSE Cardinality(transactions) + 1
  BY <1>1, FS_AddElement DEF TradesInv, HashIsLast
<1>4. HashIsLast'
  BY <1>1, <1>2, <1>3 DEF TradesInv, HashIsLast
<1> QED BY <1>1, <1>2, <1>4

\* An action has the next serial id besides.
LEMMA ActionStep ==
  ASSUME TradesInv, Action
  PROVE  /\ actionCount' = actionCount + 1 /\ actionCount' \in 1 .. MaxActions
         /\ tx' = tx /\ tx \in Nat
         /\ lastTransactionHash' \in Nat /\ transactionCount' \in Nat
         /\ transactions' \subseteq Nat
         /\ HashIsLast'
<1>1. actionCount < MaxActions /\ actionCount' = actionCount + 1
  BY DEF Action, Call, GetOrCreateDolomiteMarginForCall
<1>2. actionCount \in 0 .. MaxActions
  BY DEF TradesInv, TypeOK
<1>3. actionCount' \in 1 .. MaxActions
  BY <1>1, <1>2, TradeConstantsAssumption
<1> QED BY <1>1, <1>3, CallStep DEF Action

\* A user's count is a number whatever it is credited with.
LEMMA CreditedType ==
  ASSUME NEW counts \in [Users -> Nat], NEW u \in Users
  PROVE  Credited(counts, u) \in [Users -> Nat]
<1>1. EffectiveUser[u] \in Users
  BY TradeConstantsAssumption
<1>2. [counts EXCEPT ![u] = @ + 1] \in [Users -> Nat]
  OBVIOUS
<1> QED BY <1>1, <1>2 DEF Credited

LEMMA WalletsType ==
  ASSUME NEW a \in Accounts, NEW b \in Accounts \union {NoAccount}
  PROVE  /\ Wallets(a, b) \in Seq(Users) /\ Len(Wallets(a, b)) \in {1, 2}
         /\ \A i \in 1 .. Len(Wallets(a, b)) : Wallets(a, b)[i] \in Users
BY TradeConstantsAssumption DEF Wallets

\* A user's own trade and that of a user it is effective for count one each.
LEMMA CreditedValue ==
  ASSUME NEW counts \in [Users -> Nat], NEW w \in Users, NEW u \in Users
  PROVE  Credited(counts, w)[u]
           = IF u \in {w, EffectiveUser[w]} THEN counts[u] + 1 ELSE counts[u]
<1> DEFINE own == [counts EXCEPT ![w] = @ + 1]
           e == EffectiveUser[w]
<1>1. e \in Users
  BY TradeConstantsAssumption
<1>2. own \in [Users -> Nat] /\ own[w] = counts[w] + 1 /\ \A x \in Users \ {w} : own[x] = counts[x]
  OBVIOUS
<1>3. Credited(counts, w) = IF e = w THEN own ELSE [own EXCEPT ![e] = own[e] + 1]
  BY DEF Credited
<1> HIDE DEF own, e
<1>4. CASE e = w
  BY <1>2, <1>3, <1>4 DEF e
<1>5. CASE e # w
  <2>1. Credited(counts, w) = [own EXCEPT ![e] = own[e] + 1]
    BY <1>3, <1>5
  <2>2. own[e] = counts[e]
    BY <1>1, <1>2, <1>5
  <2>3. Credited(counts, w)[u] = IF u = e THEN counts[e] + 1 ELSE own[u]
    BY <1>1, <1>2, <2>1, <2>2
  <2>4. Credited(counts, w)[u] = IF u = e THEN counts[u] + 1 ELSE IF u = w THEN counts[u] + 1 ELSE counts[u]
    BY <1>2, <2>3
  <2> QED BY <1>5, <2>4 DEF e
<1> QED BY <1>4, <1>5

\* A side of a trade that counts for u, and a count with the sides of a trade added.
SideOf(u, wallets, i) ==
  i <= Len(wallets) /\ u \in {wallets[i], EffectiveUser[wallets[i]]}
PlusSides(u, wallets, count) ==
  LET one == IF SideOf(u, wallets, 1) THEN count + 1 ELSE count
  IN  IF SideOf(u, wallets, 2) THEN one + 1 ELSE one

\* The sides that a trade with a new serial id adds, one after the other.
LEMMA SidesAdded ==
  ASSUME NEW ts, NEW row, NEW u, NEW n, IsFiniteSet(SidesIn(ts, u)),
         row.serialId = n, \A t \in ts : t.serialId # n,
         DOMAIN row.wallets = 1 .. Len(row.wallets), Len(row.wallets) \in {1, 2}
  PROVE  /\ IsFiniteSet(SidesIn(ts \union {row}, u))
         /\ Cardinality(SidesIn(ts \union {row}, u))
              = PlusSides(u, row.wallets, Cardinality(SidesIn(ts, u)))
<1> DEFINE S == SidesIn(ts, u)
           S1 == IF SideOf(u, row.wallets, 1) THEN S \union {<<n, 1>>} ELSE S
           S2 == IF SideOf(u, row.wallets, 2) THEN S1 \union {<<n, 2>>} ELSE S1
<1>1. \A s : s \in SidesIn(ts \union {row}, u)
               <=> s \in S \/ \E i \in DOMAIN row.wallets :
                               /\ u \in {row.wallets[i], EffectiveUser[row.wallets[i]]}
                               /\ s = <<n, i>>
  BY DEF SidesIn
<1>2. /\ \A i \in DOMAIN row.wallets : i \in {1, 2} /\ i <= Len(row.wallets)
      /\ \A i \in {1, 2} : i <= Len(row.wallets) => i \in DOMAIN row.wallets
  <2>1. CASE Len(row.wallets) = 1
    <3>1. DOMAIN row.wallets = {1}
      BY <2>1
    <3> QED BY <2>1, <3>1
  <2>2. CASE Len(row.wallets) = 2
    <3>1. DOMAIN row.wallets = {1, 2}
      BY <2>2
    <3> QED BY <2>2, <3>1
  <2> QED BY <2>1, <2>2
<1>3. \A s : s \in SidesIn(ts \union {row}, u)
               <=> \/ s \in S
                   \/ SideOf(u, row.wallets, 1) /\ s = <<n, 1>>
                   \/ SideOf(u, row.wallets, 2) /\ s = <<n, 2>>
  <2>1. ASSUME NEW s
        PROVE  (\E i \in DOMAIN row.wallets :
                  /\ u \in {row.wallets[i], EffectiveUser[row.wallets[i]]}
                  /\ s = <<n, i>>)
               <=> \/ SideOf(u, row.wallets, 1) /\ s = <<n, 1>>
                   \/ SideOf(u, row.wallets, 2) /\ s = <<n, 2>>
    BY <1>2 DEF SideOf
  <2> QED BY <1>1, <2>1
<1>4. \A i : <<n, i>> \notin S
  BY DEF SidesIn
<1> HIDE DEF S
<1>5. \A s : s \in S1 <=> s \in S \/ (SideOf(u, row.wallets, 1) /\ s = <<n, 1>>)
  <2>1. CASE SideOf(u, row.wallets, 1)
    <3>1. S1 = S \union {<<n, 1>>}
      BY <2>1
    <3> HIDE DEF S1
    <3> QED BY <2>1, <3>1
  <2>2. CASE ~ SideOf(u, row.wallets, 1)
    <3>1. S1 = S
      BY <2>2
    <3> HIDE DEF S1
    <3> QED BY <2>2, <3>1
  <2> QED BY <2>1, <2>2
<1>6. SidesIn(ts \union {row}, u) = S2
  <2> HIDE DEF S1
  <2>1. CASE SideOf(u, row.wallets, 2)
    <3>1. S2 = S1 \union {<<n, 2>>}
      BY <2>1
    <3> HIDE DEF S2
    <3>2. \A s : s \in SidesIn(ts \union {row}, u) <=> s \in S2
      BY <1>3, <1>5, <2>1, <3>1
    <3> QED BY <3>2
  <2>2. CASE ~ SideOf(u, row.wallets, 2)
    <3>1. S2 = S1
      BY <2>2
    <3> HIDE DEF S2
    <3>2. \A s : s \in SidesIn(ts \union {row}, u) <=> s \in S2
      BY <1>3, <1>5, <2>2, <3>1
    <3> QED BY <3>2
  <2> QED BY <2>1, <2>2
<1>7. <<n, 2>> \notin S1 /\ <<n, 1>> \notin S
  BY <1>4
<1>8. /\ IsFiniteSet(S1)
      /\ Cardinality(S1) = IF SideOf(u, row.wallets, 1) THEN Cardinality(S) + 1 ELSE Cardinality(S)
  BY <1>7, FS_AddElement DEF S
<1> HIDE DEF S1
<1>9. /\ IsFiniteSet(S2)
      /\ Cardinality(S2) = IF SideOf(u, row.wallets, 2) THEN Cardinality(S1) + 1 ELSE Cardinality(S1)
  BY <1>7, <1>8, FS_AddElement
<1> HIDE DEF S2
<1> QED BY <1>6, <1>8, <1>9 DEF S, PlusSides

\* What AllCredited adds to the count of a user, one side after the other.
LEMMA AllCreditedValue ==
  ASSUME NEW counts \in [Users -> Nat], NEW wallets, Len(wallets) \in {1, 2},
         wallets[1] \in Users, Len(wallets) = 2 => wallets[2] \in Users, NEW u \in Users
  PROVE  AllCredited(counts, wallets)[u] = PlusSides(u, wallets, counts[u])
<1> DEFINE first == IF Len(wallets) = 2 THEN Credited(counts, wallets[2]) ELSE counts
           c == counts[u]
<1>1. first \in [Users -> Nat] /\ c \in Nat
  BY CreditedType
<1>2. first[u] = IF SideOf(u, wallets, 2) THEN c + 1 ELSE c
  <2>1. CASE Len(wallets) = 2
    <3>1. Credited(counts, wallets[2])[u]
            = IF u \in {wallets[2], EffectiveUser[wallets[2]]} THEN c + 1 ELSE c
      BY <2>1, CreditedValue
    <3> QED BY <2>1, <3>1 DEF SideOf
  <2>2. CASE Len(wallets) = 1
    BY <2>2 DEF SideOf
  <2> QED BY <2>1, <2>2
<1>3. AllCredited(counts, wallets)[u] = IF SideOf(u, wallets, 1) THEN first[u] + 1 ELSE first[u]
  <2>1. AllCredited(counts, wallets) = Credited(first, wallets[1])
    BY DEF AllCredited
  <2> HIDE DEF first
  <2>2. Credited(first, wallets[1])[u]
          = IF u \in {wallets[1], EffectiveUser[wallets[1]]} THEN first[u] + 1 ELSE first[u]
    BY <1>1, CreditedValue
  <2> QED BY <2>1, <2>2 DEF SideOf
<1> HIDE DEF first, c
<1> QED BY <1>1, <1>2, <1>3 DEF PlusSides, c

\* A new Trade row is one more, with a serial id no other has.
LEMMA RecordedTrade ==
  ASSUME TradesInv, Action, traded' = traded + 1,
         NEW taker \in Accounts, NEW maker \in Accounts \union {NoAccount},
         NEW a \in Accounts, NEW b \in Accounts \union {NoAccount},
         RecordTrade(taker, maker, Wallets(a, b))
  PROVE  /\ trades' \subseteq TradeRow /\ tradeCount' \in Nat /\ traded' \in Nat
         /\ totalTradeCount' \in [Users -> Nat]
         /\ ~ halted' /\ SerialsGrow' /\ CreditsAreSides'
<1> DEFINE wallets == Wallets(a, b)
           row == [serialId |-> actionCount', taker |-> taker, maker |-> maker,
                   wallets |-> wallets]
<1>1. actionCount' = actionCount + 1 /\ actionCount' \in 1 .. MaxActions /\ actionCount \in Nat
  BY ActionStep DEF TradesInv, TypeOK
<1>2. /\ wallets \in Seq(Users) /\ Len(wallets) \in {1, 2}
      /\ wallets[1] \in Users /\ (Len(wallets) = 2 => wallets[2] \in Users)
  BY WalletsType, SMTT(30)
<1> HIDE DEF wallets
<1>3. trades' = trades \union {row} /\ tradeCount' = tradeCount + 1 /\ halted' = halted
      /\ totalTradeCount' = AllCredited(totalTradeCount, wallets)
  BY DEF RecordTrade, wallets
<1>4. row \in TradeRow /\ row.serialId = actionCount'
  BY <1>1, <1>2 DEF TradeRow
<1> HIDE DEF row
<1>5. row \notin trades
  BY <1>1, <1>4 DEF TradesInv, TypeOK, SerialsGrow, TradeRow
<1>6. IsFiniteSet(trades') /\ Cardinality(trades') = Cardinality(trades) + 1
  BY <1>3, <1>5, FS_AddElement DEF TradesInv, SerialsGrow
<1>7. \A t \in trades' : t.serialId <= actionCount'
  BY <1>1, <1>3, <1>4 DEF TradesInv, TypeOK, SerialsGrow, TradeRow
<1>8. SerialsGrow'
  BY <1>3, <1>6, <1>7 DEF TradesInv, SerialsGrow
<1>9. totalTradeCount' \in [Users -> Nat]
  BY <1>2, <1>3, CreditedType DEF TradesInv, TypeOK, AllCredited
<1>10. CreditsAreSides'
  <2>1. \A t \in trades : t.serialId # actionCount'
    BY <1>1 DEF TradesInv, TypeOK, SerialsGrow, TradeRow
  <2>2. \A s, t \in trades' : s.serialId = t.serialId => s = t
    BY <1>3, <1>4, <2>1 DEF TradesInv, CreditsAreSides
  <2>3. /\ row.wallets = wallets /\ DOMAIN wallets = 1 .. Len(wallets)
        /\ totalTradeCount \in [Users -> Nat]
    BY <1>2 DEF row, TradesInv, TypeOK
  <2>4. ASSUME NEW u \in Users
        PROVE  /\ IsFiniteSet(SidesIn(trades', u))
               /\ totalTradeCount'[u] = Cardinality(SidesIn(trades', u))
    <3> DEFINE c == totalTradeCount[u]
    <3>1. IsFiniteSet(SidesIn(trades, u)) /\ c = Cardinality(SidesIn(trades, u))
      BY DEF TradesInv, CreditsAreSides
    <3>2. /\ DOMAIN row.wallets = 1 .. Len(row.wallets) /\ Len(row.wallets) \in {1, 2}
          /\ row.serialId = actionCount'
      BY <1>2, <1>4, <2>3
    <3>3. /\ IsFiniteSet(SidesIn(trades \union {row}, u))
          /\ Cardinality(SidesIn(trades \union {row}, u)) = PlusSides(u, row.wallets, c)
      <4>1. IsFiniteSet(SidesIn(trades, u))
        BY <3>1
      <4>2. DOMAIN row.wallets = 1 .. Len(row.wallets)
        BY <3>2
      <4>3. Len(row.wallets) \in {1, 2}
        BY <3>2
      <4>4. row.serialId = actionCount'
        BY <3>2
      <4>5. /\ IsFiniteSet(SidesIn(trades \union {row}, u))
            /\ Cardinality(SidesIn(trades \union {row}, u))
                 = PlusSides(u, row.wallets, Cardinality(SidesIn(trades, u)))
        BY <2>1, <4>1, <4>2, <4>3, <4>4, SidesAdded, Zenon
      <4> QED BY <3>1, <4>5
    <3>4. AllCredited(totalTradeCount, wallets)[u] = PlusSides(u, wallets, c)
      <4>1. Len(wallets) \in {1, 2}
        BY <1>2
      <4>2. wallets[1] \in Users
        BY <1>2
      <4>3. Len(wallets) = 2 => wallets[2] \in Users
        BY <1>2
      <4>4. totalTradeCount \in [Users -> Nat]
        BY <2>3
      <4>5. AllCredited(totalTradeCount, wallets)[u] = PlusSides(u, wallets, totalTradeCount[u])
        <5> HIDE DEF c
        <5> QED BY <4>1, <4>2, <4>3, <4>4, AllCreditedValue, SMT
      <4> QED BY <4>5
    <3> HIDE DEF c
    <3> QED BY <1>3, <2>3, <3>3, <3>4
  <2> QED BY <2>2, <2>4 DEF CreditsAreSides
<1> QED BY <1>3, <1>4, <1>8, <1>9, <1>10 DEF TradesInv, TypeOK

\* Without a new row the serial ids of the old ones are still those of the past.
LEMMA NoTrade ==
  ASSUME TradesInv, Action, UNCHANGED <<trades, tradeCount, totalTradeCount, traded>>
  PROVE  SerialsGrow' /\ CreditsAreSides'
<1>1. SerialsGrow'
  BY ActionStep DEF TradesInv, TypeOK, SerialsGrow, TradeRow
<1>2. CreditsAreSides'
  BY DEF TradesInv, CreditsAreSides
<1> QED BY <1>1, <1>2

\* The first event of a pair finds nothing, the second finds what the first stored.
LEMMA PreviousIs ==
  ASSUME TradesInv, Action
  PROVE  Previous = IF pair = NoPair THEN {} ELSE {Stored(pair)}
<1>1. actionCount' - 1 = actionCount
  BY ActionStep DEF TradesInv, TypeOK
<1> QED BY <1>1 DEF TradesInv, PairIsStored, Previous, Stored

-----------------------------------------------------------------------------
(* The events                                                              *)

\* Trades between markets that are not POL, and actions that are no trades.
LEMMA PlainStep ==
  ASSUME TradesInv, NEW taker \in Accounts, NEW maker \in Accounts,
         LogSell(taker) \/ LogTrade(taker, maker) \/ LogCall
  PROVE  TradesInv'
<1>1. Action /\ pair = NoPair /\ pair' = pair /\ intermediates' = intermediates
  BY DEF LogSell, LogTrade, LogCall, HandleTrade, rows
<1>2. PairIsStored'
  BY <1>1 DEF TradesInv, PairIsStored
<1>3. CASE LogCall
  <2>1. UNCHANGED <<rows, pair, traded>>
    BY <1>3 DEF LogCall
  <2>2. SerialsGrow' /\ CreditsAreSides'
    BY <1>1, <2>1, NoTrade DEF rows
  <2>3. TypeOK'
    BY <1>1, <2>1, ActionStep DEF TradesInv, TypeOK, rows
  <2> QED BY <1>1, <1>2, <2>1, <2>2, <2>3, ActionStep DEF TradesInv, rows
<1>4. CASE LogSell(taker) \/ LogTrade(taker, maker)
  <2>1. PICK m \in Accounts \union {NoAccount} : RecordTrade(taker, m, Wallets(taker, m))
    BY <1>4 DEF LogSell, LogTrade, HandleTrade
  <2>2. traded' = traded + 1
    BY <1>4 DEF LogSell, LogTrade
  <2>3. /\ trades' \subseteq TradeRow /\ tradeCount' \in Nat /\ traded' \in Nat
        /\ totalTradeCount' \in [Users -> Nat] /\ ~ halted' /\ SerialsGrow' /\ CreditsAreSides'
    BY <1>1, <2>1, <2>2, RecordedTrade
  <2>4. halted' \in BOOLEAN
    BY <2>1 DEF RecordTrade, TradesInv, TypeOK
  <2>5. TypeOK'
    BY <1>1, <2>3, <2>4, ActionStep DEF TradesInv, TypeOK
  <2> QED BY <1>1, <1>2, <2>3, <2>5, ActionStep DEF TradesInv
<1> QED BY <1>3, <1>4

\* The first event of a POL trade stores what the second will need.
LEMMA FirstStep ==
  ASSUME TradesInv, NEW taker \in Accounts, NEW maker \in Accounts,
         PolInputSell(taker, maker) \/ PolOutputTrade(taker, maker)
  PROVE  TradesInv'
<1>1. PICK side \in {"input", "output"} :
        /\ Action /\ pair = NoPair /\ Begin(side, taker, maker) /\ traded' = traded
        /\ SaveIntermediate(taker, IF side = "output" THEN maker ELSE NoAccount)
  <2>1. CASE PolInputSell(taker, maker)
    <3>1. Action /\ pair = NoPair
      BY <2>1 DEF PolInputSell
    <3>2. Previous = {}
      BY <3>1, PreviousIs
    <3>3. SaveIntermediate(taker, NoAccount) /\ Begin("input", taker, maker) /\ traded' = traded
      BY <2>1, <3>2 DEF PolInputSell, HandlePolInput
    <3> QED BY <3>1, <3>3
  <2>2. CASE PolOutputTrade(taker, maker)
    <3>1. Action /\ pair = NoPair
      BY <2>2 DEF PolOutputTrade
    <3>2. Previous = {} /\ maker # NoAccount
      BY <3>1, PreviousIs, TradeConstantsAssumption
    <3>3. SaveIntermediate(taker, maker) /\ Begin("output", taker, maker) /\ traded' = traded
      BY <2>2, <3>2 DEF PolOutputTrade, HandlePolOutput
    <3> QED BY <3>1, <3>3
  <2> QED BY <2>1, <2>2
<1> DEFINE m == IF side = "output" THEN maker ELSE NoAccount
           row == [tx |-> tx, serialId |-> actionCount', taker |-> taker, maker |-> m]
<1>2. /\ UNCHANGED <<tradeCount, trades, totalTradeCount, halted, traded>>
      /\ intermediates' = intermediates \union {row}
  BY <1>1 DEF SaveIntermediate
<1>3. pair' = [side |-> side, taker |-> taker, maker |-> maker] /\ pair' \in PolPair
  BY <1>1 DEF Begin, PolPair
<1>4. row \in IntermediateTradeRow
  BY <1>1, ActionStep DEF IntermediateTradeRow, TradesInv, TypeOK
<1>5. PairIsStored'
  <2>1. pair' # NoPair
    BY <1>3, TradeConstantsAssumption
  <2>2. row = Stored(pair)'
    BY <1>1, <1>3, ActionStep DEF Stored
  <2>3. intermediates = {}
    BY <1>1 DEF TradesInv, PairIsStored
  <2> QED BY <1>2, <2>1, <2>2, <2>3 DEF PairIsStored
<1>6. SerialsGrow' /\ CreditsAreSides'
  BY <1>1, <1>2, NoTrade
<1>7. TypeOK'
  BY <1>1, <1>2, <1>3, <1>4, ActionStep DEF TradesInv, TypeOK
<1> QED BY <1>1, <1>2, <1>5, <1>6, <1>7, ActionStep DEF TradesInv

\* The second event makes the trade and deletes what it used.
LEMMA SecondStep ==
  ASSUME TradesInv, PolInputTrade \/ PolOutputSell PROVE TradesInv'
<1>1. Action /\ pair # NoPair /\ pair' = NoPair /\ traded' = traded + 1
  BY DEF PolInputTrade, PolOutputSell
<1>2. pair \in PolPair /\ pair.taker \in Accounts /\ pair.maker \in Accounts
  BY <1>1 DEF TradesInv, TypeOK, PolPair
<1>3. Previous = {Stored(pair)} /\ intermediates = {Stored(pair)}
  BY <1>1, PreviousIs DEF TradesInv, PairIsStored
<1>4. PICK m \in Accounts, a \in Accounts, b \in Accounts :
        RecordTrade(pair.taker, m, Wallets(a, b)) /\ intermediates' = {}
  <2>1. CASE PolInputTrade
    <3>1. HandlePolInput(pair.taker, pair.maker)
      BY <2>1 DEF PolInputTrade
    <3>2. pair.maker # NoAccount /\ Stored(pair).taker = pair.taker
      BY <1>2, TradeConstantsAssumption DEF Stored
    <3>3. /\ RecordTrade(pair.taker, pair.taker, Wallets(pair.maker, pair.taker))
          /\ intermediates' = {}
      BY <1>3, <3>1, <3>2 DEF HandlePolInput
    <3> QED BY <1>2, <3>3
  <2>2. CASE PolOutputSell
    <3>1. HandlePolOutput(pair.taker, NoAccount) /\ pair.side = "output"
      BY <2>2 DEF PolOutputSell
    <3>2. /\ Stored(pair).taker = pair.taker /\ Stored(pair).maker = pair.maker
          /\ pair.maker # NoAccount
      BY <1>2, <3>1, TradeConstantsAssumption DEF Stored
    <3>3. /\ RecordTrade(pair.taker, pair.maker, Wallets(pair.taker, pair.maker))
          /\ intermediates' = {}
      BY <1>3, <3>1, <3>2 DEF HandlePolOutput
    <3> QED BY <1>2, <3>3
  <2> QED BY <2>1, <2>2
<1>5. /\ trades' \subseteq TradeRow /\ tradeCount' \in Nat /\ traded' \in Nat
      /\ totalTradeCount' \in [Users -> Nat] /\ ~ halted' /\ SerialsGrow' /\ CreditsAreSides'
  BY <1>1, <1>2, <1>4, RecordedTrade
<1>6. halted' \in BOOLEAN
  BY <1>4 DEF RecordTrade, TradesInv, TypeOK
<1>7. TypeOK'
  BY <1>1, <1>4, <1>5, <1>6, ActionStep DEF TradesInv, TypeOK
<1>8. PairIsStored'
  BY <1>1, <1>4 DEF PairIsStored
<1> QED BY <1>1, <1>5, <1>7, <1>8, ActionStep DEF TradesInv

\* An event that is no action raises no serial id, so that it may come between the
\* two events of a pair.
LEMMA OraclePriceStep == ASSUME TradesInv, LogOraclePrice PROVE TradesInv'
<1>1. UNCHANGED <<rows, pair, traded>> /\ actionCount' = actionCount
  BY DEF LogOraclePrice, Call, GetOrCreateDolomiteMarginForCall
<1>2. /\ tx' = tx /\ lastTransactionHash' \in Nat /\ transactionCount' \in Nat
      /\ transactions' \subseteq Nat /\ HashIsLast'
  BY CallStep DEF LogOraclePrice
<1>3. TypeOK'
  BY <1>1, <1>2 DEF TradesInv, TypeOK, rows
<1>4. PairIsStored' /\ SerialsGrow' /\ ~ halted'
  BY <1>1, <1>2 DEF TradesInv, PairIsStored, Stored, SerialsGrow, rows
<1>5. CreditsAreSides'
  BY <1>1 DEF TradesInv, CreditsAreSides, rows
<1> QED BY <1>2, <1>3, <1>4, <1>5 DEF TradesInv

\* The next transaction has not been counted yet.
LEMMA TransactionStep == ASSUME TradesInv, NewTransaction PROVE TradesInv'
<1>1. /\ pair = NoPair /\ tx' = tx + 1
      /\ UNCHANGED <<margin, rows, pair, traded, transactions>>
  BY DEF NewTransaction
<1>2. TypeOK'
  BY <1>1 DEF TradesInv, TypeOK, margin, rows
<1>3. HashIsLast'
  BY <1>1 DEF TradesInv, TypeOK, HashIsLast, margin
<1>4. PairIsStored' /\ SerialsGrow' /\ ~ halted'
  BY <1>1 DEF TradesInv, PairIsStored, SerialsGrow, margin, rows
<1>5. CreditsAreSides'
  BY <1>1 DEF TradesInv, CreditsAreSides, rows
<1> QED BY <1>2, <1>3, <1>4, <1>5 DEF TradesInv

\* Every step keeps the invariant.
LEMMA TradesInvStep == TradesInv /\ [Next]_vars => TradesInv'
<1> SUFFICES ASSUME TradesInv, [Next]_vars PROVE TradesInv'
  OBVIOUS
<1>1. CASE UNCHANGED vars
  BY <1>1
  DEF vars, margin, rows, TradesInv, TypeOK, PairIsStored, Stored, SerialsGrow, HashIsLast,
      CreditsAreSides
<1>2. ASSUME LogCall PROVE TradesInv'
  <2>1. Action /\ pair = NoPair /\ UNCHANGED <<rows, pair, traded>>
    BY <1>2 DEF LogCall
  <2>2. SerialsGrow' /\ CreditsAreSides' /\ TypeOK' /\ PairIsStored'
    BY <2>1, NoTrade, ActionStep DEF TradesInv, TypeOK, PairIsStored, rows
  <2> QED BY <2>1, <2>2, ActionStep DEF TradesInv, rows
<1> QED
  BY <1>1, <1>2, PlainStep, FirstStep, SecondStep, OraclePriceStep, TransactionStep DEF Next

-----------------------------------------------------------------------------
(* The theorems                                                            *)

\* The inductive invariant of the trade rows and of their counters.
THEOREM TradesInvariant == Spec => []TradesInv
BY TradesInvInit, TradesInvStep, PTL DEF Spec

\* margin-core.ts:532-650: the second event of a pair finds the first, so that no
\* maker is read where there is none.
THEOREM TradesNeverHalt == Spec => []NeverHalts
<1>1. TradesInv => NeverHalts
  BY DEF TradesInv, NeverHalts
<1> QED BY <1>1, TradesInvariant, PTL

\* Every trade of the chain is one row and counted once, and nothing of a pair is
\* left behind.
THEOREM EveryPairIsATrade == Spec => []PairsBecomeTrades
<1>1. TradesInv => PairsBecomeTrades
  BY DEF TradesInv, PairIsStored, SerialsGrow, PairsBecomeTrades
<1> QED BY <1>1, TradesInvariant, PTL

\* margin.ts:289-297: a transaction is counted with the first event that calls
\* DolomiteMargin, action or not, and with no other.
THEOREM TransactionsCountedOnce == Spec => []TransactionsCounted
<1>1. TradesInv => TransactionsCounted
  BY DEF TradesInv, HashIsLast, TransactionsCounted
<1> QED BY <1>1, TradesInvariant, PTL

\* margin-core.ts:782-812: whichever of the two users of a trade and their effective
\* users are the same, each is credited with its own sides of the trades.
THEOREM CreditsCorrect == Spec => []CreditsMatchWallets
<1>1. TradesInv => CreditsMatchWallets
  <2> SUFFICES ASSUME TradesInv, NEW u \in Users
               PROVE  totalTradeCount[u]
                        = Cardinality({s \in Sides : u \in {WalletAt(s), EffectiveUser[WalletAt(s)]}})
    BY DEF CreditsMatchWallets
  <2>1. ASSUME NEW t \in trades, NEW i \in DOMAIN t.wallets
        PROVE  WalletAt(<<t.serialId, i>>) = t.wallets[i]
    <3>1. (CHOOSE r \in trades : r.serialId = t.serialId) = t
      BY DEF TradesInv, CreditsAreSides
    <3> QED BY <3>1 DEF WalletAt
  <2>2. {s \in Sides : u \in {WalletAt(s), EffectiveUser[WalletAt(s)]}} = SidesIn(trades, u)
    <3>1. \A s : s \in Sides <=> \E t \in trades : \E i \in DOMAIN t.wallets : s = <<t.serialId, i>>
      BY DEF Sides
    <3>2. \A s : s \in SidesIn(trades, u)
                   <=> \E t \in trades : \E i \in DOMAIN t.wallets :
                         /\ u \in {t.wallets[i], EffectiveUser[t.wallets[i]]}
                         /\ s = <<t.serialId, i>>
      BY DEF SidesIn
    <3> QED BY <2>1, <3>1, <3>2
  <2> QED BY <2>2 DEF TradesInv, CreditsAreSides
<1> QED BY <1>1, TradesInvariant, PTL
=============================================================================
