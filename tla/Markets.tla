-------------------------------- MODULE Markets -------------------------------
(***************************************************************************)
(* The registry of markets and the liquidity of the protocol                *)
(* (margin-admin.ts, helpers/token.ts, helpers/interest-rate.ts and         *)
(* changeProtocolBalanceApplied).  DolomiteMargin lists a token under a     *)
(* market id, may remove it and give the id to another token later; events  *)
(* name a market by its id, and the indexer finds the token through         *)
(* TokenMarketIdReverseLookup.  A missing row makes a handler throw, and    *)
(* the indexer stops there.                                                 *)
(*                                                                          *)
(* Accounts are left out: an event sets the TotalPar of its token to any    *)
(* value.  One index stands for the supply and the borrow index.  An        *)
(* interest rate is only the earnings rate it was last multiplied by: 0     *)
(* before the first calculation.  The risk parameters are one row of which  *)
(* only earningsRateOverride is read.  MaxListings is a bound.              *)
(***************************************************************************)
EXTENDS Integers, FiniteSetsExt

CONSTANTS Tokens, PolTokens,  \* tokens, and those whose symbol starts with pol-
          MarketIds,          \* 0 .. n
          None,               \* no row
          Indexes, Prices, EarningsRates,
          Overrides,          \* what an override is set to; None clears it
          TotalPars,          \* values of a TotalPar row: [supply, borrow]
          MaxListings

ASSUME MarketsAssumption ==
  /\ PolTokens \subseteq Tokens /\ MarketIds \subseteq Nat
  /\ TotalPars \subseteq [supply : Nat, borrow : Nat] /\ MaxListings \in Nat
  /\ Indexes \subseteq Nat /\ Prices \subseteq Nat
  /\ EarningsRates \subseteq Nat /\ Overrides \subseteq Nat \union {None}

\* Addresses are words of a fixed width.
ASSUME TokensFinite == IsFiniteSet(Tokens)

\* Rows of Token, and of TotalPar, InterestRate and MarketRiskInfo.
TokenRow == [borrow : Int, borrowUSD : Int, supply : Int, supplyUSD : Int]
MarketRow == [par : [supply : Int, borrow : Int], rate : Int, override : Int \union {None}]

ASSUME NoneAssumption == None \notin Tokens \union Int \union TokenRow \union MarketRow

VARIABLES listed,     \* chain: the token of each market id
          numMarkets, \* chain: ids given out so far
          listings,   \* history: how often each token was listed
          lookup,          \* TokenMarketIdReverseLookup
          tokens,          \* Token rows and their liquidity columns
          market,          \* TotalPar, InterestRate and MarketRiskInfo
          interestIndex, oraclePrice,
          margin,          \* DolomiteMargin
          rebased,    \* history: TotalPar or index was set since the last booking
          overridden, \* history: had an earningsRateOverride since it was listed
          halted

chain == <<listed, numMarkets, listings>>
store == <<lookup, tokens, market, interestIndex, oraclePrice, margin, rebased, overridden>>
vars == <<chain, store, halted>>

NoLiquidity == [borrow |-> 0, borrowUSD |-> 0, supply |-> 0, supplyUSD |-> 0]

Init ==
  /\ listed = [m \in MarketIds |-> None] /\ numMarkets = 0
  /\ listings = [t \in Tokens |-> 0]
  /\ lookup = [m \in MarketIds |-> None]
  /\ tokens = [t \in Tokens |-> None]
  /\ market = [t \in Tokens |-> None]
  /\ interestIndex = [t \in Tokens |-> None] /\ oraclePrice = [t \in Tokens |-> None]
  /\ margin \in [numberOfMarkets : {0}, earningsRate : EarningsRates,
                 borrowUSD : {0}, supplyUSD : {0}]
  /\ rebased = {} /\ overridden = {} /\ halted = FALSE

\* getOrThrow of a row that is not there.
Throw == halted' = TRUE /\ UNCHANGED <<chain, store>>

-----------------------------------------------------------------------------
(* Listing                                                                 *)

\* Mutant: the reverse lookup keeps the first token of a recycled id.
InitializeTokenOnce(m, t) ==
  /\ tokens' = [tokens EXCEPT ![t] = NoLiquidity]
  /\ lookup' = [lookup EXCEPT ![m] = IF @ = None THEN t ELSE @]

\* initializeToken, for a token that has no row yet.
InitializeToken(m, t) ==
  /\ tokens' = [tokens EXCEPT ![t] = NoLiquidity]
  /\ lookup' = [lookup EXCEPT ![m] = t]

\* The number of markets is read at the head of the chain, which may be ahead.
MarketsAtHead(n) == {k \in {i + 1 : i \in MarketIds} : k >= n}

\* A new id, or one whose market was removed.
LogAddMarket(m, t) ==
  /\ listed[m] = None /\ m <= numMarkets
  /\ \A other \in MarketIds : listed[other] # t
  /\ SumFunction(listings) < MaxListings
  /\ listed' = [listed EXCEPT ![m] = t]
  /\ numMarkets' = IF m = numMarkets THEN m + 1 ELSE numMarkets
  /\ listings' = [listings EXCEPT ![t] = @ + 1]
  /\ \E n \in MarketsAtHead(numMarkets') :
       margin' = [margin EXCEPT !.numberOfMarkets = n]
  /\ IF tokens[t] = None THEN InitializeToken(m, t) ELSE UNCHANGED <<tokens, lookup>>
  /\ market' = [market EXCEPT ![t] = [par |-> [supply |-> 0, borrow |-> 0],
                                      rate |-> 0, override |-> None]]
  /\ interestIndex' = [interestIndex EXCEPT ![t] = 1]
  /\ \E price \in Prices : oraclePrice' = [oraclePrice EXCEPT ![t] = price]
  /\ rebased' = rebased \union {t} /\ overridden' = overridden \ {t}
  /\ UNCHANGED halted

Delisted(m) ==
  /\ listed[m] # None
  /\ listed' = [listed EXCEPT ![m] = None]
  /\ UNCHANGED <<numMarkets, listings>>

\* The number of markets goes up, and the reverse lookup is deleted under the id of
\* the token, so that it stays.
LogRemoveMarket(m) ==
  IF lookup[m] = None THEN listed[m] # None /\ Throw
  ELSE /\ Delisted(m)
       /\ margin' = [margin EXCEPT !.numberOfMarkets = @ + 1]
       /\ market' = [market EXCEPT ![lookup[m]] = None]
       /\ interestIndex' = [interestIndex EXCEPT ![lookup[m]] = None]
       /\ oraclePrice' = [oraclePrice EXCEPT ![lookup[m]] = None]
       /\ UNCHANGED <<lookup, tokens, rebased, overridden, halted>>

-----------------------------------------------------------------------------
(* Bookings                                                                *)

\* The rows a handler loads for the market of an event, all with getOrThrow.
Resolves(m) ==
  lookup[m] # None /\ market[lookup[m]] # None /\ interestIndex[lookup[m]] # None

\* updateInterestRate.
RateOf(row) == IF row.override # None THEN row.override ELSE margin.earningsRate

\* Mutant: the new values of a POL token are added to the totals.
BookedWithPol(pr, t, par, index, price) ==
  LET old == pr.tokens[t]
      new == [borrow |-> par.borrow * index, borrowUSD |-> old.borrow * price,
              supply |-> par.supply * index, supplyUSD |-> par.supply * index * price]
  IN  [tokens |-> [pr.tokens EXCEPT ![t] = new],
       margin |-> [pr.margin EXCEPT
                     !.borrowUSD = @ + new.borrowUSD - (IF t \in PolTokens THEN 0 ELSE old.borrowUSD),
                     !.supplyUSD = @ + new.supplyUSD - (IF t \in PolTokens THEN 0 ELSE old.supplyUSD)]]

\* Mutant: the dollar value of the borrows is not refreshed.
BookedBorrowUsdKept(pr, t, par, index, price) ==
  LET old == pr.tokens[t]
      new == [borrow |-> par.borrow * index, borrowUSD |-> old.borrowUSD,
              supply |-> par.supply * index, supplyUSD |-> par.supply * index * price]
  IN  [tokens |-> [pr.tokens EXCEPT ![t] = new],
       margin |-> IF t \in PolTokens THEN pr.margin
                  ELSE [pr.margin EXCEPT !.supplyUSD = @ + new.supplyUSD - old.supplyUSD]]

\* Mutant: the supply of a token stays a par.
BookedAtPar(pr, t, par, index, price) ==
  LET old == pr.tokens[t]
      new == [borrow |-> par.borrow * index, borrowUSD |-> old.borrow * price,
              supply |-> par.supply, supplyUSD |-> par.supply * price]
  IN  [tokens |-> [pr.tokens EXCEPT ![t] = new],
       margin |-> IF t \in PolTokens THEN pr.margin
                  ELSE [pr.margin EXCEPT
                          !.borrowUSD = @ - old.borrowUSD + new.borrowUSD,
                          !.supplyUSD = @ - old.supplyUSD + new.supplyUSD]]

\* changeProtocolBalanceApplied: the columns of the token, whose old values leave
\* the totals of the protocol and whose new ones join them.  borrowLiquidityUSD
\* is the value of the borrowLiquidity that the token had before.
Booked(pr, t, par, index, price) ==
  LET old == pr.tokens[t]
      new == [borrow |-> par.borrow * index, borrowUSD |-> old.borrow * price,
              supply |-> par.supply * index, supplyUSD |-> par.supply * index * price]
  IN  [tokens |-> [pr.tokens EXCEPT ![t] = new],
       margin |-> IF t \in PolTokens THEN pr.margin
                  ELSE [pr.margin EXCEPT
                          !.borrowUSD = @ - old.borrowUSD + new.borrowUSD,
                          !.supplyUSD = @ - old.supplyUSD + new.supplyUSD]]

BookedTimes(pr, t, par, price, n) ==
  LET once == Booked(pr, t, par, interestIndex[t], price)
  IN  IF n = 1 THEN once ELSE Booked(once, t, par, interestIndex[t], price)

WithPar(rows, t, par) ==
  [rows EXCEPT ![t] = [@ EXCEPT !.par = par, !.rate = RateOf(rows[t])]]

Protocol == [tokens |-> tokens, margin |-> margin]

\* One market: a LogDeposit or LogWithdraw (booked once) or a LogTransfer (twice).
OneMarketEvent(m, n) ==
  /\ listed[m] # None
  /\ IF ~ Resolves(m) THEN Throw
     ELSE \E par \in TotalPars :
            LET t  == lookup[m]
                pr == BookedTimes(Protocol, t, par, oraclePrice[t], n)
            IN  /\ tokens' = pr.tokens /\ margin' = pr.margin
                /\ market' = WithPar(market, t, par)
                /\ rebased' = rebased \ {t}
                /\ UNCHANGED <<chain, lookup, interestIndex, oraclePrice, overridden, halted>>

\* Two markets: a LogSell or LogBuy (each booked once), a LogTrade or LogLiquidate
\* (twice), a LogVaporize (the held market once, the owed one twice).
TwoMarketEvent(one, two, n, k) ==
  /\ one # two /\ listed[one] # None /\ listed[two] # None
  /\ IF ~ (Resolves(one) /\ Resolves(two)) THEN Throw
     ELSE \E parOne, parTwo \in TotalPars :
            LET s  == lookup[one]
                t  == lookup[two]
                pr == BookedTimes(BookedTimes(Protocol, s, parOne, oraclePrice[s], n),
                                  t, parTwo, oraclePrice[t], k)
            IN  /\ tokens' = pr.tokens /\ margin' = pr.margin
                /\ market' = WithPar(WithPar(market, s, parOne), t, parTwo)
                /\ rebased' = rebased \ {s, t}
                /\ UNCHANGED <<chain, lookup, interestIndex, oraclePrice, overridden, halted>>

LogOraclePrice(m, price) ==
  /\ listed[m] # None
  /\ IF ~ Resolves(m) THEN Throw
     ELSE LET t  == lookup[m]
              pr == BookedTimes(Protocol, t, market[t].par, price, 1)
          IN  /\ oraclePrice' = [oraclePrice EXCEPT ![t] = price]
              /\ tokens' = pr.tokens /\ margin' = pr.margin
              /\ market' = WithPar(market, t, market[t].par)
              /\ rebased' = rebased \ {t}
              /\ UNCHANGED <<chain, lookup, interestIndex, overridden, halted>>

\* The index row is set whether or not the token has one.
LogIndexUpdate(m, index) ==
  /\ listed[m] # None
  /\ IF lookup[m] = None THEN Throw
     ELSE /\ interestIndex' = [interestIndex EXCEPT ![lookup[m]] = index]
          /\ rebased' = rebased \union {lookup[m]}
          /\ UNCHANGED <<chain, lookup, tokens, market, oraclePrice, margin, overridden,
                         halted>>

-----------------------------------------------------------------------------
(* Parameters                                                              *)

\* LogSetInterestSetter: the rate is calculated again.
LogSetInterestSetter(m) ==
  /\ listed[m] # None
  /\ IF ~ Resolves(m) THEN Throw
     ELSE /\ market' = WithPar(market, lookup[m], market[lookup[m]].par)
          /\ UNCHANGED <<chain, lookup, tokens, interestIndex, oraclePrice, margin,
                         rebased, overridden, halted>>

\* LogSetEarningsRateOverride.  The other setters of MarketRiskInfo
\* find their row in the same way and change columns that no handler here reads.
SetRiskInfo(m, override) ==
  /\ listed[m] # None
  /\ IF lookup[m] = None \/ market[lookup[m]] = None THEN Throw
     ELSE /\ market' = [market EXCEPT ![lookup[m]].override = override]
          /\ overridden' = IF override = None THEN overridden
                           ELSE overridden \union {lookup[m]}
          /\ UNCHANGED <<chain, lookup, tokens, interestIndex, oraclePrice, margin,
                         rebased, halted>>

\* Mutant: the loop leaves out the last market.
ReachedButLast == {lookup[i] : i \in {m \in MarketIds : m < margin.numberOfMarkets - 1}} \ {None}

\* The tokens the loop over the market ids of LogSetEarningsRate comes to.
Reached == {lookup[i] : i \in {m \in MarketIds : m < margin.numberOfMarkets}} \ {None}

\* A supply rate is divided by the old earnings rate, unless that is zero, and
\* multiplied by the new one.
Rescaled(rate, new) ==
  (rate * new) \div (IF margin.earningsRate > 0 THEN margin.earningsRate ELSE 1)

LogSetEarningsRate(new) ==
  IF \E t \in Reached : market[t] = None THEN Throw
  ELSE /\ margin' = [margin EXCEPT !.earningsRate = new]
       /\ market' = [t \in Tokens |-> IF t \in Reached
                       THEN [market[t] EXCEPT !.rate = Rescaled(@, new)] ELSE market[t]]
       /\ UNCHANGED <<chain, lookup, tokens, interestIndex, oraclePrice, rebased, overridden,
                      halted>>

Next ==
  /\ ~ halted
  /\ \/ \E m \in MarketIds, t \in Tokens : LogAddMarket(m, t)
     \/ \E m \in MarketIds : LogRemoveMarket(m)
     \/ \E m \in MarketIds, n \in 1 .. 2 : OneMarketEvent(m, n)
     \/ \E one, two \in MarketIds, n \in 1 .. 2, k \in 1 .. 2 :
          n <= k /\ TwoMarketEvent(one, two, n, k)
     \/ \E m \in MarketIds, price \in Prices : LogOraclePrice(m, price)
     \/ \E m \in MarketIds, index \in Indexes : LogIndexUpdate(m, index)
     \/ \E m \in MarketIds : LogSetInterestSetter(m)
     \/ \E m \in MarketIds, override \in Overrides : SetRiskInfo(m, override)
     \/ \E new \in EarningsRates : LogSetEarningsRate(new)

Spec == Init /\ [][Next]_vars

-----------------------------------------------------------------------------
(* Properties                                                               *)

Column(rows, t, c) == IF rows[t] = None THEN 0 ELSE rows[t][c]
Total(rows, c) ==
  SumFunctionOnSet([t \in Tokens |-> Column(rows, t, c)], Tokens \ PolTokens)

\* helpers/margin.ts:507-530.  The liquidity of the protocol is that of its tokens
\* without the POL ones: each booking takes out exactly what an earlier one put
\* in, also across removals, new listings, prices and indexes.
TotalsAreSumsIn(pr) == /\ pr.margin.borrowUSD = Total(pr.tokens, "borrowUSD")
                       /\ pr.margin.supplyUSD = Total(pr.tokens, "supplyUSD")
TotalsAreSums == TotalsAreSumsIn(Protocol)

\* helpers/margin.ts:513-526 with margin-core.ts:90-110 and margin-admin.ts:208.
\* The liquidity of a token is its TotalPar at its index, unless the index or the
\* TotalPar row was set since the token was last booked.
LiquidityIsPar ==
  \A t \in Tokens \ rebased :
    market[t] # None =>
      /\ tokens[t].borrow = market[t].par.borrow * interestIndex[t]
      /\ tokens[t].supply = market[t].par.supply * interestIndex[t]

\* A step that changes the columns of a token, or brings them up to date.
BookedNow(t) ==
  tokens[t] # None /\ (tokens'[t] # tokens[t] \/ t \in rebased \ rebased')

CatchesUp(t) ==
  BookedNow(t) /\ tokens'[t].borrow = tokens[t].borrow
    => tokens'[t].borrowUSD = tokens'[t].borrow * oraclePrice'[t]

\* helpers/margin.ts:514.  The value of the borrows runs one booking behind; a
\* booking that leaves the borrows as they were (the second of an event, or that
\* of an oracle price) makes up for it.
BorrowValueCatchesUp ==
  [][\A t \in Tokens : CatchesUp(t)]_vars

\* margin-admin.ts:148-154 and 232-241 with helpers/token.ts:68-73.  A market
\* whose token is listed for the first time is found under its id, with all its
\* rows, also when the id was another token's before.  So no event stops the
\* indexer until a market has been removed: its lookup stays while its rows go, and
\* a token that comes back gets no lookup for its new id.
FirstListingResolves ==
  /\ \A m \in MarketIds :
       listed[m] # None /\ listings[listed[m]] = 1 => lookup[m] = listed[m] /\ Resolves(m)
  /\ halted => \E t \in Tokens :
       listings[t] > 1 \/ (tokens[t] # None /\ market[t] = None)

\* margin-admin.ts:145, 229 and 425-438.  The loop over the market ids comes to
\* every such market, so its supply rate is that of the present earnings rate,
\* unless it had an override: an override is divided by a rate it never contained.
RatesFollowEarnings ==
  \A m \in MarketIds :
    listed[m] # None /\ listings[listed[m]] = 1 /\ listed[m] \notin overridden
      => market[listed[m]].rate \in {0, margin.earningsRate}
=============================================================================
