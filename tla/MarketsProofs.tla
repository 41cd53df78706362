---------------------------- MODULE MarketsProofs -----------------------------
(***************************************************************************)
(* A market listed for the first time is found under its id, its rate is   *)
(* that of the present earnings rate, its liquidity that of its par, and   *)
(* the totals of the protocol are the sums over its tokens, for any number *)
(* of markets, ids and listings, and any pars, indexes and prices.         *)
(*                                                                         *)
(* FirstListingResolves says nothing of the lookups of tokens that are not *)
(* listed, through which a removal finds the rows it deletes.  The         *)
(* invariant adds that a lookup leads to one token only and that every     *)
(* token it leads to has been seen: so no removal under another id can     *)
(* take the rows of a first listing away.                                  *)
(***************************************************************************)
EXTENDS Markets, SumTheorems

MarginRow == [numberOfMarkets : Nat, earningsRate : Nat, borrowUSD : Int, supplyUSD : Int]

\* Every table holds rows of its type, or nothing.
RowsOfType ==
  /\ listed \in [MarketIds -> Tokens \union {None}] /\ numMarkets \in Nat
  /\ listings \in [Tokens -> Nat]
  /\ lookup \in [MarketIds -> Tokens \union {None}]
  /\ tokens \in [Tokens -> TokenRow \union {None}]
  /\ market \in [Tokens -> MarketRow \union {None}]
  /\ interestIndex \in [Tokens -> Nat \union {None}]
  /\ oraclePrice \in [Tokens -> Nat \union {None}]
  /\ margin \in MarginRow
  /\ rebased \subseteq Tokens /\ overridden \subseteq Tokens /\ halted \in BOOLEAN

\* A token has a row once it was listed, and the other rows come and go together.
RowsTogether ==
  \A t \in Tokens : /\ tokens[t] = None <=> listings[t] = 0
                    /\ market[t] # None => /\ interestIndex[t] # None
                                           /\ oraclePrice[t] # None /\ tokens[t] # None

\* A token is looked up under one id, and not before it has a row.
LookupIsInjective ==
  \A m \in MarketIds : lookup[m] # None =>
    /\ tokens[lookup[m]] # None
    /\ \A k \in MarketIds : lookup[k] = lookup[m] => k = m

\* DolomiteMargin counts at least the ids given out.
ListedIsCounted ==
  /\ numMarkets <= margin.numberOfMarkets
  /\ \A m \in MarketIds : listed[m] # None => m < numMarkets /\ listings[listed[m]] > 0

FirstListingFound ==
  \A m \in MarketIds : listed[m] # None /\ listings[listed[m]] = 1
    => lookup[m] = listed[m] /\ market[listed[m]] # None

OverridesSeen ==
  \A t \in Tokens \ overridden : market[t] # None => market[t].override = None

HaltsOnlyAfterRemoval ==
  halted => \E t \in Tokens : listings[t] > 1 \/ (tokens[t] # None /\ market[t] = None)

RegistryInv ==
  /\ RowsOfType /\ RowsTogether /\ LookupIsInjective /\ ListedIsCounted
  /\ FirstListingFound /\ HaltsOnlyAfterRemoval

MarketsInv ==
  /\ RegistryInv /\ OverridesSeen /\ RatesFollowEarnings /\ LiquidityIsPar /\ TotalsAreSums

-----------------------------------------------------------------------------
(* Bookings                                                                *)

TokenTable == [Tokens -> TokenRow \union {None}]
Pars == [supply : Int, borrow : Int]

\* None is no row, and neither a token nor a number.
LEMMA NoneIsNothing ==
  /\ None \notin Tokens /\ None \notin Int /\ None \notin Nat
  /\ None \notin TokenRow /\ None \notin MarketRow
  BY NoneAssumption

\* A column that changes for one token moves the total by the change, unless the
\* token is a POL one.
LEMMA TotalMoves ==
  ASSUME NEW rows \in TokenTable, NEW after \in TokenTable, NEW t \in Tokens,
         \A s \in Tokens \ {t} : after[s] = rows[s],
         NEW c \in {"borrowUSD", "supplyUSD"}
  PROVE  /\ Total(rows, c) \in Int /\ Column(rows, t, c) \in Int /\ Column(after, t, c) \in Int
         /\ t \in PolTokens => Total(after, c) = Total(rows, c)
         /\ t \notin PolTokens =>
              Total(after, c) = Total(rows, c) - Column(rows, t, c) + Column(after, t, c)
  <1> DEFINE S == Tokens \ PolTokens
             f == [s \in Tokens |-> Column(rows, s, c)]
             h == [s \in Tokens |-> Column(after, s, c)]
  <1>1. IsFiniteSet(S)
    BY TokensFinite, FS_Difference
  <1>2. \A s \in Tokens : Column(rows, s, c) \in Int /\ Column(after, s, c) \in Int
    BY DEF Column, TokenTable, TokenRow
  <1>3. \A s \in Tokens : f[s] = Column(rows, s, c) /\ h[s] = Column(after, s, c)
    OBVIOUS
  <1>4. \A s \in Tokens \ {t} : h[s] = f[s]
    BY <1>3 DEF Column
  <1>5. Total(rows, c) = SumFunctionOnSet(f, S) /\ Total(after, c) = SumFunctionOnSet(h, S)
    BY DEF Total
  <1> HIDE DEF f, h
  <1>6. \A s \in S : f[s] \in Int
    BY <1>2, <1>3
  <1>7. Total(rows, c) \in Int
    BY <1>1, <1>5, <1>6, SumType
  <1>8. ASSUME t \in PolTokens PROVE Total(after, c) = Total(rows, c)
    <2>1. \A s \in S : h[s] = f[s]
      BY <1>4, <1>8
    <2> QED BY <1>1, <1>5, <1>6, <2>1, SumAgrees
  <1>9. ASSUME t \notin PolTokens
        PROVE  Total(after, c) = Total(rows, c) - Column(rows, t, c) + Column(after, t, c)
    <2>1. t \in S /\ h[t] \in Int /\ \A s \in S \ {t} : h[s] = f[s]
      BY <1>2, <1>3, <1>4, <1>9
    <2>2. SumFunctionOnSet(h, S) = SumFunctionOnSet(f, S) - f[t] + h[t]
      BY <1>1, <1>6, <2>1, SumChangedAtOne
    <2> QED BY <1>3, <1>5, <2>2
  <1> QED BY <1>2, <1>7, <1>8, <1>9

\* One booking of token t: its columns, and only those, follow the par, and the
\* totals of the protocol follow the columns.
LEMMA BookedFacts ==
  ASSUME NEW pr, pr.tokens \in TokenTable, pr.margin \in MarginRow, TotalsAreSumsIn(pr),
         NEW t \in Tokens, pr.tokens[t] # None,
         NEW par \in Pars, NEW index \in Int, NEW price \in Int
  PROVE  LET q == Booked(pr, t, par, index, price) IN
           /\ q.tokens \in TokenTable /\ q.margin \in MarginRow /\ TotalsAreSumsIn(q)
           /\ q.margin.numberOfMarkets = pr.margin.numberOfMarkets
           /\ q.margin.earningsRate = pr.margin.earningsRate
           /\ q.tokens[t] # None
           /\ q.tokens[t].borrow = par.borrow * index
           /\ q.tokens[t].supply = par.supply * index
           /\ q.tokens[t].borrowUSD = pr.tokens[t].borrow * price
           /\ \A s \in Tokens \ {t} : q.tokens[s] = pr.tokens[s]
  <1> DEFINE old == pr.tokens[t]
             new == [borrow |-> par.borrow * index, borrowUSD |-> old.borrow * price,
                     supply |-> par.supply * index, supplyUSD |-> par.supply * index * price]
             q == Booked(pr, t, par, index, price)
             moved == [pr.margin EXCEPT !.borrowUSD = @ - old.borrowUSD + new.borrowUSD,
                                        !.supplyUSD = @ - old.supplyUSD + new.supplyUSD]
  <1>1. old \in TokenRow
    BY DEF TokenTable
  <1>2. /\ old.borrow \in Int /\ old.borrowUSD \in Int /\ old.supplyUSD \in Int
        /\ par.borrow \in Int /\ par.supply \in Int
    BY <1>1 DEF TokenRow, Pars
  <1>3. /\ par.borrow * index \in Int /\ par.supply * index \in Int
        /\ old.borrow * price \in Int
    BY <1>2
  <1>4. par.supply * index * price \in Int
    BY <1>3
  <1>5. new \in TokenRow
    BY <1>3, <1>4 DEF TokenRow
  <1>6. /\ q.tokens = [pr.tokens EXCEPT ![t] = new]
        /\ t \in PolTokens => q.margin = pr.margin
        /\ t \notin PolTokens => q.margin = moved
    BY DEF Booked
  <1>7. /\ new.borrow = par.borrow * index /\ new.supply = par.supply * index
        /\ new.borrowUSD = old.borrow * price
    OBVIOUS
  <1>8. new.borrowUSD \in Int /\ new.supplyUSD \in Int
    BY <1>5 DEF TokenRow
  <1> HIDE DEF new, q
  <1>9. /\ q.tokens \in TokenTable /\ q.tokens[t] = new /\ new # None
        /\ \A s \in Tokens \ {t} : q.tokens[s] = pr.tokens[s]
    BY <1>5, <1>6, NoneIsNothing DEF TokenTable
  <1>10. /\ Column(q.tokens, t, "borrowUSD") = new.borrowUSD
         /\ Column(q.tokens, t, "supplyUSD") = new.supplyUSD
         /\ Column(pr.tokens, t, "borrowUSD") = old.borrowUSD
         /\ Column(pr.tokens, t, "supplyUSD") = old.supplyUSD
    BY <1>9 DEF Column
  <1>11. /\ moved \in MarginRow
         /\ moved.numberOfMarkets = pr.margin.numberOfMarkets
         /\ moved.earningsRate = pr.margin.earningsRate
         /\ moved.borrowUSD = pr.margin.borrowUSD - old.borrowUSD + new.borrowUSD
         /\ moved.supplyUSD = pr.margin.supplyUSD - old.supplyUSD + new.supplyUSD
    <2> DEFINE b == pr.margin.borrowUSD - old.borrowUSD + new.borrowUSD
               u == pr.margin.supplyUSD - old.supplyUSD + new.supplyUSD
    <2>1. pr.margin.borrowUSD \in Int /\ pr.margin.supplyUSD \in Int
      BY DEF MarginRow
    <2>2. b \in Int /\ u \in Int
      BY <1>2, <1>8, <2>1
    <2>3. moved = [pr.margin EXCEPT !.borrowUSD = b, !.supplyUSD = u]
      OBVIOUS
    <2> HIDE DEF b, u, moved
    <2>4. /\ moved \in MarginRow /\ moved.borrowUSD = b /\ moved.supplyUSD = u
          /\ moved.numberOfMarkets = pr.margin.numberOfMarkets
          /\ moved.earningsRate = pr.margin.earningsRate
      BY <2>2, <2>3 DEF MarginRow
    <2> QED BY <2>4 DEF b, u
  <1> HIDE DEF moved, old
  <1>12. TotalsAreSumsIn(q)
    <2>1. /\ pr.margin.borrowUSD = Total(pr.tokens, "borrowUSD")
          /\ pr.margin.supplyUSD = Total(pr.tokens, "supplyUSD")
      BY DEF TotalsAreSumsIn
    <2>2. CASE t \in PolTokens
      <3>1. /\ Total(q.tokens, "borrowUSD") = Total(pr.tokens, "borrowUSD")
            /\ Total(q.tokens, "supplyUSD") = Total(pr.tokens, "supplyUSD")
        BY <1>9, <2>2, TotalMoves
      <3> QED BY <1>6, <2>1, <2>2, <3>1 DEF TotalsAreSumsIn
    <2>3. CASE t \notin PolTokens
      <3>1. /\ Total(q.tokens, "borrowUSD")
                 = Total(pr.tokens, "borrowUSD") - old.borrowUSD + new.borrowUSD
            /\ Total(q.tokens, "supplyUSD")
                 = Total(pr.tokens, "supplyUSD") - old.supplyUSD + new.supplyUSD
        BY <1>9, <1>10, <2>3, TotalMoves
      <3> QED BY <1>6, <1>11, <2>1, <2>3, <3>1 DEF TotalsAreSumsIn
    <2> QED BY <2>2, <2>3
  <1>13. /\ q.margin \in MarginRow
         /\ q.margin.numberOfMarkets = pr.margin.numberOfMarkets
         /\ q.margin.earningsRate = pr.margin.earningsRate
    BY <1>6, <1>11
  <1>14. /\ q.tokens[t] # None /\ q.tokens[t].borrow = par.borrow * index
         /\ q.tokens[t].supply = par.supply * index
         /\ q.tokens[t].borrowUSD = pr.tokens[t].borrow * price
    BY <1>7, <1>9 DEF old
  <1> QED BY <1>9, <1>12, <1>13, <1>14, Zenon DEF q

\* One event books a token once or twice.  Its columns end up at the par, and the
\* value of the borrows too if they were there before.
LEMMA BookedTimesFacts ==
  ASSUME NEW pr, pr.tokens \in TokenTable, pr.margin \in MarginRow, TotalsAreSumsIn(pr),
         NEW t \in Tokens, pr.tokens[t] # None, interestIndex[t] \in Int,
         NEW par \in Pars, NEW price \in Int, NEW n
  PROVE  LET q == BookedTimes(pr, t, par, price, n) IN
           /\ q.tokens \in TokenTable /\ q.margin \in MarginRow /\ TotalsAreSumsIn(q)
           /\ q.margin.numberOfMarkets = pr.margin.numberOfMarkets
           /\ q.margin.earningsRate = pr.margin.earningsRate
           /\ q.tokens[t] # None
           /\ q.tokens[t].borrow = par.borrow * interestIndex[t]
           /\ q.tokens[t].supply = par.supply * interestIndex[t]
           /\ q.tokens[t].borrow = pr.tokens[t].borrow
                => q.tokens[t].borrowUSD = q.tokens[t].borrow * price
           /\ \A s \in Tokens \ {t} : q.tokens[s] = pr.tokens[s]
  <1> DEFINE once == Booked(pr, t, par, interestIndex[t], price)
             twice == Booked(once, t, par, interestIndex[t], price)
             q == BookedTimes(pr, t, par, price, n)
  <1>1. /\ once.tokens \in TokenTable /\ once.margin \in MarginRow /\ TotalsAreSumsIn(once)
        /\ once.margin.numberOfMarkets = pr.margin.numberOfMarkets
        /\ once.margin.earningsRate = pr.margin.earningsRate
        /\ once.tokens[t] # None
        /\ once.tokens[t].borrow = par.borrow * interestIndex[t]
        /\ once.tokens[t].supply = par.supply * interestIndex[t]
        /\ once.tokens[t].borrowUSD = pr.tokens[t].borrow * price
        /\ \A s \in Tokens \ {t} : once.tokens[s] = pr.tokens[s]
    BY BookedFacts
  <1> HIDE DEF once
  <1>2. /\ twice.tokens \in TokenTable /\ twice.margin \in MarginRow /\ TotalsAreSumsIn(twice)
        /\ twice.margin.numberOfMarkets = once.margin.numberOfMarkets
        /\ twice.margin.earningsRate = once.margin.earningsRate
        /\ twice.tokens[t] # None
        /\ twice.tokens[t].borrow = par.borrow * interestIndex[t]
        /\ twice.tokens[t].supply = par.supply * interestIndex[t]
        /\ twice.tokens[t].borrowUSD = once.tokens[t].borrow * price
        /\ \A s \in Tokens \ {t} : twice.tokens[s] = once.tokens[s]
    BY <1>1, BookedFacts
  <1> HIDE DEF twice
  <1>3. q = once \/ q = twice
    BY DEF BookedTimes, once, twice
  <1> HIDE DEF q
  <1>4. q = once => /\ q.tokens[t].borrow = pr.tokens[t].borrow
                         => q.tokens[t].borrowUSD = q.tokens[t].borrow * price
    BY <1>1
  <1>5. q = twice => q.tokens[t].borrowUSD = q.tokens[t].borrow * price
    BY <1>1, <1>2
  <1>6. /\ q.tokens \in TokenTable /\ q.margin \in MarginRow /\ TotalsAreSumsIn(q)
        /\ q.margin.numberOfMarkets = pr.margin.numberOfMarkets
        /\ q.margin.earningsRate = pr.margin.earningsRate
        /\ q.tokens[t] # None
        /\ q.tokens[t].borrow = par.borrow * interestIndex[t]
        /\ q.tokens[t].supply = par.supply * interestIndex[t]
        /\ \A s \in Tokens \ {t} : q.tokens[s] = pr.tokens[s]
    BY <1>1, <1>2, <1>3
  <1> QED BY <1>3, <1>4, <1>5, <1>6 DEF q

MarketTable == [Tokens -> MarketRow \union {None}]

\* Setting the TotalPar of a token calculates its rate again.
LEMMA WithParFacts ==
  ASSUME NEW rows \in MarketTable, margin \in MarginRow,
         NEW t \in Tokens, rows[t] # None, NEW par \in Pars
  PROVE  LET after == WithPar(rows, t, par) IN
           /\ after \in MarketTable /\ after[t] # None
           /\ after[t].par = par /\ after[t].override = rows[t].override
           /\ rows[t].override = None => after[t].rate = margin.earningsRate
           /\ \A s \in Tokens \ {t} : after[s] = rows[s]
  <1> DEFINE row == [rows[t] EXCEPT !.par = par, !.rate = RateOf(rows[t])]
             after == WithPar(rows, t, par)
  <1>1. rows[t] \in MarketRow
    BY DEF MarketTable
  <1>2. rows[t].override \in Int \union {None} /\ margin.earningsRate \in Int
    BY <1>1 DEF MarketRow, MarginRow
  <1>3. /\ RateOf(rows[t]) \in Int
        /\ rows[t].override = None => RateOf(rows[t]) = margin.earningsRate
    BY <1>2 DEF RateOf
  <1>4. /\ row \in MarketRow /\ row.par = par /\ row.override = rows[t].override
        /\ row.rate = RateOf(rows[t])
    BY <1>1, <1>3 DEF MarketRow, Pars
  <1>5. after = [rows EXCEPT ![t] = row]
    BY DEF WithPar
  <1> HIDE DEF row, after
  <1>6. /\ after \in MarketTable /\ after[t] = row
        /\ \A s \in Tokens \ {t} : after[s] = rows[s]
    BY <1>4, <1>5 DEF MarketTable
  <1>7. row # None
    BY <1>4, NoneIsNothing
  <1> QED BY <1>3, <1>4, <1>6, <1>7 DEF after

-----------------------------------------------------------------------------
(* The registry                                                            *)

\* An event that does not find the rows of its market is of a token that was
\* listed more than once.
LEMMA UnresolvedIsRelisted ==
  ASSUME RegistryInv, NEW m \in MarketIds, listed[m] # None,
         \/ lookup[m] = None \/ market[lookup[m]] = None \/ interestIndex[lookup[m]] = None
  PROVE  \E t \in Tokens : listings[t] > 1
  <1>1. listed[m] \in Tokens /\ listings[listed[m]] \in Nat /\ listings[listed[m]] > 0
    BY DEF RegistryInv, RowsOfType, ListedIsCounted
  <1>2. ASSUME listings[listed[m]] = 1 PROVE FALSE
    <2>1. lookup[m] = listed[m] /\ market[listed[m]] # None
      BY <1>2 DEF RegistryInv, FirstListingFound
    <2>2. interestIndex[listed[m]] # None
      BY <1>1, <2>1 DEF RegistryInv, RowsTogether
    <2> QED BY <1>1, <2>1, <2>2, NoneIsNothing
  <1> QED BY <1>1, <1>2

\* A handler that throws leaves everything as it was, and stops.
LEMMA ThrowKeeps ==
  ASSUME MarketsInv, Throw,
         \E t \in Tokens : listings[t] > 1 \/ (tokens[t] # None /\ market[t] = None)
  PROVE  MarketsInv' /\ \A t \in Tokens : CatchesUp(t)
  <1>1. UNCHANGED <<listed, numMarkets, listings, lookup, tokens, market, interestIndex,
                    oraclePrice, margin, rebased, overridden>> /\ halted'
    BY DEF Throw, chain, store
  <1>2. RegistryInv'
    BY <1>1 DEF MarketsInv, RegistryInv, RowsOfType, RowsTogether, LookupIsInjective,
                ListedIsCounted, FirstListingFound, HaltsOnlyAfterRemoval, Throw
  <1>3. OverridesSeen' /\ RatesFollowEarnings' /\ LiquidityIsPar'
    BY <1>1 DEF MarketsInv, OverridesSeen, RatesFollowEarnings, LiquidityIsPar
  <1>4. TotalsAreSums'
    BY <1>1 DEF MarketsInv, TotalsAreSums, TotalsAreSumsIn, Protocol, Total, Column
  <1>5. \A t \in Tokens : CatchesUp(t)
    BY <1>1 DEF CatchesUp, BookedNow
  <1> QED BY <1>2, <1>3, <1>4, <1>5 DEF MarketsInv

\* What neither lists a market nor deletes a row keeps the registry.
LEMMA RegistryKept ==
  ASSUME RegistryInv, RowsOfType', UNCHANGED <<listed, numMarkets, listings, lookup>>,
         ~ halted', margin'.numberOfMarkets = margin.numberOfMarkets,
         \A t \in Tokens : /\ tokens'[t] = None <=> tokens[t] = None
                           /\ market'[t] = None <=> market[t] = None
                           /\ interestIndex[t] # None => interestIndex'[t] # None
                           /\ oraclePrice[t] # None => oraclePrice'[t] # None
  PROVE  RegistryInv'
  <1>1. RowsTogether'
    BY DEF RegistryInv, RowsTogether
  <1>2. LookupIsInjective'
    BY DEF RegistryInv, LookupIsInjective, RowsOfType
  <1>3. ListedIsCounted' /\ HaltsOnlyAfterRemoval'
    BY DEF RegistryInv, ListedIsCounted, HaltsOnlyAfterRemoval
  <1>4. FirstListingFound'
    BY DEF RegistryInv, FirstListingFound, RowsOfType
  <1> QED BY <1>1, <1>2, <1>3, <1>4 DEF RegistryInv

\* An event that books the tokens of B keeps everything, as long as every one of
\* them is booked at its new par.
LEMMA BookingKeeps ==
  ASSUME MarketsInv, ~ halted, NEW B \in SUBSET Tokens,
         UNCHANGED <<chain, lookup, interestIndex, overridden, halted>>,
         oraclePrice' \in [Tokens -> Nat \union {None}],
         \A t \in Tokens : oraclePrice[t] # None => oraclePrice'[t] # None,
         tokens' \in TokenTable, margin' \in MarginRow, market' \in MarketTable,
         TotalsAreSums',
         margin'.numberOfMarkets = margin.numberOfMarkets,
         margin'.earningsRate = margin.earningsRate,
         \A t \in B :
           /\ market[t] # None /\ market'[t] # None /\ tokens'[t] # None
           /\ market'[t].override = market[t].override
           /\ market[t].override = None => market'[t].rate = margin.earningsRate
           /\ tokens'[t].borrow = market'[t].par.borrow * interestIndex[t]
           /\ tokens'[t].supply = market'[t].par.supply * interestIndex[t]
           /\ tokens'[t].borrow = tokens[t].borrow
                => tokens'[t].borrowUSD = tokens'[t].borrow * oraclePrice'[t],
         \A t \in Tokens \ B : tokens'[t] = tokens[t] /\ market'[t] = market[t],
         rebased' = rebased \ B
  PROVE  MarketsInv' /\ \A t \in Tokens : CatchesUp(t)
  <1>1. UNCHANGED <<listed, numMarkets, listings, lookup, interestIndex, overridden, halted>>
    BY DEF chain
  <1>2. RowsOfType'
    BY <1>1 DEF MarketsInv, RegistryInv, RowsOfType, TokenTable, MarketTable
  <1>3. \A t \in B : tokens[t] # None
    BY DEF MarketsInv, RegistryInv, RowsTogether
  <1>4. RegistryInv'
    BY <1>1, <1>2, <1>3, RegistryKept DEF MarketsInv
  <1>5. OverridesSeen'
    BY <1>1 DEF MarketsInv, OverridesSeen
  <1>6. RatesFollowEarnings'
    <2> SUFFICES ASSUME NEW m \in MarketIds, listed[m] # None, listings[listed[m]] = 1,
                        listed[m] \notin overridden
                 PROVE  market'[listed[m]].rate \in {0, margin'.earningsRate}
      BY <1>1 DEF RatesFollowEarnings
    <2>1. listed[m] \in Tokens
      BY DEF MarketsInv, RegistryInv, RowsOfType
    <2>2. market[listed[m]].rate \in {0, margin.earningsRate}
      BY DEF MarketsInv, RatesFollowEarnings
    <2>3. market[listed[m]] # None => market[listed[m]].override = None
      BY <2>1 DEF MarketsInv, OverridesSeen
    <2> QED BY <2>1, <2>2, <2>3
  <1>7. LiquidityIsPar'
    BY <1>1 DEF MarketsInv, LiquidityIsPar
  <1>8. \A t \in Tokens : CatchesUp(t)
    BY DEF CatchesUp, BookedNow
  <1> QED BY <1>4, <1>5, <1>6, <1>7, <1>8 DEF MarketsInv

-----------------------------------------------------------------------------
(* Events                                                                  *)

\* What the invariant says of the types of a market that resolves.
LEMMA ResolvedTypes ==
  ASSUME MarketsInv, NEW m \in MarketIds, Resolves(m)
  PROVE  /\ lookup[m] \in Tokens /\ market[lookup[m]] # None /\ tokens[lookup[m]] # None
         /\ interestIndex[lookup[m]] \in Int
         /\ oraclePrice[lookup[m]] \in Int
         /\ market[lookup[m]].par \in Pars
  <1>1. lookup[m] \in Tokens /\ market[lookup[m]] # None /\ interestIndex[lookup[m]] # None
    BY DEF Resolves, MarketsInv, RegistryInv, RowsOfType
  <1>2. oraclePrice[lookup[m]] # None /\ tokens[lookup[m]] # None
    BY <1>1 DEF MarketsInv, RegistryInv, RowsTogether
  <1>3. /\ market[lookup[m]] \in MarketRow
        /\ oraclePrice[lookup[m]] \in Nat /\ interestIndex[lookup[m]] \in Nat
    BY <1>1, <1>2 DEF MarketsInv, RegistryInv, RowsOfType
  <1>4. market[lookup[m]].par \in Pars
    BY <1>3 DEF MarketRow, Pars
  <1> QED BY <1>1, <1>2, <1>3, <1>4

\* The two stores that the bookings of an event go through.
LEMMA ProtocolTypes ==
  ASSUME MarketsInv
  PROVE  /\ tokens \in TokenTable /\ margin \in MarginRow /\ market \in MarketTable
         /\ Protocol.tokens = tokens /\ Protocol.margin = margin /\ TotalsAreSumsIn(Protocol)
         /\ oraclePrice \in [Tokens -> Nat \union {None}] /\ TotalPars \subseteq Pars
  <1>1. TotalPars \subseteq Pars
    BY MarketsAssumption DEF Pars
  <1> QED BY <1>1 DEF MarketsInv, RegistryInv, RowsOfType, TokenTable, MarketTable, Protocol,
                       TotalsAreSums

LEMMA TotalsAfter ==
  ASSUME NEW q, TotalsAreSumsIn(q), tokens' = q.tokens, margin' = q.margin
  PROVE  TotalsAreSums'
  <1>1. Protocol'.tokens = tokens' /\ Protocol'.margin = margin'
    BY DEF Protocol
  <1> QED BY <1>1 DEF TotalsAreSums, TotalsAreSumsIn, Total, Column

LEMMA OneMarketKeeps ==
  ASSUME MarketsInv, ~ halted, NEW m \in MarketIds, NEW n, OneMarketEvent(m, n)
  PROVE  MarketsInv' /\ \A t \in Tokens : CatchesUp(t)
  <1>1. CASE ~ Resolves(m)
    <2>1. Throw /\ listed[m] # None
      BY <1>1 DEF OneMarketEvent
    <2>2. \E t \in Tokens : listings[t] > 1
      BY <1>1, <2>1, UnresolvedIsRelisted DEF Resolves, MarketsInv
    <2> QED BY <2>1, <2>2, ThrowKeeps
  <1>2. CASE Resolves(m)
    <2> DEFINE t == lookup[m]
    <2>1. PICK par \in TotalPars :
            /\ tokens' = BookedTimes(Protocol, t, par, oraclePrice[t], n).tokens
            /\ margin' = BookedTimes(Protocol, t, par, oraclePrice[t], n).margin
            /\ market' = WithPar(market, t, par)
            /\ rebased' = rebased \ {t}
            /\ UNCHANGED <<chain, lookup, interestIndex, oraclePrice, overridden, halted>>
      BY <1>2 DEF OneMarketEvent
    <2> DEFINE q == BookedTimes(Protocol, t, par, oraclePrice[t], n)
    <2>2. /\ t \in Tokens /\ market[t] # None /\ tokens[t] # None
          /\ interestIndex[t] \in Int /\ oraclePrice[t] \in Int
      BY <1>2, ResolvedTypes
    <2> HIDE DEF t
    <2>3. par \in Pars
      BY <2>1, ProtocolTypes
    <2>4. /\ q.tokens \in TokenTable /\ q.margin \in MarginRow /\ TotalsAreSumsIn(q)
          /\ q.margin.numberOfMarkets = margin.numberOfMarkets
          /\ q.margin.earningsRate = margin.earningsRate
          /\ q.tokens[t] # None
          /\ q.tokens[t].borrow = par.borrow * interestIndex[t]
          /\ q.tokens[t].supply = par.supply * interestIndex[t]
          /\ q.tokens[t].borrow = tokens[t].borrow
               => q.tokens[t].borrowUSD = q.tokens[t].borrow * oraclePrice[t]
          /\ \A s \in Tokens \ {t} : q.tokens[s] = tokens[s]
      BY <2>2, <2>3, ProtocolTypes, BookedTimesFacts
    <2>5. /\ market' \in MarketTable /\ market'[t] # None
          /\ market'[t].par = par /\ market'[t].override = market[t].override
          /\ market[t].override = None => market'[t].rate = margin.earningsRate
          /\ \A s \in Tokens \ {t} : market'[s] = market[s]
      BY <2>1, <2>2, <2>3, ProtocolTypes, WithParFacts
    <2>6. tokens' = q.tokens /\ margin' = q.margin
      BY <2>1
    <2> HIDE DEF q
    <2>7. TotalsAreSums'
      BY <2>4, <2>6, TotalsAfter
    <2>8. oraclePrice' = oraclePrice /\ oraclePrice \in [Tokens -> Nat \union {None}]
      BY <2>1, ProtocolTypes
    <2> DEFINE B == {t}
    <2>9. /\ \A u \in B :
               /\ market[u] # None /\ market'[u] # None /\ tokens'[u] # None
               /\ market'[u].override = market[u].override
               /\ market[u].override = None => market'[u].rate = margin.earningsRate
               /\ tokens'[u].borrow = market'[u].par.borrow * interestIndex[u]
               /\ tokens'[u].supply = market'[u].par.supply * interestIndex[u]
               /\ tokens'[u].borrow = tokens[u].borrow
                    => tokens'[u].borrowUSD = tokens'[u].borrow * oraclePrice'[u]
          /\ \A u \in Tokens \ B : tokens'[u] = tokens[u] /\ market'[u] = market[u]
      BY <2>2, <2>4, <2>5, <2>6, <2>8
    <2>10. B \in SUBSET Tokens /\ rebased' = rebased \ B
      BY <2>1, <2>2
    <2> HIDE DEF B
    <2> QED BY <2>1, <2>4, <2>5, <2>6, <2>7, <2>8, <2>9, <2>10, BookingKeeps
  <1> QED BY <1>1, <1>2

LEMMA OraclePriceKeeps ==
  ASSUME MarketsInv, ~ halted, NEW m \in MarketIds, NEW price \in Prices,
         LogOraclePrice(m, price)
  PROVE  MarketsInv' /\ \A t \in Tokens : CatchesUp(t)
  <1>1. CASE ~ Resolves(m)
    <2>1. Throw /\ listed[m] # None
      BY <1>1 DEF LogOraclePrice
    <2>2. \E t \in Tokens : listings[t] > 1
      BY <1>1, <2>1, UnresolvedIsRelisted DEF Resolves, MarketsInv
    <2> QED BY <2>1, <2>2, ThrowKeeps
  <1>2. CASE Resolves(m)
    <2> DEFINE t == lookup[m]
               par == market[t].par
               q == BookedTimes(Protocol, t, par, price, 1)
    <2>1. /\ tokens' = q.tokens /\ margin' = q.margin
          /\ market' = WithPar(market, t, par)
          /\ oraclePrice' = [oraclePrice EXCEPT ![t] = price]
          /\ rebased' = rebased \ {t}
          /\ UNCHANGED <<chain, lookup, interestIndex, overridden, halted>>
      BY <1>2 DEF LogOraclePrice
    <2>2. /\ t \in Tokens /\ market[t] # None /\ tokens[t] # None
          /\ interestIndex[t] \in Int /\ par \in Pars
      BY <1>2, ResolvedTypes
    <2>3. price \in Nat
      BY MarketsAssumption
    <2> HIDE DEF t, par
    <2>4. /\ q.tokens \in TokenTable /\ q.margin \in MarginRow /\ TotalsAreSumsIn(q)
          /\ q.margin.numberOfMarkets = margin.numberOfMarkets
          /\ q.margin.earningsRate = margin.earningsRate
          /\ q.tokens[t] # None
          /\ q.tokens[t].borrow = par.borrow * interestIndex[t]
          /\ q.tokens[t].supply = par.supply * interestIndex[t]
          /\ q.tokens[t].borrow = tokens[t].borrow
               => q.tokens[t].borrowUSD = q.tokens[t].borrow * price
          /\ \A s \in Tokens \ {t} : q.tokens[s] = tokens[s]
      BY <2>2, <2>3, ProtocolTypes, BookedTimesFacts
    <2>5. /\ market' \in MarketTable /\ market'[t] # None
          /\ market'[t].par = par /\ market'[t].override = market[t].override
          /\ market[t].override = None => market'[t].rate = margin.earningsRate
          /\ \A s \in Tokens \ {t} : market'[s] = market[s]
      BY <2>1, <2>2, ProtocolTypes, WithParFacts
    <2> HIDE DEF q
    <2>6. TotalsAreSums'
      BY <2>1, <2>4, TotalsAfter
    <2>7. /\ oraclePrice' \in [Tokens -> Nat \union {None}] /\ oraclePrice'[t] = price
          /\ \A s \in Tokens : oraclePrice[s] # None => oraclePrice'[s] # None
      BY <2>1, <2>2, <2>3, ProtocolTypes, NoneIsNothing
    <2> DEFINE B == {t}
    <2>8. /\ \A u \in B :
               /\ market[u] # None /\ market'[u] # None /\ tokens'[u] # None
               /\ market'[u].override = market[u].override
               /\ market[u].override = None => market'[u].rate = margin.earningsRate
               /\ tokens'[u].borrow = market'[u].par.borrow * interestIndex[u]
               /\ tokens'[u].supply = market'[u].par.supply * interestIndex[u]
               /\ tokens'[u].borrow = tokens[u].borrow
                    => tokens'[u].borrowUSD = tokens'[u].borrow * oraclePrice'[u]
          /\ \A u \in Tokens \ B : tokens'[u] = tokens[u] /\ market'[u] = market[u]
      BY <2>1, <2>2, <2>4, <2>5, <2>7
    <2>9. B \in SUBSET Tokens /\ rebased' = rebased \ B
      BY <2>1, <2>2
    <2> HIDE DEF B
    <2> QED BY <2>1, <2>4, <2>5, <2>6, <2>7, <2>8, <2>9, BookingKeeps
  <1> QED BY <1>1, <1>2

\* The two markets of an event are of two tokens, since no token is looked up
\* under two ids.
LEMMA TwoMarketKeeps ==
  ASSUME MarketsInv, ~ halted, NEW one \in MarketIds, NEW two \in MarketIds, NEW n, NEW k,
         TwoMarketEvent(one, two, n, k)
  PROVE  MarketsInv' /\ \A t \in Tokens : CatchesUp(t)
  <1>1. one # two /\ listed[one] # None /\ listed[two] # None
    BY DEF TwoMarketEvent
  <1>2. CASE ~ (Resolves(one) /\ Resolves(two))
    <2>1. Throw
      BY <1>2 DEF TwoMarketEvent
    <2>2. \E t \in Tokens : listings[t] > 1
      BY <1>1, <1>2, UnresolvedIsRelisted DEF Resolves, MarketsInv
    <2> QED BY <2>1, <2>2, ThrowKeeps
  <1>3. CASE Resolves(one) /\ Resolves(two)
    <2> DEFINE s == lookup[one]
               t == lookup[two]
    <2>1. PICK parOne \in TotalPars, parTwo \in TotalPars :
            /\ tokens' = BookedTimes(BookedTimes(Protocol, s, parOne, oraclePrice[s], n),
                                     t, parTwo, oraclePrice[t], k).tokens
            /\ margin' = BookedTimes(BookedTimes(Protocol, s, parOne, oraclePrice[s], n),
                                     t, parTwo, oraclePrice[t], k).margin
            /\ market' = WithPar(WithPar(market, s, parOne), t, parTwo)
            /\ rebased' = rebased \ {s, t}
            /\ UNCHANGED <<chain, lookup, interestIndex, oraclePrice, overridden, halted>>
      BY <1>3 DEF TwoMarketEvent
    <2> DEFINE p == BookedTimes(Protocol, s, parOne, oraclePrice[s], n)
               q == BookedTimes(p, t, parTwo, oraclePrice[t], k)
               rows == WithPar(market, s, parOne)
    <2>2. /\ s \in Tokens /\ market[s] # None /\ tokens[s] # None
          /\ interestIndex[s] \in Int /\ oraclePrice[s] \in Int
          /\ t \in Tokens /\ market[t] # None /\ tokens[t] # None
          /\ interestIndex[t] \in Int /\ oraclePrice[t] \in Int
      BY <1>3, ResolvedTypes
    <2>3. s # t
      BY <1>1, <1>3 DEF MarketsInv, RegistryInv, LookupIsInjective, Resolves
    <2> HIDE DEF s, t
    <2>4. parOne \in Pars /\ parTwo \in Pars
      BY <2>1, ProtocolTypes
    <2>5. /\ p.tokens \in TokenTable /\ p.margin \in MarginRow /\ TotalsAreSumsIn(p)
          /\ p.margin.numberOfMarkets = margin.numberOfMarkets
          /\ p.margin.earningsRate = margin.earningsRate
          /\ p.tokens[s] # None
          /\ p.tokens[s].borrow = parOne.borrow * interestIndex[s]
          /\ p.tokens[s].supply = parOne.supply * interestIndex[s]
          /\ p.tokens[s].borrow = tokens[s].borrow
               => p.tokens[s].borrowUSD = p.tokens[s].borrow * oraclePrice[s]
          /\ \A u \in Tokens \ {s} : p.tokens[u] = tokens[u]
      BY <2>2, <2>4, ProtocolTypes, BookedTimesFacts
    <2>6. tokens' = q.tokens /\ margin' = q.margin
      BY <2>1
    <2> HIDE DEF p
    <2>7. /\ q.tokens \in TokenTable /\ q.margin \in MarginRow /\ TotalsAreSumsIn(q)
          /\ q.margin.numberOfMarkets = p.margin.numberOfMarkets
          /\ q.margin.earningsRate = p.margin.earningsRate
          /\ q.tokens[t] # None
          /\ q.tokens[t].borrow = parTwo.borrow * interestIndex[t]
          /\ q.tokens[t].supply = parTwo.supply * interestIndex[t]
          /\ q.tokens[t].borrow = p.tokens[t].borrow
               => q.tokens[t].borrowUSD = q.tokens[t].borrow * oraclePrice[t]
          /\ \A u \in Tokens \ {t} : q.tokens[u] = p.tokens[u]
      BY <2>2, <2>3, <2>4, <2>5, BookedTimesFacts
    <2> HIDE DEF q
    <2>8. /\ rows \in MarketTable /\ rows[s] # None
          /\ rows[s].par = parOne /\ rows[s].override = market[s].override
          /\ market[s].override = None => rows[s].rate = margin.earningsRate
          /\ \A u \in Tokens \ {s} : rows[u] = market[u]
      BY <2>2, <2>4, ProtocolTypes, WithParFacts
    <2>9. market' = WithPar(rows, t, parTwo)
      BY <2>1
    <2> HIDE DEF rows
    <2>10. /\ market' \in MarketTable /\ market'[t] # None
           /\ market'[t].par = parTwo /\ market'[t].override = rows[t].override
           /\ rows[t].override = None => market'[t].rate = margin.earningsRate
           /\ \A u \in Tokens \ {t} : market'[u] = rows[u]
      BY <2>2, <2>3, <2>4, <2>8, <2>9, ProtocolTypes, WithParFacts
    <2>11. TotalsAreSums'
      BY <2>6, <2>7, TotalsAfter
    <2>12. oraclePrice' = oraclePrice /\ oraclePrice \in [Tokens -> Nat \union {None}]
      BY <2>1, ProtocolTypes
    <2> DEFINE B == {s, t}
    <2>13. /\ \A u \in B :
                /\ market[u] # None /\ market'[u] # None /\ tokens'[u] # None
                /\ market'[u].override = market[u].override
                /\ market[u].override = None => market'[u].rate = margin.earningsRate
                /\ tokens'[u].borrow = market'[u].par.borrow * interestIndex[u]
                /\ tokens'[u].supply = market'[u].par.supply * interestIndex[u]
                /\ tokens'[u].borrow = tokens[u].borrow
                     => tokens'[u].borrowUSD = tokens'[u].borrow * oraclePrice'[u]
           /\ \A u \in Tokens \ B : tokens'[u] = tokens[u] /\ market'[u] = market[u]
      BY <2>2, <2>3, <2>5, <2>6, <2>7, <2>8, <2>10, <2>12
    <2>14. B \in SUBSET Tokens /\ rebased' = rebased \ B
      BY <2>1, <2>2
    <2> HIDE DEF B
    <2> QED BY <2>1, <2>5, <2>6, <2>7, <2>10, <2>11, <2>12, <2>13, <2>14, BookingKeeps
  <1> QED BY <1>2, <1>3

\* A token whose index is set is one whose liquidity is due.
LEMMA IndexUpdateKeeps ==
  ASSUME MarketsInv, ~ halted, NEW m \in MarketIds, NEW index \in Indexes,
         LogIndexUpdate(m, index)
  PROVE  MarketsInv' /\ \A t \in Tokens : CatchesUp(t)
  <1>1. listed[m] # None
    BY DEF LogIndexUpdate
  <1>2. CASE lookup[m] = None
    <2>1. Throw
      BY <1>2 DEF LogIndexUpdate
    <2>2. \E t \in Tokens : listings[t] > 1
      BY <1>1, <1>2, UnresolvedIsRelisted DEF MarketsInv
    <2> QED BY <2>1, <2>2, ThrowKeeps
  <1>3. CASE lookup[m] # None
    <2> DEFINE t == lookup[m]
    <2>1. /\ interestIndex' = [interestIndex EXCEPT ![t] = index]
          /\ rebased' = rebased \union {t}
          /\ UNCHANGED <<listed, numMarkets, listings, lookup, tokens, market, oraclePrice,
                         margin, overridden, halted>>
      BY <1>3 DEF LogIndexUpdate, chain
    <2>2. t \in Tokens /\ index \in Nat
      BY <1>3, MarketsAssumption DEF MarketsInv, RegistryInv, RowsOfType
    <2> HIDE DEF t
    <2>3. RowsOfType'
      BY <2>1, <2>2 DEF MarketsInv, RegistryInv, RowsOfType
    <2>4. \A s \in Tokens : interestIndex[s] # None => interestIndex'[s] # None
      BY <2>1, <2>2, NoneIsNothing DEF MarketsInv, RegistryInv, RowsOfType
    <2>5. RegistryInv'
      BY <2>1, <2>3, <2>4, RegistryKept DEF MarketsInv
    <2>6. OverridesSeen' /\ RatesFollowEarnings'
      BY <2>1 DEF MarketsInv, OverridesSeen, RatesFollowEarnings
    <2>7. LiquidityIsPar'
      <3>1. \A s \in Tokens \ {t} : interestIndex'[s] = interestIndex[s]
        BY <2>1 DEF MarketsInv, RegistryInv, RowsOfType
      <3> QED BY <2>1, <3>1 DEF MarketsInv, LiquidityIsPar
    <2>8. TotalsAreSums'
      BY <2>1 DEF MarketsInv, TotalsAreSums, TotalsAreSumsIn, Protocol, Total, Column
    <2>9. \A s \in Tokens : CatchesUp(s)
      BY <2>1 DEF CatchesUp, BookedNow
    <2> QED BY <2>5, <2>6, <2>7, <2>8, <2>9 DEF MarketsInv
  <1> QED BY <1>2, <1>3

\* A new interest setter has the rate calculated again, which moves no par.
LEMMA InterestSetterKeeps ==
  ASSUME MarketsInv, ~ halted, NEW m \in MarketIds, LogSetInterestSetter(m)
  PROVE  MarketsInv' /\ \A t \in Tokens : CatchesUp(t)
  <1>1. CASE ~ Resolves(m)
    <2>1. Throw /\ listed[m] # None
      BY <1>1 DEF LogSetInterestSetter
    <2>2. \E t \in Tokens : listings[t] > 1
      BY <1>1, <2>1, UnresolvedIsRelisted DEF Resolves, MarketsInv
    <2> QED BY <2>1, <2>2, ThrowKeeps
  <1>2. CASE Resolves(m)
    <2> DEFINE t == lookup[m]
               par == market[t].par
    <2>1. /\ market' = WithPar(market, t, par)
          /\ UNCHANGED <<listed, numMarkets, listings, lookup, tokens, interestIndex,
                         oraclePrice, margin, rebased, overridden, halted>>
      BY <1>2 DEF LogSetInterestSetter, chain
    <2>2. t \in Tokens /\ market[t] # None /\ par \in Pars
      BY <1>2, ResolvedTypes
    <2> HIDE DEF t
    <2>3. /\ market' \in MarketTable /\ market'[t] # None
          /\ market'[t].par = market[t].par /\ market'[t].override = market[t].override
          /\ market[t].override = None => market'[t].rate = margin.earningsRate
          /\ \A s \in Tokens \ {t} : market'[s] = market[s]
      BY <2>1, <2>2, ProtocolTypes, WithParFacts
    <2> HIDE DEF par
    <2>4. RowsOfType'
      BY <2>1, <2>3 DEF MarketsInv, RegistryInv, RowsOfType, MarketTable
    <2>5. RegistryInv'
      BY <2>1, <2>2, <2>3, <2>4, RegistryKept DEF MarketsInv
    <2>6. OverridesSeen'
      BY <2>1, <2>2, <2>3 DEF MarketsInv, OverridesSeen
    <2>7. RatesFollowEarnings'
      <3> SUFFICES ASSUME NEW k \in MarketIds, listed[k] # None, listings[listed[k]] = 1,
                          listed[k] \notin overridden
                   PROVE  market'[listed[k]].rate \in {0, margin.earningsRate}
        BY <2>1 DEF RatesFollowEarnings
      <3>1. listed[k] \in Tokens
        BY DEF MarketsInv, RegistryInv, RowsOfType
      <3>2. market[listed[k]].rate \in {0, margin.earningsRate}
        BY DEF MarketsInv, RatesFollowEarnings
      <3>3. market[listed[k]] # None => market[listed[k]].override = None
        BY <3>1 DEF MarketsInv, OverridesSeen
      <3> QED BY <2>2, <2>3, <3>1, <3>2, <3>3
    <2>8. LiquidityIsPar'
      BY <2>1, <2>2, <2>3 DEF MarketsInv, LiquidityIsPar
    <2>9. TotalsAreSums'
      BY <2>1 DEF MarketsInv, TotalsAreSums, TotalsAreSumsIn, Protocol, Total, Column
    <2>10. \A s \in Tokens : CatchesUp(s)
      BY <2>1 DEF CatchesUp, BookedNow
    <2> QED BY <2>5, <2>6, <2>7, <2>8, <2>9, <2>10 DEF MarketsInv
  <1> QED BY <1>1, <1>2

LEMMA RiskInfoKeeps ==
  ASSUME MarketsInv, ~ halted, NEW m \in MarketIds, NEW override \in Overrides,
         SetRiskInfo(m, override)
  PROVE  MarketsInv' /\ \A t \in Tokens : CatchesUp(t)
  <1>1. listed[m] # None
    BY DEF SetRiskInfo
  <1>2. CASE lookup[m] = None \/ market[lookup[m]] = None
    <2>1. Throw
      BY <1>2 DEF SetRiskInfo
    <2>2. \E t \in Tokens : listings[t] > 1
      BY <1>1, <1>2, UnresolvedIsRelisted DEF MarketsInv
    <2> QED BY <2>1, <2>2, ThrowKeeps
  <1>3. CASE lookup[m] # None /\ market[lookup[m]] # None
    <2> DEFINE t == lookup[m]
               row == [market[t] EXCEPT !.override = override]
    <2>1. override \in Int \union {None}
      BY MarketsAssumption
    <2>2. /\ market' = [market EXCEPT ![t] = row]
          /\ overridden' = IF override = None THEN overridden ELSE overridden \union {t}
          /\ UNCHANGED <<listed, numMarkets, listings, lookup, tokens, interestIndex,
                         oraclePrice, margin, rebased, halted>>
      BY <1>3 DEF SetRiskInfo, chain
    <2>3. t \in Tokens /\ market[t] \in MarketRow
      BY <1>3 DEF MarketsInv, RegistryInv, RowsOfType
    <2>4. /\ row \in MarketRow /\ row.par = market[t].par /\ row.rate = market[t].rate
          /\ row.override = override
      BY <2>1, <2>3 DEF MarketRow
    <2> HIDE DEF t, row
    <2>5. /\ market' \in MarketTable /\ market'[t] = row /\ row # None
          /\ \A s \in Tokens \ {t} : market'[s] = market[s]
      BY <2>2, <2>3, <2>4, NoneIsNothing DEF MarketsInv, RegistryInv, RowsOfType, MarketTable
    <2>6. RowsOfType'
      BY <2>2, <2>3, <2>5 DEF MarketsInv, RegistryInv, RowsOfType, MarketTable
    <2>7. market[t] # None
      BY <2>3, NoneIsNothing
    <2>8. RegistryInv'
      BY <2>2, <2>5, <2>6, <2>7, RegistryKept DEF MarketsInv
    <2>9. OverridesSeen'
      BY <2>2, <2>4, <2>5 DEF MarketsInv, OverridesSeen
    <2>10. RatesFollowEarnings'
      BY <2>2, <2>4, <2>5 DEF MarketsInv, RegistryInv, RowsOfType, RatesFollowEarnings
    <2>11. LiquidityIsPar'
      BY <2>2, <2>4, <2>5, <2>7 DEF MarketsInv, LiquidityIsPar
    <2>12. TotalsAreSums'
      BY <2>2 DEF MarketsInv, TotalsAreSums, TotalsAreSumsIn, Protocol, Total, Column
    <2>13. \A s \in Tokens : CatchesUp(s)
      BY <2>2 DEF CatchesUp, BookedNow
    <2> QED BY <2>8, <2>9, <2>10, <2>11, <2>12, <2>13 DEF MarketsInv
  <1> QED BY <1>2, <1>3

\* Divided by the rate it contains and multiplied by the new one.
LEMMA RescaledFacts ==
  ASSUME margin.earningsRate \in Nat, NEW new \in Nat, NEW rate \in Int
  PROVE  /\ Rescaled(rate, new) \in Int
         /\ rate \in {0, margin.earningsRate} => Rescaled(rate, new) \in {0, new}
  <1> DEFINE old == margin.earningsRate
             d == IF old > 0 THEN old ELSE 1
  <1>1. d \in Nat /\ d > 0 /\ Rescaled(rate, new) = (rate * new) \div d
    BY DEF Rescaled
  <1>2. \A x \in Int : x \div d \in Int
    BY <1>1
  <1>3. rate * new \in Int
    OBVIOUS
  <1>4. Rescaled(rate, new) \in Int
    BY <1>1, <1>2, <1>3
  <1>5. rate = 0 => Rescaled(rate, new) = 0
    <2>1. 0 * new = 0 /\ 0 \div d = 0
      BY <1>1
    <2> QED BY <1>1, <2>1
  <1>6. rate = old /\ old > 0 => Rescaled(rate, new) = new
    <2>1. ASSUME old > 0 PROVE (old * new) \div old = new
      BY <2>1, Z3
    <2> QED BY <1>1, <2>1
  <1> QED BY <1>4, <1>5, <1>6

\* The loop of LogSetEarningsRate comes to the token of every first listing,
\* because DolomiteMargin counts at least the ids given out.
LEMMA EarningsRateKeeps ==
  ASSUME MarketsInv, ~ halted, NEW new \in EarningsRates, LogSetEarningsRate(new)
  PROVE  MarketsInv' /\ \A t \in Tokens : CatchesUp(t)
  <1>1. Reached \in SUBSET Tokens /\ \A t \in Reached : tokens[t] # None
    BY DEF Reached, MarketsInv, RegistryInv, RowsOfType, LookupIsInjective
  <1>2. CASE \E t \in Reached : market[t] = None
    <2>1. Throw
      BY <1>2 DEF LogSetEarningsRate
    <2>2. \E t \in Tokens : tokens[t] # None /\ market[t] = None
      BY <1>1, <1>2
    <2> QED BY <2>1, <2>2, ThrowKeeps
  <1>3. CASE \A t \in Reached : market[t] # None
    <2>1. /\ margin' = [margin EXCEPT !.earningsRate = new]
          /\ market' = [t \in Tokens |->
                          IF t \in Reached
                          THEN [market[t] EXCEPT !.rate = Rescaled(@, new)] ELSE market[t]]
          /\ UNCHANGED <<listed, numMarkets, listings, lookup, tokens, interestIndex,
                         oraclePrice, rebased, overridden, halted>>
      BY <1>3 DEF LogSetEarningsRate, chain
    <2>2. new \in Nat /\ margin \in MarginRow /\ margin.earningsRate \in Nat
      BY MarketsAssumption DEF MarketsInv, RegistryInv, RowsOfType, MarginRow
    <2>3. /\ margin' \in MarginRow /\ margin'.earningsRate = new
          /\ margin'.numberOfMarkets = margin.numberOfMarkets
          /\ margin'.borrowUSD = margin.borrowUSD /\ margin'.supplyUSD = margin.supplyUSD
      BY <2>1, <2>2 DEF MarginRow
    <2>4. ASSUME NEW t \in Reached
          PROVE  /\ market'[t] \in MarketRow /\ market'[t].par = market[t].par
                 /\ market'[t].override = market[t].override
                 /\ market'[t].rate = Rescaled(market[t].rate, new)
      <3> DEFINE row == [market[t] EXCEPT !.rate = Rescaled(@, new)]
      <3>1. market[t] \in MarketRow
        BY <1>1, <1>3 DEF MarketsInv, RegistryInv, RowsOfType
      <3>2. Rescaled(market[t].rate, new) \in Int
        BY <2>2, <3>1, RescaledFacts DEF MarketRow
      <3>3. /\ row \in MarketRow /\ row.par = market[t].par
            /\ row.override = market[t].override
            /\ row.rate = Rescaled(market[t].rate, new)
        BY <3>1, <3>2 DEF MarketRow
      <3>4. market'[t] = row
        BY <1>1, <2>1
      <3> QED BY <3>3, <3>4
    <2>5. \A t \in Tokens \ Reached : market'[t] = market[t]
      BY <2>1
    <2>6. market' \in MarketTable
      <3>1. \A t \in Tokens : market'[t] \in MarketRow \union {None}
        BY <2>4, <2>5 DEF MarketsInv, RegistryInv, RowsOfType
      <3>2. market' = [t \in Tokens |-> market'[t]]
        BY <2>1
      <3> QED BY <3>1, <3>2 DEF MarketTable
    <2>7. \A t \in Tokens : market'[t] = None <=> market[t] = None
      BY <1>3, <2>4, <2>5, NoneIsNothing
    <2>8. RowsOfType'
      BY <2>1, <2>3, <2>6 DEF MarketsInv, RegistryInv, RowsOfType, MarketTable
    <2>9. RegistryInv'
      BY <2>1, <2>3, <2>7, <2>8, RegistryKept DEF MarketsInv
    <2>10. OverridesSeen'
      BY <2>1, <2>4, <2>5, <2>7 DEF MarketsInv, OverridesSeen
    <2>11. RatesFollowEarnings'
      <3> SUFFICES ASSUME NEW m \in MarketIds, listed[m] # None, listings[listed[m]] = 1,
                          listed[m] \notin overridden
                   PROVE  market'[listed[m]].rate \in {0, margin'.earningsRate}
        BY <2>1 DEF RatesFollowEarnings
      <3>1. lookup[m] = listed[m] /\ market[listed[m]] # None /\ listed[m] \in Tokens
        BY DEF MarketsInv, RegistryInv, FirstListingFound, RowsOfType
      <3>2. m < margin.numberOfMarkets
        <4>1. m \in Nat /\ numMarkets \in Nat /\ margin.numberOfMarkets \in Nat
          BY <2>2, MarketsAssumption DEF MarketsInv, RegistryInv, RowsOfType, MarginRow
        <4> QED BY <4>1 DEF MarketsInv, RegistryInv, ListedIsCounted
      <3>3. listed[m] \in Reached
        BY <3>1, <3>2 DEF Reached
      <3>4. market[listed[m]].rate \in {0, margin.earningsRate}
        BY DEF MarketsInv, RatesFollowEarnings
      <3>5. market[listed[m]].rate \in Int
        BY <2>2, <3>4
      <3>6. Rescaled(market[listed[m]].rate, new) \in {0, new}
        BY <2>2, <3>4, <3>5, RescaledFacts
      <3> QED BY <2>3, <2>4, <3>3, <3>6
    <2>12. LiquidityIsPar'
      <3>1. \A t \in Tokens : market[t] # None => market'[t].par = market[t].par
        BY <2>4, <2>5
      <3> QED BY <2>1, <2>7, <3>1 DEF MarketsInv, LiquidityIsPar
    <2>13. TotalsAreSums'
      BY <2>1, <2>3 DEF MarketsInv, TotalsAreSums, TotalsAreSumsIn, Protocol, Total, Column
    <2>14. \A t \in Tokens : CatchesUp(t)
      BY <2>1 DEF CatchesUp, BookedNow
    <2> QED BY <2>9, <2>10, <2>11, <2>12, <2>13, <2>14 DEF MarketsInv
  <1> QED BY <1>2, <1>3

\* A market is added under a new id or that of a removed one.  The token of a first
\* listing has no row yet, so it takes over the lookup of its id.
LEMMA AddMarketKeeps ==
  ASSUME MarketsInv, ~ halted, NEW m \in MarketIds, NEW t \in Tokens, LogAddMarket(m, t)
  PROVE  MarketsInv' /\ \A s \in Tokens : CatchesUp(s)
  <1> DEFINE fresh == [par |-> [supply |-> 0, borrow |-> 0], rate |-> 0, override |-> None]
  <1>1. PICK price \in Prices, n \in MarketsAtHead(numMarkets') :
          /\ oraclePrice' = [oraclePrice EXCEPT ![t] = price]
          /\ margin' = [margin EXCEPT !.numberOfMarkets = n]
    BY DEF LogAddMarket
  <1>2. /\ listed[m] = None /\ m <= numMarkets /\ \A k \in MarketIds : listed[k] # t
        /\ listed' = [listed EXCEPT ![m] = t]
        /\ numMarkets' = IF m = numMarkets THEN m + 1 ELSE numMarkets
        /\ listings' = [listings EXCEPT ![t] = @ + 1]
        /\ market' = [market EXCEPT ![t] = fresh]
        /\ interestIndex' = [interestIndex EXCEPT ![t] = 1]
        /\ rebased' = rebased \union {t} /\ overridden' = overridden \ {t}
        /\ halted' = halted
    BY DEF LogAddMarket
  <1>3. /\ tokens[t] = None => /\ tokens' = [tokens EXCEPT ![t] = NoLiquidity]
                               /\ lookup' = [lookup EXCEPT ![m] = t]
        /\ tokens[t] # None => tokens' = tokens /\ lookup' = lookup
    BY DEF LogAddMarket, InitializeToken
  <1>4. /\ m \in Nat /\ numMarkets \in Nat /\ price \in Nat /\ listings[t] \in Nat
        /\ n \in Nat /\ n >= numMarkets' /\ margin \in MarginRow
    <2>1. m \in Nat /\ price \in Nat /\ \A i \in MarketIds : i + 1 \in Nat
      BY MarketsAssumption
    <2>2. n \in Nat /\ n >= numMarkets'
      BY <2>1 DEF MarketsAtHead
    <2>3. numMarkets \in Nat /\ listings[t] \in Nat /\ margin \in MarginRow
      BY DEF MarketsInv, RegistryInv, RowsOfType
    <2> QED BY <2>1, <2>2, <2>3
  <1>5. numMarkets' \in Nat /\ numMarkets' >= numMarkets /\ m < numMarkets'
    BY <1>2, <1>4
  <1>6. /\ margin' \in MarginRow /\ margin'.numberOfMarkets = n
        /\ margin'.earningsRate = margin.earningsRate
        /\ margin'.borrowUSD = margin.borrowUSD /\ margin'.supplyUSD = margin.supplyUSD
    BY <1>1, <1>4 DEF MarginRow
  <1>7. NoLiquidity \in TokenRow /\ NoLiquidity # None
    BY NoneIsNothing DEF NoLiquidity, TokenRow
  <1>8. fresh \in MarketRow /\ fresh # None
    BY NoneIsNothing DEF MarketRow
  <1>9. fresh.rate = 0 /\ fresh.override = None
    OBVIOUS
  <1> HIDE DEF fresh
  <1>10. /\ listed' \in [MarketIds -> Tokens \union {None}] /\ listed'[m] = t
         /\ \A k \in MarketIds \ {m} : listed'[k] = listed[k]
    BY <1>2 DEF MarketsInv, RegistryInv, RowsOfType
  <1>11. /\ listings' \in [Tokens -> Nat] /\ listings'[t] = listings[t] + 1
         /\ \A s \in Tokens \ {t} : listings'[s] = listings[s]
    BY <1>2, <1>4 DEF MarketsInv, RegistryInv, RowsOfType
  <1>12. /\ lookup' \in [MarketIds -> Tokens \union {None}]
         /\ tokens[t] = None => lookup'[m] = t
         /\ tokens[t] # None => lookup'[m] = lookup[m]
         /\ \A k \in MarketIds \ {m} : lookup'[k] = lookup[k]
    BY <1>3 DEF MarketsInv, RegistryInv, RowsOfType
  <1>13. /\ tokens \in TokenTable /\ tokens' \in TokenTable /\ tokens'[t] # None
         /\ tokens[t] = None => tokens'[t] = NoLiquidity
         /\ tokens[t] # None => tokens'[t] = tokens[t]
         /\ \A s \in Tokens \ {t} : tokens'[s] = tokens[s]
    BY <1>3, <1>7 DEF MarketsInv, RegistryInv, RowsOfType, TokenTable
  <1>14. /\ market' \in [Tokens -> MarketRow \union {None}] /\ market'[t] = fresh
         /\ \A s \in Tokens \ {t} : market'[s] = market[s]
    BY <1>2, <1>8 DEF MarketsInv, RegistryInv, RowsOfType
  <1>15. /\ interestIndex' \in [Tokens -> Nat \union {None}] /\ interestIndex'[t] = 1
         /\ \A s \in Tokens \ {t} : interestIndex'[s] = interestIndex[s]
    BY <1>2 DEF MarketsInv, RegistryInv, RowsOfType
  <1>16. /\ oraclePrice' \in [Tokens -> Nat \union {None}] /\ oraclePrice'[t] = price
         /\ \A s \in Tokens \ {t} : oraclePrice'[s] = oraclePrice[s]
    BY <1>1, <1>4 DEF MarketsInv, RegistryInv, RowsOfType
  <1>17. RowsOfType'
    BY <1>2, <1>5, <1>6, <1>10, <1>11, <1>12, <1>13, <1>14, <1>15, <1>16
    DEF MarketsInv, RegistryInv, RowsOfType, TokenTable
  <1>18. RowsTogether'
    <2>1. interestIndex'[t] # None /\ oraclePrice'[t] # None
      BY <1>4, <1>15, <1>16, NoneIsNothing
    <2>2. listings'[t] # 0
      BY <1>4, <1>11
    <2> QED BY <1>11, <1>13, <1>14, <1>15, <1>16, <2>1, <2>2
        DEF MarketsInv, RegistryInv, RowsTogether
  <1>19. LookupIsInjective'
    <2>1. LookupIsInjective /\ lookup \in [MarketIds -> Tokens \union {None}]
      BY DEF MarketsInv, RegistryInv, RowsOfType
    <2>2. CASE tokens[t] # None
      BY <1>3, <2>1, <2>2 DEF LookupIsInjective
    <2>3. CASE tokens[t] = None
      <3>1. \A k \in MarketIds : lookup[k] # t
        BY <2>1, <2>3, NoneIsNothing DEF LookupIsInjective
      <3>2. lookup'[m] = t
        BY <1>12, <2>3
      <3> QED BY <1>12, <1>13, <2>1, <3>1, <3>2 DEF LookupIsInjective
    <2> QED BY <2>2, <2>3
  <1>20. ListedIsCounted'
    <2>1. ASSUME NEW k \in MarketIds, listed'[k] # None
          PROVE  k < numMarkets' /\ listings'[listed'[k]] > 0
      <3>1. CASE k = m
        BY <1>4, <1>5, <1>10, <1>11, <3>1
      <3>2. CASE k # m
        <4>1. listed'[k] = listed[k] /\ listed[k] # None /\ listed[k] # t /\ listed[k] \in Tokens
          BY <1>2, <1>10, <2>1, <3>2
        <4>2. k < numMarkets /\ listings[listed[k]] > 0
          BY <4>1 DEF MarketsInv, RegistryInv, ListedIsCounted
        <4>3. k \in Nat
          BY MarketsAssumption
        <4> QED BY <1>4, <1>5, <1>11, <4>1, <4>2, <4>3
      <3> QED BY <3>1, <3>2
    <2> QED BY <1>4, <1>6, <2>1 DEF ListedIsCounted
  <1>21. FirstListingFound'
    <2> SUFFICES ASSUME NEW k \in MarketIds, listed'[k] # None, listings'[listed'[k]] = 1
                 PROVE  lookup'[k] = listed'[k] /\ market'[listed'[k]] # None
      BY DEF FirstListingFound
    <2>1. CASE k = m
      <3>1. listings[t] = 0
        BY <1>4, <1>10, <1>11, <2>1
      <3>2. tokens[t] = None
        BY <3>1 DEF MarketsInv, RegistryInv, RowsTogether
      <3> QED BY <1>8, <1>10, <1>12, <1>14, <2>1, <3>2
    <2>2. CASE k # m
      <3>1. listed'[k] = listed[k] /\ listed[k] # t /\ listed[k] \in Tokens
        BY <1>2, <1>10, <2>2
      <3>2. listings[listed[k]] = 1
        BY <1>11, <3>1
      <3>3. lookup[k] = listed[k] /\ market[listed[k]] # None
        BY <3>1, <3>2 DEF MarketsInv, RegistryInv, FirstListingFound
      <3> QED BY <1>12, <1>14, <2>2, <3>1, <3>3
    <2> QED BY <2>1, <2>2
  <1>22. HaltsOnlyAfterRemoval'
    BY <1>2 DEF HaltsOnlyAfterRemoval
  <1>23. OverridesSeen'
    BY <1>2, <1>9, <1>14 DEF MarketsInv, OverridesSeen
  <1>24. RatesFollowEarnings'
    <2> SUFFICES ASSUME NEW k \in MarketIds, listed'[k] # None, listings'[listed'[k]] = 1,
                        listed'[k] \notin overridden'
                 PROVE  market'[listed'[k]].rate \in {0, margin'.earningsRate}
      BY DEF RatesFollowEarnings
    <2>1. CASE k = m
      BY <1>9, <1>10, <1>14, <2>1
    <2>2. CASE k # m
      <3>1. listed'[k] = listed[k] /\ listed[k] # t /\ listed[k] \in Tokens
        BY <1>2, <1>10, <2>2
      <3>2. listings[listed[k]] = 1 /\ listed[k] \notin overridden
        BY <1>2, <1>11, <3>1
      <3>3. market[listed[k]].rate \in {0, margin.earningsRate}
        BY <3>1, <3>2 DEF MarketsInv, RatesFollowEarnings
      <3> QED BY <1>6, <1>14, <3>1, <3>3
    <2> QED BY <2>1, <2>2
  <1>25. LiquidityIsPar'
    BY <1>2, <1>13, <1>14, <1>15 DEF MarketsInv, LiquidityIsPar
  <1>26. TotalsAreSums'
    <2>1. \A c \in {"borrowUSD", "supplyUSD"} : Column(tokens', t, c) = Column(tokens, t, c)
      BY <1>7, <1>13 DEF Column, NoLiquidity
    <2>2. \A c \in {"borrowUSD", "supplyUSD"} : Total(tokens', c) = Total(tokens, c)
      <3> SUFFICES ASSUME NEW c \in {"borrowUSD", "supplyUSD"}
                   PROVE  Total(tokens', c) = Total(tokens, c)
        OBVIOUS
      <3>1. /\ Total(tokens, c) \in Int /\ Column(tokens, t, c) \in Int
            /\ t \in PolTokens => Total(tokens', c) = Total(tokens, c)
            /\ t \notin PolTokens =>
                 Total(tokens', c) = Total(tokens, c) - Column(tokens, t, c) + Column(tokens', t, c)
        BY <1>13, TotalMoves
      <3> QED BY <2>1, <3>1
    <2>3. TotalsAreSumsIn([tokens |-> tokens', margin |-> margin'])
      BY <1>6, <2>2 DEF MarketsInv, TotalsAreSums, TotalsAreSumsIn, Protocol
    <2> QED BY <2>3, TotalsAfter
  <1>27. \A s \in Tokens : CatchesUp(s)
    BY <1>2, <1>13 DEF CatchesUp, BookedNow
  <1> QED BY <1>17, <1>18, <1>19, <1>20, <1>21, <1>22, <1>23, <1>24, <1>25, <1>26, <1>27
      DEF MarketsInv, RegistryInv

\* A removal deletes the rows its id leads to.  They are of no other market that
\* was listed once, since no token is looked up under two ids.
LEMMA RemoveMarketKeeps ==
  ASSUME MarketsInv, ~ halted, NEW m \in MarketIds, LogRemoveMarket(m)
  PROVE  MarketsInv' /\ \A s \in Tokens : CatchesUp(s)
  <1>1. CASE lookup[m] = None
    <2>1. Throw /\ listed[m] # None
      BY <1>1 DEF LogRemoveMarket
    <2>2. \E s \in Tokens : listings[s] > 1
      BY <1>1, <2>1, UnresolvedIsRelisted DEF MarketsInv
    <2> QED BY <2>1, <2>2, ThrowKeeps
  <1>2. CASE lookup[m] # None
    <2> DEFINE t == lookup[m]
    <2>1. /\ listed[m] # None /\ listed' = [listed EXCEPT ![m] = None]
          /\ margin' = [margin EXCEPT !.numberOfMarkets = @ + 1]
          /\ market' = [market EXCEPT ![t] = None]
          /\ interestIndex' = [interestIndex EXCEPT ![t] = None]
          /\ oraclePrice' = [oraclePrice EXCEPT ![t] = None]
          /\ UNCHANGED <<numMarkets, listings, lookup, tokens, rebased, overridden, halted>>
      BY <1>2 DEF LogRemoveMarket, Delisted
    <2>2. t \in Tokens /\ margin \in MarginRow /\ margin.numberOfMarkets \in Nat
      BY <1>2 DEF MarketsInv, RegistryInv, RowsOfType, MarginRow
    <2>3. \A k \in MarketIds \ {m} : lookup[k] # t
      BY <1>2 DEF MarketsInv, RegistryInv, LookupIsInjective
    <2> HIDE DEF t
    <2>4. /\ margin' \in MarginRow /\ margin'.numberOfMarkets = margin.numberOfMarkets + 1
          /\ margin'.earningsRate = margin.earningsRate
          /\ margin'.borrowUSD = margin.borrowUSD /\ margin'.supplyUSD = margin.supplyUSD
      <3>1. margin.numberOfMarkets + 1 \in Nat
        BY <2>2
      <3> QED BY <2>1, <2>2, <3>1 DEF MarginRow
    <2>5. /\ listed' \in [MarketIds -> Tokens \union {None}] /\ listed'[m] = None
          /\ \A k \in MarketIds \ {m} : listed'[k] = listed[k]
      BY <2>1 DEF MarketsInv, RegistryInv, RowsOfType
    <2>6. /\ market' \in [Tokens -> MarketRow \union {None}] /\ market'[t] = None
          /\ \A s \in Tokens \ {t} : market'[s] = market[s]
      BY <2>1, <2>2 DEF MarketsInv, RegistryInv, RowsOfType
    <2>7. /\ interestIndex' \in [Tokens -> Nat \union {None}]
          /\ \A s \in Tokens \ {t} : interestIndex'[s] = interestIndex[s]
      BY <2>1, <2>2 DEF MarketsInv, RegistryInv, RowsOfType
    <2>8. /\ oraclePrice' \in [Tokens -> Nat \union {None}]
          /\ \A s \in Tokens \ {t} : oraclePrice'[s] = oraclePrice[s]
      BY <2>1, <2>2 DEF MarketsInv, RegistryInv, RowsOfType
    <2>9. RowsOfType'
      BY <2>1, <2>4, <2>5, <2>6, <2>7, <2>8 DEF MarketsInv, RegistryInv, RowsOfType
    <2>10. RowsTogether'
      BY <2>1, <2>6, <2>7, <2>8 DEF MarketsInv, RegistryInv, RowsTogether
    <2>11. LookupIsInjective'
      BY <2>1 DEF MarketsInv, RegistryInv, LookupIsInjective
    <2>12. ListedIsCounted'
      <3>1. numMarkets \in Nat /\ numMarkets <= margin.numberOfMarkets
        BY DEF MarketsInv, RegistryInv, RowsOfType, ListedIsCounted
      <3>2. numMarkets' <= margin'.numberOfMarkets
        BY <2>1, <2>2, <2>4, <3>1
      <3> QED BY <2>1, <2>5, <3>2 DEF MarketsInv, RegistryInv, ListedIsCounted
    <2>13. FirstListingFound'
      <3> SUFFICES ASSUME NEW k \in MarketIds, listed'[k] # None, listings[listed'[k]] = 1
                   PROVE  lookup[k] = listed'[k] /\ market'[listed'[k]] # None
        BY <2>1 DEF FirstListingFound
      <3>1. k # m /\ listed'[k] = listed[k] /\ listed[k] \in Tokens
        BY <2>5 DEF MarketsInv, RegistryInv, RowsOfType
      <3>2. lookup[k] = listed[k] /\ market[listed[k]] # None
        BY <3>1 DEF MarketsInv, RegistryInv, FirstListingFound
      <3> QED BY <2>3, <2>6, <3>1, <3>2
    <2>14. HaltsOnlyAfterRemoval'
      BY <2>1 DEF HaltsOnlyAfterRemoval
    <2>15. OverridesSeen'
      BY <2>1, <2>6 DEF MarketsInv, OverridesSeen
    <2>16. RatesFollowEarnings'
      <3> SUFFICES ASSUME NEW k \in MarketIds, listed'[k] # None, listings[listed'[k]] = 1,
                          listed'[k] \notin overridden
                   PROVE  market'[listed'[k]].rate \in {0, margin'.earningsRate}
        BY <2>1 DEF RatesFollowEarnings
      <3>1. k # m /\ listed'[k] = listed[k] /\ listed[k] \in Tokens
        BY <2>5 DEF MarketsInv, RegistryInv, RowsOfType
      <3>2. lookup[k] = listed[k] /\ market[listed[k]].rate \in {0, margin.earningsRate}
        BY <3>1 DEF MarketsInv, RegistryInv, FirstListingFound, RatesFollowEarnings
      <3> QED BY <2>3, <2>4, <2>6, <3>1, <3>2
    <2>17. LiquidityIsPar'
      BY <2>1, <2>6, <2>7 DEF MarketsInv, LiquidityIsPar
    <2>18. TotalsAreSums'
      <3>1. TotalsAreSumsIn([tokens |-> tokens', margin |-> margin'])
        BY <2>1, <2>4 DEF MarketsInv, TotalsAreSums, TotalsAreSumsIn, Protocol
      <3> QED BY <3>1, TotalsAfter
    <2>19. \A s \in Tokens : CatchesUp(s)
      BY <2>1 DEF CatchesUp, BookedNow
    <2> QED BY <2>9, <2>10, <2>11, <2>12, <2>13, <2>14, <2>15, <2>16, <2>17, <2>18, <2>19
        DEF MarketsInv, RegistryInv
  <1> QED BY <1>1, <1>2

-----------------------------------------------------------------------------
(* Theorems                                                                *)

LEMMA MarketsInvInit == Init => MarketsInv
  <1> SUFFICES ASSUME Init PROVE MarketsInv
    OBVIOUS
  <1>1. margin \in MarginRow /\ margin.borrowUSD = 0 /\ margin.supplyUSD = 0
        /\ margin.numberOfMarkets = 0
    <2>1. margin \in [numberOfMarkets : {0}, earningsRate : EarningsRates,
                      borrowUSD : {0}, supplyUSD : {0}]
      BY DEF Init
    <2>2. /\ margin.numberOfMarkets \in {0} /\ margin.earningsRate \in EarningsRates
          /\ margin.borrowUSD \in {0} /\ margin.supplyUSD \in {0}
          /\ margin = [numberOfMarkets |-> margin.numberOfMarkets,
                       earningsRate |-> margin.earningsRate,
                       borrowUSD |-> margin.borrowUSD, supplyUSD |-> margin.supplyUSD]
      BY <2>1
    <2>3. margin.earningsRate \in Nat
      BY <2>2, MarketsAssumption
    <2> QED BY <2>2, <2>3 DEF MarginRow
  <1>2. RegistryInv
    <2>1. /\ listed = [m \in MarketIds |-> None] /\ lookup = [m \in MarketIds |-> None]
          /\ listings = [t \in Tokens |-> 0] /\ numMarkets = 0
          /\ tokens = [t \in Tokens |-> None] /\ market = [t \in Tokens |-> None]
          /\ interestIndex = [t \in Tokens |-> None] /\ oraclePrice = [t \in Tokens |-> None]
          /\ rebased = {} /\ overridden = {} /\ halted = FALSE
      BY DEF Init
    <2>2. RowsOfType
      BY <1>1, <2>1 DEF RowsOfType
    <2>3. RowsTogether /\ LookupIsInjective /\ FirstListingFound /\ HaltsOnlyAfterRemoval
      BY <2>1 DEF RowsTogether, LookupIsInjective, FirstListingFound, HaltsOnlyAfterRemoval
    <2>4. ListedIsCounted
      BY <1>1, <2>1 DEF ListedIsCounted
    <2> QED BY <2>2, <2>3, <2>4 DEF RegistryInv
  <1>3. OverridesSeen /\ RatesFollowEarnings /\ LiquidityIsPar
    BY DEF Init, OverridesSeen, RatesFollowEarnings, LiquidityIsPar
  <1>4. TotalsAreSums
    <2>1. \A c : \A t \in Tokens : Column(tokens, t, c) = 0
      BY DEF Init, Column
    <2>2. IsFiniteSet(Tokens \ PolTokens)
      BY TokensFinite, FS_Difference
    <2>3. \A c : Total(tokens, c) = 0
      <3> SUFFICES ASSUME NEW c PROVE Total(tokens, c) = 0
        OBVIOUS
      <3> DEFINE f == [t \in Tokens |-> Column(tokens, t, c)]
      <3>1. \A t \in Tokens \ PolTokens : f[t] = 0
        BY <2>1
      <3> HIDE DEF f
      <3>2. SumFunctionOnSet(f, Tokens \ PolTokens) = 0
        BY <2>2, <3>1, SumOfZeros
      <3> QED BY <3>2 DEF Total, f
    <2> QED BY <1>1, <2>3 DEF TotalsAreSums, TotalsAreSumsIn, Protocol
  <1> QED BY <1>2, <1>3, <1>4 DEF MarketsInv

LEMMA MarketsStep ==
  ASSUME MarketsInv, [Next]_vars
  PROVE  MarketsInv' /\ \A t \in Tokens : vars' = vars \/ CatchesUp(t)
  <1>1. CASE UNCHANGED vars
    <2>1. UNCHANGED <<listed, numMarkets, listings, lookup, tokens, market, interestIndex,
                      oraclePrice, margin, rebased, overridden, halted>>
      BY <1>1 DEF vars, chain, store
    <2>2. RegistryInv'
      BY <2>1 DEF MarketsInv, RegistryInv, RowsOfType, RowsTogether, LookupIsInjective,
                  ListedIsCounted, FirstListingFound, HaltsOnlyAfterRemoval
    <2>3. OverridesSeen' /\ RatesFollowEarnings' /\ LiquidityIsPar'
      BY <2>1 DEF MarketsInv, OverridesSeen, RatesFollowEarnings, LiquidityIsPar
    <2>4. TotalsAreSums'
      BY <2>1 DEF MarketsInv, TotalsAreSums, TotalsAreSumsIn, Protocol, Total, Column
    <2> QED BY <1>1, <2>2, <2>3, <2>4 DEF MarketsInv
  <1>2. CASE Next
    <2>1. ~ halted
      BY <1>2 DEF Next
    <2>2. ASSUME NEW m \in MarketIds, NEW t \in Tokens, LogAddMarket(m, t)
          PROVE  MarketsInv' /\ \A s \in Tokens : CatchesUp(s)
      BY <2>1, <2>2, AddMarketKeeps
    <2>3. ASSUME NEW m \in MarketIds, LogRemoveMarket(m)
          PROVE  MarketsInv' /\ \A s \in Tokens : CatchesUp(s)
      BY <2>1, <2>3, RemoveMarketKeeps
    <2>4. ASSUME NEW m \in MarketIds, NEW n, OneMarketEvent(m, n)
          PROVE  MarketsInv' /\ \A s \in Tokens : CatchesUp(s)
      BY <2>1, <2>4, OneMarketKeeps
    <2>5. ASSUME NEW one \in MarketIds, NEW two \in MarketIds, NEW n, NEW k,
                 TwoMarketEvent(one, two, n, k)
          PROVE  MarketsInv' /\ \A s \in Tokens : CatchesUp(s)
      BY <2>1, <2>5, TwoMarketKeeps
    <2>6. ASSUME NEW m \in MarketIds, NEW price \in Prices, LogOraclePrice(m, price)
          PROVE  MarketsInv' /\ \A s \in Tokens : CatchesUp(s)
      BY <2>1, <2>6, OraclePriceKeeps
    <2>7. ASSUME NEW m \in MarketIds, NEW index \in Indexes, LogIndexUpdate(m, index)
          PROVE  MarketsInv' /\ \A s \in Tokens : CatchesUp(s)
      BY <2>1, <2>7, IndexUpdateKeeps
    <2>8. ASSUME NEW m \in MarketIds, LogSetInterestSetter(m)
          PROVE  MarketsInv' /\ \A s \in Tokens : CatchesUp(s)
      BY <2>1, <2>8, InterestSetterKeeps
    <2>9. ASSUME NEW m \in MarketIds, NEW override \in Overrides, SetRiskInfo(m, override)
          PROVE  MarketsInv' /\ \A s \in Tokens : CatchesUp(s)
      BY <2>1, <2>9, RiskInfoKeeps
    <2>10. ASSUME NEW new \in EarningsRates, LogSetEarningsRate(new)
           PROVE  MarketsInv' /\ \A s \in Tokens : CatchesUp(s)
      BY <2>1, <2>10, EarningsRateKeeps
    <2> QED BY <1>2, <2>2, <2>3, <2>4, <2>5, <2>6, <2>7, <2>8, <2>9, <2>10 DEF Next
  <1> QED BY <1>1, <1>2

\* The conjunction of everything proved here is inductive.
THEOREM MarketsInvariant == Spec => []MarketsInv
  <1>1. MarketsInv /\ [Next]_vars => MarketsInv'
    BY MarketsStep
  <1> QED BY <1>1, MarketsInvInit, PTL DEF Spec

\* changeProtocolBalanceApplied: whatever is booked in whatever order, and whatever
\* markets come and go, the liquidity of the protocol is the sum over its tokens.
THEOREM TotalsCorrect == Spec => []TotalsAreSums
  <1>1. MarketsInv => TotalsAreSums
    BY DEF MarketsInv
  <1> QED BY <1>1, MarketsInvariant, PTL

\* The liquidity of a token that has been booked since its last index update is its
\* TotalPar at its index, also for a token that was removed and listed again.
THEOREM LiquidityCorrect == Spec => []LiquidityIsPar
  <1>1. MarketsInv => LiquidityIsPar
    BY DEF MarketsInv
  <1> QED BY <1>1, MarketsInvariant, PTL

\* The rows of a market whose token is listed for the first time are found under its
\* id, and no event stops the indexer before a market has been removed.
THEOREM FirstListingCorrect == Spec => []FirstListingResolves
  <1>1. MarketsInv => FirstListingResolves
    <2> SUFFICES ASSUME MarketsInv PROVE FirstListingResolves
      OBVIOUS
    <2>1. ASSUME NEW m \in MarketIds, listed[m] # None, listings[listed[m]] = 1
          PROVE  lookup[m] = listed[m] /\ Resolves(m)
      <3>1. lookup[m] = listed[m] /\ market[listed[m]] # None /\ listed[m] \in Tokens
        BY <2>1 DEF MarketsInv, RegistryInv, FirstListingFound, RowsOfType
      <3>2. interestIndex[listed[m]] # None
        BY <3>1 DEF MarketsInv, RegistryInv, RowsTogether
      <3> QED BY <2>1, <3>1, <3>2 DEF Resolves
    <2> QED BY <2>1 DEF FirstListingResolves, MarketsInv, RegistryInv, HaltsOnlyAfterRemoval
  <1> QED BY <1>1, MarketsInvariant, PTL

\* LogSetEarningsRate comes to every such market, and rescales its rate to the new
\* earnings rate, for any rates, zero among them.
THEOREM RatesCorrect == Spec => []RatesFollowEarnings
  <1>1. MarketsInv => RatesFollowEarnings
    BY DEF MarketsInv
  <1> QED BY <1>1, MarketsInvariant, PTL

\* The value of the borrows of a token, one booking late, is right after a booking
\* that leaves the borrows alone.
THEOREM BorrowValueCorrect == Spec => BorrowValueCatchesUp
  <1>1. MarketsInv /\ [Next]_vars => [\A t \in Tokens : CatchesUp(t)]_vars
    BY MarketsStep
  <1> QED BY <1>1, MarketsInvariant, PTL DEF Spec, BorrowValueCatchesUp
=============================================================================
