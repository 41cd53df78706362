-------------------------- MODULE OraclePriceProofs ---------------------------
(***************************************************************************)
(* Within a block the reported price prevails, and rows follow the blocks, *)
(* for any prices, any number of blocks, and whatever the RPC endpoint     *)
(* answers.  The invariant adds that no row is of a later block: a row that *)
(* is not current is then of an earlier one.                               *)
(***************************************************************************)
EXTENDS OraclePrice, TLAPS

RowNotAhead == row # NoRow => row.block <= block

PriceInv == TypeOK /\ RowNotAhead /\ ReportedPricePrevails

PriceStep ==
  row # NoRow /\ row' # NoRow =>
    /\ row'.block >= row.block
    /\ row'.block = row.block => row'.price \in {row.price, oracle}

\* Before the first event nothing is stored and nothing is reported.
LEMMA PriceInvInit == Init => PriceInv
BY OracleConstantsAssumption
DEF Init, PriceInv, TypeOK, RowNotAhead, ReportedPricePrevails

\* A row that is written is of the current block.
LEMMA PricedRow ==
  ASSUME PriceInv, NEW p \in Prices \union {ZeroPrice}, Priced(p)
  PROVE  /\ row' \in Rows /\ row'.price = p /\ row'.block = block
         /\ row # NoRow => row'.block >= row.block
BY DEF PriceInv, TypeOK, Rows, Priced, RowNotAhead

\* A market with a reported price has a current row.
LEMMA RowOfReport ==
  ASSUME PriceInv, reported # NoPrice PROVE row # NoRow /\ row.block = block
<1>1. row = [price |-> reported, block |-> block]
  BY DEF PriceInv, ReportedPricePrevails
<1>2. row \in Rows
  BY <1>1 DEF PriceInv, TypeOK, Rows
<1> QED BY <1>1, <1>2, OracleConstantsAssumption

\* A stored or fetched price is a price, and is then stored.
LEMMA EffectResult ==
  ASSUME PriceInv, NEW p \in Prices, MarketPrice(p)
  PROVE  cached' \in Prices \union {NoPrice}
BY DEF PriceInv, TypeOK, MarketPrice

\* A read either finds the current row or replaces one of an earlier block, in
\* which case nothing has been reported in this one.
LEMMA ReadStep ==
  ASSUME PriceInv, GetTokenOraclePriceUSD PROVE PriceInv' /\ PriceStep
<1>1. UNCHANGED <<block, oracle, inBlock, reported>>
  BY DEF GetTokenOraclePriceUSD
<1>2. CASE IsCurrent
  <2>1. UNCHANGED <<row, cached>>
    BY <1>2 DEF GetTokenOraclePriceUSD
  <2> QED BY <1>1, <2>1 DEF PriceInv, TypeOK, RowNotAhead, ReportedPricePrevails, PriceStep, Rows
<1>3. CASE ~ IsCurrent
  <2>1. reported = NoPrice
    BY <1>3, RowOfReport DEF IsCurrent
  <2>2. row # NoRow => row.block < block
    BY <1>3 DEF IsCurrent, PriceInv, RowNotAhead, TypeOK, Rows
  <2>3. PICK p \in Prices \union {ZeroPrice} : Priced(p) /\ cached' \in Prices \union {NoPrice}
    <3>1. CASE \E p \in Prices : MarketPrice(p) /\ Priced(p)
      BY <3>1, EffectResult
    <3>2. CASE MarketPriceThrows /\ Priced(OldPrice)
      BY <3>2 DEF MarketPriceThrows, OldPrice, PriceInv, TypeOK, Rows
    <3> QED BY <1>3, <3>1, <3>2 DEF GetTokenOraclePriceUSD
  <2>4. row' \in Rows /\ row'.block = block
    BY <2>3, PricedRow
  <2> QED
    BY <1>1, <2>1, <2>2, <2>3, <2>4
    DEF PriceInv, TypeOK, RowNotAhead, ReportedPricePrevails, PriceStep, Rows
<1> QED BY <1>2, <1>3

\* Every step keeps the invariant, and rows follow the blocks.
LEMMA PriceInvStep ==
  ASSUME PriceInv, [Next]_vars PROVE PriceInv' /\ PriceStep
<1>1. CASE GetTokenOraclePriceUSD
  BY <1>1, ReadStep
<1>2. CASE LogOraclePrice
  <2>1. row' = [price |-> oracle, block |-> block] /\ reported' = oracle
        /\ UNCHANGED <<cached, block, oracle, inBlock>>
    BY <1>2 DEF LogOraclePrice, Priced
  <2>2. row' \in Rows /\ row'.price = oracle /\ row'.block = block
    BY <2>1 DEF PriceInv, TypeOK, Rows
  <2> QED
    BY <2>1, <2>2
    DEF PriceInv, TypeOK, RowNotAhead, ReportedPricePrevails, PriceStep, Rows
<1>3. CASE LogAddMarket
  <2>1. row = NoRow /\ UNCHANGED <<block, oracle, inBlock, reported>>
    BY <1>3 DEF LogAddMarket
  <2>2. PICK p \in Prices : MarketPrice(p) /\ Priced(p)
    BY <1>3 DEF LogAddMarket
  <2>3. row' \in Rows /\ row'.block = block /\ cached' \in Prices \union {NoPrice}
    BY <2>2, PricedRow, EffectResult
  <2>4. reported = NoPrice
    BY <2>1, RowOfReport
  <2> QED
    BY <2>1, <2>3, <2>4
    DEF PriceInv, TypeOK, RowNotAhead, ReportedPricePrevails, PriceStep, Rows
<1>4. CASE LogRemoveMarket
  BY <1>4
  DEF LogRemoveMarket, PriceInv, TypeOK, RowNotAhead, ReportedPricePrevails, PriceStep
<1>5. ASSUME NEW p \in Prices, OracleMoves(p) PROVE PriceInv' /\ PriceStep
  BY <1>5
  DEF OracleMoves, PriceInv, TypeOK, RowNotAhead, ReportedPricePrevails, PriceStep, Rows
<1>6. CASE NewBlock
  <2>1. block' = block + 1 /\ block' \in 0 .. MaxBlock /\ reported' = NoPrice
        /\ inBlock' = {oracle} /\ UNCHANGED <<row, cached, oracle>>
    BY <1>6, OracleConstantsAssumption DEF NewBlock, PriceInv, TypeOK
  <2> QED
    BY <2>1 DEF PriceInv, TypeOK, RowNotAhead, ReportedPricePrevails, PriceStep, Rows
<1>7. CASE UNCHANGED vars
  BY <1>7 DEF vars, PriceInv, TypeOK, RowNotAhead, ReportedPricePrevails, PriceStep, Rows
<1> QED BY <1>1, <1>2, <1>3, <1>4, <1>5, <1>6, <1>7 DEF Next

\* The inductive invariant: types, no row of a later block, and the reported price.
THEOREM PriceInvariant == Spec => []PriceInv
BY PriceInvInit, PriceInvStep, PTL DEF Spec

\* pricing.ts:38 and margin-core.ts:142-148: a price reported by LogOraclePrice is
\* the one every handler of the rest of its block uses.
THEOREM ReportedPrevails == Spec => []ReportedPricePrevails
<1>1. PriceInv => ReportedPricePrevails
  BY DEF PriceInv
<1> QED BY <1>1, PriceInvariant, PTL

\* A row never goes back to an earlier block, and within its block it changes
\* only to the price of the oracle.
THEOREM RowsFollowBlocks == Spec => PriceFollowsBlocks
<1>1. PriceInv /\ [Next]_vars => [PriceStep]_vars
  BY PriceInvStep
<1> QED BY <1>1, PriceInvariant, PTL DEF Spec, PriceFollowsBlocks, PriceStep
=============================================================================
