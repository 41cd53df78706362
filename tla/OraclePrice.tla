----------------------------- MODULE OraclePrice ------------------------------
(***************************************************************************)
(* The OraclePrice row of one market and the two caches in front of its    *)
(* oracle: the row itself, good for the block it was written in, and the   *)
(* getMarketPrice effect, whose results Envio keeps by input               *)
(* (effects.ts:133-150, cache: true) across batches and restarts.          *)
(*                                                                         *)
(* The oracle may change at any moment of a block.  LogOraclePrice reports *)
(* the price it has; every other handler that needs a price asks           *)
(* GetTokenOraclePriceUSD.  An RPC read is answered for the head of the    *)
(* chain, which an indexer that is catching up has not reached.            *)
(***************************************************************************)
EXTENDS Integers

CONSTANTS Prices,
          ZeroPrice, \* ZERO_BD, the price of a market that was never priced
          NoPrice,   \* nothing cached, nothing reported
          NoRow,     \* no OraclePrice row
          AtHead,    \* the indexer has caught up
          RpcFails,  \* an RPC read may throw
          MaxBlock   \* bounds the blocks

Rows == [price : Prices \union {ZeroPrice}, block : 0 .. MaxBlock]

ASSUME OracleConstantsAssumption ==
  /\ NoPrice \notin Prices \union {ZeroPrice} /\ NoRow \notin Rows
  /\ AtHead \in BOOLEAN /\ RpcFails \in BOOLEAN /\ MaxBlock \in Nat

VARIABLES row,      \* the OraclePrice row
          cached,   \* the stored result of the getMarketPrice effect
          block,    \* the block whose events are handled
          oracle,   \* the price the oracle has
          inBlock,  \* history: the prices it had in this block
          reported  \* history: what LogOraclePrice last said in this block

vars == <<row, cached, block, oracle, inBlock, reported>>

Init ==
  /\ row = NoRow /\ cached = NoPrice /\ block = 0
  /\ oracle \in Prices /\ inBlock = {oracle} /\ reported = NoPrice

-----------------------------------------------------------------------------
(* The effect                                                              *)

\* What the chain's head answers.
HeadPrices == IF AtHead THEN {oracle} ELSE Prices

\* A result that is stored is never fetched again.
MarketPrice(p) ==
  IF cached # NoPrice THEN p = cached /\ UNCHANGED cached
  ELSE p \in HeadPrices /\ cached' = p

\* A failure is not stored.
MarketPriceThrows == RpcFails /\ cached = NoPrice /\ UNCHANGED cached

-----------------------------------------------------------------------------
(* The handlers                                                            *)

\* Mutant: the block number of an existing row is not refreshed.
PricedOnly(p) == row' = [price |-> p, block |-> IF row = NoRow THEN block ELSE row.block]

Priced(p) == row' = [price |-> p, block |-> block]

OldPrice == IF row = NoRow THEN ZeroPrice ELSE row.price

\* Mutant: the comparison of the blocks is the wrong one.
IsLater == row # NoRow /\ row.block > block

IsCurrent == row # NoRow /\ row.block = block

\* getTokenOraclePriceUSD: the row of this block, else the effect, else the old price.
GetTokenOraclePriceUSD ==
  /\ IF IsCurrent THEN UNCHANGED <<row, cached>>
     ELSE \/ \E p \in Prices : MarketPrice(p) /\ Priced(p)
          \/ MarketPriceThrows /\ Priced(OldPrice)
  /\ UNCHANGED <<block, oracle, inBlock, reported>>

\* The handler goes on to price the market, from the row it has just set.
LogOraclePrice ==
  /\ row # NoRow
  /\ Priced(oracle) /\ reported' = oracle
  /\ UNCHANGED <<cached, block, oracle, inBlock>>

\* A failure of this read stops the indexer, which tries again.
LogAddMarket ==
  /\ row = NoRow
  /\ \E p \in Prices : MarketPrice(p) /\ Priced(p)
  /\ UNCHANGED <<block, oracle, inBlock, reported>>

LogRemoveMarket ==
  /\ row # NoRow
  /\ row' = NoRow /\ reported' = NoPrice
  /\ UNCHANGED <<cached, block, oracle, inBlock>>

-----------------------------------------------------------------------------
(* The chain                                                               *)

OracleMoves(p) ==
  /\ oracle' = p /\ inBlock' = inBlock \union {p}
  /\ UNCHANGED <<row, cached, block, reported>>

NewBlock ==
  /\ block < MaxBlock /\ block' = block + 1
  /\ inBlock' = {oracle} /\ reported' = NoPrice
  /\ UNCHANGED <<row, cached, oracle>>

Next ==
  \/ GetTokenOraclePriceUSD
  \/ LogOraclePrice
  \/ LogAddMarket
  \/ LogRemoveMarket
  \/ \E p \in Prices : OracleMoves(p)
  \/ NewBlock

Spec == Init /\ [][Next]_vars

-----------------------------------------------------------------------------
(* Properties                                                              *)

\* Rows, cache and histories have their types.
TypeOK ==
  /\ row \in Rows \union {NoRow} /\ cached \in Prices \union {NoPrice}
  /\ block \in 0 .. MaxBlock /\ oracle \in Prices /\ inBlock \subseteq Prices
  /\ reported \in Prices \union {NoPrice}

\* pricing.ts:38 and margin-core.ts:142-148.  Once LogOraclePrice has reported a
\* price, every handler of the rest of the block uses it: the effect, which may
\* hold a price of any other block, is not asked again.
ReportedPricePrevails == reported # NoPrice => row = [price |-> reported, block |-> block]

\* What no step may do: take a row back to an earlier block, or change the price
\* of a row within its block to anything but what the oracle then has.
PriceFollowsBlocks ==
  [][row # NoRow /\ row' # NoRow =>
       /\ row'.block >= row.block
       /\ row'.block = row.block => row'.price \in {row.price, oracle}]_vars

\* pricing.ts:22-24: the row is keyed by the block number.  What it says of a
\* block is a price that the oracle had in this block.
RowIsOfItsBlock == row # NoRow /\ row.block = block => row.price \in inBlock
=============================================================================
