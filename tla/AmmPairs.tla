------------------------------- MODULE AmmPairs --------------------------------
(***************************************************************************)
(* AMM pairs (amm-core.ts, amm-factory.ts, helpers/amm.ts).  A pair reports *)
(* each call as several events.  The handlers put a mint or a burn together *)
(* from them, through the unfinished rows of the transaction, and read the  *)
(* balance of a provider at the head of the chain, which may be ahead of    *)
(* the event.                                                               *)
(*                                                                          *)
(* The pair contract is external: its calls are those of a Uniswap V2 pair, *)
(* as the handlers expect them.  Liquidity is counted in units of the 1000  *)
(* wei that a first mint locks.  The reserves of both tokens of a pair are  *)
(* taken to be its supply; token prices are any of Prices.  Volumes, dollar *)
(* amounts, serial ids, transaction counts and snapshots are left out, as   *)
(* are the prices and interest indexes those need.  Rows of an earlier      *)
(* transaction cannot be reached, because ids carry its hash: only those of *)
(* the present one are kept.  MaxCalls is a bound.                          *)
(***************************************************************************)
EXTENDS Integers, FiniteSets, SequencesExt

CONSTANTS Pairs, Tokens, Token0, Token1, \* functions from Pairs to Tokens
          Users, FeeTo,                  \* providers, the one that gets fees
          Zero, None,                    \* ADDRESS_ZERO, undefined
          Mints, Sends,                  \* amounts of liquidity
          Prices, MaxCalls, MaxLag

ASSUME AmmAssumption ==
  /\ Token0 \in [Pairs -> Tokens] /\ Token1 \in [Pairs -> Tokens]
  /\ \A p \in Pairs : Token0[p] # Token1[p]
  /\ FeeTo \in Users /\ Zero \notin Users \union Pairs
  /\ Mints \subseteq Nat \ {0} /\ Sends \subseteq Nat \ {0} /\ Prices \subseteq Nat
  /\ MaxCalls \in Nat /\ MaxLag \in Nat

\* Addresses are words of a fixed width.  The liquidity of a pair that another pair
\* holds is not modelled.
ASSUME HoldersAssumption ==
  IsFiniteSet(Pairs) /\ IsFiniteSet(Users) /\ Users \intersect Pairs = {}

\* Rows of AmmPair.
PairRow == [totalSupply : Int, liquidityProviderCount : Int, reserve : Int, reserveUSD : Int]

ASSUME NoneAssumption == None \notin Users \union Int \union PairRow

VARIABLES supply, balance, \* chain: the liquidity tokens of each pair
          pending,         \* chain: events of the unfinished transaction
          queue,           \* chain: events that the indexer has not handled
          calls,           \* chain: calls made
          db, halted,
          ignored,         \* history: burns and sends to Zero of exactly the minimum
          reported         \* history: what the calls of the present transaction did

chain == <<supply, balance, pending, calls, ignored>>
vars == <<chain, queue, db, halted, reported>>

Minimum == 1
Holders(p) == Users \union {p}

Fresh == [mints |-> <<>>, burns |-> <<>>, swaps |-> <<>>, tidy |-> TRUE, sent |-> FALSE]

Init ==
  /\ supply = [p \in Pairs |-> None]
  /\ balance = [p \in Pairs |-> [a \in Holders(p) |-> 0]]
  /\ pending = <<>> /\ queue = <<>> /\ calls = 0
  /\ ignored = [burns |-> [p \in Pairs |-> 0], sends |-> {}]
  /\ db = [pair |-> [p \in Pairs |-> None],
           position |-> [p \in Pairs |-> [u \in Users |-> None]],
           factoryUSD |-> 0, tradeLiquidity |-> [t \in Tokens |-> 0],
           tx |-> FALSE, mints |-> <<>>, burns |-> <<>>, trades |-> <<>>]
  /\ halted = FALSE /\ reported = Fresh

-----------------------------------------------------------------------------
(* The calls of a pair                                                     *)

\* The transfers of a call say whether it is tidy: one that the handlers can put
\* together without knowing more than its events.
TransferOf(p, from, to, n, tidy) ==
  [kind |-> "Transfer", pair |-> p, from |-> from, to |-> to, value |-> n, tidy |-> tidy]
SyncOf(p, reserve) == [kind |-> "Sync", pair |-> p, reserve |-> reserve]
MintOf(p, u, n) ==
  [kind |-> "Mint", pair |-> p, row |-> [pair |-> p, to |-> u, liquidity |-> n]]
BurnOf(p, u, n, fee) ==
  [kind |-> "Burn", pair |-> p,
   row |-> [pair |-> p, sender |-> u, liquidity |-> n, fee |-> fee]]

Emit(events) == pending' = pending \o events /\ UNCHANGED <<queue, db, halted, reported>>

\* The factory makes a pair, before the first call of one.
CreatePair(p) ==
  /\ supply[p] = None /\ calls = 0
  /\ supply' = [supply EXCEPT ![p] = 0] /\ UNCHANGED <<balance, calls, ignored>>
  /\ Emit(<<[kind |-> "PairCreated", pair |-> p]>>)

FeeMinted(p, fee, tidy) ==
  IF fee = 0 THEN <<>> ELSE <<TransferOf(p, Zero, FeeTo, fee, tidy)>>
WithFee(b, p, fee) == [b EXCEPT ![p][FeeTo] = @ + fee]

\* The first mint locks the minimum; a later one may mint a fee before.
Mint(p, u, n, fee) ==
  /\ supply[p] # None /\ calls' = calls + 1 /\ UNCHANGED ignored
  /\ IF supply[p] = 0
     THEN /\ fee = 0
          /\ supply' = [supply EXCEPT ![p] = Minimum + n]
          /\ balance' = [balance EXCEPT ![p][u] = @ + n]
          /\ Emit(<<TransferOf(p, Zero, Zero, Minimum, TRUE), TransferOf(p, Zero, u, n, TRUE),
                    SyncOf(p, supply'[p]), MintOf(p, u, n)>>)
     ELSE /\ supply' = [supply EXCEPT ![p] = @ + fee + n]
          /\ balance' = [WithFee(balance, p, fee) EXCEPT ![p][u] = @ + n]
          /\ Emit(FeeMinted(p, fee, FALSE) \o <<TransferOf(p, Zero, u, n, fee = 0),
                    SyncOf(p, supply'[p]), MintOf(p, u, n)>>)

\* A provider sends liquidity tokens to another, to the pair or to nobody.
Send(p, u, to, n) ==
  /\ u # to /\ n <= balance[p][u]
  /\ balance' = [balance EXCEPT ![p] =
       [a \in Holders(p) |-> IF a = u THEN @[a] - n ELSE IF a = to THEN @[a] + n ELSE @[a]]]
  /\ ignored' = IF to = Zero /\ n = Minimum
                THEN [ignored EXCEPT !.sends = @ \union {<<p, u>>}] ELSE ignored
  /\ calls' = calls + 1 /\ UNCHANGED supply
  /\ Emit(<<TransferOf(p, u, to, n, TRUE)>>)

\* A call that burns what the pair itself holds is tidy when all of it was sent
\* by the call before it, in the same transaction.
SentJustNow(p, n) ==
  /\ pending # <<>>
  /\ LET e == Last(pending) IN e.kind = "Transfer" /\ e.to = p /\ e.value = n

Burn(p, fee) ==
  LET n    == balance[p][p]
      tidy == SentJustNow(p, n) /\ (fee = 0 \/ n # Minimum)
  IN  /\ n > 0 /\ calls' = calls + 1
      /\ ignored' = IF n = Minimum THEN [ignored EXCEPT !.burns[p] = @ + 1] ELSE ignored
      /\ supply' = [supply EXCEPT ![p] = @ + fee - n]
      /\ balance' = [WithFee(balance, p, fee) EXCEPT ![p][p] = 0]
      /\ Emit(FeeMinted(p, fee, tidy) \o <<TransferOf(p, p, Zero, n, tidy), SyncOf(p, supply'[p]),
              BurnOf(p, IF tidy THEN Last(pending).from ELSE None, n, fee)>>)

\* Swaps change the reserves, which are not followed.
Swap(p) ==
  /\ supply[p] \notin {None, 0}
  /\ calls' = calls + 1 /\ UNCHANGED <<supply, balance, ignored>>
  /\ Emit(<<SyncOf(p, supply[p]), [kind |-> "Swap", pair |-> p]>>)

\* The indexer gets whole transactions.
Delivered(events) == [i \in DOMAIN events |-> [first |-> i = 1, event |-> events[i]]]

EndTransaction ==
  /\ pending # <<>>
  /\ queue' = queue \o Delivered(pending)
  /\ pending' = <<>>
  /\ UNCHANGED <<supply, balance, calls, ignored, db, halted, reported>>

Chain ==
  \/ /\ pending = <<>> => Len(queue) <= MaxLag
     /\ \E p \in Pairs :
          \/ CreatePair(p)
          \/ /\ calls < MaxCalls
             /\ \/ \E u \in Users, n \in Mints, fee \in 0 .. 1 : Mint(p, u, n, fee)
                \/ \E u \in Users, to \in Users \union {p, Zero}, n \in Sends :
                     Send(p, u, to, n)
                \/ \E fee \in 0 .. 1 : Burn(p, fee)
                \/ Swap(p)
  \/ EndTransaction

-----------------------------------------------------------------------------
(* The handler of Transfer                                                 *)

AllButLast(s) == SubSeq(s, 1, Len(s) - 1)
WithLast(s, row) == Append(AllButLast(s), row)

\* isCompleteMint of the last mint of the transaction.
HasOpenMint(d) == d.mints # <<>> /\ ~ Last(d.mints).complete

\* amm-core.ts, "mints": a fee and the mint after it share a row.
Minted(d, e) ==
  IF e.from # Zero THEN d
  ELSE [d EXCEPT
          !.pair[e.pair].totalSupply = @ + e.value,
          !.mints = IF HasOpenMint(d) THEN @
                    ELSE Append(@, [pair |-> e.pair, to |-> e.to, liquidity |-> e.value,
                                    complete |-> FALSE])]

\* Mutant: the sender is left for later.
SentToPairUnnamed(d, e) ==
  IF e.to # e.pair THEN d
  ELSE [d EXCEPT !.burns = Append(@, [pair |-> e.pair, sender |-> None, liquidity |-> e.value,
                                      fee |-> 0, needsComplete |-> TRUE, complete |-> FALSE])]

\* "case where direct send first".
SentToPair(d, e) ==
  IF e.to # e.pair THEN d
  ELSE [d EXCEPT !.burns = Append(@, [pair |-> e.pair, sender |-> e.from, liquidity |-> e.value,
                                      fee |-> 0, needsComplete |-> TRUE, complete |-> FALSE])]

\* Mutant: the row of the fee is left among the mints.
BurnedFeeKept(d, e) ==
  IF e.to # Zero \/ e.from # e.pair THEN d
  ELSE LET open == d.burns # <<>> /\ Last(d.burns).needsComplete
           row  == IF open THEN Last(d.burns)
                   ELSE [pair |-> e.pair, sender |-> None, liquidity |-> e.value, fee |-> 0,
                         needsComplete |-> FALSE, complete |-> FALSE]
       IN  [d EXCEPT !.pair[e.pair].totalSupply = @ - e.value,
                     !.burns = IF open THEN WithLast(@, row) ELSE Append(@, row)]

\* "burn": the row of the last send, or a new one, takes over an open mint as fee.
Burned(d, e) ==
  IF e.to # Zero \/ e.from # e.pair THEN d
  ELSE LET open == d.burns # <<>> /\ Last(d.burns).needsComplete
           row  == IF open THEN Last(d.burns)
                   ELSE [pair |-> e.pair, sender |-> None, liquidity |-> e.value, fee |-> 0,
                         needsComplete |-> FALSE, complete |-> FALSE]
           paid == IF HasOpenMint(d) THEN [row EXCEPT !.fee = Last(d.mints).liquidity] ELSE row
       IN  [d EXCEPT !.pair[e.pair].totalSupply = @ - e.value,
                     !.mints = IF HasOpenMint(d) THEN AllButLast(@) ELSE @,
                     !.burns = IF open THEN WithLast(@, paid) ELSE Append(@, paid)]

\* createLiquidityPosition.
WithPosition(d, p, u) ==
  IF d.position[p][u] # None THEN d
  ELSE [d EXCEPT !.pair[p].liquidityProviderCount = @ + 1, !.position[p][u] = 0]

\* Mutant: the balance is only read for a new provider.
BalanceReadOnce(d, p, u) ==
  IF u \notin Users THEN d
  ELSE [WithPosition(d, p, u) EXCEPT !.position[p][u] =
          IF d.position[p][u] = None THEN balance[p][u] ELSE @]

\* getAmmPairBalanceOf: the balance at the head of the chain.
BalanceRead(d, p, u) ==
  IF u \notin Users THEN d
  ELSE [WithPosition(d, p, u) EXCEPT !.position[p][u] = balance[p][u]]

\* "ignore initial transfers for first adds".
IsIgnored(e) == e.to = Zero /\ e.value = Minimum

\* Mutant: the pair that was loaded at the start is saved at the end.
TransferredPairLast(d, e) ==
  IF IsIgnored(e) THEN d
  ELSE LET rows == Burned(SentToPair(Minted([d EXCEPT !.tx = TRUE], e), e), e)
           all  == BalanceRead(BalanceRead(rows, e.pair, e.from), e.pair, e.to)
       IN  [all EXCEPT !.pair[e.pair] = rows.pair[e.pair]]

Transferred(d, e) ==
  IF IsIgnored(e) THEN d
  ELSE LET rows == Burned(SentToPair(Minted([d EXCEPT !.tx = TRUE], e), e), e)
       IN  BalanceRead(BalanceRead(rows, e.pair, e.from), e.pair, e.to)

-----------------------------------------------------------------------------
(* The other handlers                                                      *)

PairCreated(d, p) ==
  [d EXCEPT !.pair[p] = [totalSupply |-> 0, liquidityProviderCount |-> 0,
                         reserve |-> 0, reserveUSD |-> 0]]

\* Mutant: the new reserve is taken out of the liquidity of the tokens.
SyncedNewOut(d, p, reserve, price) ==
  LET old == d.pair[p]
  IN  [d EXCEPT !.pair[p] = [@ EXCEPT !.reserve = reserve, !.reserveUSD = reserve * price],
                !.factoryUSD = @ - old.reserveUSD + reserve * price,
                !.tradeLiquidity = [t \in Tokens |->
                  IF t \in {Token0[p], Token1[p]} THEN @[t] - reserve + reserve ELSE @[t]]]

\* The old reserves leave the totals of the tokens and of the factory, new ones join.
Synced(d, p, reserve, price) ==
  LET old == d.pair[p]
  IN  [d EXCEPT !.pair[p] = [@ EXCEPT !.reserve = reserve, !.reserveUSD = reserve * price],
                !.factoryUSD = @ - old.reserveUSD + reserve * price,
                !.tradeLiquidity = [t \in Tokens |->
                  IF t \in {Token0[p], Token1[p]} THEN @[t] - old.reserve + reserve ELSE @[t]]]

MintCompleted(d, p) ==
  WithPosition([d EXCEPT !.mints = WithLast(@, [Last(@) EXCEPT !.complete = TRUE])],
               p, Last(d.mints).to)

BurnCompleted(d, p) ==
  WithPosition([d EXCEPT !.burns = WithLast(@, [Last(@) EXCEPT !.complete = TRUE])],
               p, Last(d.burns).sender)

\* An AmmTrade, whose id carries its place among those of the transaction.
Swapped(d, p) ==
  [d EXCEPT !.tx = TRUE, !.trades = Append(@, p)]

Throw == halted' = TRUE /\ UNCHANGED db

\* Without a Transaction the handler returns, but another handler may have made
\* one.  Without a row, or with one that has no sender, it throws.
HandleBurn(d, e) ==
  LET found == d.burns # <<>> /\ Last(d.burns).sender # None
  IN  \/ ~ d.tx /\ db' = d /\ UNCHANGED halted
      \/ IF found THEN db' = BurnCompleted(d, e.pair) /\ UNCHANGED halted ELSE Throw

\* The rows of the transaction that the first event of one finds.
Opened(d) == [d EXCEPT !.tx = FALSE, !.mints = <<>>, !.burns = <<>>, !.trades = <<>>]

Handler(d, e) ==
  CASE e.kind = "PairCreated" -> db' = PairCreated(d, e.pair) /\ UNCHANGED halted
    [] e.kind = "Transfer" -> db' = Transferred(d, e) /\ UNCHANGED halted
    [] e.kind = "Sync" -> /\ \E price \in Prices : db' = Synced(d, e.pair, e.reserve, price)
                          /\ UNCHANGED halted
    [] e.kind = "Mint" -> IF d.mints = <<>> THEN Throw
                          ELSE db' = MintCompleted(d, e.pair) /\ UNCHANGED halted
    [] e.kind = "Burn" -> HandleBurn(d, e)
    [] e.kind = "Swap" -> db' = Swapped(d, e.pair) /\ UNCHANGED halted

Report(r, e) ==
  CASE e.kind = "Mint" -> [r EXCEPT !.mints = Append(@, e.row)]
    [] e.kind = "Burn" -> [r EXCEPT !.burns = Append(@, e.row)]
    [] e.kind = "Transfer" -> [r EXCEPT !.tidy = @ /\ e.tidy, !.sent = @ \/ e.to = e.pair]
    [] e.kind = "Swap" -> [r EXCEPT !.swaps = Append(@, e.pair)]
    [] OTHER -> r

\* Envio handles the events in order; the head is between two transactions.
Handle ==
  /\ ~ halted /\ pending = <<>> /\ queue # <<>>
  /\ LET m == Head(queue)
     IN  /\ Handler(IF m.first THEN Opened(db) ELSE db, m.event)
         /\ reported' = Report(IF m.first THEN Fresh ELSE reported, m.event)
  /\ queue' = Tail(queue)
  /\ UNCHANGED chain

Next == Chain \/ Handle

\* A transaction that has begun ends, and Envio gives every event to its handler.
Fairness == WF_vars(EndTransaction) /\ WF_vars(Handle)

Spec == Init /\ [][Next]_vars /\ Fairness

-----------------------------------------------------------------------------
(* Properties                                                               *)

\* The complete rows, in order.
Done(rows) ==
  LET done[n \in 0 .. Len(rows)] ==
        IF n = 0 THEN <<>>
        ELSE IF rows[n].complete THEN Append(done[n - 1], rows[n]) ELSE done[n - 1]
  IN  done[Len(rows)]

\* What they say of the calls.
MintRows(rows) ==
  [i \in DOMAIN rows |->
     [pair |-> rows[i].pair, to |-> rows[i].to, liquidity |-> rows[i].liquidity]]
BurnRows(rows) ==
  [i \in DOMAIN rows |-> [pair |-> rows[i].pair, sender |-> rows[i].sender,
                          liquidity |-> rows[i].liquidity, fee |-> rows[i].fee]]

\* amm-core.ts:66-215 with 340-366 and 398-432.  The rows that the handlers put
\* together say what the calls of the transaction did, in order, with the fee of a
\* burn taken out of the mints, as long as no mint paid a fee and every burn
\* followed its own send.  A burn that did not may write its fee into the row of
\* the burn before it, another pair's perhaps, which still needsComplete.
RowsMatchCalls ==
  reported.tidy =>
    /\ MintRows(Done(db.mints)) = reported.mints
    /\ BurnRows(Done(db.burns)) = reported.burns
    /\ db.trades = reported.swaps

\* amm-core.ts:388-389 and 436.  Only a burn in whose transaction nothing was sent
\* to a pair stops the indexer: it has no row, or one without a sender.
HaltsOnlyWithoutSend == halted => ~ reported.sent

AtRest == queue = <<>> /\ pending = <<>> /\ ~ halted

\* amm-core.ts:43-46, 69 and 134 with helpers/amm.ts:36.  When all is handled, the
\* row of a pair has its supply without the locked minimum, plus what burns of
\* exactly that amount were ignored, and counts each provider once.
PairRowsSettle ==
  AtRest => \A p \in Pairs : supply[p] # None =>
    LET row == db.pair[p]
        locked == IF supply[p] = 0 THEN 0 ELSE Minimum
    IN  /\ row.totalSupply = supply[p] - locked + ignored.burns[p] * Minimum
        /\ row.liquidityProviderCount = Cardinality({u \in Users : db.position[p][u] # None})

\* amm-core.ts:246-309.  The liquidity of a token is the reserves of its pairs, and
\* that of the factory their values, each at the price of its last Sync.
LiquidityIsSum ==
  LET known == {p \in Pairs : db.pair[p] # None}
  IN  /\ db.factoryUSD = SumFunction([p \in known |-> db.pair[p].reserveUSD])
      /\ \A t \in Tokens :
           db.tradeLiquidity[t] = SumFunction(
             [p \in {p \in known : t \in {Token0[p], Token1[p]}} |-> db.pair[p].reserve])

\* What is shown of a provider: its balance, if any, unless the handlers ignored what
\* it sent away.
BalanceShown(p, u) ==
  \/ db.position[p][u] = balance[p][u]
  \/ db.position[p][u] = None /\ balance[p][u] = 0
  \/ <<p, u>> \in ignored.sends

\* amm-core.ts:217-231.  However far the head was ahead of the events, in the end
\* every provider is shown with its balance, unless the indexer stopped.
BalancesSettle == <>[](halted \/ \A p \in Pairs, u \in Users : BalanceShown(p, u))
=============================================================================
