------------------------ MODULE MarginPositionsProofs -------------------------
(***************************************************************************)
(* The margin position of an account is well typed, its close columns fit  *)
(* its status, its par columns show pars of the account, and it only ever  *)
(* ends, for every set of tokens and expiration times and every bound.     *)
(*                                                                         *)
(* Good is the part of the invariant about the row alone, with the         *)
(* strengthening the three properties need: an initialised position names  *)
(* two different tokens.  Without it a router event could be taken for the *)
(* opening one, or give both sides of the row one par.                     *)
(***************************************************************************)
EXTENDS MarginPositions, TLAPS

Named(row) ==
  row.isInitialized => /\ row.heldToken \in Tokens /\ row.owedToken \in Tokens
                       /\ row.heldToken # row.owedToken

Good(row) == row \in PositionRow /\ FitsStatus(row) /\ Named(row)

PositionInv == PositionTypeOK /\ Good(mp) /\ MirrorsAccount

-----------------------------------------------------------------------------
(* Pars                                                                    *)

\* The magnitude of a par is a par.
LEMMA AbsIsPar == ASSUME NEW p \in Pars PROVE Abs(p) \in Pars /\ Abs(Abs(p)) = Abs(p)
BY BookConstantsAssumption DEF Pars, Abs

\* What any balance change of the account does: new pars for at most two tokens.
LEMMA MovesPars ==
  ASSUME PositionTypeOK, NEW s \in Tokens, NEW t \in Tokens, NEW p \in Pars, NEW q \in Pars,
         MoveBoth(s, t, p, q)
  PROVE  /\ par' \in [Tokens -> Pars]
         /\ UNCHANGED <<expiry, opened>>
         /\ \A u \in Tokens \ {s, t} : par'[u] = par[u]
BY DEF PositionTypeOK, MoveBoth

LEMMA MovesPar ==
  ASSUME PositionTypeOK, NEW t \in Tokens, NEW p \in Pars, Move(t, p)
  PROVE  /\ par' \in [Tokens -> Pars]
         /\ UNCHANGED <<expiry, opened>>
         /\ \A u \in Tokens \ {t} : par'[u] = par[u]
BY DEF PositionTypeOK, Move

LEMMA SingleSided ==
  ASSUME PositionTypeOK, NEW t \in Tokens,
         Deposit(t) \/ Withdraw(t) \/ Transfer(t) \/ Vaporize(t)
  PROVE  /\ par' \in [Tokens -> Pars]
         /\ UNCHANGED <<expiry, opened>>
         /\ \A u \in Tokens \ {t} : par'[u] = par[u]
<1>1. par[t] \in Pars
  BY DEF PositionTypeOK
<1>2. Ups(par[t]) \subseteq Pars /\ Downs(par[t]) \subseteq Pars
  BY <1>1, BookConstantsAssumption DEF Pars, Ups, Downs
<1>3. par[t] < 0 => par[t] .. 0 \subseteq Pars
  BY <1>1, BookConstantsAssumption DEF Pars
<1>4. PICK p \in Pars : Move(t, p)
  BY <1>2, <1>3 DEF Deposit, Withdraw, Transfer, Vaporize
<1> QED BY <1>4, MovesPar

LEMMA TwoSided ==
  ASSUME PositionTypeOK, NEW s \in Tokens, NEW t \in Tokens,
         Trade(s, t) \/ Liquidate(s, t)
  PROVE  /\ par' \in [Tokens -> Pars]
         /\ UNCHANGED <<expiry, opened>>
         /\ \A u \in Tokens \ {s, t} : par'[u] = par[u]
<1>1. par[s] \in Pars /\ par[t] \in Pars
  BY DEF PositionTypeOK
<1>2. Downs(par[s]) \subseteq Pars /\ Ups(par[t]) \subseteq Pars
  BY <1>1, BookConstantsAssumption DEF Pars, Ups, Downs
<1>3. par[s] > 0 /\ par[t] < 0 => 0 .. par[s] \subseteq Pars /\ par[t] .. 0 \subseteq Pars
  BY <1>1, BookConstantsAssumption DEF Pars
<1>4. PICK p \in Pars, q \in Pars : MoveBoth(s, t, p, q)
  BY <1>2, <1>3 DEF Trade, Liquidate
<1> QED BY <1>4, MovesPars

\* A row that stays as it is shows the pars that did not move.
LEMMA StillMirrors ==
  ASSUME PositionInv, par' \in [Tokens -> Pars], NotTold, mp' = mp
  PROVE  /\ MirrorsAccount'
         /\ heldShows' \in Tokens \union {NoToken} /\ owedShows' \in Tokens \union {NoToken}
<1>1. heldShows' = Kept(heldShows) /\ owedShows' = Kept(owedShows)
  BY DEF NotTold, Shows
<1>2. ASSUME NEW t PROVE /\ Kept(t) \in {t, NoToken}
                         /\ Kept(t) # NoToken => par'[t] = par[t]
  BY DEF Kept
<1>3. heldShows' \in {heldShows, NoToken} /\ owedShows' \in {owedShows, NoToken}
  BY <1>1, <1>2
<1>4. /\ heldShows' # NoToken => par'[heldShows] = par[heldShows]
      /\ owedShows' # NoToken => par'[owedShows] = par[owedShows]
  BY <1>1, <1>2
<1>5. MirrorsAccount'
  BY <1>3, <1>4 DEF PositionInv, MirrorsAccount, ShowsPar, ShowsOwn
<1> QED BY <1>3, <1>5 DEF PositionInv, PositionTypeOK

\* A row that does not change has not been changed in a forbidden way.
LEMMA SameRowOnlyEnds ==
  ASSUME NEW row, Good(row) PROVE OnlyEnds(row, row)
BY DEF Good, PositionRow, OnlyEnds, MayFollow, Statuses

-----------------------------------------------------------------------------
(* What each operator does to a row                                        *)

\* A transfer sets one par and maybe the deposit.
LEMMA TransferredRow ==
  ASSUME NEW row, Good(row), NEW t \in Tokens, NEW p \in Pars, NEW deposit \in BOOLEAN
  PROVE  LET next == Transferred(row, t, p, deposit)
         IN  /\ Good(next) /\ OnlyEnds(row, next)
             /\ next.isInitialized = row.isInitialized
             /\ next.heldToken = row.heldToken /\ next.owedToken = row.owedToken
             /\ row.isInitialized =>
                  /\ next.heldAmountPar = IF row.heldToken = t THEN Abs(p) ELSE row.heldAmountPar
                  /\ next.owedAmountPar = IF row.owedToken = t THEN Abs(p) ELSE row.owedAmountPar
<1> DEFINE next == Transferred(row, t, p, deposit)
<1>1. Abs(p) \in Pars
  BY AbsIsPar
<1>2. CASE ~ row.isInitialized
  BY <1>2, SameRowOnlyEnds DEF Transferred
<1>3. CASE row.isInitialized /\ row.heldToken = t
  <2>1. next \in PositionRow
    BY <1>1, <1>3 DEF Good, PositionRow, Transferred
  <2>2. /\ next.isInitialized = row.isInitialized /\ next.status = row.status
        /\ next.heldToken = row.heldToken /\ next.owedToken = row.owedToken
        /\ next.closeTimestamp = row.closeTimestamp /\ next.closeAmounts = row.closeAmounts
        /\ next.seized = row.seized
        /\ next.heldAmountPar = Abs(p) /\ next.owedAmountPar = row.owedAmountPar
    BY <1>3 DEF Good, PositionRow, Transferred
  <2>3. FitsStatus(next) /\ Named(next) /\ OnlyEnds(row, next)
    BY <2>2, <1>3 DEF Good, PositionRow, FitsStatus, Named, OnlyEnds, MayFollow, Statuses
  <2> QED BY <2>1, <2>2, <2>3, <1>3 DEF Good, Named
<1>4. CASE row.isInitialized /\ row.heldToken # t /\ row.owedToken = t
  <2>1. next \in PositionRow
    BY <1>1, <1>4 DEF Good, PositionRow, Transferred
  <2>2. /\ next.isInitialized = row.isInitialized /\ next.status = row.status
        /\ next.heldToken = row.heldToken /\ next.owedToken = row.owedToken
        /\ next.closeTimestamp = row.closeTimestamp /\ next.closeAmounts = row.closeAmounts
        /\ next.seized = row.seized
        /\ next.heldAmountPar = row.heldAmountPar /\ next.owedAmountPar = Abs(p)
    BY <1>4 DEF Good, PositionRow, Transferred
  <2>3. FitsStatus(next) /\ Named(next) /\ OnlyEnds(row, next)
    BY <2>2, <1>4 DEF Good, PositionRow, FitsStatus, Named, OnlyEnds, MayFollow, Statuses
  <2> QED BY <2>1, <2>2, <2>3, <1>4 DEF Good, Named
<1>5. CASE row.isInitialized /\ row.heldToken # t /\ row.owedToken # t
  BY <1>5, SameRowOnlyEnds DEF Transferred
<1> QED BY <1>2, <1>3, <1>4, <1>5

\* A liquidation or an expiration ends an open or ended position, and leaves any
\* other row alone.
LEMMA LiquidatedRow ==
  ASSUME NEW row, Good(row), NEW p \in Pars, NEW q \in Pars, now \in 0 .. MaxNow,
         NEW status \in {"LIQUIDATED", "EXPIRED"}
  PROVE  LET next == Liquidated(row, p, q, status)
         IN  /\ Good(next) /\ OnlyEnds(row, next)
             /\ next.isInitialized = row.isInitialized
             /\ next.heldToken = row.heldToken /\ next.owedToken = row.owedToken
             /\ IF row.isInitialized /\ row.status \in Endable
                THEN next.heldAmountPar = p /\ next.owedAmountPar = q
                ELSE next = row
<1> DEFINE next == Liquidated(row, p, q, status)
<1>1. CASE ~ (row.isInitialized /\ row.status \in Endable)
  BY <1>1, SameRowOnlyEnds DEF Liquidated
<1>2. CASE row.isInitialized /\ row.status \in Endable
  <2>1. next \in PositionRow
    BY <1>2, ZenonT(40) DEF Good, PositionRow, Liquidated, Statuses
  <2>2. /\ next.isInitialized = row.isInitialized /\ next.status = status
        /\ next.heldToken = row.heldToken /\ next.owedToken = row.owedToken
        /\ next.closeTimestamp = IF row.closeTimestamp = NoTime THEN now ELSE row.closeTimestamp
        /\ next.closeAmounts
        /\ next.seized = IF row.closeAmounts THEN row.seized ELSE "reward"
        /\ next.heldAmountPar = p /\ next.owedAmountPar = q
    BY <1>2 DEF Good, PositionRow, Liquidated
  <2>3. next.closeTimestamp # NoTime
    BY <2>2, PositionConstantsAssumption
  <2>4. FitsStatus(next)
    BY <2>2, <2>3, <1>2 DEF Good, PositionRow, FitsStatus, Endable
  <2>5. OnlyEnds(row, next)
    BY <2>2, <2>3, <1>2 DEF OnlyEnds, MayFollow, Statuses, Endable
  <2>6. Named(next)
    BY <2>2 DEF Good, Named
  <2> QED BY <2>1, <2>2, <2>4, <2>5, <2>6, <1>2 DEF Good
<1> QED BY <1>1, <1>2

\* Taking over two pars for the two tokens of the row, in either order, keeps
\* the row open or closes it.
LEMMA SettledRow ==
  ASSUME PositionTypeOK, NEW row \in PositionRow, row.isInitialized, Named(row),
         row.status # "UNKNOWN", FitsStatus(row), par' = par,
         NEW input \in Tokens, NEW output \in Tokens,
         input # output, {input, output} = {row.heldToken, row.owedToken}
  PROVE  LET next == Settled(row, input, output)
         IN  /\ Good(next) /\ OnlyEnds(row, next) /\ next.isInitialized
             /\ next.heldToken = row.heldToken /\ next.owedToken = row.owedToken
             /\ next.heldAmountPar = Abs(par[row.heldToken])
             /\ next.owedAmountPar = Abs(par[row.owedToken])
<1> DEFINE p == Abs(par[row.heldToken])
           q == Abs(par[row.owedToken])
           settled == [row EXCEPT !.heldAmountPar = p, !.owedAmountPar = q]
           next == Settled(row, input, output)
<1>1. p \in Pars /\ q \in Pars
  BY AbsIsPar DEF PositionTypeOK, Named
<1>2. next = IF settled.owedAmountPar = 0 THEN Closed(settled) ELSE settled
  BY DEF Settled
<1>3. settled \in PositionRow
  BY <1>1 DEF PositionRow
<1>4. /\ settled.isInitialized /\ settled.status = row.status
      /\ settled.heldToken = row.heldToken /\ settled.owedToken = row.owedToken
      /\ settled.heldAmountPar = p /\ settled.owedAmountPar = q
      /\ settled.closeTimestamp = row.closeTimestamp
      /\ settled.closeAmounts = row.closeAmounts /\ settled.seized = row.seized
  BY DEF PositionRow
<1> HIDE DEF settled, p, q
<1>5. CASE settled.owedAmountPar # 0
  <2>1. next = settled
    BY <1>2, <1>5
  <2>2. FitsStatus(next) /\ Named(next) /\ OnlyEnds(row, next)
    BY <2>1, <1>4 DEF FitsStatus, Named, OnlyEnds, MayFollow, PositionRow, Statuses
  <2> QED BY <2>1, <2>2, <1>3, <1>4 DEF Good, p, q
<1>6. CASE settled.owedAmountPar = 0
  <2>1. next = Closed(settled)
    BY <1>2, <1>6
  <2>2. next \in PositionRow
    BY <2>1, <1>3, ZenonT(40) DEF PositionTypeOK, Closed, PositionRow, Statuses
  <2>3. /\ next.isInitialized /\ next.status = "CLOSED"
        /\ next.heldToken = row.heldToken /\ next.owedToken = row.owedToken
        /\ next.heldAmountPar = p /\ next.owedAmountPar = q
        /\ next.closeTimestamp = now /\ next.closeAmounts /\ next.seized = "zero"
    BY <2>1, <1>3, <1>4 DEF Closed, PositionRow
  <2>4. now # NoTime
    BY PositionConstantsAssumption DEF PositionTypeOK
  <2>5. FitsStatus(next) /\ Named(next) /\ OnlyEnds(row, next)
    BY <2>3, <2>4, <1>4, <1>6
    DEF FitsStatus, Named, OnlyEnds, MayFollow, PositionRow, Statuses, StampedByRouter
  <2> QED BY <2>2, <2>3, <2>5 DEF Good, p, q
<1> QED BY <1>5, <1>6

\* The expiration of the owed token does not concern the rest of the row.
LEMMA WithExpirationRow ==
  ASSUME PositionTypeOK, NEW old, NEW row, Good(row), OnlyEnds(old, row), row.isInitialized
  PROVE  LET next == WithExpiration(row)
         IN  /\ Good(next) /\ OnlyEnds(old, next) /\ next.isInitialized
             /\ next.heldToken = row.heldToken /\ next.owedToken = row.owedToken
             /\ next.heldAmountPar = row.heldAmountPar /\ next.owedAmountPar = row.owedAmountPar
<1> DEFINE next == WithExpiration(row)
<1>1. CASE expiry[row.owedToken] = NoTime
  BY <1>1 DEF WithExpiration
<1>2. CASE expiry[row.owedToken] # NoTime
  <2>1. expiry[row.owedToken] \in Times
    BY <1>2 DEF PositionTypeOK, Good, Named
  <2>2. next \in PositionRow
    BY <2>1, <1>2 DEF Good, PositionRow, WithExpiration
  <2>3. /\ next.isInitialized = row.isInitialized /\ next.status = row.status
        /\ next.heldToken = row.heldToken /\ next.owedToken = row.owedToken
        /\ next.closeTimestamp = row.closeTimestamp /\ next.closeAmounts = row.closeAmounts
        /\ next.seized = row.seized
        /\ next.heldAmountPar = row.heldAmountPar /\ next.owedAmountPar = row.owedAmountPar
    BY <1>2 DEF Good, PositionRow, WithExpiration
  <2>4. FitsStatus(next) /\ Named(next) /\ OnlyEnds(old, next)
    BY <2>3 DEF Good, FitsStatus, Named, OnlyEnds, StampedByRouter
  <2> QED BY <2>2, <2>3, <2>4 DEF Good
<1> QED BY <1>1, <1>2

\* What a router event does to the row: it gives it up as UNKNOWN, or takes
\* over the pars of its two tokens, which it names if it is the first.
TradedAs(row, next, tokens, pars) ==
  /\ Good(next) /\ OnlyEnds(row, next) /\ next.isInitialized
  /\ IF row.isInitialized /\ (row.status = "UNKNOWN" \/ ~ tokens \subseteq {row.heldToken, row.owedToken})
     THEN next.heldAmountPar = row.heldAmountPar /\ next.owedAmountPar = row.owedAmountPar
     ELSE /\ next.heldAmountPar = Abs(pars[next.heldToken])
          /\ next.owedAmountPar = Abs(pars[next.owedToken])

LEMMA TradedRow ==
  ASSUME PositionTypeOK, NEW row, Good(row),
         NEW input \in Tokens, NEW output \in Tokens, NEW deposit \in Tokens, input # output,
         NEW hasDeposit \in BOOLEAN, par' = par
  PROVE  TradedAs(row, UpdateMarginPositionForTrade(row, input, output, deposit, hasDeposit),
                  {input, output, deposit}, par)
<1> DEFINE next == UpdateMarginPositionForTrade(row, input, output, deposit, hasDeposit)
           Opened == [row EXCEPT !.owedToken = input, !.heldToken = output,
                                 !.hasDeposit = hasDeposit, !.isInitialized = TRUE]
<1>1. row.heldToken = NoToken <=> ~ row.isInitialized
  BY PositionConstantsAssumption DEF Good, Named, FitsStatus, NewPosition
<1>2. CASE ~ row.isInitialized
  <2>1. row = NewPosition
    BY <1>2 DEF Good, FitsStatus
  <2>2. Opened \in PositionRow
    BY DEF Good, PositionRow
  <2>3. /\ Opened.isInitialized /\ Opened.status = "OPEN"
        /\ Opened.heldToken = output /\ Opened.owedToken = input
        /\ Opened.closeTimestamp = NoTime /\ ~ Opened.closeAmounts
        /\ Opened.seized = "undefined"
    BY <2>1 DEF NewPosition
  <2>4. FitsStatus(Opened) /\ Named(Opened)
    BY <2>3 DEF FitsStatus, Named
  <2> DEFINE settled == Settled(Opened, input, output)
  <2> HIDE DEF Opened
  <2>5. /\ Good(settled) /\ OnlyEnds(Opened, settled) /\ settled.isInitialized
        /\ settled.heldToken = output /\ settled.owedToken = input
        /\ settled.heldAmountPar = Abs(par[output]) /\ settled.owedAmountPar = Abs(par[input])
    <3>1. {input, output} = {Opened.heldToken, Opened.owedToken}
      BY <2>3
    <3>2. Opened.status # "UNKNOWN"
      BY <2>3
    <3> QED BY SettledRow, <2>2, <2>3, <2>4, <3>1, <3>2
  <2> HIDE DEF settled
  <2>6. OnlyEnds(row, settled)
    <3>1. row.status = "OPEN" /\ ~ row.isInitialized /\ row.closeTimestamp = NoTime
      BY <2>1 DEF NewPosition
    <3>2. settled.status \in Statuses
      BY <2>5 DEF Good, PositionRow
    <3>3. settled.closeTimestamp # NoTime => settled.closeTimestamp = now
      BY <2>3, <2>5 DEF OnlyEnds
    <3> QED BY <3>1, <3>2, <3>3 DEF OnlyEnds, MayFollow
  <2>7. next = WithExpiration(settled)
    BY <1>1, <1>2 DEF UpdateMarginPositionForTrade, settled, Opened
  <2> QED BY <2>5, <2>6, <2>7, <1>2, WithExpirationRow DEF TradedAs
<1>3. CASE row.isInitialized /\ IsForeign(row, {input, output, deposit})
  <2>1. next = [row EXCEPT !.status = "UNKNOWN"]
    BY <1>1, <1>3 DEF UpdateMarginPositionForTrade
  <2>2. next \in PositionRow
    BY <2>1 DEF Good, PositionRow, Statuses
  <2>3. /\ next.isInitialized /\ next.status = "UNKNOWN"
        /\ next.heldToken = row.heldToken /\ next.owedToken = row.owedToken
        /\ next.closeTimestamp = row.closeTimestamp
        /\ next.heldAmountPar = row.heldAmountPar /\ next.owedAmountPar = row.owedAmountPar
    BY <2>1, <1>3 DEF Good, PositionRow
  <2> HIDE DEF next
  <2>4. FitsStatus(next)
    BY <2>3 DEF FitsStatus
  <2>5. Named(next) /\ OnlyEnds(row, next)
    BY <2>3, <1>3 DEF Named, OnlyEnds, MayFollow, Statuses, Good, PositionRow
  <2> QED BY <2>2, <2>3, <2>4, <2>5, <1>3 DEF Good, TradedAs, IsForeign, next
<1>4. CASE row.isInitialized /\ ~ IsForeign(row, {input, output, deposit})
  <2> DEFINE settled == Settled(row, input, output)
  <2>1. row.status # "UNKNOWN" /\ {input, output} = {row.heldToken, row.owedToken}
    BY <1>4 DEF IsForeign
  <2>2. /\ Good(settled) /\ OnlyEnds(row, settled) /\ settled.isInitialized
        /\ settled.heldToken = row.heldToken /\ settled.owedToken = row.owedToken
        /\ settled.heldAmountPar = Abs(par[row.heldToken])
        /\ settled.owedAmountPar = Abs(par[row.owedToken])
    BY SettledRow, <2>1, <1>4 DEF Good
  <2>3. next = WithExpiration(settled)
    BY <1>1, <1>4 DEF UpdateMarginPositionForTrade
  <2> HIDE DEF settled
  <2> QED BY <2>1, <2>2, <2>3, <1>4, WithExpirationRow DEF TradedAs, IsForeign
<1> QED BY <1>2, <1>3, <1>4

-----------------------------------------------------------------------------
(* The steps                                                               *)

\* The initial row is the fresh one, which mirrors nothing.
LEMMA PositionInvInit == PositionInit => PositionInv
<1> SUFFICES ASSUME PositionInit PROVE PositionInv
  OBVIOUS
<1>1. NewPosition \in PositionRow
  BY BookConstantsAssumption, PositionConstantsAssumption
  DEF NewPosition, PositionRow, Statuses, Pars
<1>2. PositionTypeOK
  <2>1. par \in [Tokens -> Pars]
    BY BookConstantsAssumption DEF PositionInit, Init, Pars
  <2>2. expiry \in [Tokens -> Times \union {NoTime}] /\ opened \in BOOLEAN
    BY DEF PositionInit, Init
  <2>3. mp \in PositionRow /\ now \in 0 .. MaxNow /\ heldShows = NoToken /\ owedShows = NoToken
    BY <1>1, PositionConstantsAssumption DEF PositionInit
  <2> QED BY <2>1, <2>2, <2>3 DEF PositionTypeOK
<1>3. Good(mp) /\ MirrorsAccount
  BY <1>1 DEF PositionInit, NewPosition, Good, FitsStatus, Named,
               MirrorsAccount, ShowsPar, ShowsOwn
<1> QED BY <1>2, <1>3 DEF PositionInv

\* Steps that leave the row alone.
LEMMA IgnoredStep ==
  ASSUME PositionInv, par' \in [Tokens -> Pars], UNCHANGED <<expiry, opened, mp, now>>,
         NotTold
  PROVE  PositionInv' /\ OnlyEnds(mp, mp')
<1>1. /\ MirrorsAccount'
      /\ heldShows' \in Tokens \union {NoToken} /\ owedShows' \in Tokens \union {NoToken}
  BY StillMirrors
<1>2. Good(mp)' /\ OnlyEnds(mp, mp')
  BY SameRowOnlyEnds DEF PositionInv, Good
<1>3. PositionTypeOK'
  BY <1>1 DEF PositionInv, PositionTypeOK
<1> QED BY <1>1, <1>2, <1>3 DEF PositionInv

\* A transfer to or from an account below 100 of the same owner.
LEMMA TransferStep ==
  ASSUME PositionInv, NEW t \in Tokens, LogTransfer(t)
  PROVE  PositionInv' /\ OnlyEnds(mp, mp')
<1>1. /\ par' \in [Tokens -> Pars] /\ UNCHANGED <<expiry, opened, now>>
      /\ \A u \in Tokens \ {t} : par'[u] = par[u]
  BY SingleSided DEF LogTransfer, PositionInv
<1>2. PICK deposit \in BOOLEAN : mp' = Transferred(mp, t, par'[t], deposit)
  BY DEF LogTransfer
<1>3. /\ Good(mp') /\ OnlyEnds(mp, mp')
      /\ mp'.isInitialized = mp.isInitialized
      /\ mp'.heldToken = mp.heldToken /\ mp'.owedToken = mp.owedToken
      /\ mp.isInitialized =>
           /\ mp'.heldAmountPar = IF mp.heldToken = t THEN Abs(par'[t]) ELSE mp.heldAmountPar
           /\ mp'.owedAmountPar = IF mp.owedToken = t THEN Abs(par'[t]) ELSE mp.owedAmountPar
  BY <1>1, <1>2, TransferredRow DEF PositionInv
<1>4. /\ heldShows' = IF t = mp.heldToken THEN t ELSE Kept(heldShows)
      /\ owedShows' = IF t = mp.owedToken THEN t ELSE Kept(owedShows)
  BY DEF LogTransfer, Shows
<1>5. /\ heldShows' \in {t, heldShows, NoToken} /\ owedShows' \in {t, owedShows, NoToken}
      /\ t # mp.heldToken => heldShows' \in {heldShows, NoToken}
      /\ t # mp.owedToken => owedShows' \in {owedShows, NoToken}
      /\ t # mp.heldToken /\ heldShows' # NoToken => par'[heldShows] = par[heldShows]
      /\ t # mp.owedToken /\ owedShows' # NoToken => par'[owedShows] = par[owedShows]
  BY <1>4 DEF Kept
<1>6. PositionTypeOK'
  BY <1>1, <1>3, <1>5 DEF PositionInv, PositionTypeOK, Good
<1>7. ~ mp.isInitialized => mp' = mp
  BY <1>2 DEF Transferred
<1>8. Abs(Abs(par'[t])) = Abs(par'[t])
  BY <1>1, AbsIsPar
<1>9. t \in {mp.heldToken, mp.owedToken} => mp.isInitialized
  BY PositionConstantsAssumption DEF PositionInv, Good, FitsStatus, NewPosition
<1>10. ShowsPar(mp.heldAmountPar, heldShows, par)' /\ ShowsPar(mp.owedAmountPar, owedShows, par)'
  BY <1>3, <1>4, <1>5, <1>7, <1>8, <1>9 DEF PositionInv, MirrorsAccount, ShowsPar
<1>11. mp'.status = mp.status
  BY <1>2 DEF Transferred, PositionInv, Good, PositionRow
<1>12. ShowsOwn(mp, heldShows, owedShows)'
  BY <1>3, <1>4, <1>5, <1>11 DEF PositionInv, MirrorsAccount, ShowsOwn
<1> QED BY <1>3, <1>6, <1>10, <1>12 DEF PositionInv, MirrorsAccount

\* MarginPositionOpen and MarginPositionClose.
LEMMA RouterStep ==
  ASSUME PositionInv, NEW input \in Tokens, NEW output \in Tokens, NEW deposit \in Tokens,
         NEW hasDeposit \in BOOLEAN, MarginPositionEvent(input, output, deposit, hasDeposit)
  PROVE  PositionInv' /\ OnlyEnds(mp, mp')
<1> DEFINE foreign == IsForeign(mp, {input, output, deposit})
<1>1. UNCHANGED <<par, expiry, opened, now>> /\ input # output
  BY DEF MarginPositionEvent
<1>2. mp' = UpdateMarginPositionForTrade(mp, input, output, deposit, hasDeposit)
  BY DEF MarginPositionEvent
<1>3. TradedAs(mp, mp', {input, output, deposit}, par)
  BY <1>1, <1>2, TradedRow DEF PositionInv
<1>4. mp.heldToken = NoToken <=> ~ mp.isInitialized
  BY PositionConstantsAssumption DEF PositionInv, Good, Named, FitsStatus, NewPosition
<1>5. IF mp.isInitialized /\ foreign
      THEN UNCHANGED shows ELSE heldShows' = mp'.heldToken /\ owedShows' = mp'.owedToken
  BY <1>4 DEF MarginPositionEvent, Shows
<1>6. PositionTypeOK'
  BY <1>1, <1>3, <1>5 DEF PositionInv, PositionTypeOK, Good, Named, TradedAs, shows
<1>7. MirrorsAccount'
  <2>1. CASE mp.isInitialized /\ foreign
    <3>1. /\ mp'.isInitialized /\ mp'.heldToken = mp.heldToken /\ mp'.owedToken = mp.owedToken
          /\ mp'.heldAmountPar = mp.heldAmountPar /\ mp'.owedAmountPar = mp.owedAmountPar
      BY <2>1, <1>3 DEF TradedAs, OnlyEnds, IsForeign
    <3>2. par' = par /\ heldShows' = heldShows /\ owedShows' = owedShows
      BY <2>1, <1>1, <1>5 DEF shows
    <3>3. mp'.status = "UNKNOWN"
      BY <2>1, <1>2, <1>4, <2>1 DEF UpdateMarginPositionForTrade, PositionInv, Good, PositionRow
    <3> QED BY <3>1, <3>2, <3>3 DEF PositionInv, MirrorsAccount, ShowsPar, ShowsOwn
  <2>2. CASE ~ (mp.isInitialized /\ foreign)
    <3>1. mp'.heldToken \in Tokens /\ mp'.owedToken \in Tokens
      BY <1>3 DEF TradedAs, Good, Named
    <3>2. /\ mp'.heldAmountPar = Abs(par[mp'.heldToken])
          /\ mp'.owedAmountPar = Abs(par[mp'.owedToken])
      BY <2>2, <1>3 DEF TradedAs, IsForeign
    <3>3. /\ Abs(mp'.heldAmountPar) = Abs(par[mp'.heldToken])
          /\ Abs(mp'.owedAmountPar) = Abs(par[mp'.owedToken])
      BY <3>1, <3>2, AbsIsPar DEF PositionInv, PositionTypeOK
    <3> QED BY <1>1, <1>5, <2>2, <3>3 DEF MirrorsAccount, ShowsPar, ShowsOwn
  <2> QED BY <2>1, <2>2
<1> QED BY <1>3, <1>6, <1>7 DEF PositionInv, TradedAs

\* An event that ends the position takes over the pars of two markets, which may be
\* any: the position is not open or closed after it.
LEMMA EndingStep ==
  ASSUME PositionInv, par' \in [Tokens -> Pars], UNCHANGED <<expiry, opened, now>>,
         NEW held \in Tokens, NEW owed \in Tokens, NEW status \in {"LIQUIDATED", "EXPIRED"},
         mp' = Liquidated(mp, par'[held], par'[owed], status), TakenOver(held, owed)
  PROVE  PositionInv' /\ OnlyEnds(mp, mp')
<1>1. /\ Good(mp') /\ OnlyEnds(mp, mp')
      /\ IF mp.isInitialized /\ mp.status \in Endable
         THEN mp'.heldAmountPar = par'[held] /\ mp'.owedAmountPar = par'[owed]
         ELSE mp' = mp
  <2> DEFINE next == Liquidated(mp, par'[held], par'[owed], status)
  <2>1. par'[held] \in Pars /\ par'[owed] \in Pars
    OBVIOUS
  <2>2. /\ Good(next) /\ OnlyEnds(mp, next)
        /\ IF mp.isInitialized /\ mp.status \in Endable
           THEN next.heldAmountPar = par'[held] /\ next.owedAmountPar = par'[owed]
           ELSE next = mp
    BY <2>1, LiquidatedRow, ZenonT(60) DEF PositionInv, PositionTypeOK
  <2>3. mp' = next
    OBVIOUS
  <2> HIDE DEF next
  <2> QED BY <2>2, <2>3
<1>2. CASE ~ (mp.isInitialized /\ mp.status \in Endable)
  <2>1. NotTold /\ mp' = mp
    BY <1>1, <1>2 DEF TakenOver
  <2> QED BY <2>1, IgnoredStep
<1>3. CASE mp.isInitialized /\ mp.status \in Endable
  <2>1. heldShows' = held /\ owedShows' = owed
    BY <1>3 DEF TakenOver, Shows
  <2>2. PositionTypeOK'
    BY <2>1, <1>1 DEF PositionInv, PositionTypeOK, Good
  <2>3. mp'.status = status
    BY <1>3 DEF Liquidated, PositionInv, Good, PositionRow
  <2>4. MirrorsAccount'
    BY <2>1, <2>3, <1>1, <1>3 DEF MirrorsAccount, ShowsPar, ShowsOwn
  <2> QED BY <1>1, <2>2, <2>4 DEF PositionInv
<1> QED BY <1>2, <1>3

\* The liquid account of a liquidation.
LEMMA LiquidateStep ==
  ASSUME PositionInv, NEW held \in Tokens, NEW owed \in Tokens, LogLiquidate(held, owed)
  PROVE  PositionInv' /\ OnlyEnds(mp, mp')
<1>1. par' \in [Tokens -> Pars] /\ UNCHANGED <<expiry, opened, now>>
  BY TwoSided DEF LogLiquidate, PositionInv
<1>2. /\ mp' = Liquidated(mp, par'[held], par'[owed], "LIQUIDATED")
      /\ TakenOver(held, owed)
  BY DEF LogLiquidate
<1> QED BY <1>1, <1>2, EndingStep

\* The account that expires.
LEMMA ExpiryTradeStep ==
  ASSUME PositionInv, NEW give \in Tokens, NEW get \in Tokens, NEW input \in Tokens,
         LogExpiryTrade(give, get, input)
  PROVE  PositionInv' /\ OnlyEnds(mp, mp')
<1> DEFINE output == IF input = give THEN get ELSE give
           held == SideFor(mp.heldToken, input, output)
           owed == SideFor(mp.owedToken, input, output)
<1>1. par' \in [Tokens -> Pars] /\ UNCHANGED <<expiry, opened, now>>
  BY TwoSided DEF LogExpiryTrade, PositionInv
<1>2. CASE mp.expirationTimestamp = NoTime
  <2>1. NotTold /\ mp' = mp
    BY <1>2 DEF LogExpiryTrade
  <2> QED BY <1>1, <2>1, IgnoredStep
<1>3. CASE mp.expirationTimestamp # NoTime
  <2>1. /\ mp' = Liquidated(mp, par'[held], par'[owed], "EXPIRED")
        /\ TakenOver(held, owed)
    BY <1>3 DEF LogExpiryTrade
  <2>2. held \in Tokens /\ owed \in Tokens
    BY DEF SideFor
  <2> HIDE DEF held, owed
  <2> QED BY <1>1, <2>1, <2>2, EndingStep
<1> QED BY <1>2, <1>3

\* The vapor account: its debt is forgiven, whether or not the row follows.
LEMMA VaporizeStep ==
  ASSUME PositionInv, NEW owed \in Tokens, LogVaporize(owed)
  PROVE  PositionInv' /\ OnlyEnds(mp, mp')
<1>1. /\ par' \in [Tokens -> Pars] /\ UNCHANGED <<expiry, opened, now>>
      /\ \A u \in Tokens \ {owed} : par'[u] = par[u]
  BY SingleSided DEF LogVaporize, PositionInv
<1>2. CASE mp.status # "LIQUIDATED"
  <2>1. NotTold /\ mp' = mp
    BY <1>2 DEF LogVaporize
  <2> QED BY <1>1, <2>1, IgnoredStep
<1>3. CASE mp.status = "LIQUIDATED"
  <2>1. mp.isInitialized
    BY <1>3 DEF PositionInv, Good, FitsStatus, NewPosition
  <2>3. mp' = [mp EXCEPT !.owedAmountPar = par'[owed]]
    BY <1>3 DEF LogVaporize
  <2>4. heldShows' = Kept(heldShows) /\ owedShows' = owed
    BY <1>3 DEF LogVaporize, Shows
  <2>5. mp' \in PositionRow
    BY <2>3, <1>1 DEF PositionInv, Good, PositionRow
  <2>6. /\ mp'.isInitialized /\ mp'.status = mp.status
        /\ mp'.heldToken = mp.heldToken /\ mp'.owedToken = mp.owedToken
        /\ mp'.closeTimestamp = mp.closeTimestamp /\ mp'.closeAmounts = mp.closeAmounts
        /\ mp'.seized = mp.seized
        /\ mp'.heldAmountPar = mp.heldAmountPar /\ mp'.owedAmountPar = par'[owed]
    BY <2>1, <2>3 DEF PositionInv, Good, PositionRow
  <2>7. Good(mp') /\ OnlyEnds(mp, mp')
    BY <2>1, <2>5, <2>6
    DEF PositionInv, Good, FitsStatus, Named, OnlyEnds, MayFollow, PositionRow, Statuses
  <2>8. /\ heldShows' \in {heldShows, NoToken}
        /\ heldShows' # NoToken => par'[heldShows] = par[heldShows]
    BY <2>4 DEF Kept
  <2>9. PositionTypeOK'
    BY <1>1, <2>4, <2>5, <2>8 DEF PositionInv, PositionTypeOK
  <2>10. MirrorsAccount'
    BY <1>3, <2>4, <2>6, <2>8 DEF PositionInv, MirrorsAccount, ShowsPar, ShowsOwn
  <2> QED BY <2>7, <2>9, <2>10 DEF PositionInv
<1> QED BY <1>2, <1>3

\* An expiration concerns nothing else in the row.
LEMMA ExpirySetStep ==
  ASSUME PositionInv, NEW t \in Tokens, NEW time \in Times \union {NoTime}, ExpirySet(t, time)
  PROVE  PositionInv' /\ OnlyEnds(mp, mp')
<1>1. /\ UNCHANGED <<par, opened, now, heldShows, owedShows>>
      /\ expiry' = [expiry EXCEPT ![t] = time]
      /\ mp' \in {mp, [mp EXCEPT !.expirationTimestamp = time]}
  BY DEF ExpirySet, SetExpiry, shows
<1>2. expiry' \in [Tokens -> Times \union {NoTime}]
  BY <1>1 DEF PositionInv, PositionTypeOK
<1>3. mp' \in PositionRow
  BY <1>1 DEF PositionInv, Good, PositionRow
<1>4. /\ mp'.isInitialized = mp.isInitialized /\ mp'.status = mp.status
      /\ mp'.heldToken = mp.heldToken /\ mp'.owedToken = mp.owedToken
      /\ mp'.closeTimestamp = mp.closeTimestamp /\ mp'.closeAmounts = mp.closeAmounts
      /\ mp'.seized = mp.seized /\ mp'.hasDeposit = mp.hasDeposit
      /\ mp'.heldAmountPar = mp.heldAmountPar /\ mp'.owedAmountPar = mp.owedAmountPar
  BY <1>1 DEF PositionInv, Good, PositionRow
<1>5. ~ mp.isInitialized => mp' = mp
  BY DEF ExpirySet, PositionInv, Good, FitsStatus, NewPosition
<1>6. Good(mp') /\ OnlyEnds(mp, mp')
  BY <1>3, <1>4, <1>5
  DEF PositionInv, Good, FitsStatus, Named, OnlyEnds, MayFollow, PositionRow, Statuses
<1>7. PositionTypeOK'
  BY <1>1, <1>2, <1>3 DEF PositionInv, PositionTypeOK
<1>8. MirrorsAccount'
  BY <1>1, <1>4 DEF PositionInv, MirrorsAccount, ShowsPar, ShowsOwn
<1> QED BY <1>6, <1>7, <1>8 DEF PositionInv

\* Every step keeps the invariant and only ends positions.
LEMMA PositionInvStep ==
  ASSUME PositionInv, [PositionNext]_vars PROVE PositionInv' /\ OnlyEnds(mp, mp')
<1>1. CASE UNCHANGED vars
  <2>1. PositionInv'
    BY <1>1 DEF vars, shows, PositionInv, PositionTypeOK, Good, FitsStatus, Named,
                MirrorsAccount, ShowsPar, ShowsOwn
  <2> QED BY <1>1, <2>1, SameRowOnlyEnds DEF vars, PositionInv
<1>2. ASSUME NEW t \in Tokens, LogDeposit(t) \/ LogWithdraw(t) \/ LogForeignTransfer(t)
      PROVE  PositionInv' /\ OnlyEnds(mp, mp')
  <2>1. /\ par' \in [Tokens -> Pars] /\ UNCHANGED <<expiry, opened, mp, now>>
        /\ NotTold
    BY <1>2, SingleSided DEF LogDeposit, LogWithdraw, LogForeignTransfer, Ignored, PositionInv
  <2> QED BY <2>1, IgnoredStep
<1>3. ASSUME NEW give \in Tokens, NEW get \in Tokens, LogTrade(give, get)
      PROVE  PositionInv' /\ OnlyEnds(mp, mp')
  <2>1. /\ par' \in [Tokens -> Pars] /\ UNCHANGED <<expiry, opened, mp, now>>
        /\ NotTold
    BY <1>3, TwoSided DEF LogTrade, Ignored, PositionInv
  <2> QED BY <2>1, IgnoredStep
<1>4. ASSUME BorrowPositionOpen \/ Tick PROVE PositionInv' /\ OnlyEnds(mp, mp')
  <2>1. /\ UNCHANGED <<par, expiry, mp, heldShows, owedShows>>
        /\ opened' \in BOOLEAN /\ now' \in 0 .. MaxNow
    <3>1. CASE BorrowPositionOpen
      BY <3>1 DEF BorrowPositionOpen, OpenBorrowPosition, PositionInv, PositionTypeOK, shows
    <3>2. CASE Tick
      <4>1. now \in 0 .. MaxNow /\ opened \in BOOLEAN
        BY DEF PositionInv, PositionTypeOK
      <4>2. UNCHANGED <<par, expiry, opened, mp, heldShows, owedShows>> /\ now < MaxNow /\ now' = now + 1
        BY <3>2 DEF Tick, shows
      <4>3. now' \in 0 .. MaxNow
        BY <4>1, <4>2, PositionConstantsAssumption
      <4> QED BY <4>1, <4>2, <4>3
    <3> QED BY <1>4, <3>1, <3>2
  <2>2. PositionInv'
    BY <2>1 DEF PositionInv, PositionTypeOK, Good, FitsStatus, Named,
                MirrorsAccount, ShowsPar, ShowsOwn
  <2> QED BY <2>1, <2>2, SameRowOnlyEnds DEF PositionInv
<1> QED
  BY <1>1, <1>2, <1>3, <1>4, TransferStep, VaporizeStep, LiquidateStep, ExpiryTradeStep,
     RouterStep, ExpirySetStep
  DEF PositionNext

-----------------------------------------------------------------------------
(* The theorems                                                            *)

\* The inductive invariant: types, the columns of each status, two different
\* tokens once initialised, and the pars the columns show.
THEOREM PositionInvariant == PositionSpec => []PositionInv
BY PositionInvInit, PositionInvStep, PTL DEF PositionSpec

\* Every row, clock and history of a run is well typed.
THEOREM PositionTypes == PositionSpec => []PositionTypeOK
<1>1. PositionInv => PositionTypeOK
  BY DEF PositionInv
<1> QED BY <1>1, PositionInvariant, PTL

\* margin.ts:595-676, margin-position-proxy.ts:64-96, margin-core.ts:1234-1257,
\* 1437-1452 and 1473-1545: a column shows the par of the market it was last told of
\* until that par moves without the row, and that market is the position's own while
\* the position is open or closed.
THEOREM PositionMirrors == PositionSpec => []MirrorsAccount
<1>1. PositionInv => MirrorsAccount
  BY DEF PositionInv
<1> QED BY <1>1, PositionInvariant, PTL

\* The close columns of margin-position-proxy.ts:140-167 and margin-core.ts:1495-1541
\* say what the status says.
THEOREM PositionColumnsFit == PositionSpec => []CloseColumnsFitStatus
<1>1. PositionInv => CloseColumnsFitStatus
  BY DEF PositionInv, Good, CloseColumnsFitStatus
<1> QED BY <1>1, PositionInvariant, PTL

\* No event reopens a position, changes its tokens, or liquidates or expires one that
\* is CLOSED; only a router event with nothing owed moves a close time once written.
THEOREM PositionsOnlyEnd == PositionSpec => PositionOnlyEnds
<1>1. PositionInv /\ [PositionNext]_vars => [OnlyEnds(mp, mp')]_vars
  BY PositionInvStep
<1> QED BY <1>1, PositionInvariant, PTL DEF PositionSpec, PositionOnlyEnds
=============================================================================
