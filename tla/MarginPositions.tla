--------------------------- MODULE MarginPositions ----------------------------
(***************************************************************************)
(* The MarginPosition row of one account with accountNumber >= 100, kept   *)
(* by six handlers in three files (margin-position-proxy.ts, margin-core.ts *)
(* and margin-expiration.ts).  Every action is the account's own step in   *)
(* AccountBook, which MarginLedger implements, joined with what the handler*)
(* of that event does to the row; the other party of an event is left out. *)
(*                                                                         *)
(* The row only hears of some of the events that move the account's pars:  *)
(* the router's, transfers to and from the owner's accounts below 100,     *)
(* liquidations and expirations, and the last two whatever markets they    *)
(* name.  heldShows and owedShows are history variables: the market whose  *)
(* par the column last took over, which need not be the position's, and    *)
(* NoToken before that and once the par has moved without the row.         *)
(*                                                                         *)
(* A row that was never set is the fresh one, ~ isInitialized: a handler   *)
(* sets a row for the first time only in the step that initialises it.     *)
(* MaxNow bounds the block timestamps.                                     *)
(***************************************************************************)
EXTENDS AccountBook, FiniteSets

CONSTANTS NoToken, \* heldToken === undefined
          MaxNow

ASSUME PositionConstantsAssumption ==
  /\ NoToken \notin Tokens
  /\ MaxNow \in Nat /\ Times \subseteq 1 .. MaxNow /\ NoTime \notin 0 .. MaxNow

VARIABLES mp,     \* the MarginPosition row
          now,    \* block.timestamp
          heldShows, owedShows

shows == <<heldShows, owedShows>>
vars == <<par, expiry, opened, mp, now, shows>>

Abs(x) == IF x < 0 THEN -x ELSE x

Statuses == {"OPEN", "CLOSED", "EXPIRED", "LIQUIDATED", "UNKNOWN"}

\* hasDeposit: marginDeposit is not zero.  seized: closeHeldAmountSeized is
\* undefined, zero or the reward of a liquidation.  closeAmounts: the close
\* prices and amounts are defined.
PositionRow ==
  [isInitialized : BOOLEAN, status : Statuses,
   heldToken : Tokens \union {NoToken}, owedToken : Tokens \union {NoToken},
   heldAmountPar : Pars, owedAmountPar : Pars, hasDeposit : BOOLEAN,
   closeTimestamp : 0 .. MaxNow \union {NoTime}, closeAmounts : BOOLEAN,
   seized : {"undefined", "zero", "reward"},
   expirationTimestamp : Times \union {NoTime}]

NewPosition ==
  [isInitialized |-> FALSE, status |-> "OPEN", heldToken |-> NoToken, owedToken |-> NoToken,
   heldAmountPar |-> 0, owedAmountPar |-> 0, hasDeposit |-> FALSE,
   closeTimestamp |-> NoTime, closeAmounts |-> FALSE, seized |-> "undefined",
   expirationTimestamp |-> NoTime]

PositionInit ==
  Init /\ mp = NewPosition /\ now = 0 /\ heldShows = NoToken /\ owedShows = NoToken

\* What a column that is not written still shows.
Kept(t) == IF t # NoToken /\ par'[t] = par[t] THEN t ELSE NoToken

Shows(held, owed) == heldShows' = held /\ owedShows' = owed
NotTold == Shows(Kept(heldShows), Kept(owedShows))
Ignored == NotTold /\ UNCHANGED <<mp, now>>

-----------------------------------------------------------------------------
(* Balance events that do not reach the row                                *)

LogDeposit(t) == Deposit(t) /\ Ignored
LogWithdraw(t) == Withdraw(t) /\ Ignored

\* LogTrade, LogSell, LogBuy, and the solid side of LogLiquidate and LogVaporize.
LogTrade(give, get) == Trade(give, get) /\ Ignored

\* updateMarginPositionForTransfer returns unless the two accounts have one
\* owner and exactly one of them is >= 100.
LogForeignTransfer(t) == Transfer(t) /\ Ignored

BorrowPositionOpen == OpenBorrowPosition /\ UNCHANGED <<mp, now, shows>>

-----------------------------------------------------------------------------
(* Transfers between the account and one below 100 of the same owner       *)

\* deposit: marginDeposit is not zero after the upsize or downsize.
Transferred(row, t, newPar, deposit) ==
  IF ~ row.isInitialized THEN row
  ELSE IF row.heldToken = t
       THEN [row EXCEPT !.heldAmountPar = Abs(newPar),
                        !.hasDeposit = IF row.status = "OPEN" /\ newPar # 0 THEN deposit ELSE @]
  ELSE IF row.owedToken = t THEN [row EXCEPT !.owedAmountPar = Abs(newPar)]
  ELSE row

LogTransfer(t) ==
  /\ Transfer(t) /\ par'[t] # par[t]
  /\ \E deposit \in BOOLEAN :
       /\ par'[t] > par[t] => deposit                  \* plus the amount
       /\ par'[t] < par[t] => (deposit => mp.hasDeposit) \* minus it, or zero
       /\ mp' = Transferred(mp, t, par'[t], deposit)
  /\ Shows(IF t = mp.heldToken THEN t ELSE Kept(heldShows),
           IF t = mp.owedToken THEN t ELSE Kept(owedShows))
  /\ UNCHANGED now

-----------------------------------------------------------------------------
(* MarginPositionOpen and MarginPositionClose                              *)

\* Mutant: the close does not say that nothing was seized.
ClosedOnly(row) ==
  [row EXCEPT !.status = "CLOSED", !.closeTimestamp = now, !.closeAmounts = TRUE]

\* The prices and amounts of the close are computed; nothing has been seized.
Closed(row) ==
  [row EXCEPT !.status = "CLOSED", !.closeTimestamp = now,
              !.closeAmounts = TRUE, !.seized = "zero"]

IsForeign(row, tokens) ==
  row.status = "UNKNOWN" \/ ~ tokens \subseteq {row.heldToken, row.owedToken}

\* Mutant: the output token is always the held one, as when a position opens.
SettledAsOpened(row, input, output) ==
  LET settled == [row EXCEPT !.heldAmountPar = Abs(par[output]), !.owedAmountPar = Abs(par[input])]
  IN  IF settled.owedAmountPar = 0 THEN Closed(settled) ELSE settled

\* The row takes over both pars, and closes when nothing is owed any more.
Settled(row, input, output) ==
  LET ParOf(t) == IF t = input THEN par[input] ELSE par[output]
      settled == [row EXCEPT !.heldAmountPar = Abs(ParOf(row.heldToken)),
                             !.owedAmountPar = Abs(ParOf(row.owedToken))]
  IN  IF settled.owedAmountPar = 0 THEN Closed(settled) ELSE settled

WithExpiration(row) ==
  IF expiry[row.owedToken] = NoTime THEN row
  ELSE [row EXCEPT !.expirationTimestamp = expiry[row.owedToken]]

\* updateMarginPositionForTrade.  The first event, of either kind, makes the
\* input the owed token and the output the held one.
UpdateMarginPositionForTrade(row, input, output, deposit, hasDeposit) ==
  IF row.heldToken = NoToken
  THEN WithExpiration(Settled([row EXCEPT !.owedToken = input, !.heldToken = output,
                                          !.hasDeposit = hasDeposit, !.isInitialized = TRUE],
                              input, output))
  ELSE IF IsForeign(row, {input, output, deposit}) THEN [row EXCEPT !.status = "UNKNOWN"]
  ELSE WithExpiration(Settled(row, input, output))

\* MarginPositionOpen and MarginPositionClose, which differ only in the signs of
\* the prices.  The router emits them after its trade, with the pars the ledger
\* then holds; they are ignored for an account with a borrow position.
MarginPositionEvent(input, output, deposit, hasDeposit) ==
  /\ input # output /\ ~ opened
  /\ mp' = UpdateMarginPositionForTrade(mp, input, output, deposit, hasDeposit)
  /\ IF mp.heldToken # NoToken /\ IsForeign(mp, {input, output, deposit})
     THEN UNCHANGED shows ELSE Shows(mp'.heldToken, mp'.owedToken)
  /\ UNCHANGED <<par, expiry, opened, now>>

-----------------------------------------------------------------------------
(* Liquidations, vaporizations and expirations                             *)

Endable == {"OPEN", "LIQUIDATED", "EXPIRED"}

\* Mutant: every end of the position writes the close columns anew.
LiquidatedAnew(row, heldPar, owedPar, status) ==
  IF row.isInitialized /\ row.status \in Endable
  THEN [row EXCEPT !.status = status, !.heldAmountPar = heldPar, !.owedAmountPar = owedPar,
                   !.closeTimestamp = now, !.closeAmounts = TRUE, !.seized = "reward"]
  ELSE row

\* handleLiquidateMarginPosition: the pars of the event, with their signs; the
\* close columns keep what the first end of the position wrote.
Liquidated(row, heldPar, owedPar, status) ==
  IF row.isInitialized /\ row.status \in Endable
  THEN [row EXCEPT !.status = status, !.heldAmountPar = heldPar, !.owedAmountPar = owedPar,
                   !.closeTimestamp = IF @ = NoTime THEN now ELSE @,
                   !.closeAmounts = TRUE,
                   !.seized = IF row.closeAmounts THEN @ ELSE "reward"]
  ELSE row

\* The row takes over the pars of the markets of the event, whether or not they
\* are the held and the owed market of the position.
TakenOver(held, owed) ==
  IF mp.isInitialized /\ mp.status \in Endable THEN Shows(held, owed) ELSE NotTold

LogLiquidate(held, owed) ==
  /\ Liquidate(held, owed)
  /\ mp' = Liquidated(mp, par'[held], par'[owed], "LIQUIDATED")
  /\ TakenOver(held, owed)
  /\ UNCHANGED now

\* The vapor account; the row follows only once it has been liquidated, and
\* again whatever the market.
LogVaporize(owed) ==
  /\ Vaporize(owed)
  /\ IF mp.status = "LIQUIDATED"
     THEN mp' = [mp EXCEPT !.owedAmountPar = par'[owed]] /\ Shows(Kept(heldShows), owed)
     ELSE NotTold /\ UNCHANGED mp
  /\ UNCHANGED now

\* The side of the trade that a column takes: the output's if that is its market.
SideFor(t, input, output) == IF t = output THEN output ELSE input

\* A trade against the expiry contract with the account as its maker: it gives
\* collateral and gets what it owes, as input and output or the other way round.
\* Without an expirationTimestamp the handler logs an error and returns.
LogExpiryTrade(give, get, input) ==
  /\ input \in {give, get} /\ par[get] < 0
  /\ expiry[get] \notin {time \in Times : time > now}
  /\ Trade(give, get)
  /\ LET output == IF input = give THEN get ELSE give
         held == SideFor(mp.heldToken, input, output)
         owed == SideFor(mp.owedToken, input, output)
     IN  IF mp.expirationTimestamp = NoTime THEN NotTold /\ UNCHANGED mp
         ELSE mp' = Liquidated(mp, par'[held], par'[owed], "EXPIRED") /\ TakenOver(held, owed)
  /\ UNCHANGED now

\* An expiry of zero seconds removes the expiration, unless it has passed: the
\* event precedes the LogTrade that expires the whole account.
ExpirySet(t, time) ==
  /\ time # NoTime => time > now
  /\ SetExpiry(t, time)
  /\ mp' = IF mp.hasDeposit /\ mp.status = "OPEN"
              /\ ~ (/\ time = NoTime
                    /\ mp.expirationTimestamp # NoTime /\ mp.expirationTimestamp < now)
           THEN [mp EXCEPT !.expirationTimestamp = time] ELSE mp
  /\ UNCHANGED <<now, shows>>

Tick == now < MaxNow /\ now' = now + 1 /\ UNCHANGED <<par, expiry, opened, mp, shows>>

-----------------------------------------------------------------------------

PositionNext ==
  \/ \E t \in Tokens : \/ LogDeposit(t)
                       \/ LogWithdraw(t)
                       \/ LogForeignTransfer(t)
                       \/ LogTransfer(t)
                       \/ LogVaporize(t)
  \/ \E s, t \in Tokens : LogTrade(s, t) \/ LogLiquidate(s, t)
  \/ \E s, t, input \in Tokens : LogExpiryTrade(s, t, input)
  \/ \E input, output, deposit \in Tokens, hasDeposit \in BOOLEAN :
       MarginPositionEvent(input, output, deposit, hasDeposit)
  \/ \E t \in Tokens, time \in Times \union {NoTime} : ExpirySet(t, time)
  \/ BorrowPositionOpen
  \/ Tick

PositionSpec == PositionInit /\ [][PositionNext]_vars

-----------------------------------------------------------------------------
(* Properties                                                              *)

\* The row, the clock and the history have their types.
PositionTypeOK ==
  /\ par \in [Tokens -> Pars] /\ expiry \in [Tokens -> Times \union {NoTime}]
  /\ opened \in BOOLEAN
  /\ mp \in PositionRow /\ now \in 0 .. MaxNow
  /\ heldShows \in Tokens \union {NoToken} /\ owedShows \in Tokens \union {NoToken}

ShowsPar(amount, t, pars) == t # NoToken => Abs(amount) = Abs(pars[t])

\* Only a liquidation, a vaporization or an expiration writes the par of a market
\* that is not the position's.
ShowsOwn(row, held, owed) ==
  row.status \in {"OPEN", "CLOSED"} =>
    held \in {row.heldToken, NoToken} /\ owed \in {row.owedToken, NoToken}

\* margin.ts:595-676, margin-position-proxy.ts:64-96, margin-core.ts:1234-1257,
\* 1437-1452 and 1473-1545.  Each column shows, up to the sign, the par that its side
\* of the account has in the market it was last told of, until an event the row does
\* not hear of moves that par; and that market is the position's own as long as the
\* position is open and once it is closed.  The position of a liquidated or expired
\* account may show the pars of the other markets that the event named.
MirrorsAccount ==
  /\ ShowsPar(mp.heldAmountPar, heldShows, par)
  /\ ShowsPar(mp.owedAmountPar, owedShows, par)
  /\ ShowsOwn(mp, heldShows, owedShows)

FitsStatus(row) ==
  /\ ~ row.isInitialized => row = NewPosition
  /\ row.status = "OPEN" =>
       row.closeTimestamp = NoTime /\ ~ row.closeAmounts /\ row.seized = "undefined"
  /\ row.status \in {"CLOSED", "LIQUIDATED", "EXPIRED"} =>
       row.closeTimestamp # NoTime /\ row.closeAmounts
  /\ row.status = "CLOSED" => row.seized = "zero"
  /\ row.status \in {"LIQUIDATED", "EXPIRED"} => row.seized = "reward"

\* The close columns fit the status, whatever sequence of closes, liquidations,
\* expirations and reopening trades led there: none for an open position, no
\* seizure for a closed one, and the reward for one that was liquidated.
CloseColumnsFitStatus == FitsStatus(mp)

MayFollow(status) ==
  CASE status = "OPEN" -> Statuses
    [] status \in {"LIQUIDATED", "EXPIRED"} -> Statuses \ {"OPEN"}
    [] status = "CLOSED" -> {"CLOSED", "UNKNOWN"}
    [] status = "UNKNOWN" -> {"UNKNOWN"}

\* A router event that leaves nothing owed stamps the row, whether or not it has
\* been closed, liquidated or expired before; it moves no par.
StampedByRouter(next) == next.status = "CLOSED" /\ next.owedAmountPar = 0 /\ par' = par

OnlyEnds(row, next) ==
  /\ row.isInitialized =>
       next.isInitialized /\ next.heldToken = row.heldToken /\ next.owedToken = row.owedToken
  /\ next.status \in MayFollow(row.status)
  /\ next.closeTimestamp # row.closeTimestamp =>
       /\ next.closeTimestamp = now
       /\ row.closeTimestamp # NoTime => StampedByRouter(next)

\* margin-position-proxy.ts:140-142 and margin-core.ts:1490-1498.  What no step may
\* do: deinitialise a position, change its markets, bring it back to OPEN, or
\* liquidate or expire one that is CLOSED or UNKNOWN.  A close time is that of the
\* step that writes it and is never taken back; once written, only the router moves
\* it, by an event that leaves nothing owed, and no liquidation, expiration,
\* vaporization or transfer does.
PositionOnlyEnds == [][OnlyEnds(mp, mp')]_vars
=============================================================================
