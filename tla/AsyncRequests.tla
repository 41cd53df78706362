----------------------------- MODULE AsyncRequests -----------------------------
(***************************************************************************)
(* Asynchronous deposits and withdrawals (event-emitter-registry.ts).  A    *)
(* vault asks for one, and a later transaction executes, fails or cancels   *)
(* it.  The handlers check no status: they write what the event says.  The  *)
(* execution of a liquidation withdrawal looks back at the Trade rows of    *)
(* its transaction.                                                         *)
(*                                                                          *)
(* The vaults are external: a request is created once and ends when it is   *)
(* executed or cancelled, and the trades of a withdrawal come before its    *)
(* AsyncWithdrawalExecuted.  Left out: amounts (with the two                *)
(* OutputAmountUpdated events, which only set one), the account and the     *)
(* user of the vault, whose rows are the ledger's, transaction ids, and the *)
(* check of the emitting contract.                                          *)
(***************************************************************************)
EXTENDS Integers, Sequences

CONSTANTS DepositKeys, WithdrawalKeys, Markets, None

\* Rows of AsyncDeposit, AsyncWithdrawal and Trade.
DepositRow ==
  [status : {"CREATED", "EXECUTED", "FAILED", "CANCELLED", "CANCELLED_FAILED"},
   isRetryable : BOOLEAN]

WithdrawalRow ==
  [status : {"CREATED", "EXECUTED", "FAILED", "CANCELLED"}, isRetryable : BOOLEAN,
   input : Markets, output : Markets, isLiquidation : BOOLEAN]

TradeRow ==
  [taker : Markets, maker : Markets, type : {None, "EXPIRATION", "LIQUIDATION"},
   of : WithdrawalKeys \union {None}]

ASSUME AsyncAssumption ==
  None \notin WithdrawalKeys \union DepositRow \union WithdrawalRow \union {"LIQUIDATION"}

VARIABLES deposits,    \* AsyncDeposit rows
          withdrawals, \* AsyncWithdrawal rows
          trades,      \* Trade rows of the present transaction
          unwound,     \* history: deposits with a cancellation that failed
          executed     \* history: withdrawals executed in the present transaction

asyncVars == <<deposits, withdrawals, trades, unwound, executed>>

AsyncInit ==
  /\ deposits = [k \in DepositKeys |-> None]
  /\ withdrawals = [k \in WithdrawalKeys |-> None]
  /\ trades = <<>> /\ unwound = {} /\ executed = {}

Open(row) == row # None /\ row.status \notin {"EXECUTED", "CANCELLED"}

-----------------------------------------------------------------------------
(* Deposits                                                                *)

AsyncDepositCreated(k, isRetryable) ==
  /\ deposits[k] = None
  /\ deposits' = [deposits EXCEPT ![k] = [status |-> "CREATED", isRetryable |-> isRetryable]]
  /\ UNCHANGED <<withdrawals, trades, unwound, executed>>

DepositStatus(k, status) ==
  /\ Open(deposits[k])
  /\ deposits' = [deposits EXCEPT ![k].status = status]
  /\ UNCHANGED <<withdrawals, trades, unwound, executed>>

\* isRetryable stays what it was.
AsyncDepositExecuted(k) == DepositStatus(k, "EXECUTED")
AsyncDepositFailed(k)   == DepositStatus(k, "FAILED")

\* Mutant: a cancelled deposit stays retryable.
AsyncDepositCancelledOnly(k) == DepositStatus(k, "CANCELLED")

AsyncDepositCancelled(k) ==
  /\ Open(deposits[k])
  /\ deposits' = [deposits EXCEPT ![k] = [status |-> "CANCELLED", isRetryable |-> FALSE]]
  /\ UNCHANGED <<withdrawals, trades, unwound, executed>>

AsyncDepositCancelledFailed(k) ==
  /\ Open(deposits[k])
  /\ deposits' = [deposits EXCEPT ![k] = [status |-> "CANCELLED_FAILED", isRetryable |-> TRUE]]
  /\ unwound' = unwound \union {k}
  /\ UNCHANGED <<withdrawals, trades, executed>>

-----------------------------------------------------------------------------
(* Withdrawals                                                             *)

AsyncWithdrawalCreated(k, input, output, isRetryable, isLiquidation) ==
  /\ withdrawals[k] = None /\ input # output
  /\ withdrawals' = [withdrawals EXCEPT
       ![k] = [status |-> "CREATED", isRetryable |-> isRetryable,
               input |-> input, output |-> output, isLiquidation |-> isLiquidation]]
  /\ UNCHANGED <<deposits, trades, unwound, executed>>

WithdrawalStatus(k, status, isRetryable) ==
  /\ Open(withdrawals[k])
  /\ withdrawals' = [withdrawals EXCEPT ![k].status = status, ![k].isRetryable = isRetryable]
  /\ UNCHANGED <<deposits, unwound>>

Concerns(trade, row) ==
  \/ trade.taker = row.input /\ trade.maker = row.output
  \/ trade.maker = row.input /\ trade.taker = row.output

\* Mutant: only trades that took the input are looked for.
MarkedOneWay(row) ==
  [i \in DOMAIN trades |->
     IF row.isLiquidation /\ trades[i].taker = row.input /\ trades[i].maker = row.output
     THEN [trades[i] EXCEPT !.type = "LIQUIDATION"] ELSE trades[i]]

\* The trades so far, once a withdrawal has been executed.
Marked(row) ==
  [i \in DOMAIN trades |->
     IF row.isLiquidation /\ Concerns(trades[i], row)
     THEN [trades[i] EXCEPT !.type = "LIQUIDATION"] ELSE trades[i]]

AsyncWithdrawalExecuted(k) ==
  /\ WithdrawalStatus(k, "EXECUTED", FALSE)
  /\ trades' = Marked(withdrawals[k])
  /\ executed' = executed \union {k}

\* The status is WITHDRAWAL_EXECUTION_FAILED.
AsyncWithdrawalFailed(k) ==
  WithdrawalStatus(k, "FAILED", TRUE) /\ UNCHANGED <<trades, executed>>

AsyncWithdrawalCancelled(k) ==
  WithdrawalStatus(k, "CANCELLED", FALSE) /\ UNCHANGED <<trades, executed>>

\* _handleTradeInternal of LogSell, LogBuy and LogTrade: a row without a liquidation
\* type or, against the expiry contract, with EXPIRATION.  The chain trades for a
\* withdrawal that it is about to execute, or for another reason.
TradeHandled(taker, maker, type, of) ==
  /\ taker # maker
  /\ of # None => Open(withdrawals[of]) /\ Concerns([taker |-> taker, maker |-> maker], withdrawals[of])
  /\ trades' = Append(trades, [taker |-> taker, maker |-> maker, type |-> type, of |-> of])
  /\ UNCHANGED <<deposits, withdrawals, unwound, executed>>

AsyncNext ==
  \/ \E k \in DepositKeys :
       \/ \E isRetryable \in BOOLEAN : AsyncDepositCreated(k, isRetryable)
       \/ AsyncDepositExecuted(k)
       \/ AsyncDepositFailed(k)
       \/ AsyncDepositCancelled(k)
       \/ AsyncDepositCancelledFailed(k)
  \/ \E k \in WithdrawalKeys :
       \/ \E input, output \in Markets, isRetryable, isLiquidation \in BOOLEAN :
            AsyncWithdrawalCreated(k, input, output, isRetryable, isLiquidation)
       \/ AsyncWithdrawalExecuted(k)
       \/ AsyncWithdrawalFailed(k)
       \/ AsyncWithdrawalCancelled(k)
  \/ \E taker, maker \in Markets, type \in {None, "EXPIRATION"},
        of \in WithdrawalKeys \union {None} : TradeHandled(taker, maker, type, of)

\* The rows of the transaction that ends are not found any more.
AsyncNextTransaction ==
  /\ trades' = <<>> /\ executed' = {}
  /\ UNCHANGED <<deposits, withdrawals, unwound>>

-----------------------------------------------------------------------------
(* Properties                                                               *)

\* event-emitter-registry.ts:97-165 and 227-292.  A withdrawal that is executed or
\* cancelled and a deposit that is cancelled are not retryable, whatever failed
\* before; an executed deposit may still be, because only its creation and the two
\* cancellations set the column.
SettledIsFinal ==
  /\ \A k \in WithdrawalKeys :
       withdrawals[k] # None /\ ~ Open(withdrawals[k]) => ~ withdrawals[k].isRetryable
  /\ \A k \in DepositKeys :
       deposits[k] # None /\ deposits[k].status = "CANCELLED" => ~ deposits[k].isRetryable
  /\ \A k \in unwound :
       deposits[k].status # "CANCELLED" => deposits[k].isRetryable

\* event-emitter-registry.ts:244-255 with margin-core.ts:765.  The trades of a
\* liquidation that was executed are all marked; a trade of something else is only
\* marked when a liquidation in its two tokens was executed in its transaction.
LiquidationsMarked ==
  \A i \in DOMAIN trades :
    LET trade == trades[i]
    IN  /\ trade.of \in executed /\ withdrawals[trade.of].isLiquidation
             => trade.type = "LIQUIDATION"
        /\ trade.type = "LIQUIDATION"
             => \E k \in executed : withdrawals[k].isLiquidation /\ Concerns(trade, withdrawals[k])
=============================================================================
