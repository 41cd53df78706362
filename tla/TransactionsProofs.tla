--------------------------- MODULE TransactionsProofs --------------------------
(***************************************************************************)
(* Whatever requests a vault makes and however they fail, retry and end,   *)
(* what is settled is not retryable and liquidations mark their trades and *)
(* no others; whatever is zapped and transferred in a transaction, and in  *)
(* whatever order the store returns it, a zap finds its own two transfers  *)
(* and the totals are those of all zaps.  For any number of owners,        *)
(* requests, markets and events.                                           *)
(*                                                                         *)
(* LiquidationsMarked looks from a trade to the withdrawal it was made     *)
(* for.  The invariant adds that the trade is in the tokens of that        *)
(* withdrawal, so that its execution marks it, and that an executed        *)
(* withdrawal is not open, so that none of its columns changes any more.   *)
(* The zap properties need to know which transfers a transaction has of a  *)
(* zap account: those of the zap under way, and as long as the owner has   *)
(* finished no zap in the transaction, no others.                          *)
(***************************************************************************)
EXTENDS Transactions, SumTheorems

-----------------------------------------------------------------------------
(* Asynchronous requests: the invariant                                    *)

\* Every table holds rows of its type, or nothing.
RequestRows ==
  /\ deposits \in [DepositKeys -> DepositRow \union {None}]
  /\ withdrawals \in [WithdrawalKeys -> WithdrawalRow \union {None}]
  /\ trades \in Seq(TradeRow)
  /\ unwound \subseteq {k \in DepositKeys : deposits[k] # None}
  /\ executed \subseteq {k \in WithdrawalKeys : withdrawals[k] # None}

\* What was executed in the present transaction is not open.
ExecutedIsSettled == \A k \in executed : ~ Open(withdrawals[k])

\* A trade for a withdrawal is in its two tokens.
TradesConcernTheirs ==
  \A i \in DOMAIN trades :
    trades[i].of # None =>
      withdrawals[trades[i].of] # None /\ Concerns(trades[i], withdrawals[trades[i].of])

RequestsInv ==
  RequestRows /\ ExecutedIsSettled /\ TradesConcernTheirs /\ SettledIsFinal /\ LiquidationsMarked

-----------------------------------------------------------------------------
(* Asynchronous requests: steps                                            *)

LEMMA RequestsInvInit == AsyncInit => RequestsInv
  <1> SUFFICES ASSUME AsyncInit PROVE RequestsInv
    OBVIOUS
  <1>1. RequestRows
    BY DEF AsyncInit, RequestRows
  <1>2. ExecutedIsSettled /\ TradesConcernTheirs /\ LiquidationsMarked
    BY DEF AsyncInit, ExecutedIsSettled, TradesConcernTheirs, LiquidationsMarked
  <1>3. SettledIsFinal
    BY DEF AsyncInit, SettledIsFinal
  <1> QED BY <1>1, <1>2, <1>3 DEF RequestsInv

\* What a step that leaves the withdrawals and the trades alone keeps.
LEMMA WithdrawalsKept ==
  ASSUME RequestsInv, UNCHANGED <<withdrawals, trades, executed>>,
         deposits' \in [DepositKeys -> DepositRow \union {None}],
         unwound' \subseteq {k \in DepositKeys : deposits'[k] # None},
         \A k \in DepositKeys :
           deposits'[k] # None /\ deposits'[k].status = "CANCELLED" => ~ deposits'[k].isRetryable,
         \A k \in unwound' : deposits'[k].status # "CANCELLED" => deposits'[k].isRetryable
  PROVE  RequestsInv'
  <1>1. RequestRows' /\ ExecutedIsSettled' /\ TradesConcernTheirs'
    BY DEF RequestsInv, RequestRows, ExecutedIsSettled, TradesConcernTheirs
  <1>2. SettledIsFinal'
    BY DEF RequestsInv, SettledIsFinal
  <1>3. LiquidationsMarked'
    BY DEF RequestsInv, LiquidationsMarked
  <1> QED BY <1>1, <1>2, <1>3 DEF RequestsInv

LEMMA DepositCreatedKeeps ==
  ASSUME RequestsInv, NEW k \in DepositKeys, NEW isRetryable \in BOOLEAN,
         AsyncDepositCreated(k, isRetryable)
  PROVE  RequestsInv'
  <1> DEFINE row == [status |-> "CREATED", isRetryable |-> isRetryable]
  <1>1. row \in DepositRow /\ row # None
    BY AsyncAssumption DEF DepositRow
  <1>2. /\ deposits \in [DepositKeys -> DepositRow \union {None}]
        /\ deposits' = [deposits EXCEPT ![k] = row]
        /\ unwound' = unwound /\ deposits[k] = None
        /\ UNCHANGED <<withdrawals, trades, executed>>
    BY DEF AsyncDepositCreated, RequestsInv, RequestRows
  <1>3. deposits'[k] = row /\ \A j \in DepositKeys \ {k} : deposits'[j] = deposits[j]
    BY <1>2
  <1>4. row.status = "CREATED"
    OBVIOUS
  <1> HIDE DEF row
  <1>5. deposits' \in [DepositKeys -> DepositRow \union {None}]
    BY <1>1, <1>2
  <1>6. k \notin unwound
    BY <1>2 DEF RequestsInv, RequestRows
  <1>7. unwound' \subseteq {j \in DepositKeys : deposits'[j] # None}
    BY <1>2, <1>3, <1>6 DEF RequestsInv, RequestRows
  <1>8. ASSUME NEW j \in DepositKeys, deposits'[j] # None, deposits'[j].status = "CANCELLED"
        PROVE  ~ deposits'[j].isRetryable
    BY <1>3, <1>4, <1>8 DEF RequestsInv, SettledIsFinal
  <1>9. ASSUME NEW j \in unwound', deposits'[j].status # "CANCELLED"
        PROVE  deposits'[j].isRetryable
    BY <1>2, <1>3, <1>6, <1>9 DEF RequestsInv, SettledIsFinal, RequestRows
  <1> QED BY <1>2, <1>5, <1>7, <1>8, <1>9, WithdrawalsKept

\* A step that writes the row of one deposit that is there, and unwinds no other.
LEMMA DepositWritten ==
  ASSUME RequestsInv, NEW k \in DepositKeys, NEW row \in DepositRow,
         Open(deposits[k]), deposits' = [deposits EXCEPT ![k] = row],
         UNCHANGED <<withdrawals, trades, executed>>,
         unwound \subseteq unwound', unwound' \subseteq unwound \union {k},
         row.status = "CANCELLED" => ~ row.isRetryable,
         k \in unwound' /\ row.status # "CANCELLED" => row.isRetryable
  PROVE  RequestsInv'
  <1>1. deposits \in [DepositKeys -> DepositRow \union {None}] /\ unwound \subseteq DepositKeys
    BY DEF RequestsInv, RequestRows
  <1>2. deposits'[k] = row /\ \A j \in DepositKeys \ {k} : deposits'[j] = deposits[j]
    BY <1>1
  <1>3. row # None
    BY AsyncAssumption
  <1>4. deposits' \in [DepositKeys -> DepositRow \union {None}]
    BY <1>1
  <1>5. unwound' \subseteq {j \in DepositKeys : deposits'[j] # None}
    BY <1>1, <1>2, <1>3 DEF RequestsInv, RequestRows
  <1>6. ASSUME NEW j \in DepositKeys, deposits'[j] # None, deposits'[j].status = "CANCELLED"
        PROVE  ~ deposits'[j].isRetryable
    BY <1>2, <1>6 DEF RequestsInv, SettledIsFinal
  <1>7. ASSUME NEW j \in unwound', deposits'[j].status # "CANCELLED"
        PROVE  deposits'[j].isRetryable
    BY <1>1, <1>2, <1>7 DEF RequestsInv, SettledIsFinal
  <1> QED BY <1>4, <1>5, <1>6, <1>7, WithdrawalsKept

LEMMA DepositStatusKeeps ==
  ASSUME RequestsInv, NEW k \in DepositKeys, NEW status \in {"EXECUTED", "FAILED"},
         DepositStatus(k, status)
  PROVE  RequestsInv'
  <1> DEFINE row == [deposits[k] EXCEPT !.status = status]
  <1>1. /\ deposits[k] \in DepositRow /\ Open(deposits[k])
        /\ deposits \in [DepositKeys -> DepositRow \union {None}]
    BY DEF RequestsInv, RequestRows, DepositStatus, Open
  <1>2. row \in DepositRow /\ row.status = status /\ row.isRetryable = deposits[k].isRetryable
    BY <1>1 DEF DepositRow
  <1>3. deposits' = [deposits EXCEPT ![k] = row]
    BY <1>1 DEF DepositStatus
  <1>4. UNCHANGED <<withdrawals, trades, unwound, executed>>
    BY DEF DepositStatus
  <1>5. k \in unwound => deposits[k].isRetryable
    BY <1>1 DEF RequestsInv, SettledIsFinal, Open
  <1>6. status # "CANCELLED"
    OBVIOUS
  <1> HIDE DEF row
  <1> QED BY <1>1, <1>2, <1>3, <1>4, <1>5, <1>6, DepositWritten

LEMMA DepositCancelledKeeps ==
  ASSUME RequestsInv, NEW k \in DepositKeys, AsyncDepositCancelled(k)
  PROVE  RequestsInv'
  <1> DEFINE row == [status |-> "CANCELLED", isRetryable |-> FALSE]
  <1>1. row \in DepositRow /\ row.status = "CANCELLED" /\ ~ row.isRetryable
    BY DEF DepositRow
  <1>2. /\ Open(deposits[k]) /\ deposits' = [deposits EXCEPT ![k] = row]
        /\ UNCHANGED <<withdrawals, trades, unwound, executed>>
    BY DEF AsyncDepositCancelled
  <1> HIDE DEF row
  <1> QED BY <1>1, <1>2, DepositWritten

LEMMA DepositCancelledFailedKeeps ==
  ASSUME RequestsInv, NEW k \in DepositKeys, AsyncDepositCancelledFailed(k)
  PROVE  RequestsInv'
  <1> DEFINE row == [status |-> "CANCELLED_FAILED", isRetryable |-> TRUE]
  <1>1. row \in DepositRow /\ row.status # "CANCELLED" /\ row.isRetryable
    BY DEF DepositRow
  <1>2. /\ Open(deposits[k]) /\ deposits' = [deposits EXCEPT ![k] = row]
        /\ UNCHANGED <<withdrawals, trades, executed>> /\ unwound' = unwound \union {k}
    BY DEF AsyncDepositCancelledFailed
  <1> HIDE DEF row
  <1> QED BY <1>1, <1>2, DepositWritten

LEMMA WithdrawalCreatedKeeps ==
  ASSUME RequestsInv, NEW k \in WithdrawalKeys, NEW input \in Markets, NEW output \in Markets,
         NEW isRetryable \in BOOLEAN, NEW isLiquidation \in BOOLEAN,
         AsyncWithdrawalCreated(k, input, output, isRetryable, isLiquidation)
  PROVE  RequestsInv'
  <1> DEFINE row == [status |-> "CREATED", isRetryable |-> isRetryable,
                     input |-> input, output |-> output, isLiquidation |-> isLiquidation]
  <1>1. row \in WithdrawalRow /\ row # None
    BY AsyncAssumption DEF WithdrawalRow
  <1>2. /\ withdrawals \in [WithdrawalKeys -> WithdrawalRow \union {None}]
        /\ withdrawals' = [withdrawals EXCEPT ![k] = row]
        /\ withdrawals[k] = None
        /\ UNCHANGED <<deposits, trades, unwound, executed>>
    BY DEF AsyncWithdrawalCreated, RequestsInv, RequestRows
  <1>3. row.status = "CREATED"
    OBVIOUS
  <1> HIDE DEF row
  <1>4. withdrawals'[k] = row /\ \A j \in WithdrawalKeys \ {k} : withdrawals'[j] = withdrawals[j]
    BY <1>2
  <1>5. executed \subseteq WithdrawalKeys \ {k}
    BY <1>2 DEF RequestsInv, RequestRows
  <1>6. RequestRows'
    <2>1. withdrawals' \in [WithdrawalKeys -> WithdrawalRow \union {None}]
      BY <1>1, <1>2
    <2>2. executed' \subseteq {j \in WithdrawalKeys : withdrawals'[j] # None}
      BY <1>2, <1>4, <1>5 DEF RequestsInv, RequestRows
    <2> QED BY <1>2, <2>1, <2>2 DEF RequestsInv, RequestRows
  <1>7. ExecutedIsSettled'
    BY <1>2, <1>4, <1>5 DEF RequestsInv, ExecutedIsSettled, Open
  <1>8. ASSUME NEW i \in DOMAIN trades, trades[i].of # None
        PROVE  /\ withdrawals'[trades[i].of] # None
               /\ Concerns(trades[i], withdrawals'[trades[i].of])
    <2>1. trades[i] \in TradeRow
      BY DEF RequestsInv, RequestRows
    <2>2. trades[i].of \in WithdrawalKeys
      BY <1>8, <2>1 DEF TradeRow
    <2>3. /\ withdrawals[trades[i].of] # None
          /\ Concerns(trades[i], withdrawals[trades[i].of])
      BY <1>8 DEF RequestsInv, TradesConcernTheirs
    <2> QED BY <1>2, <1>4, <2>2, <2>3
  <1>9. TradesConcernTheirs'
    BY <1>2, <1>8 DEF TradesConcernTheirs, Concerns
  <1>10. SettledIsFinal'
    <2>1. ASSUME NEW j \in WithdrawalKeys, withdrawals'[j] # None, ~ Open(withdrawals'[j])
          PROVE  ~ withdrawals'[j].isRetryable
      <3>1. CASE j = k
        BY <1>1, <1>3, <1>4, <2>1, <3>1 DEF Open
      <3>2. CASE j # k
        BY <1>4, <2>1, <3>2 DEF RequestsInv, SettledIsFinal
      <3> QED BY <3>1, <3>2
    <2> QED BY <1>2, <2>1 DEF RequestsInv, SettledIsFinal, Open
  <1>11. LiquidationsMarked'
    <2>1. \A j \in executed : withdrawals'[j] = withdrawals[j]
      BY <1>4, <1>5
    <2> QED BY <1>2, <2>1 DEF RequestsInv, LiquidationsMarked, Concerns
  <1> QED BY <1>6, <1>7, <1>9, <1>10, <1>11 DEF RequestsInv

\* What the handlers of an execution, a failure and a cancellation make of the row.
LEMMA StatusWritten ==
  ASSUME RequestsInv, NEW k \in WithdrawalKeys,
         NEW status \in {"EXECUTED", "FAILED", "CANCELLED"}, NEW isRetryable \in BOOLEAN,
         WithdrawalStatus(k, status, isRetryable)
  PROVE  /\ Open(withdrawals[k]) /\ withdrawals[k] \in WithdrawalRow
         /\ withdrawals' \in [WithdrawalKeys -> WithdrawalRow \union {None}]
         /\ withdrawals'[k] # None
         /\ withdrawals'[k].status = status /\ withdrawals'[k].isRetryable = isRetryable
         /\ withdrawals'[k].input = withdrawals[k].input
         /\ withdrawals'[k].output = withdrawals[k].output
         /\ withdrawals'[k].isLiquidation = withdrawals[k].isLiquidation
         /\ \A j \in WithdrawalKeys \ {k} : withdrawals'[j] = withdrawals[j]
         /\ UNCHANGED <<deposits, unwound>>
  <1>1. /\ withdrawals[k] \in WithdrawalRow /\ Open(withdrawals[k])
        /\ withdrawals \in [WithdrawalKeys -> WithdrawalRow \union {None}]
    BY DEF RequestsInv, RequestRows, WithdrawalStatus, Open
  <1> DEFINE row == [withdrawals[k] EXCEPT !.status = status, !.isRetryable = isRetryable]
  <1>2. withdrawals' = [withdrawals EXCEPT ![k] = row]
    BY <1>1 DEF WithdrawalStatus
  <1>3. row \in WithdrawalRow /\ row # None
    BY <1>1, AsyncAssumption DEF WithdrawalRow
  <1>4. /\ row.status = status /\ row.isRetryable = isRetryable
        /\ row.input = withdrawals[k].input /\ row.output = withdrawals[k].output
        /\ row.isLiquidation = withdrawals[k].isLiquidation
    BY <1>1 DEF WithdrawalRow
  <1>5. UNCHANGED <<deposits, unwound>>
    BY DEF WithdrawalStatus
  <1> HIDE DEF row
  <1>6. withdrawals'[k] = row /\ \A j \in WithdrawalKeys \ {k} : withdrawals'[j] = withdrawals[j]
    BY <1>1, <1>2
  <1>7. withdrawals' \in [WithdrawalKeys -> WithdrawalRow \union {None}]
    BY <1>1, <1>2, <1>3
  <1> QED BY <1>1, <1>3, <1>4, <1>5, <1>6, <1>7

\* What such a step keeps, whatever it does to the trades.
LEMMA StatusKeeps ==
  ASSUME RequestsInv, NEW k \in WithdrawalKeys,
         NEW status \in {"EXECUTED", "FAILED", "CANCELLED"}, NEW isRetryable \in BOOLEAN,
         WithdrawalStatus(k, status, isRetryable), status # "FAILED" => ~ isRetryable
  PROVE  /\ SettledIsFinal'
         /\ k \notin executed
         /\ \A j \in executed : withdrawals'[j] = withdrawals[j]
         /\ \A j \in WithdrawalKeys : withdrawals[j] # None => withdrawals'[j] # None
         /\ \A j \in WithdrawalKeys : \A trade :
              Concerns(trade, withdrawals'[j]) <=> Concerns(trade, withdrawals[j])
  <1>1. k \notin executed
    BY StatusWritten DEF RequestsInv, ExecutedIsSettled
  <1>2. \A j \in executed : withdrawals'[j] = withdrawals[j]
    BY <1>1, StatusWritten DEF RequestsInv, RequestRows
  <1>3. \A j \in WithdrawalKeys : withdrawals[j] # None => withdrawals'[j] # None
    BY StatusWritten
  <1>4. ASSUME NEW j \in WithdrawalKeys, NEW trade
        PROVE  Concerns(trade, withdrawals'[j]) <=> Concerns(trade, withdrawals[j])
    BY StatusWritten DEF Concerns
  <1>5. ASSUME NEW j \in WithdrawalKeys, withdrawals'[j] # None, ~ Open(withdrawals'[j])
        PROVE  ~ withdrawals'[j].isRetryable
    <2>1. CASE j = k
      BY <1>5, <2>1, StatusWritten DEF Open
    <2>2. CASE j # k
      BY <1>5, <2>2, StatusWritten DEF RequestsInv, SettledIsFinal
    <2> QED BY <2>1, <2>2
  <1>6. SettledIsFinal'
    BY <1>5, StatusWritten DEF RequestsInv, SettledIsFinal, Open
  <1> QED BY <1>1, <1>2, <1>3, <1>4, <1>6

LEMMA WithdrawalNotExecutedKeeps ==
  ASSUME RequestsInv, NEW k \in WithdrawalKeys,
         AsyncWithdrawalFailed(k) \/ AsyncWithdrawalCancelled(k)
  PROVE  RequestsInv'
  <1>1. PICK status \in {"FAILED", "CANCELLED"}, isRetryable \in BOOLEAN :
          /\ WithdrawalStatus(k, status, isRetryable)
          /\ status # "FAILED" => ~ isRetryable
          /\ UNCHANGED <<trades, executed>>
    BY DEF AsyncWithdrawalFailed, AsyncWithdrawalCancelled
  <1>2. /\ withdrawals' \in [WithdrawalKeys -> WithdrawalRow \union {None}]
        /\ UNCHANGED <<deposits, unwound>>
    BY <1>1, StatusWritten
  <1>3. /\ SettledIsFinal'
        /\ \A j \in executed : withdrawals'[j] = withdrawals[j]
        /\ \A j \in WithdrawalKeys : withdrawals[j] # None => withdrawals'[j] # None
        /\ \A j \in WithdrawalKeys : \A trade :
              Concerns(trade, withdrawals'[j]) <=> Concerns(trade, withdrawals[j])
    BY <1>1, StatusKeeps
  <1>4. RequestRows' /\ ExecutedIsSettled'
    BY <1>1, <1>2, <1>3 DEF RequestsInv, RequestRows, ExecutedIsSettled
  <1>5. ASSUME NEW i \in DOMAIN trades, trades[i].of # None
        PROVE  /\ withdrawals'[trades[i].of] # None
               /\ Concerns(trades[i], withdrawals'[trades[i].of])
    <2>1. trades[i] \in TradeRow
      BY DEF RequestsInv, RequestRows
    <2>2. trades[i].of \in WithdrawalKeys
      BY <1>5, <2>1 DEF TradeRow
    <2> QED BY <1>3, <1>5, <2>2 DEF RequestsInv, TradesConcernTheirs
  <1>6. TradesConcernTheirs'
    BY <1>1, <1>5 DEF TradesConcernTheirs, Concerns
  <1>7. LiquidationsMarked'
    BY <1>1, <1>3 DEF RequestsInv, LiquidationsMarked, Concerns
  <1> QED BY <1>3, <1>4, <1>6, <1>7 DEF RequestsInv

\* The trades that an executed withdrawal marks: those of a liquidation in its tokens.
LEMMA MarkedFacts ==
  ASSUME RequestsInv, NEW row \in WithdrawalRow
  PROVE  /\ Marked(row) \in Seq(TradeRow) /\ DOMAIN Marked(row) = DOMAIN trades
         /\ \A i \in DOMAIN trades :
              /\ Marked(row)[i].taker = trades[i].taker
              /\ Marked(row)[i].maker = trades[i].maker
              /\ Marked(row)[i].of = trades[i].of
              /\ row.isLiquidation /\ Concerns(trades[i], row) => Marked(row)[i].type = "LIQUIDATION"
              /\ ~ (row.isLiquidation /\ Concerns(trades[i], row))
                   => Marked(row)[i].type = trades[i].type
  <1>1. trades \in Seq(TradeRow)
    BY DEF RequestsInv, RequestRows
  <1> DEFINE new == Marked(row)
  <1>2. DOMAIN new = DOMAIN trades
    BY DEF Marked
  <1>3. ASSUME NEW i \in DOMAIN trades
        PROVE  /\ new[i] \in TradeRow
               /\ new[i].taker = trades[i].taker /\ new[i].maker = trades[i].maker
               /\ new[i].of = trades[i].of
               /\ row.isLiquidation /\ Concerns(trades[i], row) => new[i].type = "LIQUIDATION"
               /\ ~ (row.isLiquidation /\ Concerns(trades[i], row)) => new[i].type = trades[i].type
    <2>1. trades[i] \in TradeRow
      BY <1>1
    <2>2. CASE row.isLiquidation /\ Concerns(trades[i], row)
      <3>1. new[i] = [trades[i] EXCEPT !.type = "LIQUIDATION"]
        BY <2>2 DEF Marked
      <3> HIDE DEF new
      <3> QED BY <2>1, <2>2, <3>1 DEF TradeRow
    <2>3. CASE ~ (row.isLiquidation /\ Concerns(trades[i], row))
      <3>1. new[i] = trades[i]
        BY <2>3 DEF Marked
      <3> HIDE DEF new
      <3> QED BY <2>1, <2>3, <3>1
    <2> QED BY <2>2, <2>3
  <1>4. new \in Seq(TradeRow)
    <2>1. DOMAIN new = 1..Len(trades) /\ Len(trades) \in Nat
      BY <1>1, <1>2
    <2>2. new = [i \in 1..Len(trades) |-> new[i]]
      BY <2>1 DEF Marked
    <2> HIDE DEF new
    <2> QED BY <1>2, <1>3, <2>1, <2>2
  <1> HIDE DEF new
  <1> QED BY <1>2, <1>3, <1>4 DEF new

LEMMA WithdrawalExecutedKeeps ==
  ASSUME RequestsInv, NEW k \in WithdrawalKeys, AsyncWithdrawalExecuted(k)
  PROVE  RequestsInv'
  <1> DEFINE row == withdrawals[k]
  <1>1. /\ WithdrawalStatus(k, "EXECUTED", FALSE)
        /\ trades' = Marked(row) /\ executed' = executed \union {k}
    BY DEF AsyncWithdrawalExecuted
  <1>2. /\ Open(row) /\ row \in WithdrawalRow
        /\ withdrawals' \in [WithdrawalKeys -> WithdrawalRow \union {None}]
        /\ withdrawals'[k] # None /\ withdrawals'[k].status = "EXECUTED"
        /\ withdrawals'[k].isLiquidation = row.isLiquidation
        /\ \A j \in WithdrawalKeys \ {k} : withdrawals'[j] = withdrawals[j]
        /\ UNCHANGED <<deposits, unwound>>
    BY <1>1, StatusWritten
  <1>3. /\ SettledIsFinal' /\ k \notin executed
        /\ \A j \in executed : withdrawals'[j] = withdrawals[j]
        /\ \A j \in WithdrawalKeys : withdrawals[j] # None => withdrawals'[j] # None
        /\ \A j \in WithdrawalKeys : \A trade :
              Concerns(trade, withdrawals'[j]) <=> Concerns(trade, withdrawals[j])
    BY <1>1, StatusKeeps
  <1>4. /\ trades' \in Seq(TradeRow) /\ DOMAIN trades' = DOMAIN trades
        /\ \A i \in DOMAIN trades :
             /\ trades'[i].taker = trades[i].taker /\ trades'[i].maker = trades[i].maker
             /\ trades'[i].of = trades[i].of
             /\ row.isLiquidation /\ Concerns(trades[i], row) => trades'[i].type = "LIQUIDATION"
             /\ ~ (row.isLiquidation /\ Concerns(trades[i], row))
                  => trades'[i].type = trades[i].type
    BY <1>1, <1>2, MarkedFacts
  <1> HIDE DEF row
  <1>5. RequestRows'
    <2>1. executed' \subseteq {j \in WithdrawalKeys : withdrawals'[j] # None}
      BY <1>1, <1>2, <1>3 DEF RequestsInv, RequestRows
    <2> QED BY <1>2, <1>4, <2>1 DEF RequestsInv, RequestRows
  <1>6. ExecutedIsSettled'
    BY <1>1, <1>2, <1>3 DEF RequestsInv, ExecutedIsSettled, Open
  <1>7. ASSUME NEW i \in DOMAIN trades, NEW r
        PROVE  Concerns(trades'[i], r) <=> Concerns(trades[i], r)
    BY <1>4, <1>7 DEF Concerns
  <1>8. ASSUME NEW i \in DOMAIN trades, trades[i].of # None
        PROVE  /\ trades[i].of \in WithdrawalKeys
               /\ withdrawals'[trades[i].of] # None
               /\ Concerns(trades[i], withdrawals[trades[i].of])
               /\ Concerns(trades'[i], withdrawals'[trades[i].of])
    <2>1. trades[i] \in TradeRow
      BY DEF RequestsInv, RequestRows
    <2>2. trades[i].of \in WithdrawalKeys
      BY <1>8, <2>1 DEF TradeRow
    <2>3. withdrawals[trades[i].of] # None /\ Concerns(trades[i], withdrawals[trades[i].of])
      BY <1>8 DEF RequestsInv, TradesConcernTheirs
    <2> QED BY <1>3, <1>7, <2>2, <2>3
  <1>9. TradesConcernTheirs'
    BY <1>4, <1>8 DEF TradesConcernTheirs
  <1>10. ASSUME NEW i \in DOMAIN trades, trades[i].of \in executed',
                withdrawals'[trades[i].of].isLiquidation
         PROVE  trades'[i].type = "LIQUIDATION"
    <2>1. trades[i].of # None
      BY <1>1, <1>10, AsyncAssumption DEF RequestsInv, RequestRows
    <2>2. CASE trades[i].of = k
      BY <1>2, <1>4, <1>8, <1>10, <2>1, <2>2 DEF row
    <2>3. CASE trades[i].of # k
      <3>1. trades[i].of \in executed /\ withdrawals[trades[i].of].isLiquidation
        BY <1>1, <1>3, <1>10, <2>3
      <3>2. trades[i].type = "LIQUIDATION"
        BY <3>1 DEF RequestsInv, LiquidationsMarked
      <3> QED BY <1>4, <3>2
    <2> QED BY <2>2, <2>3
  <1>11. ASSUME NEW i \in DOMAIN trades, trades'[i].type = "LIQUIDATION"
         PROVE  \E j \in executed' :
                  withdrawals'[j].isLiquidation /\ Concerns(trades'[i], withdrawals'[j])
    <2>1. CASE row.isLiquidation /\ Concerns(trades[i], row)
      <3>1. k \in executed' /\ withdrawals'[k].isLiquidation
        BY <1>1, <1>2, <2>1
      <3>2. Concerns(trades'[i], withdrawals'[k])
        BY <1>3, <1>7, <2>1 DEF row
      <3> QED BY <3>1, <3>2
    <2>2. CASE ~ (row.isLiquidation /\ Concerns(trades[i], row))
      <3>1. trades[i].type = "LIQUIDATION"
        BY <1>4, <1>11, <2>2
      <3>2. PICK j \in executed : withdrawals[j].isLiquidation /\ Concerns(trades[i], withdrawals[j])
        BY <3>1 DEF RequestsInv, LiquidationsMarked
      <3>3. j \in executed' /\ withdrawals'[j] = withdrawals[j]
        BY <1>1, <1>3
      <3> QED BY <1>7, <3>2, <3>3
    <2> QED BY <2>1, <2>2
  <1>12. LiquidationsMarked'
    BY <1>4, <1>10, <1>11 DEF LiquidationsMarked
  <1> QED BY <1>3, <1>5, <1>6, <1>9, <1>12 DEF RequestsInv

LEMMA TradeKeeps ==
  ASSUME RequestsInv, NEW taker \in Markets, NEW maker \in Markets,
         NEW type \in {None, "EXPIRATION"}, NEW of \in WithdrawalKeys \union {None},
         TradeHandled(taker, maker, type, of)
  PROVE  RequestsInv'
  <1> DEFINE trade == [taker |-> taker, maker |-> maker, type |-> type, of |-> of]
             n == Len(trades) + 1
  <1>1. /\ trades \in Seq(TradeRow) /\ trade \in TradeRow
        /\ trades' = Append(trades, trade)
        /\ of # None => Open(withdrawals[of]) /\ Concerns([taker |-> taker, maker |-> maker], withdrawals[of])
        /\ UNCHANGED <<deposits, withdrawals, unwound, executed>>
    BY DEF RequestsInv, RequestRows, TradeHandled, TradeRow
  <1>2. /\ trade.of = of /\ trade.type = type
        /\ of # None => Concerns(trade, withdrawals[of])
    BY <1>1 DEF Concerns
  <1>3. trade.type # "LIQUIDATION"
    BY AsyncAssumption
  <1> HIDE DEF trade
  <1>4. /\ trades' \in Seq(TradeRow) /\ DOMAIN trades' = DOMAIN trades \union {n}
        /\ trades'[n] = trade /\ \A i \in DOMAIN trades : trades'[i] = trades[i]
    BY <1>1
  <1> HIDE DEF n
  <1>5. RequestRows' /\ ExecutedIsSettled'
    BY <1>1, <1>4 DEF RequestsInv, RequestRows, ExecutedIsSettled, Open
  <1>6. of # None => of \notin executed /\ withdrawals[of] # None
    BY <1>1 DEF RequestsInv, ExecutedIsSettled, Open
  <1>7. None \notin executed
    BY AsyncAssumption DEF RequestsInv, RequestRows
  <1>8. ASSUME NEW i \in DOMAIN trades', trades'[i].of # None
        PROVE  /\ withdrawals[trades'[i].of] # None
               /\ Concerns(trades'[i], withdrawals[trades'[i].of])
    <2>1. CASE i = n
      BY <1>2, <1>4, <1>6, <1>8, <2>1
    <2>2. CASE i # n
      BY <1>4, <1>8, <2>2 DEF RequestsInv, TradesConcernTheirs
    <2> QED BY <2>1, <2>2
  <1>9. TradesConcernTheirs'
    BY <1>1, <1>8 DEF TradesConcernTheirs
  <1>10. ASSUME NEW i \in DOMAIN trades'
         PROVE  /\ trades'[i].of \in executed /\ withdrawals[trades'[i].of].isLiquidation
                     => trades'[i].type = "LIQUIDATION"
                /\ trades'[i].type = "LIQUIDATION"
                     => \E j \in executed :
                          withdrawals[j].isLiquidation /\ Concerns(trades'[i], withdrawals[j])
    <2>1. CASE i = n
      BY <1>2, <1>3, <1>4, <1>6, <1>7, <2>1
    <2>2. CASE i # n
      BY <1>4, <2>2 DEF RequestsInv, LiquidationsMarked
    <2> QED BY <2>1, <2>2
  <1>11. LiquidationsMarked'
    BY <1>1, <1>10 DEF LiquidationsMarked
  <1>12. SettledIsFinal'
    BY <1>1 DEF RequestsInv, SettledIsFinal, Open
  <1> QED BY <1>5, <1>9, <1>11, <1>12 DEF RequestsInv

\* Every event about requests, and the end of a transaction.
LEMMA RequestsStep == RequestsInv /\ (AsyncNext \/ AsyncNextTransaction) => RequestsInv'
  <1> SUFFICES ASSUME RequestsInv, AsyncNext \/ AsyncNextTransaction PROVE RequestsInv'
    OBVIOUS
  <1>1. ASSUME NEW k \in DepositKeys, NEW isRetryable \in BOOLEAN,
               AsyncDepositCreated(k, isRetryable)
        PROVE  RequestsInv'
    BY <1>1, DepositCreatedKeeps
  <1>2. ASSUME NEW k \in DepositKeys, AsyncDepositExecuted(k) \/ AsyncDepositFailed(k)
        PROVE  RequestsInv'
    BY <1>2, DepositStatusKeeps DEF AsyncDepositExecuted, AsyncDepositFailed
  <1>3. ASSUME NEW k \in DepositKeys, AsyncDepositCancelled(k) \/ AsyncDepositCancelledFailed(k)
        PROVE  RequestsInv'
    BY <1>3, DepositCancelledKeeps, DepositCancelledFailedKeeps
  <1>4. ASSUME NEW k \in WithdrawalKeys, NEW input \in Markets, NEW output \in Markets,
               NEW isRetryable \in BOOLEAN, NEW isLiquidation \in BOOLEAN,
               AsyncWithdrawalCreated(k, input, output, isRetryable, isLiquidation)
        PROVE  RequestsInv'
    BY <1>4, WithdrawalCreatedKeeps
  <1>5. ASSUME NEW k \in WithdrawalKeys, AsyncWithdrawalExecuted(k)
        PROVE  RequestsInv'
    BY <1>5, WithdrawalExecutedKeeps
  <1>6. ASSUME NEW k \in WithdrawalKeys, AsyncWithdrawalFailed(k) \/ AsyncWithdrawalCancelled(k)
        PROVE  RequestsInv'
    BY <1>6, WithdrawalNotExecutedKeeps
  <1>7. ASSUME NEW taker \in Markets, NEW maker \in Markets, NEW type \in {None, "EXPIRATION"},
               NEW of \in WithdrawalKeys \union {None}, TradeHandled(taker, maker, type, of)
        PROVE  RequestsInv'
    BY <1>7, TradeKeeps
  <1>8. CASE AsyncNextTransaction
    <2>1. /\ trades' = <<>> /\ executed' = {} /\ UNCHANGED <<deposits, withdrawals, unwound>>
      BY <1>8 DEF AsyncNextTransaction
    <2>2. RequestRows' /\ ExecutedIsSettled' /\ TradesConcernTheirs'
      BY <2>1 DEF RequestsInv, RequestRows, ExecutedIsSettled, TradesConcernTheirs
    <2>3. SettledIsFinal'
      BY <2>1 DEF RequestsInv, SettledIsFinal, Open
    <2>4. LiquidationsMarked'
      BY <2>1 DEF LiquidationsMarked
    <2> QED BY <2>2, <2>3, <2>4 DEF RequestsInv
  <1>9. CASE AsyncNext
    BY <1>1, <1>2, <1>3, <1>4, <1>5, <1>6, <1>7, <1>9 DEF AsyncNext
  <1> QED BY <1>8, <1>9

-----------------------------------------------------------------------------
(* Zaps: the loop over the transfers                                       *)

\* What the loop starts from, and what it has made of the rows in s when g gives what
\* it made of the ones before.
Unseen == [in |-> 0, out |-> 0]
Looped(rows, o, g, s) ==
  IF s = {} THEN Unseen ELSE Seen(g[s \ {Max(s)}], rows[Max(s)], o)

\* The definition of the loop, with its recursive function in the form used here.
LEMMA FoundUnfold ==
  ASSUME NEW rows, NEW o
  PROVE  Found(rows, o)
           = (CHOOSE g : g = [s \in SUBSET DOMAIN rows |-> Looped(rows, o, g, s)])[DOMAIN rows]
  BY DEF Found, FoldLeft, MapThenFoldSet, Looped, Unseen

\* A set of numbers up to n has a largest one, and that of 1..k is k.
LEMMA MaxFacts ==
  ASSUME NEW n \in Nat
  PROVE  /\ \A s \in SUBSET (1..n) : s # {} => Max(s) \in s
         /\ \A k \in 1..n : Max(1..k) = k
  <1>1. ASSUME NEW s \in SUBSET (1..n), s # {} PROVE Max(s) \in s
    <2> DEFINE Bounds == {b \in Nat : \A x \in s : x <= b}
    <2>1. n \in Bounds
      OBVIOUS
    <2>2. PICK b \in Bounds : \A c \in Bounds : b <= c
      <3>1. Bounds \subseteq Nat
        OBVIOUS
      <3> HIDE DEF Bounds
      <3> QED BY <2>1, <3>1, LeastNatural
    <2>3. b \in s
      <3> SUFFICES ASSUME b \notin s PROVE FALSE
        OBVIOUS
      <3>1. PICK x \in s : TRUE
        BY <1>1
      <3>2. x \in Nat /\ 1 <= x /\ x <= b /\ b \in Nat
        OBVIOUS
      <3>3. b - 1 \in Nat
        BY <3>2
      <3>4. \A y \in s : y <= b - 1
        BY <3>2
      <3>5. b <= b - 1
        BY <2>2, <3>3, <3>4
      <3> QED BY <3>2, <3>5
    <2>4. \E x \in s : \A y \in s : x >= y
      BY <2>3
    <2> QED BY <2>4 DEF Max
  <1>2. ASSUME NEW k \in 1..n PROVE Max(1..k) = k
    <2>1. \E x \in 1..k : \A y \in 1..k : x >= y
      <3>1. k \in 1..k /\ \A y \in 1..k : k >= y
        OBVIOUS
      <3> QED BY <3>1
    <2>2. Max(1..k) \in 1..k /\ \A y \in 1..k : Max(1..k) >= y
      BY <2>1 DEF Max
    <2> HIDE DEF Max
    <2> QED BY <2>2
  <1> QED BY <1>1, <1>2

\* There is a function from the sets of rows to what the loop makes of them: for sets
\* of at most m rows by the least m for which there is none.
LEMMA LoopExists ==
  ASSUME NEW n \in Nat, NEW rows, DOMAIN rows = 1..n, NEW o
  PROVE  \E g : g = [s \in SUBSET (1..n) |-> Looped(rows, o, g, s)]
  <1> DEFINE S == 1..n
             Upto(m) == \E g : \A s \in SUBSET S : Cardinality(s) <= m => g[s] = Looped(rows, o, g, s)
             Bad == {m \in Nat : ~ Upto(m)}
  <1>0. IsFiniteSet(S)
    BY FS_Interval
  <1>2. \A s \in SUBSET S : s # {} => Max(s) \in s
    BY MaxFacts
  <1> HIDE DEF S
  <1>1. IsFiniteSet(S) /\ \A s \in SUBSET S : IsFiniteSet(s) /\ Cardinality(s) \in Nat
    BY <1>0, FS_Subset, FS_CardinalityType
  <1>3. ASSUME NEW m \in Nat, NEW g,
               \A s \in SUBSET S : Cardinality(s) <= m - 1 => g[s] = Looped(rows, o, g, s)
        PROVE  Upto(m)
    <2> DEFINE h == [s \in SUBSET S |-> Looped(rows, o, g, s)]
    <2>1. ASSUME NEW s \in SUBSET S, Cardinality(s) <= m PROVE h[s] = Looped(rows, o, h, s)
      <3>1. CASE s = {}
        BY <3>1 DEF Looped
      <3>2. CASE s # {}
        <4> DEFINE r == s \ {Max(s)}
        <4>1. Max(s) \in s /\ r \in SUBSET S
          BY <1>2, <3>2
        <4>2. Cardinality(r) = Cardinality(s) - 1
          BY <1>1, <4>1, FS_RemoveElement
        <4>3. Cardinality(r) <= m - 1
          BY <1>1, <2>1, <4>2
        <4>4. g[r] = h[r]
          BY <1>3, <4>1, <4>3
        <4> QED BY <3>2, <4>1, <4>4 DEF Looped
      <3> QED BY <3>1, <3>2
    <2> HIDE DEF h
    <2> QED BY <2>1
  <1>4. Bad = {}
    <2> SUFFICES ASSUME Bad # {} PROVE FALSE
      OBVIOUS
    <2>1. PICK m \in Bad : \A k \in Bad : m <= k
      <3>1. Bad \subseteq Nat
        OBVIOUS
      <3> HIDE DEF Bad
      <3> QED BY <3>1, LeastNatural
    <2>2. m \in Nat /\ ~ Upto(m)
      OBVIOUS
    <2>3. PICK g : \A s \in SUBSET S : Cardinality(s) <= m - 1 => g[s] = Looped(rows, o, g, s)
      <3>1. CASE m = 0
        <4>1. \A s \in SUBSET S : ~ (Cardinality(s) <= m - 1)
          BY <1>1, <3>1
        <4> QED BY <4>1
      <3>2. CASE m > 0
        <4>1. m - 1 \in Nat /\ ~ (m <= m - 1)
          BY <2>2, <3>2
        <4> QED BY <2>1, <4>1
      <3> QED BY <2>2, <3>1, <3>2
    <2> QED BY <1>3, <2>2, <2>3
  <1>5. PICK g : \A s \in SUBSET S : Cardinality(s) <= Cardinality(S) => g[s] = Looped(rows, o, g, s)
    <2>1. Cardinality(S) \in Nat
      BY <1>1
    <2> QED BY <1>4, <2>1
  <1>6. \A s \in SUBSET S : g[s] = Looped(rows, o, g, s)
    BY <1>1, <1>5, FS_Subset
  <1> DEFINE h == [s \in SUBSET S |-> g[s]]
  <1>7. ASSUME NEW s \in SUBSET S PROVE Looped(rows, o, g, s) = Looped(rows, o, h, s)
    BY <1>2 DEF Looped
  <1>8. h = [s \in SUBSET S |-> Looped(rows, o, h, s)]
    BY <1>6, <1>7
  <1> HIDE DEF h
  <1> QED BY <1>8 DEF S

\* So the loop goes through the rows one after the other.
LEMMA FoundSteps ==
  ASSUME NEW n \in Nat, NEW rows, DOMAIN rows = 1..n, NEW o
  PROVE  \E F : /\ F[0] = Unseen /\ F[n] = Found(rows, o)
                /\ \A k \in 1..n : F[k] = Seen(F[k - 1], rows[k], o)
  <1> DEFINE g == CHOOSE g : g = [s \in SUBSET (1..n) |-> Looped(rows, o, g, s)]
             F == [k \in 0..n |-> g[1..k]]
  <1>1. g = [s \in SUBSET (1..n) |-> Looped(rows, o, g, s)]
    BY LoopExists
  <1>2. Found(rows, o) = g[1..n]
    BY FoundUnfold
  <1> HIDE DEF g
  <1>3. F[0] = Unseen
    <2>1. 1..0 = {}
      OBVIOUS
    <2>2. F[0] = g[{}]
      BY <2>1
    <2>3. g[{}] = Looped(rows, o, g, {})
      BY <1>1
    <2> QED BY <2>2, <2>3 DEF Looped
  <1>4. ASSUME NEW k \in 1..n PROVE F[k] = Seen(F[k - 1], rows[k], o)
    <2>1. 1..k \in SUBSET (1..n) /\ 1..k # {} /\ k \in 0..n /\ k - 1 \in 0..n
      <3>1. 1..k \in SUBSET (1..n)
        OBVIOUS
      <3>2. k \in 1..k /\ k \in 0..n /\ k - 1 \in 0..n
        OBVIOUS
      <3> QED BY <3>1, <3>2
    <2>5. (1..k) \ {k} = 1..(k - 1)
      OBVIOUS
    <2>2. Max(1..k) = k
      BY MaxFacts
    <2>3. g[1..k] = Looped(rows, o, g, 1..k)
      BY <1>1, <2>1
    <2>4. g[1..k] = Seen(g[1..(k - 1)], rows[k], o)
      BY <2>1, <2>2, <2>3, <2>5 DEF Looped
    <2> QED BY <2>1, <2>4
  <1>5. F[n] = Found(rows, o)
    BY <1>2
  <1> HIDE DEF F
  <1> QED BY <1>3, <1>4, <1>5

\* When the rows of a zap account move amounts in A into it and amounts in B out of it,
\* and there is one of each, the loop ends with an amount of each.
LEMMA FoundAmounts ==
  ASSUME NEW n \in Nat, NEW rows, DOMAIN rows = 1..n, NEW o, NEW A, NEW B,
         \A i \in 1..n : rows[i].to = ZapAccount(o) => rows[i].amount \in A,
         \A i \in 1..n : rows[i].from = ZapAccount(o) => rows[i].amount \in B,
         \E i \in 1..n : rows[i].to = ZapAccount(o),
         \E i \in 1..n : rows[i].from = ZapAccount(o) /\ rows[i].to # ZapAccount(o)
  PROVE  Found(rows, o).in \in A /\ Found(rows, o).out \in B
  <1> DEFINE In(i)  == rows[i].to = ZapAccount(o)
             Out(i) == rows[i].from = ZapAccount(o) /\ rows[i].to # ZapAccount(o)
  <1>1. PICK F : /\ F[0] = Unseen /\ F[n] = Found(rows, o)
                 /\ \A k \in 1..n : F[k] = Seen(F[k - 1], rows[k], o)
    BY FoundSteps
  <1> DEFINE Right(k) == /\ F[k] \in [in : A \union {0}, out : B \union {0}]
                         /\ (\E i \in 1..k : In(i)) => F[k].in \in A
                         /\ (\E i \in 1..k : Out(i)) => F[k].out \in B
             Bad == {k \in 0..n : ~ Right(k)}
  <1>2. Right(0)
    BY <1>1 DEF Unseen
  <1>3. ASSUME NEW k \in 1..n, Right(k - 1) PROVE Right(k)
    <2>1. F[k] = Seen(F[k - 1], rows[k], o)
      BY <1>1
    <2>2. /\ F[k - 1] \in [in : A \union {0}, out : B \union {0}]
          /\ (\E i \in 1..(k - 1) : In(i)) => F[k - 1].in \in A
          /\ (\E i \in 1..(k - 1) : Out(i)) => F[k - 1].out \in B
      BY <1>3
    <2>3. In(k) => rows[k].amount \in A
      OBVIOUS
    <2>4. Out(k) => rows[k].amount \in B
      OBVIOUS
    <2>5. /\ (\E i \in 1..k : In(i)) => In(k) \/ \E i \in 1..(k - 1) : In(i)
          /\ (\E i \in 1..k : Out(i)) => Out(k) \/ \E i \in 1..(k - 1) : Out(i)
      <3> HIDE DEF In, Out
      <3> QED OBVIOUS
    <2>6. CASE F[k - 1].in # 0 /\ F[k - 1].out # 0
      <3>1. F[k] = F[k - 1]
        BY <2>1, <2>6 DEF Seen
      <3>2. F[k].in \in A /\ F[k].out \in B
        BY <2>2, <2>6, <3>1
      <3> QED BY <2>2, <3>1, <3>2
    <2>7. CASE ~ (F[k - 1].in # 0 /\ F[k - 1].out # 0) /\ In(k)
      <3>1. F[k] = [F[k - 1] EXCEPT !.in = rows[k].amount]
        BY <2>1, <2>7 DEF Seen
      <3>2. ~ Out(k)
        BY <2>7
      <3> HIDE DEF In, Out
      <3> QED BY <2>2, <2>3, <2>5, <2>7, <3>1, <3>2
    <2>8. CASE ~ (F[k - 1].in # 0 /\ F[k - 1].out # 0) /\ Out(k)
      <3>1. F[k] = [F[k - 1] EXCEPT !.out = rows[k].amount]
        BY <2>1, <2>8 DEF Seen
      <3>2. ~ In(k)
        BY <2>8
      <3> HIDE DEF In, Out
      <3> QED BY <2>2, <2>4, <2>5, <2>8, <3>1, <3>2
    <2>9. CASE ~ (F[k - 1].in # 0 /\ F[k - 1].out # 0) /\ ~ In(k) /\ ~ Out(k)
      <3>1. F[k] = F[k - 1]
        BY <2>1, <2>9 DEF Seen
      <3> HIDE DEF In, Out
      <3> QED BY <2>2, <2>5, <2>9, <3>1
    <2> QED BY <2>6, <2>7, <2>8, <2>9
  <1>4. Bad = {}
    <2> HIDE DEF Right
    <2> SUFFICES ASSUME Bad # {} PROVE FALSE
      OBVIOUS
    <2>1. PICK k \in Bad : \A m \in Bad : k <= m
      <3>1. Bad \subseteq Nat
        OBVIOUS
      <3> HIDE DEF Bad
      <3> QED BY <3>1, LeastNatural
    <2>2. k \in 0..n /\ ~ Right(k)
      OBVIOUS
    <2>3. k \in 1..n
      BY <1>2, <2>2
    <2>4. ~ (k <= k - 1) /\ k - 1 \in 0..n
      BY <2>3
    <2>5. Right(k - 1)
      BY <2>1, <2>4
    <2> QED BY <1>3, <2>2, <2>3, <2>5
  <1>5. Right(n)
    <2> HIDE DEF Right
    <2> QED BY <1>4
  <1> QED BY <1>1, <1>5

-----------------------------------------------------------------------------
(* Zaps: the invariant                                                     *)

MarginAccount == Owners \X {"account", "zap"}
TransferRow == [from : MarginAccount, to : MarginAccount, amount : Nat]
ZapRow == [owner : Owners, in : Nat, out : Nat]
Moved == {<<>>} \union {<<n>> : n \in Nat}

\* Every table holds rows of its type.
ZapRows ==
  /\ transfers \in Seq(TransferRow) /\ zaps \in Seq(ZapRow)
  /\ userZaps \in [Owners -> [count : Int, volume : Int]]
  /\ under \in [Owners -> [in : Moved, out : Moved]]
  /\ earlier \subseteq Owners

\* A transfer out of a zap account goes to the account of its owner, and what the zap
\* under way has moved is among the transfers.
TransfersOfZaps ==
  /\ \A o \in Owners, i \in DOMAIN transfers :
       transfers[i].from = ZapAccount(o) => transfers[i].to # ZapAccount(o)
  /\ \A o \in Owners :
       under[o].in # <<>> => \E i \in DOMAIN transfers : transfers[i].to = ZapAccount(o)
  /\ \A o \in Owners :
       under[o].out # <<>> => /\ under[o].in # <<>>
                              /\ \E i \in DOMAIN transfers : transfers[i].from = ZapAccount(o)

\* As long as the owner has finished no zap in the transaction, they are all there is.
FirstZapIsAlone ==
  \A o \in Owners \ earlier, i \in DOMAIN transfers :
    /\ transfers[i].to = ZapAccount(o) => under[o].in = <<transfers[i].amount>>
    /\ transfers[i].from = ZapAccount(o) => under[o].out = <<transfers[i].amount>>

ZapsInv ==
  ZapRows /\ TransfersOfZaps /\ FirstZapIsAlone /\ StopsOnlyOnNothing /\ ZapTotalsAreSums

-----------------------------------------------------------------------------
(* Zaps: the search                                                        *)

\* An order of the transfers leaves none out.
LEMMA OrderIsOnto ==
  ASSUME NEW n \in Nat, NEW order \in SetToSeqs(1..n)
  PROVE  /\ order \in [1..n -> 1..n]
         /\ \A i \in 1..n : \E j \in 1..n : order[j] = i
  <1>1. IsFiniteSet(1..n) /\ Cardinality(1..n) = n
    BY FS_Interval
  <1>2. order \in [1..n -> 1..n] /\ \A i, j \in 1..n : i # j => order[i] # order[j]
    BY <1>1 DEF SetToSeqs
  <1>3. order \in Injection(1..n, 1..n)
    BY <1>2 DEF Injection, IsInjective
  <1>4. order \in Surjection(1..n, 1..n)
    BY <1>1, <1>3, FS_Injection
  <1>5. \A i \in 1..n : \E j \in 1..n : order[j] = i
    BY <1>4 DEF Surjection
  <1> QED BY <1>2, <1>5

\* What the handler of ZapExecuted finds: for the first zap of the owner in the
\* transaction the two amounts of that zap, and nothing only where nothing was moved.
LEMMA ZapFinds ==
  ASSUME ZapsInv, NEW o \in Owners, under[o].out # <<>>,
         NEW order \in SetToSeqs(DOMAIN transfers), NEW found,
         found = Found([i \in DOMAIN order |-> transfers[order[i]]], o)
  PROVE  /\ found.in \in Nat /\ found.out \in Nat
         /\ o \notin earlier => <<found.in>> = under[o].in /\ <<found.out>> = under[o].out
         /\ found.in = 0 \/ found.out = 0
              => \E i \in DOMAIN transfers :
                   /\ ZapAccount(o) \in {transfers[i].from, transfers[i].to}
                   /\ transfers[i].amount = 0
  <1> DEFINE n == Len(transfers)
             rows == [i \in DOMAIN order |-> transfers[order[i]]]
  <1>1. /\ transfers \in Seq(TransferRow) /\ n \in Nat /\ DOMAIN transfers = 1..n
        /\ \A i \in 1..n : transfers[i] \in TransferRow
    BY DEF ZapsInv, ZapRows
  <1> HIDE DEF n
  <1>2. order \in [1..n -> 1..n] /\ \A i \in 1..n : \E j \in 1..n : order[j] = i
    BY <1>1, OrderIsOnto
  <1>3. DOMAIN rows = 1..n /\ \A j \in 1..n : rows[j] = transfers[order[j]] /\ order[j] \in 1..n
    BY <1>2
  <1>4. found = Found(rows, o)
    OBVIOUS
  <1> HIDE DEF rows
  <1>5. /\ \E i \in 1..n : transfers[i].to = ZapAccount(o)
        /\ \E i \in 1..n : transfers[i].from = ZapAccount(o)
        /\ \A i \in 1..n : transfers[i].from = ZapAccount(o) => transfers[i].to # ZapAccount(o)
    BY <1>1 DEF ZapsInv, TransfersOfZaps
  <1>6. \E j \in 1..n : rows[j].to = ZapAccount(o)
    <2>1. PICK i \in 1..n : transfers[i].to = ZapAccount(o)
      BY <1>5
    <2>2. PICK j \in 1..n : order[j] = i
      BY <1>2
    <2>3. rows[j].to = ZapAccount(o)
      BY <1>3, <2>1, <2>2
    <2> QED BY <2>3
  <1>7. \E j \in 1..n : rows[j].from = ZapAccount(o) /\ rows[j].to # ZapAccount(o)
    <2>1. PICK i \in 1..n : transfers[i].from = ZapAccount(o)
      BY <1>5
    <2>2. PICK j \in 1..n : order[j] = i
      BY <1>2
    <2>3. rows[j].from = ZapAccount(o) /\ rows[j].to # ZapAccount(o)
      BY <1>3, <1>5, <2>1, <2>2
    <2> QED BY <2>3
  <1>8. ASSUME NEW A, NEW B,
               \A i \in 1..n : transfers[i].to = ZapAccount(o) => transfers[i].amount \in A,
               \A i \in 1..n : transfers[i].from = ZapAccount(o) => transfers[i].amount \in B
        PROVE  found.in \in A /\ found.out \in B
    <2>1. \A j \in 1..n : rows[j].to = ZapAccount(o) => rows[j].amount \in A
      BY <1>3, <1>8
    <2>2. \A j \in 1..n : rows[j].from = ZapAccount(o) => rows[j].amount \in B
      BY <1>3, <1>8
    <2>3. n \in Nat /\ DOMAIN rows = 1..n
      BY <1>1, <1>3
    <2>4. Found(rows, o).in \in A /\ Found(rows, o).out \in B
      BY <1>6, <1>7, <2>1, <2>2, <2>3, FoundAmounts, Zenon
    <2> QED BY <1>4, <2>4
  <1>9. found.in \in Nat /\ found.out \in Nat
    <2>1. \A i \in 1..n : transfers[i].amount \in Nat
      BY <1>1 DEF TransferRow
    <2> QED BY <1>8, <2>1
  <1>10. ASSUME o \notin earlier
         PROVE  <<found.in>> = under[o].in /\ <<found.out>> = under[o].out
    <2>1. under[o].in \in Moved /\ under[o].out \in Moved /\ under[o].in # <<>>
      BY DEF ZapsInv, ZapRows, TransfersOfZaps
    <2>2. PICK a \in Nat, b \in Nat : under[o].in = <<a>> /\ under[o].out = <<b>>
      BY <2>1 DEF Moved
    <2>3. \A i \in 1..n : transfers[i].to = ZapAccount(o) => transfers[i].amount \in {a}
      BY <1>1, <1>10, <2>2 DEF ZapsInv, FirstZapIsAlone
    <2>4. \A i \in 1..n : transfers[i].from = ZapAccount(o) => transfers[i].amount \in {b}
      BY <1>1, <1>10, <2>2 DEF ZapsInv, FirstZapIsAlone
    <2>5. found.in \in {a} /\ found.out \in {b}
      BY <1>8, <2>3, <2>4
    <2> QED BY <2>2, <2>5
  <1>11. ASSUME found.in = 0 \/ found.out = 0
         PROVE  \E i \in 1..n : /\ ZapAccount(o) \in {transfers[i].from, transfers[i].to}
                                /\ transfers[i].amount = 0
    <2> DEFINE Some == {m \in Nat : m # 0}
    <2> SUFFICES ASSUME \A i \in 1..n : ZapAccount(o) \in {transfers[i].from, transfers[i].to}
                                          => transfers[i].amount # 0
                 PROVE  FALSE
      OBVIOUS
    <2>1. \A i \in 1..n : transfers[i].to = ZapAccount(o) => transfers[i].amount \in Some
      BY <1>1 DEF TransferRow
    <2>2. \A i \in 1..n : transfers[i].from = ZapAccount(o) => transfers[i].amount \in Some
      BY <1>1 DEF TransferRow
    <2>3. found.in \in Some /\ found.out \in Some
      <3> HIDE DEF Some
      <3> QED BY <1>8, <2>1, <2>2
    <2> QED BY <1>11, <2>3
  <1> QED BY <1>1, <1>9, <1>10, <1>11

-----------------------------------------------------------------------------
(* Zaps: steps                                                             *)

LEMMA ZapsInvInit == ZapInit => ZapsInv
  <1> SUFFICES ASSUME ZapInit PROVE ZapsInv
    OBVIOUS
  <1>1. /\ transfers = <<>> /\ zaps = <<>> /\ zapTotal = [count |-> 0, volume |-> 0]
        /\ userZaps = [o \in Owners |-> [count |-> 0, volume |-> 0]]
        /\ under = [o \in Owners |-> [in |-> <<>>, out |-> <<>>]]
        /\ earlier = {} /\ stopped = FALSE
    BY DEF ZapInit, Nothing, NotUnder
  <1>2. ZapRows
    <2>1. under \in [Owners -> [in : Moved, out : Moved]]
      BY <1>1 DEF Moved
    <2>2. userZaps \in [Owners -> [count : Int, volume : Int]]
      BY <1>1
    <2> QED BY <1>1, <2>1, <2>2 DEF ZapRows
  <1>3. \A o \in Owners : under[o].in = <<>> /\ under[o].out = <<>>
    BY <1>1
  <1>4. TransfersOfZaps /\ FirstZapIsAlone /\ StopsOnlyOnNothing
    BY <1>1, <1>3 DEF TransfersOfZaps, FirstZapIsAlone, StopsOnlyOnNothing
  <1>5. ZapTotalsAreSums
    <2>1. SumOf(zaps, {}) = [count |-> 0, volume |-> 0]
      BY SumOfNone, FS_EmptySet DEF SumOf
    <2>2. DOMAIN zaps = {}
      BY <1>1
    <2>3. \A u \in Owners : Own(zaps, u) = {}
      BY <2>2 DEF Own
    <2> QED BY <1>1, <2>1, <2>2, <2>3 DEF ZapTotalsAreSums
  <1> QED BY <1>2, <1>4, <1>5 DEF ZapsInv

\* What a transfer keeps, whichever it is: the new row and what it means for the zaps
\* that are under way.
LEMMA TransferKeeps ==
  ASSUME ZapsInv, NEW from \in MarginAccount, NEW to \in MarginAccount, NEW m \in Nat,
         LogTransfer(from, to, m), ~ stopped,
         under' \in [Owners -> [in : Moved, out : Moved]],
         \A o \in Owners : from = ZapAccount(o) => to # ZapAccount(o),
         \A o \in Owners : under'[o].in # under[o].in
                             => /\ to = ZapAccount(o) /\ under[o].in = <<>>
                                /\ under'[o].in = <<m>> /\ under'[o].out = under[o].out,
         \A o \in Owners : under'[o].out # under[o].out
                             => /\ from = ZapAccount(o) /\ under[o].in # <<>>
                                /\ under[o].out = <<>> /\ under'[o].out = <<m>>
                                /\ under'[o].in = under[o].in,
         \A o \in Owners : to = ZapAccount(o) => under[o].in = <<>> /\ under'[o].in = <<m>>,
         \A o \in Owners : from = ZapAccount(o) => under[o].out = <<>> /\ under'[o].out = <<m>>
  PROVE  ZapsInv'
  <1> DEFINE row == [from |-> from, to |-> to, amount |-> m]
             n == Len(transfers) + 1
  <1>1. /\ transfers \in Seq(TransferRow) /\ row \in TransferRow
        /\ transfers' = Append(transfers, row)
        /\ UNCHANGED <<zaps, zapTotal, userZaps, earlier, stopped>>
    BY DEF ZapsInv, ZapRows, LogTransfer, TransferRow
  <1>2. row.from = from /\ row.to = to /\ row.amount = m
    OBVIOUS
  <1> HIDE DEF row
  <1>3. /\ transfers' \in Seq(TransferRow) /\ DOMAIN transfers' = DOMAIN transfers \union {n}
        /\ transfers'[n] = row /\ \A i \in DOMAIN transfers : transfers'[i] = transfers[i]
    BY <1>1
  <1> HIDE DEF n
  <1>4. ZapRows'
    BY <1>1, <1>3 DEF ZapsInv, ZapRows
  <1>5. TransfersOfZaps'
    <2>1. ASSUME NEW o \in Owners, NEW i \in DOMAIN transfers', transfers'[i].from = ZapAccount(o)
          PROVE  transfers'[i].to # ZapAccount(o)
      <3>1. CASE i = n
        BY <1>2, <1>3, <2>1, <3>1
      <3>2. CASE i # n
        BY <1>3, <2>1, <3>2 DEF ZapsInv, TransfersOfZaps
      <3> QED BY <3>1, <3>2
    <2>2. ASSUME NEW o \in Owners, under'[o].in # <<>>
          PROVE  \E i \in DOMAIN transfers' : transfers'[i].to = ZapAccount(o)
      <3>1. CASE under'[o].in = under[o].in
        BY <1>3, <2>2, <3>1 DEF ZapsInv, TransfersOfZaps
      <3>2. CASE under'[o].in # under[o].in
        BY <1>2, <1>3, <3>2
      <3> QED BY <3>1, <3>2
    <2>3. ASSUME NEW o \in Owners, under'[o].out # <<>>
          PROVE  /\ under'[o].in # <<>>
                 /\ \E i \in DOMAIN transfers' : transfers'[i].from = ZapAccount(o)
      <3>1. CASE under'[o].out = under[o].out
        <4>1. under[o].in # <<>> /\ \E i \in DOMAIN transfers : transfers[i].from = ZapAccount(o)
          BY <2>3, <3>1 DEF ZapsInv, TransfersOfZaps
        <4>2. under'[o].in = under[o].in
          BY <4>1
        <4> QED BY <1>3, <4>1, <4>2
      <3>2. CASE under'[o].out # under[o].out
        BY <1>2, <1>3, <3>2
      <3> QED BY <3>1, <3>2
    <2> QED BY <2>1, <2>2, <2>3 DEF TransfersOfZaps
  <1>6. FirstZapIsAlone'
    <2>1. ASSUME NEW o \in Owners \ earlier, NEW i \in DOMAIN transfers'
          PROVE  /\ transfers'[i].to = ZapAccount(o) => under'[o].in = <<transfers'[i].amount>>
                 /\ transfers'[i].from = ZapAccount(o) => under'[o].out = <<transfers'[i].amount>>
      <3>1. CASE i = n
        BY <1>2, <1>3, <3>1
      <3>2. CASE i # n
        <4>1. i \in DOMAIN transfers /\ transfers'[i] = transfers[i]
          BY <1>3, <3>2
        <4>2. transfers[i].to = ZapAccount(o) => under[o].in = <<transfers[i].amount>>
          BY <4>1 DEF ZapsInv, FirstZapIsAlone
        <4>3. transfers[i].from = ZapAccount(o) => under[o].out = <<transfers[i].amount>>
          BY <4>1 DEF ZapsInv, FirstZapIsAlone
        <4>4. <<transfers[i].amount>> # <<>>
          OBVIOUS
        <4>5. transfers[i].to = ZapAccount(o) => under'[o].in = under[o].in
          BY <4>2, <4>4
        <4>6. transfers[i].from = ZapAccount(o) => under'[o].out = under[o].out
          BY <4>3, <4>4
        <4> QED BY <4>1, <4>2, <4>3, <4>5, <4>6
      <3> QED BY <3>1, <3>2
    <2> QED BY <1>1, <2>1 DEF FirstZapIsAlone
  <1>7. StopsOnlyOnNothing'
    BY <1>1 DEF StopsOnlyOnNothing
  <1>8. ZapTotalsAreSums'
    BY <1>1 DEF ZapsInv, ZapTotalsAreSums, Own, SumOf
  <1> QED BY <1>4, <1>5, <1>6, <1>7, <1>8 DEF ZapsInv

\* The accounts of the model are different ones.
LEMMA AccountsDiffer ==
  ASSUME NEW o \in Owners
  PROVE  /\ Account(o) \in MarginAccount /\ ZapAccount(o) \in MarginAccount
         /\ \A u \in Owners : Account(o) # ZapAccount(u)
         /\ \A u \in Owners : ZapAccount(o) = ZapAccount(u) => o = u
  <1>1. "account" # "zap"
    OBVIOUS
  <1> QED BY <1>1 DEF Account, ZapAccount, MarginAccount

LEMMA MoveInKeeps ==
  ASSUME ZapsInv, ~ stopped, NEW o \in Owners, NEW m \in Amounts, MoveIn(o, m)
  PROVE  ZapsInv'
  <1>1. /\ m \in Nat /\ under[o].in = <<>> /\ LogTransfer(Account(o), ZapAccount(o), m)
        /\ under \in [Owners -> [in : Moved, out : Moved]]
        /\ under' = [under EXCEPT ![o].in = <<m>>]
    BY ZapAssumption DEF MoveIn, ZapsInv, ZapRows
  <1>2. <<m>> \in Moved
    BY <1>1 DEF Moved
  <1>3. under' \in [Owners -> [in : Moved, out : Moved]]
    BY <1>1, <1>2
  <1>4. under'[o].in = <<m>> /\ under'[o].out = under[o].out
    BY <1>1
  <1>5. \A u \in Owners \ {o} : under'[u] = under[u]
    BY <1>1
  <1> QED BY <1>1, <1>3, <1>4, <1>5, AccountsDiffer, TransferKeeps

LEMMA MoveOutKeeps ==
  ASSUME ZapsInv, ~ stopped, NEW o \in Owners, NEW m \in Amounts, MoveOut(o, m)
  PROVE  ZapsInv'
  <1>1. /\ m \in Nat /\ under[o].in # <<>> /\ under[o].out = <<>>
        /\ LogTransfer(ZapAccount(o), Account(o), m)
        /\ under \in [Owners -> [in : Moved, out : Moved]]
        /\ under' = [under EXCEPT ![o].out = <<m>>]
    BY ZapAssumption DEF MoveOut, ZapsInv, ZapRows
  <1>2. <<m>> \in Moved
    BY <1>1 DEF Moved
  <1>3. under' \in [Owners -> [in : Moved, out : Moved]]
    BY <1>1, <1>2
  <1>4. under'[o].out = <<m>> /\ under'[o].in = under[o].in
    BY <1>1
  <1>5. \A u \in Owners \ {o} : under'[u] = under[u]
    BY <1>1
  <1> QED BY <1>1, <1>3, <1>4, <1>5, AccountsDiffer, TransferKeeps

LEMMA MoveKeeps ==
  ASSUME ZapsInv, ~ stopped, NEW o \in Owners, NEW to \in Owners, Move(o, to)
  PROVE  ZapsInv'
  <1>1. /\ LogTransfer(Account(o), Account(to), 1) /\ under' = under
        /\ under \in [Owners -> [in : Moved, out : Moved]]
    BY DEF Move, ZapsInv, ZapRows
  <1> QED BY <1>1, AccountsDiffer, TransferKeeps

\* A new zap raises the sums of the sets it belongs to, and leaves the others alone.
LEMMA SumOfAppended ==
  ASSUME NEW rows \in Seq(ZapRow), NEW row \in ZapRow, NEW S, S \subseteq DOMAIN rows
  PROVE  /\ SumOf(Append(rows, row), S) = SumOf(rows, S)
         /\ SumOf(Append(rows, row), S \union {Len(rows) + 1}) = Raised(SumOf(rows, S), row.in)
  <1> DEFINE n == Len(rows) + 1
             new == Append(rows, row)
             f == [i \in DOMAIN rows |-> rows[i].in]
             h == [i \in DOMAIN new |-> new[i].in]
  <1>1. /\ DOMAIN rows = 1..Len(rows) /\ Len(rows) \in Nat
        /\ new \in Seq(ZapRow) /\ DOMAIN new = DOMAIN rows \union {n}
        /\ new[n] = row /\ \A i \in DOMAIN rows : new[i] = rows[i]
    OBVIOUS
  <1>2. IsFiniteSet(S) /\ n \notin S
    <2>1. IsFiniteSet(1..Len(rows))
      BY <1>1, FS_Interval
    <2>2. IsFiniteSet(S)
      BY <1>1, <2>1, FS_Subset
    <2> QED BY <1>1, <2>2
  <1>3. \A i \in DOMAIN rows : rows[i].in \in Int
    <2>1. \A i \in DOMAIN rows : rows[i] \in ZapRow
      OBVIOUS
    <2> QED BY <2>1 DEF ZapRow
  <1> HIDE DEF new, n
  <1>4. \A i \in S : f[i] \in Int /\ h[i] = f[i]
    BY <1>1, <1>3
  <1>5. h[n] = row.in /\ row.in \in Int
    BY <1>1 DEF ZapRow
  <1> HIDE DEF f, h
  <1>6. SumFunctionOnSet(h, S) = SumFunctionOnSet(f, S)
    BY <1>2, <1>4, SumAgrees
  <1>7. SumFunctionOnSet(h, S \union {n}) = SumFunctionOnSet(f, S) + row.in
    <2>1. \A i \in S : f[i] \in Int
      BY <1>4
    <2>2. \A i \in S : h[i] = f[i]
      BY <1>4
    <2>3. h[n] \in Int
      BY <1>5
    <2>4. SumFunctionOnSet(h, S \union {n}) = SumFunctionOnSet(f, S) + h[n]
      BY <1>2, <2>1, <2>2, <2>3, SumWithNew
    <2> QED BY <1>5, <2>4
  <1>8. Cardinality(S \union {n}) = Cardinality(S) + 1
    BY <1>2, FS_AddElement
  <1>9. SumOf(rows, S) = [count |-> Cardinality(S), volume |-> SumFunctionOnSet(f, S)]
    BY DEF SumOf, f
  <1>10. SumOf(new, S) = [count |-> Cardinality(S), volume |-> SumFunctionOnSet(h, S)]
    BY DEF SumOf, h
  <1>11. SumOf(new, S \union {n})
           = [count |-> Cardinality(S \union {n}), volume |-> SumFunctionOnSet(h, S \union {n})]
    BY DEF SumOf, h
  <1>12. SumOf(new, S) = SumOf(rows, S)
    BY <1>6, <1>9, <1>10
  <1>13. SumOf(new, S \union {n}) = Raised(SumOf(rows, S), row.in)
    <2> DEFINE c == Cardinality(S)
               v == SumFunctionOnSet(f, S)
    <2>1. SumOf(rows, S).count = c /\ SumOf(rows, S).volume = v
      BY <1>9
    <2>2. Raised(SumOf(rows, S), row.in) = [count |-> c + 1, volume |-> v + row.in]
      <3> HIDE DEF c, v
      <3> QED BY <2>1 DEF Raised
    <2> QED BY <1>7, <1>8, <1>11, <2>2
  <1> QED BY <1>12, <1>13 DEF new, n

\* The zaps of a user, once another one is recorded.
LEMMA OwnAppended ==
  ASSUME NEW rows \in Seq(ZapRow), NEW row \in ZapRow, NEW u
  PROVE  /\ Own(rows, u) \subseteq DOMAIN rows
         /\ row.owner = u \/ Effective[row.owner] = u
              => Own(Append(rows, row), u) = Own(rows, u) \union {Len(rows) + 1}
         /\ ~ (row.owner = u \/ Effective[row.owner] = u)
              => Own(Append(rows, row), u) = Own(rows, u)
  <1> DEFINE n == Len(rows) + 1
             new == Append(rows, row)
  <1>1. /\ DOMAIN new = DOMAIN rows \union {n} /\ n \notin DOMAIN rows
        /\ new[n] = row /\ \A i \in DOMAIN rows : new[i] = rows[i]
    OBVIOUS
  <1> HIDE DEF n, new
  <1>2. Own(rows, u) \subseteq DOMAIN rows
    BY DEF Own
  <1>3. ASSUME row.owner = u \/ Effective[row.owner] = u
        PROVE  Own(new, u) = Own(rows, u) \union {n}
    BY <1>1, <1>3 DEF Own
  <1>4. ASSUME ~ (row.owner = u \/ Effective[row.owner] = u)
        PROVE  Own(new, u) = Own(rows, u)
    BY <1>1, <1>4 DEF Own
  <1> QED BY <1>2, <1>3, <1>4 DEF n, new

\* The user and its effective user are credited once each, also when they are the same.
LEMMA CreditedFacts ==
  ASSUME ZapsInv, NEW o \in Owners, NEW m \in Nat
  PROVE  /\ Credited(o, m) \in [Owners -> [count : Int, volume : Int]]
         /\ \A u \in Owners :
              Credited(o, m)[u] = IF o = u \/ Effective[o] = u THEN Raised(userZaps[u], m)
                                  ELSE userZaps[u]
  <1>1. /\ userZaps \in [Owners -> [count : Int, volume : Int]]
        /\ Effective[o] \in Owners
    BY ZapAssumption DEF ZapsInv, ZapRows
  <1>2. \A u \in Owners : Raised(userZaps[u], m) \in [count : Int, volume : Int]
    BY <1>1 DEF Raised
  <1> DEFINE own == [userZaps EXCEPT ![o] = Raised(@, m)]
  <1>3. /\ own \in [Owners -> [count : Int, volume : Int]]
        /\ own[o] = Raised(userZaps[o], m)
        /\ \A u \in Owners \ {o} : own[u] = userZaps[u]
    BY <1>1, <1>2
  <1>4. CASE Effective[o] = o
    <2>1. Credited(o, m) = own
      BY <1>4 DEF Credited
    <2> HIDE DEF own
    <2> QED BY <1>3, <1>4, <2>1
  <1>5. CASE Effective[o] # o
    <2>1. Credited(o, m) = [own EXCEPT ![Effective[o]] = Raised(own[Effective[o]], m)]
      BY <1>5 DEF Credited
    <2> HIDE DEF own
    <2>2. own[Effective[o]] = userZaps[Effective[o]]
      BY <1>1, <1>3, <1>5
    <2>3. Raised(own[Effective[o]], m) = Raised(userZaps[Effective[o]], m)
      BY <2>2
    <2>4. Raised(own[Effective[o]], m) \in [count : Int, volume : Int]
      BY <1>1, <1>2, <2>3
    <2> QED BY <1>1, <1>3, <1>5, <2>1, <2>3, <2>4
  <1> QED BY <1>4, <1>5

\* What the handler does when it finds both amounts, and when it does not.
LEMMA ZapExecutedCases ==
  ASSUME ZapsInv, NEW o \in Owners, ZapExecuted(o)
  PROVE  /\ under[o].out # <<>>
         /\ \/ /\ stopped' = TRUE /\ UNCHANGED <<transfers, zaps, zapTotal, userZaps, under, earlier>>
               /\ \E i \in DOMAIN transfers :
                    /\ ZapAccount(o) \in {transfers[i].from, transfers[i].to}
                    /\ transfers[i].amount = 0
            \/ \E a \in Nat, b \in Nat :
                 /\ zaps' = Append(zaps, [owner |-> o, in |-> a, out |-> b])
                 /\ zapTotal' = Raised(zapTotal, a) /\ userZaps' = Credited(o, a)
                 /\ earlier' = earlier \union {o} /\ under' = [under EXCEPT ![o] = NotUnder]
                 /\ UNCHANGED <<transfers, stopped>>
                 /\ o \notin earlier => <<a>> = under[o].in /\ <<b>> = under[o].out
  <1>1. under[o].out # <<>>
    BY DEF ZapExecuted
  <1>2. PICK order \in SetToSeqs(DOMAIN transfers) :
          LET found == Found([i \in DOMAIN order |-> transfers[order[i]]], o)
          IN  IF found.in = 0 \/ found.out = 0
              THEN stopped' = TRUE /\ UNCHANGED <<transfers, zaps, zapTotal, userZaps, under, earlier>>
              ELSE /\ zaps' = Append(zaps, [owner |-> o, in |-> found.in, out |-> found.out])
                   /\ zapTotal' = Raised(zapTotal, found.in)
                   /\ userZaps' = Credited(o, found.in)
                   /\ earlier' = earlier \union {o}
                   /\ under' = [under EXCEPT ![o] = NotUnder]
                   /\ UNCHANGED <<transfers, stopped>>
    BY DEF ZapExecuted
  <1> DEFINE found == Found([i \in DOMAIN order |-> transfers[order[i]]], o)
  <1>3. /\ found.in \in Nat /\ found.out \in Nat
        /\ o \notin earlier => <<found.in>> = under[o].in /\ <<found.out>> = under[o].out
        /\ found.in = 0 \/ found.out = 0
             => \E i \in DOMAIN transfers :
                  /\ ZapAccount(o) \in {transfers[i].from, transfers[i].to}
                  /\ transfers[i].amount = 0
    BY <1>1, ZapFinds
  <1>4. CASE found.in = 0 \/ found.out = 0
    <2>1. stopped' = TRUE /\ UNCHANGED <<transfers, zaps, zapTotal, userZaps, under, earlier>>
      BY <1>2, <1>4
    <2> HIDE DEF found
    <2> QED BY <1>1, <1>3, <1>4, <2>1
  <1>5. CASE ~ (found.in = 0 \/ found.out = 0)
    <2>1. /\ zaps' = Append(zaps, [owner |-> o, in |-> found.in, out |-> found.out])
          /\ zapTotal' = Raised(zapTotal, found.in)
          /\ userZaps' = Credited(o, found.in)
          /\ earlier' = earlier \union {o}
          /\ under' = [under EXCEPT ![o] = NotUnder]
          /\ UNCHANGED <<transfers, stopped>>
      BY <1>2, <1>5
    <2> HIDE DEF found
    <2> QED BY <1>1, <1>3, <2>1
  <1> QED BY <1>4, <1>5

LEMMA ZapExecutedKeeps ==
  ASSUME ZapsInv, ~ stopped, NEW o \in Owners, ZapExecuted(o)
  PROVE  ZapsInv'
  <1>1. CASE /\ stopped' = TRUE
             /\ UNCHANGED <<transfers, zaps, zapTotal, userZaps, under, earlier>>
             /\ \E i \in DOMAIN transfers :
                  /\ ZapAccount(o) \in {transfers[i].from, transfers[i].to}
                  /\ transfers[i].amount = 0
    <2>1. ZapRows' /\ TransfersOfZaps' /\ FirstZapIsAlone'
      BY <1>1 DEF ZapsInv, ZapRows, TransfersOfZaps, FirstZapIsAlone
    <2>2. under[o].out # <<>>
      BY ZapExecutedCases
    <2>3. StopsOnlyOnNothing'
      BY <1>1, <2>2 DEF StopsOnlyOnNothing
    <2>4. ZapTotalsAreSums'
      BY <1>1 DEF ZapsInv, ZapTotalsAreSums, Own, SumOf
    <2> QED BY <2>1, <2>3, <2>4 DEF ZapsInv
  <1>2. ASSUME NEW a \in Nat, NEW b \in Nat,
               zaps' = Append(zaps, [owner |-> o, in |-> a, out |-> b]),
               zapTotal' = Raised(zapTotal, a), userZaps' = Credited(o, a),
               earlier' = earlier \union {o}, under' = [under EXCEPT ![o] = NotUnder],
               UNCHANGED <<transfers, stopped>>
        PROVE  ZapsInv'
    <2> DEFINE row == [owner |-> o, in |-> a, out |-> b]
               n == Len(zaps) + 1
    <2>1. /\ zaps \in Seq(ZapRow) /\ row \in ZapRow /\ row.owner = o /\ row.in = a
          /\ zaps' = Append(zaps, row)
          /\ under \in [Owners -> [in : Moved, out : Moved]]
      BY <1>2 DEF ZapsInv, ZapRows, ZapRow
    <2>2. DOMAIN zaps' = DOMAIN zaps \union {n} /\ zaps' \in Seq(ZapRow)
      <3> HIDE DEF row
      <3> QED BY <2>1
    <2> HIDE DEF row
    <2>3. NotUnder \in [in : Moved, out : Moved] /\ NotUnder.in = <<>> /\ NotUnder.out = <<>>
      BY DEF NotUnder, Moved
    <2>4. /\ under' \in [Owners -> [in : Moved, out : Moved]] /\ under'[o] = NotUnder
          /\ \A u \in Owners \ {o} : under'[u] = under[u]
      BY <1>2, <2>1, <2>3
    <2>5. ZapRows'
      <3>1. userZaps' \in [Owners -> [count : Int, volume : Int]]
        BY <1>2, CreditedFacts
      <3> QED BY <1>2, <2>2, <2>4, <3>1 DEF ZapsInv, ZapRows
    <2>6. TransfersOfZaps'
      <3>1. ASSUME NEW u \in Owners, under'[u].in # <<>>
            PROVE  \E i \in DOMAIN transfers : transfers[i].to = ZapAccount(u)
        BY <2>3, <2>4, <3>1 DEF ZapsInv, TransfersOfZaps
      <3>2. ASSUME NEW u \in Owners, under'[u].out # <<>>
            PROVE  /\ under'[u].in # <<>>
                   /\ \E i \in DOMAIN transfers : transfers[i].from = ZapAccount(u)
        BY <2>3, <2>4, <3>2 DEF ZapsInv, TransfersOfZaps
      <3> QED BY <1>2, <3>1, <3>2 DEF ZapsInv, TransfersOfZaps
    <2>7. FirstZapIsAlone'
      <3>1. ASSUME NEW u \in Owners \ earlier'
            PROVE  u \in Owners \ earlier /\ under'[u] = under[u]
        BY <1>2, <2>4
      <3> QED BY <1>2, <3>1 DEF ZapsInv, FirstZapIsAlone
    <2>8. StopsOnlyOnNothing'
      BY <1>2 DEF StopsOnlyOnNothing
    <2>9. zapTotal' = SumOf(zaps', DOMAIN zaps')
      <3>1. SumOf(Append(zaps, row), DOMAIN zaps \union {n}) = Raised(SumOf(zaps, DOMAIN zaps), a)
        BY <2>1, SumOfAppended
      <3>2. zapTotal = SumOf(zaps, DOMAIN zaps)
        BY DEF ZapsInv, ZapTotalsAreSums
      <3> QED BY <1>2, <2>1, <2>2, <3>1, <3>2
    <2>10. ASSUME NEW u \in Owners PROVE userZaps'[u] = SumOf(zaps', Own(zaps', u))
      <3>1. userZaps[u] = SumOf(zaps, Own(zaps, u)) /\ Own(zaps, u) \subseteq DOMAIN zaps
        BY <2>1, OwnAppended DEF ZapsInv, ZapTotalsAreSums
      <3>2. CASE o = u \/ Effective[o] = u
        <4>1. Own(zaps', u) = Own(zaps, u) \union {n}
          BY <2>1, <3>2, OwnAppended
        <4>2. SumOf(zaps', Own(zaps, u) \union {n}) = Raised(SumOf(zaps, Own(zaps, u)), a)
          BY <2>1, <3>1, SumOfAppended
        <4>3. userZaps'[u] = Raised(userZaps[u], a)
          BY <1>2, <3>2, CreditedFacts
        <4> QED BY <3>1, <4>1, <4>2, <4>3
      <3>3. CASE ~ (o = u \/ Effective[o] = u)
        <4>1. Own(zaps', u) = Own(zaps, u)
          BY <2>1, <3>3, OwnAppended
        <4>2. SumOf(zaps', Own(zaps, u)) = SumOf(zaps, Own(zaps, u))
          BY <2>1, <3>1, SumOfAppended
        <4>3. userZaps'[u] = userZaps[u]
          BY <1>2, <3>3, CreditedFacts
        <4> QED BY <3>1, <4>1, <4>2, <4>3
      <3> QED BY <3>2, <3>3
    <2>11. ZapTotalsAreSums'
      BY <2>9, <2>10 DEF ZapTotalsAreSums
    <2> QED BY <2>5, <2>6, <2>7, <2>8, <2>11 DEF ZapsInv
  <1> QED BY <1>1, <1>2, ZapExecutedCases

\* The end of a transaction, which is not within a zap.
LEMMA ZapTransactionKeeps ==
  ASSUME ZapsInv, ~ stopped, ZapNextTransaction
  PROVE  ZapsInv'
  <1>1. /\ \A o \in Owners : under[o].in = <<>> /\ under[o].out = <<>>
        /\ transfers' = <<>> /\ earlier' = {}
        /\ UNCHANGED <<zaps, zapTotal, userZaps, under, stopped>>
    BY DEF ZapNextTransaction, NotUnder
  <1>2. ZapRows' /\ TransfersOfZaps' /\ FirstZapIsAlone' /\ StopsOnlyOnNothing'
    BY <1>1 DEF ZapsInv, ZapRows, TransfersOfZaps, FirstZapIsAlone, StopsOnlyOnNothing
  <1>3. ZapTotalsAreSums'
    BY <1>1 DEF ZapsInv, ZapTotalsAreSums, Own, SumOf
  <1> QED BY <1>2, <1>3 DEF ZapsInv

\* Every event about zaps.
LEMMA ZapsStep == ZapsInv /\ ~ stopped /\ ZapNext => ZapsInv'
  <1> SUFFICES ASSUME ZapsInv, ~ stopped, ZapNext PROVE ZapsInv'
    OBVIOUS
  <1>1. ASSUME NEW o \in Owners, NEW m \in Amounts, MoveIn(o, m) \/ MoveOut(o, m)
        PROVE  ZapsInv'
    BY <1>1, MoveInKeeps, MoveOutKeeps
  <1>2. ASSUME NEW o \in Owners, NEW to \in Owners, Move(o, to) PROVE ZapsInv'
    BY <1>2, MoveKeeps
  <1>3. ASSUME NEW o \in Owners, ZapExecuted(o) PROVE ZapsInv'
    BY <1>3, ZapExecutedKeeps
  <1> QED BY <1>1, <1>2, <1>3 DEF ZapNext

-----------------------------------------------------------------------------
(* Theorems                                                                *)

TransactionsInv == RequestsInv /\ ZapsInv

\* What belongs to the requests and what to the zaps depends on their own rows only.
LEMMA RequestsUntouched == RequestsInv /\ UNCHANGED asyncVars => RequestsInv'
  BY DEF RequestsInv, asyncVars, RequestRows, ExecutedIsSettled, TradesConcernTheirs, Concerns,
         SettledIsFinal, LiquidationsMarked, Open

LEMMA ZapsUntouched == ZapsInv /\ UNCHANGED zapVars => ZapsInv'
  <1> SUFFICES ASSUME ZapsInv, UNCHANGED zapVars PROVE ZapsInv'
    OBVIOUS
  <1>1. UNCHANGED <<transfers, zaps, zapTotal, userZaps, under, earlier, stopped>>
    BY DEF zapVars
  <1>2. ZapRows' /\ TransfersOfZaps' /\ FirstZapIsAlone' /\ StopsOnlyOnNothing'
    BY <1>1 DEF ZapsInv, ZapRows, TransfersOfZaps, FirstZapIsAlone, StopsOnlyOnNothing
  <1>3. ZapTotalsAreSums'
    BY <1>1 DEF ZapsInv, ZapTotalsAreSums, Own, SumOf
  <1> QED BY <1>2, <1>3 DEF ZapsInv

LEMMA TransactionsStep == TransactionsInv /\ [Next]_vars => TransactionsInv'
  <1> SUFFICES ASSUME TransactionsInv, [Next]_vars PROVE TransactionsInv'
    OBVIOUS
  <1>1. CASE UNCHANGED vars
    BY <1>1, RequestsUntouched, ZapsUntouched DEF TransactionsInv, vars
  <1>2. CASE Event("requests") /\ AsyncNext /\ UNCHANGED zapVars
    BY <1>2, RequestsStep, ZapsUntouched DEF TransactionsInv
  <1>3. CASE Event("zaps") /\ ZapNext /\ UNCHANGED asyncVars
    BY <1>3, ZapsStep, RequestsUntouched DEF TransactionsInv, Event
  <1>4. CASE NextTransaction
    BY <1>4, RequestsStep, ZapTransactionKeeps DEF TransactionsInv, NextTransaction
  <1> QED BY <1>1, <1>2, <1>3, <1>4 DEF Next

\* The conjunction of everything proved here is inductive.
THEOREM TransactionsInvariant == Spec => []TransactionsInv
  <1>1. Init => TransactionsInv
    BY RequestsInvInit, ZapsInvInit DEF Init, TransactionsInv
  <1> QED BY <1>1, TransactionsStep, PTL DEF Spec

\* Handlers that check no status: a withdrawal that ended and a cancelled deposit are
\* not retryable, a deposit whose cancellation failed is, until it is cancelled.
THEOREM SettledCorrect == Spec => []SettledIsFinal
  <1>1. TransactionsInv => SettledIsFinal
    BY DEF TransactionsInv, RequestsInv
  <1> QED BY <1>1, TransactionsInvariant, PTL

\* The execution of a liquidation marks the trades that were made for it, and a trade is
\* only marked with a liquidation in its tokens.
THEOREM LiquidationsCorrect == Spec => []LiquidationsMarked
  <1>1. TransactionsInv => LiquidationsMarked
    BY DEF TransactionsInv, RequestsInv
  <1> QED BY <1>1, TransactionsInvariant, PTL

\* ZapExecuted throws only where a transfer of nothing is among those of the account.
THEOREM ZapStopsCorrect == Spec => []StopsOnlyOnNothing
  <1>1. TransactionsInv => StopsOnlyOnNothing
    BY DEF TransactionsInv, ZapsInv
  <1> QED BY <1>1, TransactionsInvariant, PTL

\* A zap counts once for DolomiteMargin, once for its user and once for the effective
\* user where that is another one.
THEOREM ZapTotalsCorrect == Spec => []ZapTotalsAreSums
  <1>1. TransactionsInv => ZapTotalsAreSums
    BY DEF TransactionsInv, ZapsInv
  <1> QED BY <1>1, TransactionsInvariant, PTL

\* The first zap of an owner in a transaction gets the amounts of its own two transfers,
\* in whatever order the store returns those of the transaction.
THEOREM ZapSearchCorrect == Spec => ZapsFindTheirTransfers
  <1>1. TransactionsInv /\ [Next]_vars => [\A o \in Owners : FindsItsTransfers(o)]_zapVars
    <2> SUFFICES ASSUME TransactionsInv, Next PROVE (\A o \in Owners : FindsItsTransfers(o)) \/ UNCHANGED zapVars
      BY DEF vars
    <2>1. zaps \in Seq(ZapRow) /\ ZapsInv
      BY DEF TransactionsInv, ZapsInv, ZapRows
    <2>2. ASSUME zaps' = zaps PROVE \A o \in Owners : FindsItsTransfers(o)
      <3>1. ~ (Len(zaps') > Len(zaps))
        BY <2>1, <2>2
      <3> QED BY <3>1 DEF FindsItsTransfers
    <2>3. ASSUME NEW u \in Owners, ZapExecuted(u) PROVE \A o \in Owners : FindsItsTransfers(o)
      <3>1. ASSUME NEW a \in Nat, NEW b \in Nat,
                   zaps' = Append(zaps, [owner |-> u, in |-> a, out |-> b]),
                   u \notin earlier => <<a>> = under[u].in /\ <<b>> = under[u].out
            PROVE  \A o \in Owners : FindsItsTransfers(o)
        <4> DEFINE row == [owner |-> u, in |-> a, out |-> b]
        <4>1. row \in ZapRow /\ row.owner = u /\ row.in = a /\ row.out = b
          BY DEF ZapRow
        <4>2. zaps' = Append(zaps, row)
          BY <3>1
        <4> HIDE DEF row
        <4>3. Last(zaps') = row
          BY <2>1, <4>1, <4>2 DEF Last
        <4> QED BY <3>1, <4>1, <4>3 DEF FindsItsTransfers
      <3>2. \/ zaps' = zaps
            \/ \E a \in Nat, b \in Nat :
                 /\ zaps' = Append(zaps, [owner |-> u, in |-> a, out |-> b])
                 /\ u \notin earlier => <<a>> = under[u].in /\ <<b>> = under[u].out
        BY <2>1, <2>3, ZapExecutedCases
      <3> QED BY <2>2, <3>1, <3>2
    <2>4. CASE Event("requests") /\ AsyncNext /\ UNCHANGED zapVars
      BY <2>4
    <2>5. CASE NextTransaction
      BY <2>2, <2>5 DEF NextTransaction, ZapNextTransaction
    <2>6. CASE Event("zaps") /\ ZapNext /\ UNCHANGED asyncVars
      <3>1. ASSUME NEW o \in Owners, NEW m \in Amounts, MoveIn(o, m) \/ MoveOut(o, m)
            PROVE  zaps' = zaps
        BY <3>1 DEF MoveIn, MoveOut, LogTransfer
      <3>2. ASSUME NEW o \in Owners, NEW to \in Owners, Move(o, to) PROVE zaps' = zaps
        BY <3>2 DEF Move, LogTransfer
      <3> QED BY <2>2, <2>3, <2>6, <3>1, <3>2 DEF ZapNext
    <2> QED BY <2>4, <2>5, <2>6 DEF Next
  <1> QED BY <1>1, TransactionsInvariant, PTL DEF Spec, ZapsFindTheirTransfers
==============================================================================
