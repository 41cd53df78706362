--------------------------------- MODULE Zaps ----------------------------------
(***************************************************************************)
(* Zaps (zap.ts, helpers/zap-helpers.ts).  A zap moves tokens into an       *)
(* account whose number is a hash of the owner, of its account and of the   *)
(* time, trades there, moves the result back and reports ZapExecuted.  The  *)
(* handler looks for the two transfers among those of the transaction, in   *)
(* whatever order the store returns them.                                   *)
(*                                                                          *)
(* Each owner has one account and, in a transaction, one zap account.  The  *)
(* users exist, and a zap volume is the amount that went in.  The token     *)
(* path and the trader parameters are copied from the event and left out.   *)
(***************************************************************************)
EXTENDS Integers, SequencesExt

CONSTANTS Owners, Effective, \* the effective user of each
          Amounts            \* of a transfer; zero is one of them

ASSUME ZapAssumption ==
  /\ Effective \in [Owners -> Owners]
  /\ \A o \in Owners : Effective[Effective[o]] = Effective[o]
  /\ Amounts \subseteq Nat

VARIABLES transfers, \* Transfer rows of the present transaction
          zaps,      \* Zap rows
          zapTotal,  \* zapCount and totalZapVolumeUSD of DolomiteMargin
          userZaps,  \* totalZapCount and totalZapVolumeUSD of each User
          under,     \* history: what the zap of an owner has moved in and out
          earlier,   \* history: owners that zapped in the present transaction
          stopped    \* a handler threw

zapVars == <<transfers, zaps, zapTotal, userZaps, under, earlier, stopped>>

Nothing == [count |-> 0, volume |-> 0]
NotUnder == [in |-> <<>>, out |-> <<>>]

ZapInit ==
  /\ transfers = <<>> /\ zaps = <<>> /\ zapTotal = Nothing
  /\ userZaps = [o \in Owners |-> Nothing]
  /\ under = [o \in Owners |-> NotUnder] /\ earlier = {} /\ stopped = FALSE

Account(o)    == <<o, "account">>
ZapAccount(o) == <<o, "zap">>

\* LogTransfer, as far as its row goes.
LogTransfer(from, to, n) ==
  /\ transfers' = Append(transfers, [from |-> from, to |-> to, amount |-> n])
  /\ UNCHANGED <<zaps, zapTotal, userZaps, earlier, stopped>>

MoveIn(o, n) ==
  /\ under[o].in = <<>>
  /\ LogTransfer(Account(o), ZapAccount(o), n)
  /\ under' = [under EXCEPT ![o].in = <<n>>]

MoveOut(o, n) ==
  /\ under[o].in # <<>> /\ under[o].out = <<>>
  /\ LogTransfer(ZapAccount(o), Account(o), n)
  /\ under' = [under EXCEPT ![o].out = <<n>>]

\* A transfer that is no part of a zap; how much does not matter.
Move(o, to) ==
  /\ o # to
  /\ LogTransfer(Account(o), Account(to), 1)
  /\ UNCHANGED under

\* Mutant: accounts that are no zap accounts are taken too.
SeenAny(found, row, o) ==
  IF found.in # 0 /\ found.out # 0 THEN found
  ELSE IF row.to[2] = "zap" THEN [found EXCEPT !.in = row.amount]
  ELSE IF row.from = ZapAccount(o) THEN [found EXCEPT !.out = row.amount]
  ELSE found

\* Mutant: the loop stops at the first of the two amounts.
SeenOne(found, row, o) ==
  IF found.in # 0 \/ found.out # 0 THEN found
  ELSE IF row.to = ZapAccount(o) THEN [found EXCEPT !.in = row.amount]
  ELSE IF row.from = ZapAccount(o) THEN [found EXCEPT !.out = row.amount]
  ELSE found

\* What the loop has found after one more row; it stops when it has both amounts.
Seen(found, row, o) ==
  IF found.in # 0 /\ found.out # 0 THEN found
  ELSE IF row.to = ZapAccount(o) THEN [found EXCEPT !.in = row.amount]
  ELSE IF row.from = ZapAccount(o) THEN [found EXCEPT !.out = row.amount]
  ELSE found

\* The loop over the transfers.
Found(rows, o) ==
  FoldLeft(LAMBDA found, row : Seen(found, row, o), [in |-> 0, out |-> 0], rows)

Raised(total, n) == [count |-> total.count + 1, volume |-> total.volume + n]

\* Mutant: the effective user is raised even when it is the user.
CreditedTwice(o, n) ==
  LET own == [userZaps EXCEPT ![o] = Raised(@, n)]
  IN  [own EXCEPT ![Effective[o]] = Raised(@, n)]

\* The user, then its effective user if that is another one.
Credited(o, n) ==
  LET own == [userZaps EXCEPT ![o] = Raised(@, n)]
  IN  IF Effective[o] = o THEN own ELSE [own EXCEPT ![Effective[o]] = Raised(@, n)]

\* "Invalid state!" when one of the amounts is not there or zero.
ZapExecuted(o) ==
  /\ under[o].out # <<>>
  /\ \E order \in SetToSeqs(DOMAIN transfers) :
       LET found == Found([i \in DOMAIN order |-> transfers[order[i]]], o)
       IN  IF found.in = 0 \/ found.out = 0
           THEN stopped' = TRUE /\ UNCHANGED <<transfers, zaps, zapTotal, userZaps, under, earlier>>
           ELSE /\ zaps' = Append(zaps, [owner |-> o, in |-> found.in, out |-> found.out])
                /\ zapTotal' = Raised(zapTotal, found.in)
                /\ userZaps' = Credited(o, found.in)
                /\ earlier' = earlier \union {o}
                /\ under' = [under EXCEPT ![o] = NotUnder]
                /\ UNCHANGED <<transfers, stopped>>

ZapNext ==
  \/ \E o \in Owners, n \in Amounts : MoveIn(o, n) \/ MoveOut(o, n)
  \/ \E o, to \in Owners : Move(o, to)
  \/ \E o \in Owners : ZapExecuted(o)

\* A transaction does not end within a zap.
ZapNextTransaction ==
  /\ \A o \in Owners : under[o] = NotUnder
  /\ transfers' = <<>> /\ earlier' = {}
  /\ UNCHANGED <<zaps, zapTotal, userZaps, under, stopped>>

-----------------------------------------------------------------------------
(* Properties                                                               *)

FindsItsTransfers(o) ==
  Len(zaps') > Len(zaps) /\ Last(zaps').owner = o /\ o \notin earlier
    => <<Last(zaps').in>> = under[o].in /\ <<Last(zaps').out>> = under[o].out

\* zap.ts:47-76.  Whatever else the transaction transfers and zaps, the first zap of
\* an owner in it gets the amounts of its own two transfers.
ZapsFindTheirTransfers == [][\A o \in Owners : FindsItsTransfers(o)]_zapVars

\* zap.ts:78-83.  The indexer stops only on a zap for whose account the transaction has
\* a transfer of nothing.  It need not be one of the zap's own two: a zap of the same
\* account in the same transaction may have left it.
StopsOnlyOnNothing ==
  stopped => \E o \in Owners :
    /\ under[o].out # <<>>
    /\ \E i \in DOMAIN transfers :
         ZapAccount(o) \in {transfers[i].from, transfers[i].to} /\ transfers[i].amount = 0

Own(rows, u) == {i \in DOMAIN rows : rows[i].owner = u \/ Effective[rows[i].owner] = u}

SumOf(rows, S) ==
  [count |-> Cardinality(S),
   volume |-> SumFunctionOnSet([i \in DOMAIN rows |-> rows[i].in], S)]

\* zap.ts:132-153.  The totals of DolomiteMargin are those of all zaps, and those of a
\* user are those of its own zaps and of the vaults it is effective for, once each.
ZapTotalsAreSums ==
  /\ zapTotal = SumOf(zaps, DOMAIN zaps)
  /\ \A u \in Owners : userZaps[u] = SumOf(zaps, Own(zaps, u))
=============================================================================
