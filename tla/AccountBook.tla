----------------------------- MODULE AccountBook ------------------------------
(***************************************************************************)
(* What the ledger promises of one margin account, with nothing of how it  *)
(* stores it: the par of every token is the one the last event reported,   *)
(* an expiration stays as ExpirySet left it through every balance change,  *)
(* and a borrow position is opened at most once.  WatchedAccount shows     *)
(* that MarginLedger implements this for each of its accounts, and         *)
(* MarginPositions builds on it.                                           *)
(***************************************************************************)
EXTENDS Integers

CONSTANTS Tokens,    \* listed markets
          Times,     \* non-zero expiration timestamps
          NoTime,    \* expirationTimestamp === undefined
          CanBorrow, \* the accountNumber is >= 100
          MaxPar     \* bounds the pars the chain reports

ASSUME BookConstantsAssumption ==
  NoTime \notin Times /\ CanBorrow \in BOOLEAN /\ MaxPar \in Nat

VARIABLES par,    \* MarginAccountTokenValue.valuePar
          expiry, \* MarginAccountTokenValue.expirationTimestamp
          opened  \* the account has a BorrowPosition

book == <<par, expiry, opened>>

Pars == -MaxPar .. MaxPar
Ups(p) == p .. MaxPar
Downs(p) == -MaxPar .. p

Init ==
  /\ par = [t \in Tokens |-> 0]
  /\ expiry = [t \in Tokens |-> NoTime]
  /\ opened = FALSE

Move(t, p) ==
  /\ par' = [par EXCEPT ![t] = p]
  /\ UNCHANGED <<expiry, opened>>

MoveBoth(s, t, p, q) ==
  /\ par' = [par EXCEPT ![s] = p, ![t] = q]
  /\ UNCHANGED <<expiry, opened>>

Deposit(t) == \E p \in Ups(par[t]) : Move(t, p)
Withdraw(t) == \E p \in Downs(par[t]) : Move(t, p)

\* Either side of a transfer, or both.
Transfer(t) == \E p \in Pars : Move(t, p)

\* Either side of a trade, and the solid account of a liquidation.
Trade(give, get) ==
  /\ give # get
  /\ \E p \in Downs(par[give]), q \in Ups(par[get]) : MoveBoth(give, get, p, q)

\* The liquid account of a liquidation.
Liquidate(held, owed) ==
  /\ par[held] > 0 /\ par[owed] < 0
  /\ \E p \in 0 .. par[held], q \in par[owed] .. 0 : MoveBoth(held, owed, p, q)

Vaporize(owed) == par[owed] < 0 /\ \E p \in par[owed] .. 0 : Move(owed, p)

OpenBorrowPosition ==
  /\ CanBorrow /\ ~ opened
  /\ opened' = TRUE
  /\ UNCHANGED <<par, expiry>>

SetExpiry(t, time) ==
  /\ expiry' = [expiry EXCEPT ![t] = time]
  /\ UNCHANGED <<par, opened>>

Next ==
  \/ \E t \in Tokens : Deposit(t) \/ Withdraw(t) \/ Transfer(t) \/ Vaporize(t)
  \/ \E s, t \in Tokens : Trade(s, t) \/ Liquidate(s, t)
  \/ OpenBorrowPosition
  \/ \E t \in Tokens, time \in Times \union {NoTime} : SetExpiry(t, time)

Spec == Init /\ [][Next]_book
=============================================================================
