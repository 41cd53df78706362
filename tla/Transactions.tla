----------------------------- MODULE Transactions ------------------------------
(***************************************************************************)
(* Zaps and asynchronous requests.  Both handlers search rows of the        *)
(* transaction of their event, which are gone for them when the next one    *)
(* begins.  Neither reads what the other writes, so a behaviour follows one *)
(* of the two.  MaxEvents is a bound.                                       *)
(***************************************************************************)
EXTENDS Zaps, AsyncRequests

CONSTANT MaxEvents

ASSUME TransactionsAssumption == MaxEvents \in Nat

VARIABLES part,  \* what the behaviour follows
          events \* number of events so far

vars == <<part, asyncVars, zapVars, events>>

Init ==
  /\ part \in {"requests", "zaps"}
  /\ AsyncInit /\ ZapInit /\ events = 0

Event(name) ==
  part = name /\ UNCHANGED part /\ events < MaxEvents /\ ~ stopped /\ events' = events + 1

NextTransaction ==
  /\ ~ stopped /\ <<transfers, trades>> # <<<<>>, <<>>>>
  /\ AsyncNextTransaction /\ ZapNextTransaction
  /\ UNCHANGED <<part, events>>

Next ==
  \/ Event("requests") /\ AsyncNext /\ UNCHANGED zapVars
  \/ Event("zaps") /\ ZapNext /\ UNCHANGED asyncVars
  \/ NextTransaction

Spec == Init /\ [][Next]_vars
=============================================================================
