------------------------------- MODULE Vesting --------------------------------
(***************************************************************************)
(* Liquidity-mining vesting positions on top of the account ledger          *)
(* (liquidity-mining.ts, helpers/liquidity-mining-helpers.ts).  A position  *)
(* locks an amount of the pair token; its par is added to the same          *)
(* UserParValue rows that the balance events of MarginLedger write, so the  *)
(* two handlers share db.                                                   *)
(*                                                                          *)
(* chain is the vester contract, an ERC721: per position its owner, all its *)
(* owners so far, its par, and which of the two creation events of a vest   *)
(* call the indexer has not handled yet; versions of the contract differ in *)
(* their order, so any order is allowed, and the ERC721 events of a mint or *)
(* a burn may come anywhere.  The rows of transfers, the durations and the  *)
(* amounts paid at a close are left out.                                    *)
(***************************************************************************)
EXTENDS MarginLedger

CONSTANTS Nfts,      \* ids of vesting positions
          PairToken  \* the token a position locks

ASSUME PairTokenAssumption == PairToken \in Tokens

\* Ids of an ERC721 are words of a fixed width.
ASSUME NftsAssumption == IsFiniteSet(Nfts)

VARIABLES chain,   \* the vester contract and its unhandled events
          vesting  \* LiquidityMiningVestingPosition rows

vars == <<db, chain, vesting>>

CreationEvents == {"VestingStarted", "VestingPositionCreated"}
CloseEvents == {"PositionClosed", "PositionForceClosed", "EmergencyWithdraw"}
ClosedStatus == [e \in CloseEvents |->
  CASE e = "PositionClosed" -> "CLOSED" [] e = "PositionForceClosed" -> "FORCE_CLOSED"
    [] OTHER -> "EMERGENCY_CLOSED"]

NoRow == [status |-> "NONE"]
Unminted == [life |-> "unminted", holders |-> {}, pending |-> {}]

VestingInit ==
  /\ Init
  /\ chain = [n \in Nfts |-> Unminted]
  /\ vesting = [n \in Nfts |-> NoRow]

-----------------------------------------------------------------------------

\* A call of the vester contract.
Vest(n, owner, par) ==
  /\ chain[n].life = "unminted"
  /\ chain' = [chain EXCEPT ![n] =
       [life |-> "live", owner |-> owner, par |-> par, holders |-> {owner},
        pending |-> CreationEvents]]
  /\ UNCHANGED <<db, vesting>>

Reported(n) == chain[n].life = "live" /\ chain[n].pending = {}

-----------------------------------------------------------------------------
(* Handlers                                                                 *)

\* getOrCreateEffectiveUserTokenValue, a change of totalSupplyPar, and a set that
\* never deletes the row.
RaisedBy(row, par) == [stored |-> TRUE, totalSupplyPar |-> row.totalSupplyPar + par,
                       totalBorrowPar |-> row.totalBorrowPar]
Booked(d, u, par) == [d EXCEPT !.userPars[u][PairToken] = RaisedBy(@, par)]

NewRow(n) == [status |-> "ACTIVE", owner |-> chain[n].owner, par |-> chain[n].par]

CreationHandled(n, event) ==
  /\ event \in chain[n].pending
  /\ chain' = [chain EXCEPT ![n].pending = @ \ {event}]

\* Mutant: the second of the two creation events is not recognised.
VestingCreatedTwice(n, event) ==
  /\ CreationHandled(n, event)
  /\ db' = Booked(CreateUserIfNecessary(db, chain[n].owner), chain[n].owner, chain[n].par)
  /\ vesting' = [vesting EXCEPT ![n] = NewRow(n)]

\* handleVestingPositionCreated, for either of the two events of a vest call.
VestingCreated(n, event) ==
  /\ CreationHandled(n, event)
  /\ LET d == CreateUserIfNecessary(db, chain[n].owner)
     IN  IF vesting[n] # NoRow
         THEN db' = d /\ UNCHANGED vesting
         ELSE /\ db' = Booked(d, chain[n].owner, chain[n].par)
              /\ vesting' = [vesting EXCEPT ![n] = NewRow(n)]

\* Transfer from or to the zero address: no par moves and the owner stays.
MintOrBurn(n) ==
  /\ chain[n].life # "unminted"
  /\ db' = IF vesting[n] = NoRow \/ chain[n].life = "burned" THEN db
           ELSE CreateUserIfNecessary(db, chain[n].owner)
  /\ UNCHANGED <<chain, vesting>>

ParMoved(n, to) ==
  LET d == CreateUserIfNecessary(db, to)
      paid == Booked(d, EffectiveUserOf(d, chain[n].owner), -vesting[n].par)
  IN  Booked(paid, EffectiveUserOf(d, to), vesting[n].par)

\* Mutant: the par moves but the row keeps its old owner.
TransferKeepsOwner(n, to) ==
  /\ Reported(n)
  /\ chain' = [chain EXCEPT ![n].owner = to, ![n].holders = @ \union {to}]
  /\ db' = ParMoved(n, to)
  /\ UNCHANGED vesting

\* Transfer between two holders: the owner is the new holder, the par moves
\* between the users they resolve to.
Transfer(n, to) ==
  /\ Reported(n)
  /\ chain' = [chain EXCEPT ![n].owner = to, ![n].holders = @ \union {to}]
  /\ db' = ParMoved(n, to)
  /\ vesting' = [vesting EXCEPT ![n].owner = to]

\* PositionClosed, PositionForceClosed and EmergencyWithdraw, each with
\* handleVestingPositionClose: the par leaves the row of the owner.
VestingClosed(n, event) ==
  /\ Reported(n)
  /\ chain' = [chain EXCEPT ![n].life = "burned"]
  /\ vesting' = [vesting EXCEPT ![n].status = ClosedStatus[event]]
  /\ db' = Booked(db, vesting[n].owner, -vesting[n].par)

VestingNext ==
  \/ AccountEvent /\ UNCHANGED <<chain, vesting>>
  \/ \E vault, account \in Owners :
       VaultCreated(vault, account) /\ UNCHANGED <<chain, vesting>>
  \/ \E n \in Nfts, u \in Owners, par \in 1 .. MaxPar : Vest(n, u, par)
  \/ \E n \in Nfts, event \in CreationEvents : VestingCreated(n, event)
  \/ \E n \in Nfts : MintOrBurn(n)
  \/ \E n \in Nfts, to \in Owners : Transfer(n, to)
  \/ \E n \in Nfts, event \in CloseEvents : VestingClosed(n, event)

VestingSpec == VestingInit /\ [][VestingNext]_vars

-----------------------------------------------------------------------------
(* Properties                                                               *)

\* Positions whose par the indexer has added and not yet taken away.
Locked(u) == {n \in Nfts : vesting[n].status = "ACTIVE" /\ vesting[n].owner = u}
LockedPar(u) == SumFunction([n \in Locked(u) |-> vesting[n].par])

\* liquidity-mining.ts:85, 228-239 and helpers/liquidity-mining-helpers.ts:47-49
\* against helpers/margin.ts:432-457.  What the users hold of the pair token is
\* what the accounts supply and the active positions lock: nothing is added
\* twice by the two creation events, and nothing is lost or left by a transfer
\* or a close, whatever balance events empty or delete the rows in between and
\* whoever is a vault.
LockedParConserved ==
  SumFunction([u \in Owners |-> db.userPars[u][PairToken].totalSupplyPar])
    = db.totalPar[PairToken].supplyPar + SumFunction([u \in Owners |-> LockedPar(u)])

NeverHeldByVault(n) == \A u \in chain[n].holders : EffectiveUserOf(db, u) = u

\* The same per user: unless a vault has owned a position (creation and close
\* book on the owner, a transfer on the effective user), a user's row is the
\* par its accounts supply and its own positions lock.
UserParWithVesting ==
  (\A n \in Nfts : NeverHeldByVault(n)) =>
    \A u \in Owners :
      db.userPars[u][PairToken].totalSupplyPar
        = LockedPar(u) + SumFunctionOnSet(Supplies(db, PairToken), BoundTo(db, u))
=============================================================================
