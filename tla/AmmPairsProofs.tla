---------------------------- MODULE AmmPairsProofs ---------------------------
(***************************************************************************)
(* The rows of AmmPairs are right for any pairs, providers and amounts, for*)
(* any number of calls, and however far the chain is ahead of the indexer. *)
(*                                                                         *)
(* What an event does depends on the events before it, handled or not.  The*)
(* proofs follow them with a state of their own: the pairs that exist, the *)
(* supply that the rows should show, and how far the call under way has    *)
(* come.  Turn says which message may follow, and where it leads; the      *)
(* messages that are not handled yet are a path of turns from where the    *)
(* handlers are to where the chain is.  A balance that is not shown is read*)
(* at one of these messages.                                               *)
(***************************************************************************)
EXTENDS AmmPairs, SumTheorems, SequenceTheorems

-----------------------------------------------------------------------------
(* Types                                                                    *)

MintCall == [pair : Pairs, to : Users, liquidity : Nat]
BurnCall == [pair : Pairs, sender : Users \union {None}, liquidity : Nat, fee : Nat]
MintRow == [pair : Pairs, to : Users, liquidity : Nat, complete : BOOLEAN]
BurnRow == [pair : Pairs, sender : Users \union {None}, liquidity : Nat, fee : Nat,
            needsComplete : BOOLEAN, complete : BOOLEAN]

Addresses == Users \union Pairs \union {Zero}
Event ==
  [kind : {"PairCreated", "Swap"}, pair : Pairs]
    \union [kind : {"Transfer"}, pair : Pairs, from : Addresses, to : Addresses,
            value : Nat, tidy : BOOLEAN]
    \union [kind : {"Sync"}, pair : Pairs, reserve : Int]
    \union [kind : {"Mint"}, pair : Pairs, row : MintCall]
    \union [kind : {"Burn"}, pair : Pairs, row : BurnCall]
Message == [first : BOOLEAN, event : Event]

Store ==
  [pair : [Pairs -> PairRow \union {None}],
   position : [Pairs -> [Users -> Int \union {None}]],
   factoryUSD : Int, tradeLiquidity : [Tokens -> Int], tx : BOOLEAN,
   mints : Seq(MintRow), burns : Seq(BurnRow), trades : Seq(Pairs)]
Reports ==
  [mints : Seq(MintCall), burns : Seq(BurnCall), swaps : Seq(Pairs),
   tidy : BOOLEAN, sent : BOOLEAN]

-----------------------------------------------------------------------------
(* What may follow                                                          *)

\* How far the call under way has come.  After a send to a pair none is under way,
\* but a burn may refer to it.
Phase == [at : {"between", "sent", "fee", "minted", "burned"}, pair : Pairs \union {None},
          user : Users \union {None}, amount : Nat, fee : Nat]
Between == [at |-> "between", pair |-> None, user |-> None, amount |-> 0, fee |-> 0]
PhaseAt(at, p, u, n, fee) == [at |-> at, pair |-> p, user |-> u, amount |-> n, fee |-> fee]
IsBetween(ph) == ph.at \in {"between", "sent"}

Ghost == [known : SUBSET Pairs, total : [Pairs -> Int], phase : Phase]

\* What a transfer adds to the supply that the row of its pair shows.
Shown(e) ==
  IF IsIgnored(e) THEN 0
  ELSE IF e.from = Zero THEN e.value
  ELSE IF e.from = e.pair /\ e.to = Zero THEN -e.value ELSE 0
Moved(g, e, ph) == [g EXCEPT !.total[e.pair] = @ + Shown(e), !.phase = ph]

\* Every transaction begins between two calls.
At(g, m) == IF m.first THEN [g EXCEPT !.phase = Between] ELSE g

TurnCreate(g, e, h) ==
  \E p \in Pairs \ g.known :
    /\ e = [kind |-> "PairCreated", pair |-> p]
    /\ IsBetween(g.phase)
    /\ h = [g EXCEPT !.known = @ \union {p}, !.total[p] = 0]

TurnLock(g, e, h) ==
  \E p \in g.known :
    /\ e = TransferOf(p, Zero, Zero, Minimum, TRUE)
    /\ IsBetween(g.phase)
    /\ h = g

\* A fee is tidy before the burn of what was just sent.
TurnFee(g, e, h) ==
  \E p \in g.known, fee \in Nat, tidy \in BOOLEAN :
    /\ e = TransferOf(p, Zero, FeeTo, fee, tidy)
    /\ IsBetween(g.phase) /\ (tidy => g.phase.at = "sent" /\ g.phase.pair = p)
    /\ h = Moved(g, e, PhaseAt("fee", p, g.phase.user, g.phase.amount, fee))

TurnMint(g, e, h) ==
  \E p \in g.known, u \in Users, n \in Nat, tidy \in BOOLEAN :
    /\ e = TransferOf(p, Zero, u, n, tidy)
    /\ IsBetween(g.phase) \/ (g.phase.at = "fee" /\ ~ tidy)
    /\ h = Moved(g, e, PhaseAt("minted", p, u, n, 0))

TurnSend(g, e, h) ==
  \E p \in g.known, u \in Users, to \in Users \union {Zero}, n \in Nat :
    /\ e = TransferOf(p, u, to, n, TRUE)
    /\ IsBetween(g.phase)
    /\ h = Moved(g, e, Between)

TurnSendToPair(g, e, h) ==
  \E p \in g.known, u \in Users, n \in Nat :
    /\ e = TransferOf(p, u, p, n, TRUE)
    /\ IsBetween(g.phase)
    /\ h = Moved(g, e, PhaseAt("sent", p, u, n, 0))

TurnBurn(g, e, h) ==
  LET ph == g.phase
  IN  \E p \in g.known, n \in Nat, tidy \in BOOLEAN :
        /\ e = TransferOf(p, p, Zero, n, tidy)
        /\ ph.at \in {"between", "sent", "fee"}
        /\ tidy => /\ ph.at \in {"sent", "fee"} /\ ph.pair = p /\ ph.amount = n
                   /\ ph.at = "fee" => n # Minimum
        /\ h = Moved(g, e, PhaseAt("burned", p, IF tidy THEN ph.user ELSE None, n,
                                   IF ph.at = "fee" THEN ph.fee ELSE 0))

TurnSync(g, e, h) ==
  \E p \in g.known, reserve \in Int :
    /\ e = SyncOf(p, reserve)
    /\ g.phase.at # "fee"
    /\ h = g

TurnSwap(g, e, h) ==
  \E p \in g.known :
    /\ e = [kind |-> "Swap", pair |-> p]
    /\ IsBetween(g.phase)
    /\ h = g

TurnMinted(g, e, h) ==
  /\ g.phase.at = "minted" /\ g.phase.pair \in g.known
  /\ e = MintOf(g.phase.pair, g.phase.user, g.phase.amount)
  /\ h = [g EXCEPT !.phase = Between]

TurnBurned(g, e, h) ==
  /\ g.phase.at = "burned" /\ g.phase.pair \in g.known
  /\ e = BurnOf(g.phase.pair, g.phase.user, g.phase.amount, g.phase.fee)
  /\ h = [g EXCEPT !.phase = Between]

After(g, e, h) ==
  \/ TurnCreate(g, e, h) \/ TurnLock(g, e, h) \/ TurnFee(g, e, h) \/ TurnMint(g, e, h)
  \/ TurnSend(g, e, h) \/ TurnSendToPair(g, e, h) \/ TurnBurn(g, e, h)
  \/ TurnSync(g, e, h) \/ TurnSwap(g, e, h) \/ TurnMinted(g, e, h) \/ TurnBurned(g, e, h)
Turn(g, m, h) == After(At(g, m), m.event, h)

\* The messages q lead from g to h.
Path(g, q, h) ==
  \E w \in [0 .. Len(q) -> Ghost] :
    /\ w[0] = g /\ w[Len(q)] = h
    /\ \A i \in 1 .. Len(q) : Turn(w[i - 1], q[i], w[i])

-----------------------------------------------------------------------------
(* Where the handlers are                                                   *)

Providers(d, p) == {u \in Users : d.position[p][u] # None}
RowsFollow(d, g) ==
  \A p \in Pairs :
    /\ p \in g.known =>
         /\ d.pair[p] # None /\ d.pair[p].totalSupply = g.total[p]
         /\ d.pair[p].liquidityProviderCount = Cardinality(Providers(d, p))
    /\ p \notin g.known => d.pair[p] = None /\ Providers(d, p) = {}

\* LiquidityIsSum of any rows.
Known(d) == {p \in Pairs : d.pair[p] # None}
WithToken(d, t) == {p \in Known(d) : t \in {Token0[p], Token1[p]}}
Values(d) == [p \in Known(d) |-> d.pair[p].reserveUSD]
Reserves(d, t) == [p \in WithToken(d, t) |-> d.pair[p].reserve]
SumsFollow(d) ==
  /\ d.factoryUSD = SumFunctionOnSet(Values(d), Known(d))
  /\ \A t \in Tokens : d.tradeLiquidity[t] = SumFunctionOnSet(Reserves(d, t), WithToken(d, t))

\* Once something was sent to a pair, the last burn has a sender, whoever's it is.
SentFollows(d, r) ==
  r.sent => d.burns # <<>> /\ Last(d.burns).needsComplete /\ Last(d.burns).sender # None

\* The last rows of a tidy transaction are those of the call under way; under a fee
\* the mints are complete.
OpenMintFollows(d, ph) ==
  CASE ph.at = "fee" -> /\ HasOpenMint(d) /\ Last(d.mints).liquidity = ph.fee
                        /\ AllButLast(d.mints) # <<>> => Last(AllButLast(d.mints)).complete
    [] ph.at = "minted" ->
         d.mints # <<>> /\ Last(d.mints) = [pair |-> ph.pair, to |-> ph.user,
                                           liquidity |-> ph.amount, complete |-> FALSE]
    [] OTHER -> ~ HasOpenMint(d)
OpenBurnFollows(d, ph) ==
  ph.at \in {"sent", "fee", "burned"} =>
    /\ d.tx /\ d.burns # <<>> /\ ph.user # None
    /\ Last(d.burns) = [pair |-> ph.pair, sender |-> ph.user, liquidity |-> ph.amount,
                        fee |-> IF ph.at = "burned" THEN ph.fee ELSE 0,
                        needsComplete |-> TRUE, complete |-> FALSE]
TidyFollows(d, r, ph) ==
  r.tidy =>
    /\ MintRows(Done(d.mints)) = r.mints /\ BurnRows(Done(d.burns)) = r.burns
    /\ d.trades = r.swaps
    /\ OpenMintFollows(d, ph) /\ OpenBurnFollows(d, ph)

CallsFollow(d, r, ph) ==
  SentFollows(d, r) /\ (ph.at = "minted" => d.mints # <<>>) /\ TidyFollows(d, r, ph)

Follows(d, r, g) ==
  /\ d \in Store /\ r \in Reports /\ g \in Ghost
  /\ RowsFollow(d, g) /\ CallsFollow(d, r, g.phase)

-----------------------------------------------------------------------------
(* Where the chain is                                                       *)

Existing == {p \in Pairs : supply[p] # None}
LockedOf(p) == IF supply[p] = 0 THEN 0 ELSE Minimum

Ignored == [burns : [Pairs -> Nat], sends : SUBSET (Pairs \X Users)]

\* Supply is what is locked and what is held; before the first mint there is none.
ChainInv ==
  /\ supply \in [Pairs -> Nat \union {None}]
  /\ balance \in [Pairs -> UNION {[Holders(p) -> Nat] : p \in Pairs}]
  /\ \A p \in Pairs :
       /\ balance[p] \in [Holders(p) -> Nat]
       /\ supply[p] = None => ignored.burns[p] = 0
       /\ supply[p] \in {None, 0} => \A a \in Holders(p) : balance[p][a] = 0
       /\ supply[p] \notin {None, 0} => supply[p] >= Minimum + SumFunction(balance[p])
  /\ ignored \in Ignored
  /\ pending \in Seq(Event) /\ queue \in Seq(Message)

\* What was sent to a pair by the last call is there for a burn.
SentLeads(g) ==
  \A p \in Pairs :
    LET e == Last(pending)
    IN  pending # <<>> /\ e.kind = "Transfer" /\ e.to = p =>
          e.from \in Users /\ g.phase = PhaseAt("sent", p, e.from, e.value, 0)
Leads(g) ==
  /\ g.known = Existing
  /\ \A p \in Existing : g.total[p] = supply[p] - LockedOf(p) + ignored.burns[p] * Minimum
  /\ IsBetween(g.phase)
  /\ SentLeads(g)

Unhandled == queue \o Delivered(pending)

Stopped == halted => ~ reported.sent /\ ~ reported.tidy

AmmInv ==
  /\ ChainInv /\ Stopped /\ SumsFollow(db)
  /\ db \in Store
  /\ \E g, h \in Ghost :
       /\ halted \/ Follows(db, reported, g)
       /\ Path(g, Unhandled, h) /\ Leads(h)

-----------------------------------------------------------------------------
(* Sequences                                                                *)

\* The last element of a sequence and the rest.
LEMMA LastFacts ==
  ASSUME NEW S, NEW s \in Seq(S), s # <<>>
  PROVE  /\ Last(s) \in S /\ AllButLast(s) \in Seq(S)
         /\ s = Append(AllButLast(s), Last(s))
  <1> DEFINE n == Len(s)
             r == AllButLast(s)
  <1>1. n \in Nat /\ n > 0 /\ Last(s) = s[n] /\ s[n] \in S
    BY EmptySeq, LenProperties DEF Last
  <1>2. \A i \in 1 .. n - 1 : s[i] \in S
    BY <1>1, LenProperties
  <1>3. /\ r \in Seq(S) /\ Len(r) = n - 1
        /\ \A i \in 1 .. n - 1 : r[i] = s[i]
    <2>1. r = SubSeq(s, 1, n - 1)
      BY DEF AllButLast
    <2>2. n - 1 \in Int /\ 1 \in Int
      BY <1>1
    <2> HIDE DEF r, n
    <2>3. /\ SubSeq(s, 1, n - 1) \in Seq(S)
          /\ Len(SubSeq(s, 1, n - 1)) = IF 1 <= n - 1 THEN n - 1 - 1 + 1 ELSE 0
          /\ \A i \in 1 .. n - 1 - 1 + 1 : SubSeq(s, 1, n - 1)[i] = s[1 + i - 1]
      BY <1>2, <2>2, SubSeqProperties
    <2> QED BY <1>1, <2>1, <2>3
  <1> HIDE DEF r
  <1>4. s = Append(r, Last(s))
    <2>1. /\ Append(r, Last(s)) \in Seq(S) /\ Len(Append(r, Last(s))) = n
          /\ \A i \in 1 .. n - 1 : Append(r, Last(s))[i] = r[i]
          /\ Append(r, Last(s))[n] = Last(s)
      <3>1. /\ Append(r, Last(s)) \in Seq(S) /\ Len(Append(r, Last(s))) = Len(r) + 1
            /\ \A i \in 1 .. Len(r) : Append(r, Last(s))[i] = r[i]
            /\ Append(r, Last(s))[Len(r) + 1] = Last(s)
        BY <1>1, <1>3, AppendProperties
      <3>2. Len(r) + 1 = n
        BY <1>1, <1>3
      <3> QED BY <1>3, <3>1, <3>2
    <2>2. \A i \in 1 .. n : s[i] = Append(r, Last(s))[i]
      BY <1>1, <1>3, <2>1
    <2> QED BY <2>1, <2>2, SeqEqual
  <1> QED BY <1>1, <1>3, <1>4 DEF r

\* What a row at the end changes.
LEMMA LastOfAppend ==
  ASSUME NEW S, NEW s \in Seq(S), NEW x \in S
  PROVE  /\ Append(s, x) \in Seq(S) /\ Append(s, x) # <<>> /\ Last(Append(s, x)) = x
  BY AppendProperties DEF Last

LEMMA WithLastFacts ==
  ASSUME NEW S, NEW s \in Seq(S), s # <<>>, NEW x \in S
  PROVE  /\ WithLast(s, x) \in Seq(S) /\ WithLast(s, x) # <<>> /\ Last(WithLast(s, x)) = x
         /\ WithLast(s, x) = Append(AllButLast(s), x)
  BY LastFacts, LastOfAppend DEF WithLast

\* The recursive function of Done, and what it makes of a longer sequence.
DoneStep(rows, f, n) ==
  IF n = 0 THEN <<>>
  ELSE IF rows[n].complete THEN Append(f[n - 1], rows[n]) ELSE f[n - 1]
DoneFun(rows) == CHOOSE f : f = [n \in 0 .. Len(rows) |-> DoneStep(rows, f, n)]

LEMMA DoneUnfold == ASSUME NEW rows PROVE Done(rows) = DoneFun(rows)[Len(rows)]
  BY DEF Done, DoneFun, DoneStep

\* Such a function exists for every length, by the least one for which it does not.
LEMMA DoneExists ==
  ASSUME NEW S, NEW rows \in Seq(S)
  PROVE  DoneFun(rows) = [n \in 0 .. Len(rows) |-> DoneStep(rows, DoneFun(rows), n)]
  <1> DEFINE Has(k) == \E f : f = [n \in 0 .. k |-> DoneStep(rows, f, n)]
             Bad == {k \in Nat : ~ Has(k)}
  <1>1. Bad = {}
    <2> SUFFICES ASSUME Bad # {} PROVE FALSE
      OBVIOUS
    <2>1. PICK k \in Bad : \A m \in Bad : k <= m
      <3>1. Bad \subseteq Nat
        OBVIOUS
      <3> HIDE DEF Bad
      <3> QED BY <3>1, LeastNatural
    <2>2. k \in Nat /\ ~ Has(k)
      OBVIOUS
    <2>3. CASE k = 0
      <3> DEFINE f == [n \in 0 .. 0 |-> <<>>]
      <3>1. \A n \in 0 .. 0 : DoneStep(rows, f, n) = <<>>
        BY DEF DoneStep
      <3>2. f = [n \in 0 .. 0 |-> DoneStep(rows, f, n)]
        BY <3>1
      <3> QED BY <2>2, <2>3, <3>2
    <2>4. CASE k > 0
      <3>1. k - 1 \in Nat /\ ~ (k <= k - 1)
        BY <2>2, <2>4
      <3>2. Has(k - 1)
        BY <2>1, <3>1
      <3>3. PICK f : f = [n \in 0 .. k - 1 |-> DoneStep(rows, f, n)]
        BY <3>2
      <3> DEFINE h == [n \in 0 .. k |-> DoneStep(rows, f, n)]
      <3>4. \A n \in 0 .. k - 1 : h[n] = f[n]
        <4> SUFFICES ASSUME NEW n \in 0 .. k - 1 PROVE h[n] = f[n]
          OBVIOUS
        <4>1. f[n] = DoneStep(rows, f, n)
          BY <3>3
        <4>2. n \in 0 .. k
          BY <2>2
        <4> QED BY <4>1, <4>2
      <3>5. \A n \in 0 .. k : DoneStep(rows, f, n) = DoneStep(rows, h, n)
        <4> SUFFICES ASSUME NEW n \in 0 .. k
                     PROVE  DoneStep(rows, f, n) = DoneStep(rows, h, n)
          OBVIOUS
        <4>1. n # 0 => n - 1 \in 0 .. k - 1
          BY <2>2
        <4>2. n # 0 => h[n - 1] = f[n - 1]
          BY <3>4, <4>1
        <4> HIDE DEF h
        <4> QED BY <4>2 DEF DoneStep
      <3>6. h = [n \in 0 .. k |-> DoneStep(rows, h, n)]
        BY <3>5
      <3> HIDE DEF h
      <3> QED BY <2>2, <3>6
    <2> QED BY <2>2, <2>3, <2>4
  <1>2. Len(rows) \in Nat
    BY LenProperties
  <1>3. Has(Len(rows))
    BY <1>1, <1>2
  <1> QED BY <1>3 DEF DoneFun

\* Done of no rows, and of one row more.
LEMMA DoneOfNone == Done(<<>>) = <<>>
  <1>1. <<>> \in Seq({}) /\ Len(<<>>) = 0
    BY EmptySeq
  <1> DEFINE f == DoneFun(<<>>)
  <1>2. f = [n \in 0 .. Len(<<>>) |-> DoneStep(<<>>, f, n)]
    BY <1>1, DoneExists
  <1>3. Done(<<>>) = f[Len(<<>>)]
    BY DoneUnfold
  <1> HIDE DEF f
  <1>4. f[0] = DoneStep(<<>>, f, 0)
    BY <1>1, <1>2
  <1> QED BY <1>1, <1>3, <1>4 DEF DoneStep

LEMMA DoneOfAppend ==
  ASSUME NEW S, NEW rows \in Seq(S), NEW row \in S
  PROVE  Done(Append(rows, row)) = IF row.complete THEN Append(Done(rows), row) ELSE Done(rows)
  <1> DEFINE all == Append(rows, row)
             f == DoneFun(rows)
             h == DoneFun(all)
             N == Len(rows)
  <1>1. /\ all \in Seq(S) /\ Len(all) = N + 1 /\ N \in Nat
        /\ \A i \in 1 .. N : all[i] = rows[i]
        /\ all[N + 1] = row
    BY AppendProperties, LenProperties
  <1> HIDE DEF all, N
  <1>2. \A n \in 0 .. N : f[n] = DoneStep(rows, f, n)
    <2>1. f = [n \in 0 .. N |-> DoneStep(rows, f, n)]
      BY DoneExists DEF N
    <2> HIDE DEF f
    <2> QED BY <2>1
  <1>3. \A n \in 0 .. N + 1 : h[n] = DoneStep(all, h, n)
    <2>1. h = [n \in 0 .. N + 1 |-> DoneStep(all, h, n)]
      BY <1>1, DoneExists
    <2> HIDE DEF h
    <2> QED BY <2>1
  <1> HIDE DEF f, h
  <1> DEFINE Bad == {n \in 0 .. N : h[n] # f[n]}
  <1>4. Bad = {}
    <2> SUFFICES ASSUME Bad # {} PROVE FALSE
      OBVIOUS
    <2>1. PICK n \in Bad : \A m \in Bad : n <= m
      <3>1. Bad \subseteq Nat
        BY <1>1
      <3> HIDE DEF Bad
      <3> QED BY <3>1, LeastNatural
    <2>2. n \in 0 .. N /\ n \in 0 .. N + 1 /\ h[n] # f[n]
      BY <1>1
    <2>3. CASE n = 0
      BY <1>2, <1>3, <2>2, <2>3 DEF DoneStep
    <2>4. CASE n # 0
      <3>1. n - 1 \in 0 .. N /\ ~ (n <= n - 1) /\ n \in 1 .. N
        BY <1>1, <2>2, <2>4
      <3>2. h[n - 1] = f[n - 1] /\ all[n] = rows[n]
        BY <1>1, <2>1, <3>1
      <3>3. h[n] = DoneStep(all, h, n) /\ f[n] = DoneStep(rows, f, n)
        BY <1>2, <1>3, <2>2
      <3>4. DoneStep(all, h, n) = DoneStep(rows, f, n)
        BY <3>2 DEF DoneStep
      <3> QED BY <2>2, <3>3, <3>4
    <2> QED BY <2>3, <2>4
  <1>5. h[N] = f[N] /\ f[N] = Done(rows)
    BY <1>1, <1>4, DoneUnfold DEF f, N
  <1>6. h[N + 1] = DoneStep(all, h, N + 1) /\ h[N + 1] = Done(all)
    BY <1>1, <1>3, DoneUnfold DEF h
  <1>7. N + 1 # 0 /\ N + 1 - 1 = N
    BY <1>1
  <1>8. DoneStep(all, h, N + 1) = IF row.complete THEN Append(h[N], row) ELSE h[N]
    BY <1>1, <1>7 DEF DoneStep
  <1> QED BY <1>5, <1>6, <1>8 DEF all

LEMMA DoneType ==
  ASSUME NEW S, NEW rows \in Seq(S)
  PROVE  Done(rows) \in Seq(S)
  <1> DEFINE f == DoneFun(rows)
             N == Len(rows)
             Bad == {n \in 0 .. N : f[n] \notin Seq(S)}
  <1>1. N \in Nat
    BY LenProperties
  <1>2. f = [n \in 0 .. N |-> DoneStep(rows, f, n)]
    BY DoneExists
  <1>3. Done(rows) = f[N]
    BY DoneUnfold
  <1> HIDE DEF f
  <1>4. Bad = {}
    <2> SUFFICES ASSUME Bad # {} PROVE FALSE
      OBVIOUS
    <2>1. PICK n \in Bad : \A m \in Bad : n <= m
      <3>1. Bad \subseteq Nat
        BY <1>1
      <3> HIDE DEF Bad
      <3> QED BY <3>1, LeastNatural
    <2>2. n \in 0 .. N /\ f[n] \notin Seq(S) /\ f[n] = DoneStep(rows, f, n)
      BY <1>2
    <2>3. CASE n = 0
      BY <2>2, <2>3, EmptySeq DEF DoneStep
    <2>4. CASE n # 0
      <3>1. n - 1 \in 0 .. N /\ ~ (n <= n - 1) /\ n \in 1 .. N
        BY <1>1, <2>2, <2>4
      <3>2. f[n - 1] \in Seq(S)
        BY <2>1, <3>1
      <3>3. rows[n] \in S
        BY <3>1, ElementOfSeq DEF N
      <3>4. Append(f[n - 1], rows[n]) \in Seq(S)
        BY <3>2, <3>3, AppendProperties
      <3> QED BY <2>2, <2>4, <3>2, <3>4 DEF DoneStep
    <2> QED BY <2>3, <2>4
  <1> QED BY <1>1, <1>3, <1>4

\* The calls that rows speak of, with one row more.
MintPart(row) == [pair |-> row.pair, to |-> row.to, liquidity |-> row.liquidity]
BurnPart(row) ==
  [pair |-> row.pair, sender |-> row.sender, liquidity |-> row.liquidity, fee |-> row.fee]

LEMMA MintRowsOfAppend ==
  ASSUME NEW rows \in Seq(MintRow), NEW row \in MintRow
  PROVE  MintRows(Append(rows, row)) = Append(MintRows(rows), MintPart(row))
  <1> DEFINE all == Append(rows, row)
             N == Len(rows)
             s == MintRows(rows)
             t == MintRows(all)
  <1>1. /\ all \in Seq(MintRow) /\ Len(all) = N + 1 /\ N \in Nat
        /\ \A i \in 1 .. N : all[i] = rows[i]
        /\ all[N + 1] = row /\ DOMAIN all = 1 .. N + 1 /\ DOMAIN rows = 1 .. N
    BY AppendProperties, LenProperties
  <1>2. \A i \in 1 .. N + 1 : all[i] \in MintRow
    BY <1>1, LenProperties
  <1>3. \A i \in 1 .. N : rows[i] \in MintRow
    BY LenProperties
  <1> HIDE DEF all, N
  <1>4. s = [i \in 1 .. N |-> MintPart(rows[i])] /\ t = [i \in 1 .. N + 1 |-> MintPart(all[i])]
    BY <1>1 DEF MintRows, MintPart
  <1>5. s \in Seq(MintCall) /\ Len(s) = N /\ t \in Seq(MintCall) /\ Len(t) = N + 1
    <2>1. \A i \in 1 .. N : MintPart(rows[i]) \in MintCall
      BY <1>3 DEF MintPart, MintCall, MintRow
    <2>2. \A i \in 1 .. N + 1 : MintPart(all[i]) \in MintCall
      BY <1>2 DEF MintPart, MintCall, MintRow
    <2> QED BY <1>1, <1>4, <2>1, <2>2
  <1>6. MintPart(row) \in MintCall
    BY DEF MintPart, MintCall, MintRow
  <1>7. \A i \in 1 .. N + 1 : t[i] = Append(s, MintPart(row))[i]
    <2>1. \A i \in 1 .. N : t[i] = s[i]
      BY <1>1, <1>4
    <2>2. t[N + 1] = MintPart(row)
      BY <1>1, <1>4
    <2> HIDE DEF s, t
    <2>3. \A i \in 1 .. N : Append(s, MintPart(row))[i] = s[i]
      BY <1>5, <1>6, AppendProperties
    <2>4. Append(s, MintPart(row))[N + 1] = MintPart(row)
      BY <1>5, <1>6, AppendProperties
    <2> DEFINE v == Append(s, MintPart(row))
    <2> HIDE DEF v
    <2>5. (\A i \in 1 .. N : v[i] = s[i]) /\ v[N + 1] = MintPart(row)
      BY <2>3, <2>4 DEF v
    <2>6. \A i \in 1 .. N + 1 : t[i] = v[i]
      BY <1>1, <2>1, <2>2, <2>5
    <2> QED BY <2>6 DEF v
  <1> HIDE DEF s, t
  <1>8. Append(s, MintPart(row)) \in Seq(MintCall) /\ Len(Append(s, MintPart(row))) = N + 1
    BY <1>5, <1>6, AppendProperties
  <1> QED BY <1>5, <1>7, <1>8, SeqEqual DEF s, t, all

LEMMA BurnRowsOfAppend ==
  ASSUME NEW rows \in Seq(BurnRow), NEW row \in BurnRow
  PROVE  BurnRows(Append(rows, row)) = Append(BurnRows(rows), BurnPart(row))
  <1> DEFINE all == Append(rows, row)
             N == Len(rows)
             s == BurnRows(rows)
             t == BurnRows(all)
  <1>1. /\ all \in Seq(BurnRow) /\ Len(all) = N + 1 /\ N \in Nat
        /\ \A i \in 1 .. N : all[i] = rows[i]
        /\ all[N + 1] = row /\ DOMAIN all = 1 .. N + 1 /\ DOMAIN rows = 1 .. N
    BY AppendProperties, LenProperties
  <1>2. \A i \in 1 .. N + 1 : all[i] \in BurnRow
    BY <1>1, LenProperties
  <1>3. \A i \in 1 .. N : rows[i] \in BurnRow
    BY LenProperties
  <1> HIDE DEF all, N
  <1>4. s = [i \in 1 .. N |-> BurnPart(rows[i])] /\ t = [i \in 1 .. N + 1 |-> BurnPart(all[i])]
    BY <1>1 DEF BurnRows, BurnPart
  <1>5. s \in Seq(BurnCall) /\ Len(s) = N /\ t \in Seq(BurnCall) /\ Len(t) = N + 1
    <2>1. \A i \in 1 .. N : BurnPart(rows[i]) \in BurnCall
      BY <1>3 DEF BurnPart, BurnCall, BurnRow
    <2>2. \A i \in 1 .. N + 1 : BurnPart(all[i]) \in BurnCall
      BY <1>2 DEF BurnPart, BurnCall, BurnRow
    <2> QED BY <1>1, <1>4, <2>1, <2>2
  <1>6. BurnPart(row) \in BurnCall
    BY DEF BurnPart, BurnCall, BurnRow
  <1>7. \A i \in 1 .. N + 1 : t[i] = Append(s, BurnPart(row))[i]
    <2>1. \A i \in 1 .. N : t[i] = s[i]
      BY <1>1, <1>4
    <2>2. t[N + 1] = BurnPart(row)
      BY <1>1, <1>4
    <2> HIDE DEF s, t
    <2>3. \A i \in 1 .. N : Append(s, BurnPart(row))[i] = s[i]
      BY <1>5, <1>6, AppendProperties
    <2>4. Append(s, BurnPart(row))[N + 1] = BurnPart(row)
      BY <1>5, <1>6, AppendProperties
    <2> DEFINE v == Append(s, BurnPart(row))
    <2> HIDE DEF v
    <2>5. (\A i \in 1 .. N : v[i] = s[i]) /\ v[N + 1] = BurnPart(row)
      BY <2>3, <2>4 DEF v
    <2>6. \A i \in 1 .. N + 1 : t[i] = v[i]
      BY <1>1, <2>1, <2>2, <2>5
    <2> QED BY <2>6 DEF v
  <1> HIDE DEF s, t
  <1>8. Append(s, BurnPart(row)) \in Seq(BurnCall) /\ Len(Append(s, BurnPart(row))) = N + 1
    BY <1>5, <1>6, AppendProperties
  <1> QED BY <1>5, <1>7, <1>8, SeqEqual DEF s, t, all

-----------------------------------------------------------------------------
(* Paths                                                                    *)

\* No messages lead nowhere.
LEMMA PathOfNone == ASSUME NEW g \in Ghost PROVE Path(g, <<>>, g)
  <1> DEFINE w == [i \in 0 .. 0 |-> g]
  <1>1. Len(<<>>) = 0
    BY EmptySeq
  <1>2. w \in [0 .. Len(<<>>) -> Ghost] /\ w[0] = g /\ w[Len(<<>>)] = g
    BY <1>1
  <1>3. 1 .. Len(<<>>) = {}
    BY <1>1
  <1> HIDE DEF w
  <1> QED BY <1>2, <1>3 DEF Path

\* One message more.
LEMMA PathAppended ==
  ASSUME NEW q \in Seq(Message), NEW m \in Message,
         NEW g, NEW h \in Ghost, NEW k \in Ghost, Path(g, q, h), Turn(h, m, k)
  PROVE  Path(g, Append(q, m), k)
  <1> DEFINE N == Len(q)
             a == Append(q, m)
  <1>1. N \in Nat /\ Len(a) = N + 1 /\ a[N + 1] = m /\ \A i \in 1 .. N : a[i] = q[i]
    BY AppendProperties, LenProperties
  <1>2. PICK w \in [0 .. N -> Ghost] :
          w[0] = g /\ w[N] = h /\ \A i \in 1 .. N : Turn(w[i - 1], q[i], w[i])
    BY DEF Path
  <1> HIDE DEF a, N
  <1> DEFINE v == [i \in 0 .. N + 1 |-> IF i = N + 1 THEN k ELSE w[i]]
  <1>3. /\ v \in [0 .. N + 1 -> Ghost] /\ v[0] = g /\ v[N + 1] = k
        /\ \A i \in 0 .. N : v[i] = w[i]
    BY <1>1, <1>2
  <1> HIDE DEF v
  <1>4. \A i \in 1 .. N + 1 : Turn(v[i - 1], a[i], v[i])
    <2> SUFFICES ASSUME NEW i \in 1 .. N + 1 PROVE Turn(v[i - 1], a[i], v[i])
      OBVIOUS
    <2>1. CASE i = N + 1
      <3>1. v[i - 1] = h /\ a[i] = m /\ v[i] = k
        BY <1>1, <1>2, <1>3, <2>1
      <3> QED BY <3>1
    <2>2. CASE i # N + 1
      <3>1. i \in 1 .. N /\ i - 1 \in 0 .. N /\ i \in 0 .. N
        BY <1>1, <2>2
      <3>2. v[i - 1] = w[i - 1] /\ a[i] = q[i] /\ v[i] = w[i]
        BY <1>1, <1>3, <3>1
      <3> QED BY <1>2, <3>1, <3>2
    <2> QED BY <2>1, <2>2
  <1> QED BY <1>1, <1>3, <1>4 DEF Path, a

\* The first message handled.
LEMMA PathBegun ==
  ASSUME NEW q \in Seq(Message), q # <<>>, NEW g, NEW k, Path(g, q, k)
  PROVE  \E h \in Ghost : Turn(g, Head(q), h) /\ Path(h, Tail(q), k)
  <1> DEFINE N == Len(q)
             r == Tail(q)
  <1>1. /\ N \in Nat /\ N > 0 /\ Head(q) = q[1] /\ Len(r) = N - 1
        /\ \A i \in 1 .. N - 1 : r[i] = q[i + 1]
    BY EmptySeq, LenProperties, HeadTailProperties
  <1>2. PICK w \in [0 .. N -> Ghost] :
          w[0] = g /\ w[N] = k /\ \A i \in 1 .. N : Turn(w[i - 1], q[i], w[i])
    BY DEF Path
  <1> HIDE DEF N, r
  <1> DEFINE v == [i \in 0 .. N - 1 |-> w[i + 1]]
  <1>3. /\ v \in [0 .. N - 1 -> Ghost] /\ v[0] = w[1] /\ v[N - 1] = k
        /\ \A i \in 0 .. N - 1 : v[i] = w[i + 1]
    BY <1>1, <1>2
  <1> HIDE DEF v
  <1>4. \A i \in 1 .. N - 1 : Turn(v[i - 1], r[i], v[i])
    <2> SUFFICES ASSUME NEW i \in 1 .. N - 1 PROVE Turn(v[i - 1], r[i], v[i])
      OBVIOUS
    <2>1. i + 1 \in 1 .. N /\ i + 1 - 1 = i /\ i - 1 \in 0 .. N - 1 /\ i - 1 + 1 = i
          /\ i \in 0 .. N - 1
      BY <1>1
    <2>2. v[i - 1] = w[i] /\ v[i] = w[i + 1] /\ r[i] = q[i + 1]
      BY <1>1, <1>3, <2>1
    <2>3. Turn(w[i + 1 - 1], q[i + 1], w[i + 1])
      BY <1>2, <2>1
    <2> QED BY <2>1, <2>2, <2>3
  <1>5. Path(w[1], r, k)
    BY <1>1, <1>3, <1>4 DEF Path
  <1>6. w[1] \in Ghost /\ Turn(g, q[1], w[1])
    <2>1. 1 \in 1 .. N /\ 1 - 1 = 0 /\ 1 \in 0 .. N
      BY <1>1
    <2>2. Turn(w[1 - 1], q[1], w[1])
      BY <1>2, <2>1
    <2> QED BY <1>2, <2>1, <2>2
  <1> QED BY <1>1, <1>5, <1>6 DEF r

\* The messages of a transaction with one event more.
MessageOf(s, e) == [first |-> s = <<>>, event |-> e]

LEMMA DeliveredOfNone == Delivered(<<>>) = <<>>
  <1>1. DOMAIN <<>> = {}
    BY EmptySeq, LenProperties
  <1> QED BY <1>1 DEF Delivered

LEMMA DeliveredType == ASSUME NEW s \in Seq(Event) PROVE Delivered(s) \in Seq(Message)
  <1>1. DOMAIN s = 1 .. Len(s) /\ Len(s) \in Nat
    BY LenProperties
  <1>2. \A i \in 1 .. Len(s) : [first |-> i = 1, event |-> s[i]] \in Message
    BY LenProperties DEF Message
  <1>3. Delivered(s) = [i \in 1 .. Len(s) |-> [first |-> i = 1, event |-> s[i]]]
    BY <1>1 DEF Delivered
  <1> QED BY <1>1, <1>2, <1>3

LEMMA DeliveredOfAppend ==
  ASSUME NEW s \in Seq(Event), NEW e \in Event
  PROVE  Delivered(Append(s, e)) = Append(Delivered(s), MessageOf(s, e))
  <1> DEFINE N == Len(s)
             a == Append(s, e)
             ds == Delivered(s)
             da == Delivered(a)
             m == MessageOf(s, e)
  <1>1. /\ a \in Seq(Event) /\ Len(a) = N + 1 /\ a[N + 1] = e /\ N \in Nat
        /\ \A i \in 1 .. N : a[i] = s[i]
        /\ DOMAIN a = 1 .. N + 1 /\ DOMAIN s = 1 .. N
    BY AppendProperties, LenProperties
  <1>2. ds \in Seq(Message) /\ da \in Seq(Message) /\ m \in Message
    BY <1>1, DeliveredType DEF MessageOf, Message
  <1>3. s = <<>> <=> N + 1 = 1
    BY <1>1, EmptySeq
  <1> HIDE DEF N, a
  <1>4. /\ ds = [i \in 1 .. N |-> [first |-> i = 1, event |-> s[i]]]
        /\ da = [i \in 1 .. N + 1 |-> [first |-> i = 1, event |-> a[i]]]
    BY <1>1 DEF Delivered
  <1> HIDE DEF ds, da
  <1>5. Len(ds) = N /\ Len(da) = N + 1
    BY <1>1, <1>2, <1>4, LenProperties
  <1>6. da[N + 1] = m
    <2>1. N + 1 \in 1 .. N + 1
      BY <1>1
    <2>2. da[N + 1] = [first |-> N + 1 = 1, event |-> e]
      BY <1>1, <1>4, <2>1
    <2> QED BY <1>3, <2>2 DEF MessageOf
  <1> HIDE DEF m
  <1> DEFINE v == Append(ds, m)
  <1>7. /\ v \in Seq(Message) /\ Len(v) = N + 1 /\ v[N + 1] = m
        /\ \A i \in 1 .. N : v[i] = ds[i]
    BY <1>2, <1>5, AppendProperties
  <1> HIDE DEF v
  <1>8. \A i \in 1 .. N + 1 : da[i] = v[i]
    <2> SUFFICES ASSUME NEW i \in 1 .. N + 1 PROVE da[i] = v[i]
      OBVIOUS
    <2>1. CASE i = N + 1
      BY <1>6, <1>7, <2>1
    <2>2. CASE i # N + 1
      <3>1. i \in 1 .. N
        BY <1>1, <2>2
      <3> QED BY <1>1, <1>4, <1>7, <3>1
    <2> QED BY <2>1, <2>2
  <1>9. da = v
    BY <1>2, <1>5, <1>7, <1>8, SeqEqual
  <1> QED BY <1>9 DEF da, v, a, ds, m

LEMMA ConcatOfAppend ==
  ASSUME NEW S, NEW s \in Seq(S), NEW t \in Seq(S), NEW x \in S
  PROVE  s \o Append(t, x) = Append(s \o t, x)
  <1>1. /\ t \o <<x>> = Append(t, x) /\ s \o t \in Seq(S)
        /\ (s \o t) \o <<x>> = Append(s \o t, x) /\ <<x>> \in Seq(S)
    BY ConcatProperties, AppendIsConcat
  <1> QED BY <1>1, ConcatAssociative

\* An event after those of s, and where it leads.
LEMMA Emitted ==
  ASSUME NEW q \in Seq(Message), NEW s \in Seq(Event), NEW e \in Event,
         NEW g, NEW h \in Ghost, NEW k \in Ghost,
         Path(g, q \o Delivered(s), h), Turn(h, MessageOf(s, e), k)
  PROVE  Path(g, q \o Delivered(Append(s, e)), k)
  <1> DEFINE m == MessageOf(s, e)
             all == q \o Delivered(s)
  <1>1. m \in Message /\ Delivered(s) \in Seq(Message) /\ all \in Seq(Message)
    BY DeliveredType, ConcatProperties DEF MessageOf, Message
  <1>2. q \o Delivered(Append(s, e)) = Append(all, m)
    <2>1. Delivered(Append(s, e)) = Append(Delivered(s), m)
      BY DeliveredOfAppend
    <2> DEFINE t == Delivered(s)
    <2>2. t \in Seq(Message) /\ m \in Message /\ all = q \o t
      BY <1>1
    <2> HIDE DEF t, m, all
    <2>3. q \o Append(t, m) = Append(q \o t, m)
      BY <2>2, ConcatOfAppend
    <2> QED BY <2>1, <2>2, <2>3 DEF t
  <1> HIDE DEF m, all
  <1>3. Path(g, Append(all, m), k)
    BY <1>1, PathAppended DEF m, all
  <1> QED BY <1>2, <1>3

\* The first event of a call may open a transaction, the others follow it.
LEMMA EmittedFirst ==
  ASSUME NEW q \in Seq(Message), NEW s \in Seq(Event), NEW e \in Event,
         NEW g, NEW h \in Ghost, NEW k \in Ghost,
         Path(g, q \o Delivered(s), h),
         After(IF s = <<>> THEN [h EXCEPT !.phase = Between] ELSE h, e, k)
  PROVE  Path(g, q \o Delivered(Append(s, e)), k)
  BY Emitted DEF MessageOf, Turn, At

LEMMA EmittedNext ==
  ASSUME NEW q \in Seq(Message), NEW s \in Seq(Event), NEW d \in Event, NEW e \in Event,
         NEW g, NEW h \in Ghost, NEW k \in Ghost,
         Path(g, q \o Delivered(Append(s, d)), h), After(h, e, k)
  PROVE  Path(g, q \o Delivered(Append(Append(s, d), e)), k)
  <1> DEFINE t == Append(s, d)
  <1>1. t \in Seq(Event) /\ t # <<>>
    BY AppendProperties
  <1> HIDE DEF t
  <1>2. Path(g, q \o Delivered(t), h)
    BY DEF t
  <1>3. Path(g, q \o Delivered(Append(t, e)), k)
    BY <1>1, <1>2, EmittedFirst
  <1> QED BY <1>3 DEF t

\* The events of a call, one after another.
LEMMA Appending ==
  ASSUME NEW s \in Seq(Event), NEW a \in Event, NEW b \in Event, NEW c \in Event,
         NEW d \in Event
  PROVE  /\ s \o <<a>> = Append(s, a)
         /\ s \o <<a, b>> = Append(Append(s, a), b)
         /\ s \o <<a, b, c>> = Append(Append(Append(s, a), b), c)
         /\ s \o <<a, b, c, d>> = Append(Append(Append(Append(s, a), b), c), d)
  <1>1. s \o <<a>> = Append(s, a)
    BY AppendIsConcat
  <1>2. <<a>> \in Seq(Event) /\ <<a, b>> \in Seq(Event) /\ <<a, b, c>> \in Seq(Event)
    OBVIOUS
  <1>3. /\ <<a, b>> = Append(<<a>>, b) /\ <<a, b, c>> = Append(<<a, b>>, c)
        /\ <<a, b, c, d>> = Append(<<a, b, c>>, d)
    OBVIOUS
  <1>4. s \o <<a, b>> = Append(s \o <<a>>, b)
    BY <1>2, <1>3, ConcatOfAppend
  <1>5. s \o <<a, b, c>> = Append(s \o <<a, b>>, c)
    BY <1>2, <1>3, ConcatOfAppend
  <1>6. s \o <<a, b, c, d>> = Append(s \o <<a, b, c>>, d)
    BY <1>2, <1>3, ConcatOfAppend
  <1> QED BY <1>1, <1>4, <1>5, <1>6

-----------------------------------------------------------------------------
(* Rows of a transaction                                                    *)

\* What is left without the row at the end.
LEMMA AllButLastOfAppend ==
  ASSUME NEW S, NEW s \in Seq(S), NEW x \in S
  PROVE  AllButLast(Append(s, x)) = s
  <1> DEFINE a == Append(s, x)
  <1>1. /\ a \in Seq(S) /\ a # <<>> /\ Len(a) = Len(s) + 1 /\ Len(s) \in Nat
        /\ \A i \in 1 .. Len(s) : a[i] = s[i]
    BY AppendProperties, LenProperties
  <1> HIDE DEF a
  <1>2. AllButLast(a) \in Seq(S) /\ a = Append(AllButLast(a), Last(a)) /\ Last(a) \in S
    BY <1>1, LastFacts
  <1> DEFINE r == AllButLast(a)
             y == Last(a)
  <1>3. r \in Seq(S) /\ y \in S /\ a = Append(r, y)
    BY <1>2
  <1> HIDE DEF r, y
  <1>4. /\ Len(Append(r, y)) = Len(r) + 1 /\ Len(r) \in Nat
        /\ \A i \in 1 .. Len(r) : Append(r, y)[i] = r[i]
    BY <1>3, AppendProperties, LenProperties
  <1>5. Len(r) = Len(s)
    BY <1>1, <1>3, <1>4
  <1>6. \A i \in 1 .. Len(r) : r[i] = s[i]
    BY <1>1, <1>3, <1>4, <1>5
  <1>7. r = s
    BY <1>3, <1>5, <1>6, SeqEqual
  <1> QED BY <1>7 DEF r, a

\* A row that is not complete may be taken out or replaced.
LEMMA DoneOfWithLast ==
  ASSUME NEW S, NEW s \in Seq(S), s # <<>>, ~ Last(s).complete, NEW x \in S
  PROVE  /\ Done(AllButLast(s)) = Done(s)
         /\ Done(WithLast(s, x)) = IF x.complete THEN Append(Done(s), x) ELSE Done(s)
  <1> DEFINE r == AllButLast(s)
             y == Last(s)
  <1>1. r \in Seq(S) /\ y \in S /\ s = Append(r, y) /\ WithLast(s, x) = Append(r, x)
    BY LastFacts, WithLastFacts
  <1>2. ~ y.complete
    OBVIOUS
  <1> HIDE DEF r, y
  <1>3. Done(Append(r, y)) = Done(r)
    BY <1>1, <1>2, DoneOfAppend
  <1>4. Done(Append(r, x)) = IF x.complete THEN Append(Done(r), x) ELSE Done(r)
    BY <1>1, DoneOfAppend
  <1> QED BY <1>1, <1>3, <1>4 DEF r

-----------------------------------------------------------------------------
(* Rows of a pair                                                           *)

\* What a handler leaves alone: the reserves and the liquidity they add up to, and
\* the rows of the transaction.
PairsKept(d, D) ==
  \A p \in Pairs :
    /\ D.pair[p] = None <=> d.pair[p] = None
    /\ d.pair[p] # None => /\ D.pair[p].reserve = d.pair[p].reserve
                           /\ D.pair[p].reserveUSD = d.pair[p].reserveUSD
ReservesKept(d, D) ==
  D.factoryUSD = d.factoryUSD /\ D.tradeLiquidity = d.tradeLiquidity /\ PairsKept(d, D)
CallsKept(d, D) ==
  D.mints = d.mints /\ D.burns = d.burns /\ D.trades = d.trades /\ D.tx = d.tx

LEMMA ReservesKeptOn ==
  ASSUME NEW c, NEW d, NEW D, ReservesKept(c, d), ReservesKept(d, D)
  PROVE  ReservesKept(c, D)
  BY DEF ReservesKept, PairsKept

\* A provider is counted once.
LEMMA WithPositionFollows ==
  ASSUME NEW d \in Store, NEW g \in Ghost, RowsFollow(d, g), NEW p \in g.known,
         NEW u \in Users
  PROVE  /\ WithPosition(d, p, u) \in Store /\ RowsFollow(WithPosition(d, p, u), g)
         /\ ReservesKept(d, WithPosition(d, p, u)) /\ CallsKept(d, WithPosition(d, p, u))
         /\ WithPosition(d, p, u).position[p][u] # None
  <1> DEFINE D == WithPosition(d, p, u)
             row == d.pair[p]
             c == row.liquidityProviderCount
  <1>1. CASE d.position[p][u] # None
    BY <1>1 DEF WithPosition, ReservesKept, PairsKept, CallsKept
  <1>2. CASE d.position[p][u] = None
    <2>1. p \in Pairs /\ row # None /\ row \in PairRow /\ c = Cardinality(Providers(d, p))
          /\ c \in Int
      BY DEF Ghost, Store, RowsFollow, PairRow
    <2>2. /\ d.pair \in [Pairs -> PairRow \union {None}]
          /\ d.position \in [Pairs -> [Users -> Int \union {None}]]
      BY DEF Store
    <2>3. None \notin PairRow /\ None # 0
      BY NoneAssumption
    <2>4. /\ D = [d EXCEPT !.pair = D.pair, !.position = D.position]
          /\ D.pair = [d.pair EXCEPT ![p] = [row EXCEPT !.liquidityProviderCount = c + 1]]
          /\ D.position = [d.position EXCEPT ![p] = [d.position[p] EXCEPT ![u] = 0]]
      BY <1>2 DEF WithPosition, Store
    <2>5. [row EXCEPT !.liquidityProviderCount = c + 1] \in PairRow
      BY <2>1 DEF PairRow
    <2>6. D.pair \in [Pairs -> PairRow \union {None}]
      BY <2>1, <2>2, <2>4, <2>5
    <2>7. D.position \in [Pairs -> [Users -> Int \union {None}]]
      BY <2>1, <2>2, <2>4
    <2>8. D \in Store /\ CallsKept(d, D)
      BY <2>4, <2>6, <2>7 DEF Store, CallsKept
    <2>9. /\ D.factoryUSD = d.factoryUSD /\ D.tradeLiquidity = d.tradeLiquidity
      BY <2>4 DEF Store
    <2>10. /\ D.pair[p] \in PairRow /\ D.pair[p].reserve = row.reserve
           /\ D.pair[p].reserveUSD = row.reserveUSD
           /\ D.pair[p].totalSupply = row.totalSupply
           /\ D.pair[p].liquidityProviderCount = c + 1
           /\ \A q \in Pairs \ {p} : D.pair[q] = d.pair[q] /\ D.position[q] = d.position[q]
           /\ D.position[p] = [d.position[p] EXCEPT ![u] = 0]
      BY <2>1, <2>2, <2>4, <2>5 DEF PairRow
    <2>11. Providers(D, p) = Providers(d, p) \union {u}
      BY <1>2, <2>1, <2>2, <2>3, <2>10 DEF Providers
    <2>12. \A q \in Pairs \ {p} : Providers(D, q) = Providers(d, q)
      BY <2>10 DEF Providers
    <2>13. Cardinality(Providers(d, p) \union {u}) = Cardinality(Providers(d, p)) + 1
      <3>1. Providers(d, p) \subseteq Users /\ u \notin Providers(d, p)
        BY <1>2 DEF Providers
      <3>2. IsFiniteSet(Providers(d, p))
        BY <3>1, HoldersAssumption, FS_Subset
      <3> QED BY <3>1, <3>2, FS_AddElement
    <2> HIDE DEF D, row, c
    <2>14. RowsFollow(D, g)
      <3> SUFFICES ASSUME NEW q \in Pairs
                   PROVE  /\ q \in g.known =>
                               /\ D.pair[q] # None /\ D.pair[q].totalSupply = g.total[q]
                               /\ D.pair[q].liquidityProviderCount = Cardinality(Providers(D, q))
                          /\ q \notin g.known => D.pair[q] = None /\ Providers(D, q) = {}
        BY DEF RowsFollow
      <3>1. CASE q = p
        <4>1. row.totalSupply = g.total[p]
          BY <2>1 DEF RowsFollow, row
        <4> QED BY <2>1, <2>3, <2>10, <2>11, <2>13, <3>1, <4>1
      <3>2. CASE q # p
        BY <2>10, <2>12, <3>2 DEF RowsFollow
      <3> QED BY <3>1, <3>2
    <2>15. ReservesKept(d, D)
      <3>1. D.pair[p] # None /\ d.pair[p] # None
        BY <2>1, <2>3, <2>10 DEF row
      <3> QED BY <2>9, <2>10, <3>1 DEF ReservesKept, PairsKept, row
    <2>16. D.position[p][u] # None
      BY <2>1, <2>2, <2>3, <2>10
    <2> QED BY <2>8, <2>14, <2>15, <2>16 DEF D
  <1> QED BY <1>1, <1>2

\* Reading a balance may add a provider, and changes nothing else that is followed.
LEMMA BalanceReadFollows ==
  ASSUME NEW d \in Store, NEW g \in Ghost, RowsFollow(d, g), NEW p \in g.known, NEW a,
         a \in Users => balance[p][a] \in Int
  PROVE  /\ BalanceRead(d, p, a) \in Store /\ RowsFollow(BalanceRead(d, p, a), g)
         /\ ReservesKept(d, BalanceRead(d, p, a)) /\ CallsKept(d, BalanceRead(d, p, a))
  <1>1. CASE a \notin Users
    BY <1>1 DEF BalanceRead, ReservesKept, PairsKept, CallsKept
  <1>2. CASE a \in Users
    <2> DEFINE c == WithPosition(d, p, a)
               D == BalanceRead(d, p, a)
               n == balance[p][a]
    <2>1. /\ c \in Store /\ RowsFollow(c, g) /\ ReservesKept(d, c) /\ CallsKept(d, c)
          /\ c.position[p][a] # None
      BY <1>2, WithPositionFollows
    <2>2. D = [c EXCEPT !.position[p][a] = n]
      BY <1>2 DEF BalanceRead
    <2>3. p \in Pairs /\ n \in Int /\ n # None
      BY <1>2, NoneAssumption DEF Ghost
    <2> HIDE DEF c, n, D
    <2>4. /\ D.position = [c.position EXCEPT ![p] = [c.position[p] EXCEPT ![a] = n]]
          /\ D = [c EXCEPT !.position = D.position] /\ D.pair = c.pair
      BY <2>1, <2>2, <2>3 DEF Store
    <2>5. c.position \in [Pairs -> [Users -> Int \union {None}]]
      BY <2>1 DEF Store
    <2>6. D.position \in [Pairs -> [Users -> Int \union {None}]]
      BY <1>2, <2>3, <2>4, <2>5
    <2>7. D \in Store /\ CallsKept(d, D)
      BY <2>1, <2>4, <2>6 DEF Store, CallsKept
    <2>8. \A q \in Pairs : Providers(D, q) = Providers(c, q)
      BY <1>2, <2>1, <2>3, <2>4, <2>5 DEF Providers
    <2>9. RowsFollow(D, g)
      BY <2>1, <2>4, <2>8 DEF RowsFollow
    <2>10. ReservesKept(d, D)
      <3>1. D.factoryUSD = c.factoryUSD /\ D.tradeLiquidity = c.tradeLiquidity
        BY <2>1, <2>4 DEF Store
      <3> QED BY <2>1, <2>4, <3>1 DEF ReservesKept, PairsKept
    <2> QED BY <2>7, <2>9, <2>10 DEF D
  <1> QED BY <1>1, <1>2

\* The supply that a row shows follows the transfers.
RowTotalled(d, p, k, D) ==
  /\ D.pair = [d.pair EXCEPT ![p] =
                  [d.pair[p] EXCEPT !.totalSupply = d.pair[p].totalSupply + k]]
  /\ D.position = d.position
AddedTotal(g, p, k, h) ==
  /\ h.known = g.known /\ h.total[p] = g.total[p] + k
  /\ \A q \in Pairs \ {p} : h.total[q] = g.total[q]

LEMMA TotalFollows ==
  ASSUME NEW d \in Store, NEW g \in Ghost, RowsFollow(d, g), NEW p \in g.known, NEW k \in Int,
         NEW D, RowTotalled(d, p, k, D),
         NEW h \in Ghost, AddedTotal(g, p, k, h)
  PROVE  /\ D.pair \in [Pairs -> PairRow \union {None}] /\ RowsFollow(D, h)
         /\ PairsKept(d, D)
  <1> DEFINE row == d.pair[p]
             new == [row EXCEPT !.totalSupply = row.totalSupply + k]
  <1>1. p \in Pairs /\ row # None /\ row \in PairRow /\ row.totalSupply = g.total[p]
    BY DEF Ghost, Store, RowsFollow
  <1>2. d.pair \in [Pairs -> PairRow \union {None}] /\ g.total \in [Pairs -> Int]
    BY DEF Store, Ghost
  <1>3. new \in PairRow /\ new # None
    BY <1>1, NoneAssumption DEF PairRow
  <1>4. /\ new.totalSupply = g.total[p] + k /\ new.reserve = row.reserve
        /\ new.reserveUSD = row.reserveUSD
        /\ new.liquidityProviderCount = row.liquidityProviderCount
    BY <1>1 DEF PairRow
  <1>5. D.pair = [d.pair EXCEPT ![p] = new] /\ D.position = d.position
    BY DEF RowTotalled
  <1> HIDE DEF new
  <1>6. D.pair[p] = new /\ \A q \in Pairs \ {p} : D.pair[q] = d.pair[q]
    BY <1>1, <1>2, <1>5
  <1>7. /\ h.known = g.known /\ h.total[p] = g.total[p] + k
        /\ \A q \in Pairs \ {p} : h.total[q] = g.total[q]
    BY DEF AddedTotal
  <1>8. D.pair \in [Pairs -> PairRow \union {None}]
    BY <1>1, <1>2, <1>3, <1>5
  <1>9. \A q \in Pairs : Providers(D, q) = Providers(d, q)
    BY <1>5 DEF Providers
  <1>10. RowsFollow(D, h)
    <2> SUFFICES ASSUME NEW q \in Pairs
                 PROVE  /\ q \in h.known =>
                             /\ D.pair[q] # None /\ D.pair[q].totalSupply = h.total[q]
                             /\ D.pair[q].liquidityProviderCount = Cardinality(Providers(D, q))
                        /\ q \notin h.known => D.pair[q] = None /\ Providers(D, q) = {}
      BY DEF RowsFollow
    <2>1. CASE q = p
      BY <1>3, <1>4, <1>6, <1>7, <1>9, <2>1 DEF RowsFollow
    <2>2. CASE q # p
      BY <1>6, <1>7, <1>9, <2>2 DEF RowsFollow
    <2> QED BY <2>1, <2>2
  <1> QED BY <1>1, <1>3, <1>4, <1>6, <1>8, <1>10 DEF PairsKept

\* What a turn with a transfer makes of the followed state.
LEMMA MovedFacts ==
  ASSUME NEW g \in Ghost, NEW e, NEW p \in Pairs, e.pair = p, NEW k \in Int, Shown(e) = k,
         NEW ph \in Phase
  PROVE  /\ Moved(g, e, ph) \in Ghost /\ Moved(g, e, ph).phase = ph
         /\ AddedTotal(g, p, k, Moved(g, e, ph))
  <1> DEFINE t == [g.total EXCEPT ![p] = g.total[p] + k]
             h == [g EXCEPT !.total = t, !.phase = ph]
  <1>1. g.total \in [Pairs -> Int]
    BY DEF Ghost
  <1>2. t \in [Pairs -> Int] /\ t[p] = g.total[p] + k
        /\ \A q \in Pairs \ {p} : t[q] = g.total[q]
    BY <1>1
  <1>3. Moved(g, e, ph) = h
    BY <1>1 DEF Moved, Ghost
  <1> HIDE DEF t
  <1>4. h \in Ghost /\ h.known = g.known /\ h.phase = ph /\ h.total = t
    BY <1>2 DEF Ghost
  <1> HIDE DEF h
  <1> QED BY <1>2, <1>3, <1>4 DEF AddedTotal

\* What is reported of a transfer.
LEMMA TransferReported ==
  ASSUME NEW r \in Reports, NEW e, e.kind = "Transfer", e.tidy \in BOOLEAN
  PROVE  /\ Report(r, e) \in Reports
         /\ Report(r, e).mints = r.mints /\ Report(r, e).burns = r.burns
         /\ Report(r, e).swaps = r.swaps
         /\ Report(r, e).tidy = (r.tidy /\ e.tidy)
         /\ Report(r, e).sent = (r.sent \/ e.to = e.pair)
  <1>1. PICK a \in BOOLEAN : a = (r.tidy /\ e.tidy)
    OBVIOUS
  <1>2. PICK b \in BOOLEAN : b = (r.sent \/ e.to = e.pair)
    OBVIOUS
  <1>3. Report(r, e) = [r EXCEPT !.tidy = a, !.sent = b]
    BY <1>1, <1>2 DEF Report
  <1>4. Report(r, e) \in Reports
    BY <1>3 DEF Reports
  <1>5. /\ Report(r, e).mints = r.mints /\ Report(r, e).burns = r.burns
        /\ Report(r, e).swaps = r.swaps
    BY <1>3 DEF Reports
  <1>6. Report(r, e).tidy = a
    BY <1>3 DEF Reports
  <1>7. Report(r, e).sent = b
    BY <1>3 DEF Reports
  <1> QED BY <1>1, <1>2, <1>4, <1>5, <1>6, <1>7

\* What follows the calls only looks at the rows of the transaction.
LEMMA CallsFollowKept ==
  ASSUME NEW d, NEW D, NEW r, NEW ph, CallsKept(d, D), CallsFollow(d, r, ph)
  PROVE  CallsFollow(D, r, ph)
  BY DEF CallsKept, CallsFollow, SentFollows, TidyFollows, OpenMintFollows, OpenBurnFollows,
         HasOpenMint

\* Both balances of a transfer are read.
LEMMA BothReadFollow ==
  ASSUME ChainInv, NEW d \in Store, NEW r \in Reports, NEW h \in Ghost, Follows(d, r, h),
         NEW p \in h.known, NEW a, NEW b
  PROVE  LET D == BalanceRead(BalanceRead(d, p, a), p, b)
         IN  Follows(D, r, h) /\ ReservesKept(d, D)
  <1> DEFINE c == BalanceRead(d, p, a)
             D == BalanceRead(c, p, b)
  <1>1. \A u \in Users : balance[p][u] \in Int
    <2>1. p \in Pairs
      BY DEF Ghost
    <2>2. balance[p] \in [Users \union {p} -> Nat]
      BY <2>1 DEF ChainInv, Holders
    <2> QED BY <2>2
  <1>2. RowsFollow(d, h) /\ CallsFollow(d, r, h.phase)
    BY DEF Follows
  <1>3. c \in Store /\ RowsFollow(c, h) /\ ReservesKept(d, c) /\ CallsKept(d, c)
    BY <1>1, <1>2, BalanceReadFollows
  <1> HIDE DEF c
  <1>4. D \in Store /\ RowsFollow(D, h) /\ ReservesKept(c, D) /\ CallsKept(c, D)
    BY <1>1, <1>3, BalanceReadFollows
  <1> HIDE DEF D
  <1>5. CallsFollow(D, r, h.phase)
    BY <1>2, <1>3, <1>4, CallsFollowKept
  <1>6. Follows(D, r, h) /\ ReservesKept(d, D)
    BY <1>3, <1>4, <1>5, ReservesKeptOn DEF Follows
  <1> QED BY <1>6 DEF D, c

-----------------------------------------------------------------------------
(* Transfers that mint                                                      *)

Begun(d) == [d EXCEPT !.tx = TRUE]
NewMint(p, u, n) == [pair |-> p, to |-> u, liquidity |-> n, complete |-> FALSE]

LEMMA TransferOfMint ==
  ASSUME NEW p \in Pairs, NEW u \in Users, NEW n, NEW tidy, NEW d,
         NEW e, e = TransferOf(p, Zero, u, n, tidy)
  PROVE  /\ Transferred(d, e)
              = BalanceRead(BalanceRead(Minted(Begun(d), e), p, Zero), p, u)
         /\ Shown(e) = n /\ e.kind = "Transfer" /\ e.tidy = tidy /\ e.to # e.pair /\ e.pair = p
  <1>1. /\ e.kind = "Transfer" /\ e.tidy = tidy /\ e.to = u /\ e.pair = p /\ e.from = Zero
        /\ e.value = n
    BY DEF TransferOf
  <1>2. u # Zero /\ u # p /\ Zero # p
    BY AmmAssumption, HoldersAssumption
  <1>3. ~ IsIgnored(e)
    BY <1>1, <1>2 DEF IsIgnored
  <1>4. \A c : SentToPair(c, e) = c /\ Burned(c, e) = c
    BY <1>1, <1>2 DEF SentToPair, Burned
  <1> QED BY <1>1, <1>2, <1>3, <1>4 DEF Transferred, Shown, Begun

\* The rows that such a transfer leaves before the balances are read.
MintedAs(d, h, p, u, n, D) ==
  /\ D \in Store /\ RowsFollow(D, h) /\ ReservesKept(d, D)
  /\ D.burns = d.burns /\ D.trades = d.trades /\ D.tx = TRUE
  /\ D.mints = IF HasOpenMint(d) THEN d.mints ELSE Append(d.mints, NewMint(p, u, n))

LEMMA MintedFacts ==
  ASSUME NEW d \in Store, NEW g \in Ghost, RowsFollow(d, g), NEW p \in g.known,
         NEW u \in Users, NEW n \in Nat, NEW e,
         e.to = u, e.pair = p, e.from = Zero, e.value = n,
         NEW h \in Ghost, AddedTotal(g, p, n, h)
  PROVE  MintedAs(d, h, p, u, n, Minted(Begun(d), e))
  <1> DEFINE c == Begun(d)
             D == Minted(c, e)
             row == NewMint(p, u, n)
             pairs == [d.pair EXCEPT ![p] =
                        [d.pair[p] EXCEPT !.totalSupply = d.pair[p].totalSupply + n]]
             mints == IF HasOpenMint(d) THEN d.mints ELSE Append(d.mints, row)
  <1>1. /\ c \in Store /\ c.mints = d.mints /\ c.pair = d.pair /\ c.burns = d.burns
        /\ c.trades = d.trades /\ c.tx = TRUE /\ c.position = d.position
        /\ c.factoryUSD = d.factoryUSD /\ c.tradeLiquidity = d.tradeLiquidity
    BY DEF Store, Begun
  <1>2. HasOpenMint(c) <=> HasOpenMint(d)
    BY <1>1 DEF HasOpenMint
  <1>3. D = [c EXCEPT !.pair = pairs, !.mints = mints]
    BY <1>1, <1>2 DEF Minted, Store, NewMint
  <1>4. row \in MintRow
    <2>1. p \in Pairs
      BY DEF Ghost
    <2> QED BY <2>1 DEF MintRow, NewMint
  <1>5. mints \in Seq(MintRow)
    BY <1>4, AppendProperties DEF Store
  <1> HIDE DEF mints, pairs, c, D
  <1>6. D.pair = pairs /\ D.position = d.position
    BY <1>1, <1>3 DEF Store
  <1>7. /\ D.pair \in [Pairs -> PairRow \union {None}] /\ RowsFollow(D, h)
        /\ PairsKept(d, D)
    <2>1. RowTotalled(d, p, n, D) /\ n \in Int
      BY <1>6 DEF pairs, RowTotalled
    <2> QED BY <2>1, TotalFollows
  <1>8. /\ D \in Store /\ D.burns = d.burns /\ D.trades = d.trades /\ D.tx = TRUE
        /\ D.mints = mints /\ D.factoryUSD = d.factoryUSD
        /\ D.tradeLiquidity = d.tradeLiquidity
    <2>1. pairs \in [Pairs -> PairRow \union {None}] /\ mints \in Seq(MintRow)
      BY <1>5, <1>6, <1>7
    <2> QED BY <1>1, <1>3, <2>1 DEF Store
  <1> QED BY <1>7, <1>8 DEF ReservesKept, MintedAs, mints, D, c

LEMMA MintTurnFollows ==
  ASSUME ChainInv, NEW d, NEW r, NEW g, Follows(d, r, g), NEW e, NEW h \in Ghost,
         TurnMint(g, e, h)
  PROVE  /\ Follows(Transferred(d, e), Report(r, e), h)
         /\ ReservesKept(d, Transferred(d, e))
  <1>1. d \in Store /\ r \in Reports /\ g \in Ghost /\ RowsFollow(d, g)
        /\ CallsFollow(d, r, g.phase)
    BY DEF Follows
  <1>2. PICK p \in g.known, u \in Users, n \in Nat, tidy \in BOOLEAN :
          /\ e = TransferOf(p, Zero, u, n, tidy)
          /\ IsBetween(g.phase) \/ (g.phase.at = "fee" /\ ~ tidy)
          /\ h = Moved(g, e, PhaseAt("minted", p, u, n, 0))
    BY DEF TurnMint
  <1> DEFINE ph == PhaseAt("minted", p, u, n, 0)
             row == NewMint(p, u, n)
             c == Minted(Begun(d), e)
             R == Report(r, e)
  <1>3. p \in Pairs
    BY <1>1 DEF Ghost
  <1>4. /\ Transferred(d, e) = BalanceRead(BalanceRead(c, p, Zero), p, u)
        /\ Shown(e) = n /\ e.kind = "Transfer" /\ e.tidy = tidy /\ e.to # e.pair /\ e.pair = p
    BY <1>2, <1>3, TransferOfMint
  <1>5. ph \in Phase
    BY <1>3 DEF PhaseAt, Phase
  <1>6. h.phase = ph /\ AddedTotal(g, p, n, h) /\ p \in h.known
    BY <1>1, <1>2, <1>3, <1>4, <1>5, MovedFacts DEF AddedTotal
  <1> HIDE DEF ph, R
  <1>7. /\ c \in Store /\ RowsFollow(c, h) /\ ReservesKept(d, c)
        /\ c.burns = d.burns /\ c.trades = d.trades /\ c.tx = TRUE
        /\ c.mints = IF HasOpenMint(d) THEN d.mints ELSE Append(d.mints, row)
    <2>1. e.to = u /\ e.pair = p /\ e.from = Zero /\ e.value = n
      BY <1>2 DEF TransferOf
    <2>2. MintedAs(d, h, p, u, n, c)
      BY <1>1, <1>6, <2>1, MintedFacts
    <2> QED BY <2>2 DEF MintedAs
  <1> HIDE DEF c
  <1>8. /\ R \in Reports /\ R.mints = r.mints /\ R.burns = r.burns /\ R.swaps = r.swaps
        /\ R.tidy = (r.tidy /\ tidy) /\ R.sent = (r.sent \/ e.to = e.pair)
    BY <1>1, <1>4, TransferReported DEF R
  <1>9. row \in MintRow /\ d.mints \in Seq(MintRow)
    BY <1>1, <1>3 DEF MintRow, Store, NewMint
  <1>10. /\ Append(d.mints, row) # <<>> /\ Last(Append(d.mints, row)) = row
         /\ Done(Append(d.mints, row)) = Done(d.mints)
    <2>1. ~ row.complete
      BY DEF NewMint
    <2> QED BY <1>9, <2>1, LastOfAppend, DoneOfAppend
  <1>11. ph.at = "minted" /\ ph.pair = p /\ ph.user = u /\ ph.amount = n
    BY DEF ph, PhaseAt
  <1>12. CallsFollow(c, R, ph)
    <2>1. SentFollows(c, R)
      BY <1>1, <1>4, <1>7, <1>8 DEF CallsFollow, SentFollows
    <2>2. c.mints # <<>>
      BY <1>7, <1>10 DEF HasOpenMint
    <2>3. ASSUME R.tidy PROVE TidyFollows(c, R, ph)
      <3>1. r.tidy /\ tidy
        BY <1>8, <2>3
      <3>2. IsBetween(g.phase)
        BY <1>2, <3>1
      <3>3. ~ HasOpenMint(d)
        BY <1>1, <3>1, <3>2 DEF CallsFollow, TidyFollows, OpenMintFollows, IsBetween
      <3>4. c.mints = Append(d.mints, row)
        BY <1>7, <3>3
      <3>5. OpenMintFollows(c, ph)
        BY <1>10, <1>11, <3>4 DEF OpenMintFollows, NewMint
      <3>6. OpenBurnFollows(c, ph)
        BY <1>11 DEF OpenBurnFollows
      <3>7. /\ MintRows(Done(c.mints)) = R.mints /\ BurnRows(Done(c.burns)) = R.burns
            /\ c.trades = R.swaps
        BY <1>1, <1>7, <1>8, <1>10, <3>1, <3>4 DEF CallsFollow, TidyFollows
      <3> QED BY <3>5, <3>6, <3>7 DEF TidyFollows
    <2> QED BY <2>1, <2>2, <2>3 DEF CallsFollow, TidyFollows
  <1>13. Follows(c, R, h)
    BY <1>6, <1>7, <1>8, <1>12 DEF Follows
  <1> DEFINE D == BalanceRead(BalanceRead(c, p, Zero), p, u)
  <1>14. Follows(D, R, h) /\ ReservesKept(c, D)
    BY <1>6, <1>7, <1>8, <1>13, BothReadFollow
  <1> QED BY <1>4, <1>7, <1>14, ReservesKeptOn DEF R

LEMMA FeeTurnFollows ==
  ASSUME ChainInv, NEW d, NEW r, NEW g, Follows(d, r, g), NEW e, NEW h \in Ghost,
         TurnFee(g, e, h)
  PROVE  /\ Follows(Transferred(d, e), Report(r, e), h)
         /\ ReservesKept(d, Transferred(d, e))
  <1>1. d \in Store /\ r \in Reports /\ g \in Ghost /\ RowsFollow(d, g)
        /\ CallsFollow(d, r, g.phase)
    BY DEF Follows
  <1>2. PICK p \in g.known, n \in Nat, tidy \in BOOLEAN :
          /\ e = TransferOf(p, Zero, FeeTo, n, tidy)
          /\ IsBetween(g.phase) /\ (tidy => g.phase.at = "sent" /\ g.phase.pair = p)
          /\ h = Moved(g, e, PhaseAt("fee", p, g.phase.user, g.phase.amount, n))
    BY DEF TurnFee
  <1> DEFINE ph == PhaseAt("fee", p, g.phase.user, g.phase.amount, n)
             row == NewMint(p, FeeTo, n)
             c == Minted(Begun(d), e)
             R == Report(r, e)
  <1>3. p \in Pairs /\ FeeTo \in Users
    BY <1>1, AmmAssumption DEF Ghost
  <1>4. /\ Transferred(d, e) = BalanceRead(BalanceRead(c, p, Zero), p, FeeTo)
        /\ Shown(e) = n /\ e.kind = "Transfer" /\ e.tidy = tidy /\ e.to # e.pair /\ e.pair = p
    BY <1>2, <1>3, TransferOfMint
  <1>5. ph \in Phase
    <2>1. g.phase \in Phase
      BY <1>1 DEF Ghost
    <2> QED BY <1>3, <2>1 DEF PhaseAt, Phase
  <1>6. h.phase = ph /\ AddedTotal(g, p, n, h) /\ p \in h.known
    BY <1>1, <1>2, <1>3, <1>4, <1>5, MovedFacts DEF AddedTotal
  <1>7. /\ ph.at = "fee" /\ ph.pair = p /\ ph.user = g.phase.user
        /\ ph.amount = g.phase.amount /\ ph.fee = n
    BY DEF PhaseAt
  <1> HIDE DEF ph, R
  <1>8. /\ c \in Store /\ RowsFollow(c, h) /\ ReservesKept(d, c)
        /\ c.burns = d.burns /\ c.trades = d.trades /\ c.tx = TRUE
        /\ c.mints = IF HasOpenMint(d) THEN d.mints ELSE Append(d.mints, row)
    <2>1. e.to = FeeTo /\ e.pair = p /\ e.from = Zero /\ e.value = n
      BY <1>2 DEF TransferOf
    <2>2. MintedAs(d, h, p, FeeTo, n, c)
      BY <1>1, <1>3, <1>6, <2>1, MintedFacts
    <2> QED BY <2>2 DEF MintedAs
  <1> HIDE DEF c
  <1>9. /\ R \in Reports /\ R.mints = r.mints /\ R.burns = r.burns /\ R.swaps = r.swaps
        /\ R.tidy = (r.tidy /\ tidy) /\ R.sent = (r.sent \/ e.to = e.pair)
    BY <1>1, <1>4, TransferReported DEF R
  <1>10. row \in MintRow /\ d.mints \in Seq(MintRow)
    BY <1>1, <1>3 DEF MintRow, Store, NewMint
  <1>11. /\ Append(d.mints, row) # <<>> /\ Last(Append(d.mints, row)) = row
         /\ Done(Append(d.mints, row)) = Done(d.mints)
         /\ AllButLast(Append(d.mints, row)) = d.mints
    <2>1. ~ row.complete
      BY DEF NewMint
    <2> HIDE DEF row
    <2> QED BY <1>10, <2>1, LastOfAppend, DoneOfAppend, AllButLastOfAppend
  <1>12. CallsFollow(c, R, ph)
    <2>1. SentFollows(c, R)
      BY <1>1, <1>4, <1>8, <1>9 DEF CallsFollow, SentFollows
    <2>2. ASSUME R.tidy PROVE TidyFollows(c, R, ph)
      <3>1. r.tidy /\ tidy
        BY <1>9, <2>2
      <3>2. g.phase.at = "sent" /\ g.phase.pair = p
        BY <1>2, <3>1
      <3>3. /\ ~ HasOpenMint(d) /\ OpenBurnFollows(d, g.phase)
        BY <1>1, <3>1, <3>2 DEF CallsFollow, TidyFollows, OpenMintFollows
      <3>4. c.mints = Append(d.mints, row)
        BY <1>8, <3>3
      <3>5. OpenMintFollows(c, ph)
        <4>1. row.liquidity = n /\ ~ row.complete
          BY DEF NewMint
        <4>2. HasOpenMint(c) /\ Last(c.mints).liquidity = ph.fee
          BY <1>7, <1>11, <3>4, <4>1 DEF HasOpenMint
        <4>3. AllButLast(c.mints) # <<>> => Last(AllButLast(c.mints)).complete
          BY <1>11, <3>3, <3>4 DEF HasOpenMint
        <4> QED BY <1>7, <4>2, <4>3 DEF OpenMintFollows
      <3>6. OpenBurnFollows(c, ph)
        BY <1>7, <1>8, <3>2, <3>3 DEF OpenBurnFollows
      <3>7. /\ MintRows(Done(c.mints)) = R.mints /\ BurnRows(Done(c.burns)) = R.burns
            /\ c.trades = R.swaps
        BY <1>1, <1>8, <1>9, <1>11, <3>1, <3>4 DEF CallsFollow, TidyFollows
      <3> QED BY <3>5, <3>6, <3>7 DEF TidyFollows
    <2> QED BY <1>7, <2>1, <2>2 DEF CallsFollow, TidyFollows
  <1>13. Follows(c, R, h)
    BY <1>6, <1>8, <1>9, <1>12 DEF Follows
  <1> DEFINE D == BalanceRead(BalanceRead(c, p, Zero), p, FeeTo)
  <1>14. Follows(D, R, h) /\ ReservesKept(c, D)
    BY <1>6, <1>8, <1>9, <1>13, BothReadFollow
  <1> QED BY <1>4, <1>8, <1>14, ReservesKeptOn DEF R

-----------------------------------------------------------------------------
(* Other transfers                                                          *)

LEMMA LockTurnFollows ==
  ASSUME NEW d, NEW r, NEW g, Follows(d, r, g), NEW e, NEW h \in Ghost, TurnLock(g, e, h)
  PROVE  /\ Follows(Transferred(d, e), Report(r, e), h)
         /\ ReservesKept(d, Transferred(d, e))
  <1>1. PICK p \in g.known : e = TransferOf(p, Zero, Zero, Minimum, TRUE)
    BY DEF TurnLock
  <1>2. h = g /\ p \in Pairs /\ Zero # p /\ r \in Reports
    BY AmmAssumption DEF TurnLock, Follows, Ghost
  <1>3. e.kind = "Transfer" /\ e.tidy = TRUE /\ e.to = Zero /\ e.value = Minimum /\ e.pair = p
    BY <1>1 DEF TransferOf
  <1>4. Transferred(d, e) = d
    BY <1>3 DEF Transferred, IsIgnored
  <1> DEFINE R == Report(r, e)
  <1>5. /\ R \in Reports /\ R.mints = r.mints /\ R.burns = r.burns /\ R.swaps = r.swaps
        /\ R.tidy = (r.tidy /\ e.tidy) /\ R.sent = (r.sent \/ e.to = e.pair)
    <2>1. e.tidy \in BOOLEAN
      BY <1>3
    <2> HIDE DEF R
    <2> QED BY <1>2, <1>3, <2>1, TransferReported DEF R
  <1> HIDE DEF R
  <1>6. /\ R.tidy => r.tidy
        /\ R.sent => r.sent
    BY <1>2, <1>3, <1>5
  <1>7. Follows(d, R, g)
    BY <1>2, <1>5, <1>6 DEF Follows, CallsFollow, SentFollows, TidyFollows
  <1> QED BY <1>2, <1>4, <1>7 DEF R, ReservesKept, PairsKept

\* What is left alone by a transfer that neither mints nor burns nor goes to a pair.
LEMMA BegunFacts ==
  ASSUME NEW d \in Store
  PROVE  /\ Begun(d) \in Store /\ Begun(d).mints = d.mints /\ Begun(d).pair = d.pair
         /\ Begun(d).burns = d.burns /\ Begun(d).trades = d.trades /\ Begun(d).tx = TRUE
         /\ Begun(d).position = d.position
         /\ ReservesKept(d, Begun(d))
  BY DEF Store, Begun, ReservesKept, PairsKept

LEMMA SendTurnFollows ==
  ASSUME ChainInv, NEW d, NEW r, NEW g, Follows(d, r, g), NEW e, NEW h \in Ghost,
         TurnSend(g, e, h)
  PROVE  /\ Follows(Transferred(d, e), Report(r, e), h)
         /\ ReservesKept(d, Transferred(d, e))
  <1>1. d \in Store /\ r \in Reports /\ g \in Ghost /\ RowsFollow(d, g)
        /\ CallsFollow(d, r, g.phase)
    BY DEF Follows
  <1>2. PICK p \in g.known, u \in Users, to \in Users \union {Zero}, n \in Nat :
          /\ e = TransferOf(p, u, to, n, TRUE)
          /\ IsBetween(g.phase)
          /\ h = Moved(g, e, Between)
    BY DEF TurnSend
  <1> DEFINE c == Begun(d)
             R == Report(r, e)
  <1>3. p \in Pairs /\ u # Zero /\ u # p /\ to # p
    BY <1>1, AmmAssumption, HoldersAssumption DEF Ghost
  <1>4. /\ e.kind = "Transfer" /\ e.tidy = TRUE /\ e.to = to /\ e.from = u /\ e.value = n
        /\ e.pair = p
    BY <1>2 DEF TransferOf
  <1>5. PICK k \in Int : k = 0 /\ Shown(e) = k
    BY <1>3, <1>4 DEF Shown
  <1>6. h.phase = Between /\ AddedTotal(g, p, k, h) /\ p \in h.known
    <2>1. Between \in Phase
      BY DEF Between, Phase
    <2>2. h = Moved(g, e, Between)
      BY <1>2
    <2>3. h.phase = Between /\ AddedTotal(g, p, k, h)
      BY <1>1, <1>3, <1>4, <1>5, <2>1, <2>2, MovedFacts
    <2> QED BY <2>3 DEF AddedTotal
  <1>7. RowsFollow(d, h)
    <2>1. h.known = g.known /\ \A q \in Pairs : h.total[q] = g.total[q]
      <3>1. g.total[p] \in Int
        BY <1>1, <1>3 DEF Ghost
      <3> QED BY <1>5, <1>6, <3>1 DEF AddedTotal
    <2>2. g.known \subseteq Pairs
      BY <1>1 DEF Ghost
    <2> QED BY <1>1, <2>1, <2>2 DEF RowsFollow
  <1>8. /\ R \in Reports /\ R.mints = r.mints /\ R.burns = r.burns /\ R.swaps = r.swaps
        /\ R.tidy = (r.tidy /\ e.tidy) /\ R.sent = (r.sent \/ e.to = e.pair)
    <2>1. e.tidy \in BOOLEAN
      BY <1>4
    <2> HIDE DEF R
    <2> QED BY <1>1, <1>4, <2>1, TransferReported DEF R
  <1> HIDE DEF R
  <1>9. (R.tidy => r.tidy) /\ (R.sent => r.sent)
    BY <1>3, <1>4, <1>8
  <1>10. \A D : (D.mints = d.mints /\ D.burns = d.burns /\ D.trades = d.trades)
                  => CallsFollow(D, R, Between)
    <2> SUFFICES ASSUME NEW D, D.mints = d.mints, D.burns = d.burns, D.trades = d.trades
                 PROVE  CallsFollow(D, R, Between)
      OBVIOUS
    <2>1. SentFollows(D, R)
      BY <1>1, <1>9 DEF CallsFollow, SentFollows
    <2>2. ASSUME R.tidy PROVE TidyFollows(D, R, Between)
      <3>1. ~ HasOpenMint(d)
        BY <1>1, <1>2, <1>9, <2>2 DEF CallsFollow, TidyFollows, OpenMintFollows, IsBetween
      <3>2. OpenMintFollows(D, Between) /\ OpenBurnFollows(D, Between)
        BY <3>1 DEF OpenMintFollows, OpenBurnFollows, Between, HasOpenMint
      <3>3. /\ MintRows(Done(D.mints)) = R.mints /\ BurnRows(Done(D.burns)) = R.burns
            /\ D.trades = R.swaps
        BY <1>1, <1>8, <1>9, <2>2 DEF CallsFollow, TidyFollows
      <3> QED BY <3>2, <3>3 DEF TidyFollows
    <2> QED BY <2>1, <2>2 DEF CallsFollow, TidyFollows, Between
  <1>11. CASE IsIgnored(e)
    <2>1. Transferred(d, e) = d
      BY <1>11 DEF Transferred
    <2>2. Follows(d, R, h)
      BY <1>1, <1>6, <1>7, <1>8, <1>10 DEF Follows
    <2> QED BY <2>1, <2>2 DEF R, ReservesKept, PairsKept
  <1>12. CASE ~ IsIgnored(e)
    <2>1. Minted(c, e) = c /\ SentToPair(c, e) = c /\ Burned(c, e) = c
      BY <1>3, <1>4 DEF Minted, SentToPair, Burned
    <2> DEFINE D == BalanceRead(BalanceRead(c, p, u), p, to)
    <2>2. Transferred(d, e) = D
      BY <1>4, <1>12, <2>1 DEF Transferred, Begun
    <2>3. /\ c \in Store /\ c.mints = d.mints /\ c.pair = d.pair /\ c.burns = d.burns
          /\ c.trades = d.trades /\ c.position = d.position /\ ReservesKept(d, c)
      BY <1>1, BegunFacts
    <2> HIDE DEF c
    <2>4. RowsFollow(c, h)
      BY <1>7, <2>3 DEF RowsFollow, Providers
    <2>5. Follows(c, R, h)
      BY <1>6, <1>8, <1>10, <2>3, <2>4 DEF Follows
    <2>6. Follows(D, R, h) /\ ReservesKept(c, D)
      BY <1>6, <1>8, <2>3, <2>5, BothReadFollow
    <2> QED BY <2>2, <2>3, <2>6, ReservesKeptOn DEF R
  <1> QED BY <1>11, <1>12

\* The burn row of a send to a pair, and the one of a burn that finds none.
NewBurn(p, u, n, needsComplete) ==
  [pair |-> p, sender |-> u, liquidity |-> n, fee |-> 0, needsComplete |-> needsComplete,
   complete |-> FALSE]

LEMMA SendToPairTurnFollows ==
  ASSUME ChainInv, NEW d, NEW r, NEW g, Follows(d, r, g), NEW e, NEW h \in Ghost,
         TurnSendToPair(g, e, h)
  PROVE  /\ Follows(Transferred(d, e), Report(r, e), h)
         /\ ReservesKept(d, Transferred(d, e))
  <1>1. d \in Store /\ r \in Reports /\ g \in Ghost /\ RowsFollow(d, g)
        /\ CallsFollow(d, r, g.phase)
    BY DEF Follows
  <1>2. PICK p \in g.known, u \in Users, n \in Nat :
          /\ e = TransferOf(p, u, p, n, TRUE)
          /\ IsBetween(g.phase)
          /\ h = Moved(g, e, PhaseAt("sent", p, u, n, 0))
    BY DEF TurnSendToPair
  <1> DEFINE ph == PhaseAt("sent", p, u, n, 0)
             row == NewBurn(p, u, n, TRUE)
             c == Begun(d)
             s == SentToPair(c, e)
             R == Report(r, e)
  <1>3. p \in Pairs /\ u # Zero /\ u # p /\ p # Zero /\ u # None
    BY <1>1, AmmAssumption, HoldersAssumption, NoneAssumption DEF Ghost
  <1>4. /\ e.kind = "Transfer" /\ e.tidy = TRUE /\ e.to = p /\ e.from = u /\ e.value = n
        /\ e.pair = p
    BY <1>2 DEF TransferOf
  <1>5. PICK k \in Int : k = 0 /\ Shown(e) = k
    BY <1>3, <1>4 DEF Shown
  <1>6. /\ h.phase = ph /\ AddedTotal(g, p, k, h) /\ p \in h.known
        /\ ph.at = "sent" /\ ph.pair = p /\ ph.user = u /\ ph.amount = n
    <2>1. ph \in Phase
      BY <1>3 DEF PhaseAt, Phase
    <2>2. /\ h = Moved(g, e, ph)
          /\ ph.at = "sent" /\ ph.pair = p /\ ph.user = u /\ ph.amount = n
      BY <1>2 DEF PhaseAt
    <2> HIDE DEF ph
    <2>3. h.phase = ph /\ AddedTotal(g, p, k, h)
      BY <1>1, <1>3, <1>4, <1>5, <2>1, <2>2, MovedFacts
    <2> QED BY <2>2, <2>3 DEF AddedTotal
  <1> HIDE DEF ph
  <1>7. /\ c \in Store /\ c.mints = d.mints /\ c.pair = d.pair /\ c.burns = d.burns
        /\ c.trades = d.trades /\ c.position = d.position /\ c.tx = TRUE /\ ReservesKept(d, c)
    BY <1>1, BegunFacts
  <1> HIDE DEF c
  <1>8. row \in BurnRow /\ d.burns \in Seq(BurnRow)
    BY <1>1, <1>3 DEF BurnRow, NewBurn, Store
  <1>9. /\ s \in Store /\ s.mints = d.mints /\ s.pair = d.pair /\ s.tx = TRUE
        /\ s.burns = Append(d.burns, row) /\ s.trades = d.trades
        /\ s.position = d.position /\ ReservesKept(d, s)
    <2>1. s = [c EXCEPT !.burns = Append(d.burns, row)]
      BY <1>4, <1>7 DEF SentToPair, NewBurn, Store
    <2>2. Append(d.burns, row) \in Seq(BurnRow)
      BY <1>8, AppendProperties
    <2> HIDE DEF s, row
    <2>3. /\ s \in Store /\ s.mints = c.mints /\ s.pair = c.pair /\ s.tx = c.tx
          /\ s.burns = Append(d.burns, row) /\ s.trades = c.trades
          /\ s.position = c.position /\ s.factoryUSD = c.factoryUSD
          /\ s.tradeLiquidity = c.tradeLiquidity
      BY <1>7, <2>1, <2>2 DEF Store
    <2> QED BY <1>7, <2>3 DEF ReservesKept, PairsKept
  <1>10. Transferred(d, e) = BalanceRead(BalanceRead(s, p, u), p, p)
    <2>1. Minted(c, e) = c /\ ~ IsIgnored(e) /\ Burned(s, e) = s
      BY <1>3, <1>4 DEF Minted, IsIgnored, Burned
    <2> QED BY <1>4, <2>1 DEF Transferred, c, Begun
  <1> HIDE DEF s
  <1>11. RowsFollow(s, h)
    <2>1. h.known = g.known /\ \A q \in Pairs : h.total[q] = g.total[q]
      <3>1. g.total[p] \in Int
        BY <1>1, <1>3 DEF Ghost
      <3> QED BY <1>5, <1>6, <3>1 DEF AddedTotal
    <2>2. g.known \subseteq Pairs
      BY <1>1 DEF Ghost
    <2>3. RowsFollow(d, h)
      BY <1>1, <2>1, <2>2 DEF RowsFollow
    <2> QED BY <1>9, <2>3 DEF RowsFollow, Providers
  <1>12. /\ R \in Reports /\ R.mints = r.mints /\ R.burns = r.burns /\ R.swaps = r.swaps
         /\ R.tidy = (r.tidy /\ e.tidy) /\ R.sent = (r.sent \/ e.to = e.pair)
    <2>1. e.tidy \in BOOLEAN
      BY <1>4
    <2> HIDE DEF R
    <2> QED BY <1>1, <1>4, <2>1, TransferReported DEF R
  <1> HIDE DEF R
  <1>13. /\ s.burns # <<>> /\ Last(s.burns) = row /\ Done(s.burns) = Done(d.burns)
    <2>1. ~ row.complete
      BY DEF NewBurn
    <2> HIDE DEF row
    <2> QED BY <1>8, <1>9, <2>1, LastOfAppend, DoneOfAppend
  <1>14. CallsFollow(s, R, ph)
    <2>1. SentFollows(s, R)
      BY <1>3, <1>13 DEF SentFollows, NewBurn
    <2>2. ASSUME R.tidy PROVE TidyFollows(s, R, ph)
      <3>1. r.tidy
        BY <1>12, <2>2
      <3>2. OpenMintFollows(s, ph)
        <4>1. ~ HasOpenMint(d)
          BY <1>1, <1>2, <3>1 DEF CallsFollow, TidyFollows, OpenMintFollows, IsBetween
        <4> QED BY <1>6, <1>9, <4>1 DEF OpenMintFollows, HasOpenMint
      <3>3. OpenBurnFollows(s, ph)
        BY <1>3, <1>6, <1>9, <1>13 DEF OpenBurnFollows, NewBurn
      <3>4. /\ MintRows(Done(s.mints)) = R.mints /\ BurnRows(Done(s.burns)) = R.burns
            /\ s.trades = R.swaps
        BY <1>1, <1>9, <1>12, <1>13, <3>1 DEF CallsFollow, TidyFollows
      <3> QED BY <3>2, <3>3, <3>4 DEF TidyFollows
    <2> QED BY <1>6, <2>1, <2>2 DEF CallsFollow, TidyFollows
  <1>15. Follows(s, R, h)
    BY <1>6, <1>9, <1>11, <1>12, <1>14 DEF Follows
  <1> DEFINE D == BalanceRead(BalanceRead(s, p, u), p, p)
  <1>16. Follows(D, R, h) /\ ReservesKept(s, D)
    BY <1>6, <1>9, <1>12, <1>15, BothReadFollow
  <1> QED BY <1>9, <1>10, <1>16, ReservesKeptOn DEF R

-----------------------------------------------------------------------------
(* Transfers that burn                                                      *)

\* The rows that such a transfer leaves before the balances are read.
OpenBurn(d) == d.burns # <<>> /\ Last(d.burns).needsComplete
Paid(d, p, n) ==
  LET row == IF OpenBurn(d) THEN Last(d.burns) ELSE NewBurn(p, None, n, FALSE)
  IN  IF HasOpenMint(d) THEN [row EXCEPT !.fee = Last(d.mints).liquidity] ELSE row
BurnedAs(d, h, p, n, D) ==
  /\ D \in Store /\ RowsFollow(D, h) /\ ReservesKept(d, D)
  /\ D.trades = d.trades /\ D.tx = TRUE
  /\ D.mints = IF HasOpenMint(d) THEN AllButLast(d.mints) ELSE d.mints
  /\ D.burns = IF OpenBurn(d) THEN WithLast(d.burns, Paid(d, p, n))
               ELSE Append(d.burns, Paid(d, p, n))

\* A fee is all that the row of a burn gets.
LEMMA PaidFacts ==
  ASSUME NEW d \in Store, NEW p \in Pairs, NEW n \in Nat
  PROVE  /\ Paid(d, p, n) \in BurnRow
         /\ OpenBurn(d) =>
              /\ Paid(d, p, n).pair = Last(d.burns).pair
              /\ Paid(d, p, n).sender = Last(d.burns).sender
              /\ Paid(d, p, n).liquidity = Last(d.burns).liquidity
              /\ Paid(d, p, n).needsComplete = Last(d.burns).needsComplete
              /\ Paid(d, p, n).complete = Last(d.burns).complete
              /\ Paid(d, p, n).fee = IF HasOpenMint(d) THEN Last(d.mints).liquidity
                                     ELSE Last(d.burns).fee
  <1> DEFINE row == IF OpenBurn(d) THEN Last(d.burns) ELSE NewBurn(p, None, n, FALSE)
             fee == Last(d.mints).liquidity
  <1>1. row \in BurnRow
    <2>1. CASE OpenBurn(d)
      <3>1. d.burns \in Seq(BurnRow) /\ d.burns # <<>>
        BY <2>1 DEF OpenBurn, Store
      <3>2. Last(d.burns) \in BurnRow
        BY <3>1, LastFacts
      <3> QED BY <2>1, <3>2
    <2>2. CASE ~ OpenBurn(d)
      BY <2>2 DEF NewBurn, BurnRow
    <2> QED BY <2>1, <2>2
  <1>2. HasOpenMint(d) => fee \in Nat
    <2> SUFFICES ASSUME HasOpenMint(d) PROVE fee \in Nat
      OBVIOUS
    <2>1. d.mints \in Seq(MintRow) /\ d.mints # <<>>
      BY DEF HasOpenMint, Store
    <2>2. Last(d.mints) \in MintRow
      BY <2>1, LastFacts
    <2> QED BY <2>2 DEF MintRow
  <1>3. OpenBurn(d) => row = Last(d.burns)
    OBVIOUS
  <1>4. Paid(d, p, n) = IF HasOpenMint(d) THEN [row EXCEPT !.fee = fee] ELSE row
    BY DEF Paid
  <1> HIDE DEF row, fee
  <1>5. CASE HasOpenMint(d)
    <2> DEFINE x == Paid(d, p, n)
    <2>1. x = [row EXCEPT !.fee = fee] /\ fee \in Nat
      BY <1>2, <1>4, <1>5
    <2> HIDE DEF x
    <2>2. /\ x \in BurnRow /\ x.pair = row.pair /\ x.sender = row.sender
          /\ x.liquidity = row.liquidity /\ x.fee = fee
      BY <1>1, <2>1 DEF BurnRow
    <2>3. x.needsComplete = row.needsComplete
      BY <1>1, <2>1 DEF BurnRow
    <2>4. x.complete = row.complete
      BY <1>1, <2>1 DEF BurnRow
    <2> QED BY <1>3, <1>5, <2>2, <2>3, <2>4 DEF x, fee
  <1>6. CASE ~ HasOpenMint(d)
    BY <1>1, <1>3, <1>4, <1>6
  <1> QED BY <1>5, <1>6

LEMMA BurnedFacts ==
  ASSUME NEW d \in Store, NEW g \in Ghost, RowsFollow(d, g), NEW p \in g.known,
         NEW n \in Nat, NEW e, e.to = Zero, e.pair = p, e.from = p, e.value = n,
         NEW k \in Int, k = -n, NEW h \in Ghost, AddedTotal(g, p, k, h)
  PROVE  BurnedAs(d, h, p, n, Burned(Begun(d), e))
  <1> DEFINE c == Begun(d)
             D == Burned(c, e)
             paid == Paid(d, p, n)
             pairs == [d.pair EXCEPT ![p] =
                        [d.pair[p] EXCEPT !.totalSupply = d.pair[p].totalSupply + k]]
             mints == IF HasOpenMint(d) THEN AllButLast(d.mints) ELSE d.mints
             burns == IF OpenBurn(d) THEN WithLast(d.burns, paid) ELSE Append(d.burns, paid)
  <1>1. /\ c \in Store /\ c.mints = d.mints /\ c.pair = d.pair /\ c.burns = d.burns
        /\ c.trades = d.trades /\ c.tx = TRUE /\ c.position = d.position
        /\ c.factoryUSD = d.factoryUSD /\ c.tradeLiquidity = d.tradeLiquidity
    BY BegunFacts DEF ReservesKept
  <1>2. HasOpenMint(c) <=> HasOpenMint(d)
    BY <1>1 DEF HasOpenMint
  <1>3. p \in Pairs /\ d.pair[p] \in PairRow
    <2>1. p \in Pairs /\ d.pair[p] # None
      BY DEF Ghost, RowsFollow
    <2> QED BY <2>1 DEF Store
  <1> HIDE DEF c
  <1>4. D = [c EXCEPT !.pair = pairs, !.mints = mints, !.burns = burns]
    <2> DEFINE open == c.burns # <<>> /\ Last(c.burns).needsComplete
               row == IF open THEN Last(c.burns)
                      ELSE [pair |-> e.pair, sender |-> None, liquidity |-> e.value, fee |-> 0,
                            needsComplete |-> FALSE, complete |-> FALSE]
               pay == IF HasOpenMint(c) THEN [row EXCEPT !.fee = Last(c.mints).liquidity]
                      ELSE row
    <2>1. D = [c EXCEPT !.pair[e.pair].totalSupply = @ - e.value,
                        !.mints = IF HasOpenMint(c) THEN AllButLast(@) ELSE @,
                        !.burns = IF open THEN WithLast(@, pay) ELSE Append(@, pay)]
      BY DEF Burned
    <2>2. pay = paid
      BY <1>1, <1>2 DEF Paid, OpenBurn, NewBurn
    <2>3. open <=> OpenBurn(d)
      BY <1>1 DEF OpenBurn
    <2> HIDE DEF open, pay, paid
    <2>4. D = [c EXCEPT !.pair[p].totalSupply = @ - n, !.mints = mints, !.burns = burns]
      BY <1>1, <1>2, <2>1, <2>2, <2>3 DEF Store
    <2> HIDE DEF mints, burns
    <2>5. [c.pair EXCEPT ![p].totalSupply = @ - n] = pairs
      <3>1. d.pair[p].totalSupply \in Int
        BY <1>3 DEF PairRow
      <3>2. d.pair[p].totalSupply - n = d.pair[p].totalSupply + k
        BY <3>1
      <3> QED BY <1>1, <3>2
    <2> QED BY <1>1, <2>4, <2>5 DEF Store
  <1>5. mints \in Seq(MintRow)
    <2>1. d.mints \in Seq(MintRow)
      BY DEF Store
    <2>2. HasOpenMint(d) => AllButLast(d.mints) \in Seq(MintRow)
      BY <2>1, LastFacts DEF HasOpenMint
    <2> QED BY <2>1, <2>2
  <1>6. burns \in Seq(BurnRow)
    <2>1. d.burns \in Seq(BurnRow) /\ paid \in BurnRow
      BY <1>3, PaidFacts DEF Store
    <2> HIDE DEF paid
    <2>2. OpenBurn(d) => WithLast(d.burns, paid) \in Seq(BurnRow)
      BY <2>1, WithLastFacts DEF OpenBurn
    <2>3. Append(d.burns, paid) \in Seq(BurnRow)
      BY <2>1, AppendProperties
    <2> QED BY <2>2, <2>3
  <1> HIDE DEF mints, burns, pairs, D
  <1>7. D.pair = pairs /\ D.position = d.position
    BY <1>1, <1>4 DEF Store
  <1>8. /\ D.pair \in [Pairs -> PairRow \union {None}] /\ RowsFollow(D, h)
        /\ PairsKept(d, D)
    <2>1. RowTotalled(d, p, k, D)
      BY <1>7 DEF pairs, RowTotalled
    <2> QED BY <2>1, TotalFollows
  <1>9. /\ D \in Store /\ D.trades = d.trades /\ D.tx = TRUE
        /\ D.mints = mints /\ D.burns = burns /\ D.factoryUSD = d.factoryUSD
        /\ D.tradeLiquidity = d.tradeLiquidity
    <2>1. pairs \in [Pairs -> PairRow \union {None}]
      BY <1>7, <1>8
    <2> QED BY <1>1, <1>4, <1>5, <1>6, <2>1 DEF Store
  <1> QED BY <1>8, <1>9 DEF ReservesKept, BurnedAs, mints, burns, D, c

LEMMA BurnTurnFollows ==
  ASSUME ChainInv, NEW d, NEW r, NEW g, Follows(d, r, g), NEW e, NEW h \in Ghost,
         TurnBurn(g, e, h)
  PROVE  /\ Follows(Transferred(d, e), Report(r, e), h)
         /\ ReservesKept(d, Transferred(d, e))
  <1>1. d \in Store /\ r \in Reports /\ g \in Ghost /\ RowsFollow(d, g)
        /\ CallsFollow(d, r, g.phase)
    BY DEF Follows
  <1> DEFINE at == g.phase
             fee == IF at.at = "fee" THEN at.fee ELSE 0
  <1>2. PICK p \in g.known, n \in Nat, tidy \in BOOLEAN :
          /\ e = TransferOf(p, p, Zero, n, tidy)
          /\ at.at \in {"between", "sent", "fee"}
          /\ tidy => /\ at.at \in {"sent", "fee"} /\ at.pair = p /\ at.amount = n
                     /\ at.at = "fee" => n # Minimum
          /\ h = Moved(g, e, PhaseAt("burned", p, IF tidy THEN at.user ELSE None, n, fee))
    BY DEF TurnBurn
  <1> DEFINE user == IF tidy THEN at.user ELSE None
             ph == PhaseAt("burned", p, user, n, fee)
             R == Report(r, e)
  <1>3. p \in Pairs /\ p \notin Users /\ Zero \notin Users /\ p # Zero /\ at \in Phase
    BY <1>1, AmmAssumption, HoldersAssumption DEF Ghost
  <1>4. /\ e.kind = "Transfer" /\ e.tidy = tidy /\ e.to = Zero /\ e.from = p /\ e.value = n
        /\ e.pair = p
    BY <1>2 DEF TransferOf
  <1>5. PICK k \in Int : k = (IF IsIgnored(e) THEN 0 ELSE -n) /\ Shown(e) = k
    BY <1>3, <1>4 DEF Shown
  <1>6. /\ h.phase = ph /\ AddedTotal(g, p, k, h) /\ p \in h.known
        /\ ph.at = "burned" /\ ph.pair = p /\ ph.user = user /\ ph.amount = n /\ ph.fee = fee
    <2>1. user \in Users \union {None} /\ fee \in Nat
      BY <1>3 DEF Phase
    <2> HIDE DEF user, fee, at
    <2>2. ph \in Phase
      BY <1>3, <2>1 DEF PhaseAt, Phase
    <2>3. /\ ph.at = "burned" /\ ph.pair = p /\ ph.user = user /\ ph.amount = n /\ ph.fee = fee
      BY DEF PhaseAt
    <2>4. h = Moved(g, e, ph)
      BY <1>2 DEF user
    <2> HIDE DEF ph
    <2>5. h.phase = ph /\ AddedTotal(g, p, k, h)
      BY <1>1, <1>3, <1>4, <1>5, <2>2, <2>4, MovedFacts
    <2> QED BY <2>3, <2>5 DEF AddedTotal
  <1> HIDE DEF ph
  <1>7. /\ R \in Reports /\ R.mints = r.mints /\ R.burns = r.burns /\ R.swaps = r.swaps
        /\ R.tidy = (r.tidy /\ e.tidy) /\ R.sent = (r.sent \/ e.to = e.pair)
    <2>1. e.tidy \in BOOLEAN
      BY <1>4
    <2> HIDE DEF R
    <2> QED BY <1>1, <1>4, <2>1, TransferReported DEF R
  <1> HIDE DEF R
  <1>8. R.sent => r.sent
    BY <1>3, <1>4, <1>7
  <1>9. ASSUME R.tidy
        PROVE  /\ r.tidy /\ tidy /\ at.at \in {"sent", "fee"} /\ user # None
               /\ d.tx /\ d.burns # <<>>
               /\ Last(d.burns) = NewBurn(p, user, n, TRUE)
               /\ at.at = "fee" => n # Minimum
               /\ OpenMintFollows(d, at)
    <2>1. r.tidy /\ tidy
      BY <1>4, <1>7, <1>9
    <2>2. at.at \in {"sent", "fee"} /\ at.pair = p /\ at.amount = n
          /\ (at.at = "fee" => n # Minimum)
      BY <1>2, <2>1
    <2>3. OpenBurnFollows(d, at) /\ OpenMintFollows(d, at)
      BY <1>1, <2>1 DEF CallsFollow, TidyFollows
    <2>4. at.at # "burned"
      BY <2>2
    <2>5. /\ d.tx /\ d.burns # <<>> /\ at.user # None
          /\ Last(d.burns) = NewBurn(at.pair, at.user, at.amount, TRUE)
      BY <2>2, <2>3, <2>4 DEF OpenBurnFollows, NewBurn
    <2> QED BY <2>1, <2>2, <2>3, <2>5
  <1>10. CASE IsIgnored(e)
    <2>1. Transferred(d, e) = d /\ n = Minimum
      BY <1>4, <1>10 DEF Transferred, IsIgnored
    <2>2. RowsFollow(d, h)
      <3>1. h.known = g.known /\ \A q \in Pairs : h.total[q] = g.total[q]
        <4>1. g.total[p] \in Int
          BY <1>1, <1>3 DEF Ghost
        <4> QED BY <1>5, <1>6, <1>10, <4>1 DEF AddedTotal
      <3>2. g.known \subseteq Pairs
        BY <1>1 DEF Ghost
      <3> QED BY <1>1, <3>1, <3>2 DEF RowsFollow
    <2>3. SentFollows(d, R)
      BY <1>1, <1>8 DEF CallsFollow, SentFollows
    <2>4. ASSUME R.tidy PROVE TidyFollows(d, R, ph)
      <3>1. /\ r.tidy /\ at.at = "sent" /\ user # None /\ d.tx /\ d.burns # <<>>
            /\ Last(d.burns) = NewBurn(p, user, n, TRUE) /\ OpenMintFollows(d, at)
        BY <1>9, <2>1, <2>4
      <3>2. OpenMintFollows(d, ph)
        BY <1>6, <3>1 DEF OpenMintFollows
      <3>3. fee = 0
        BY <3>1
      <3>4. OpenBurnFollows(d, ph)
        BY <1>6, <3>1, <3>3 DEF OpenBurnFollows, NewBurn
      <3>5. /\ MintRows(Done(d.mints)) = R.mints /\ BurnRows(Done(d.burns)) = R.burns
            /\ d.trades = R.swaps
        BY <1>1, <1>7, <3>1 DEF CallsFollow, TidyFollows
      <3> QED BY <3>2, <3>4, <3>5 DEF TidyFollows
    <2>5. CallsFollow(d, R, ph)
      BY <1>6, <2>3, <2>4 DEF CallsFollow, TidyFollows
    <2>6. Follows(d, R, h)
      BY <1>1, <1>6, <1>7, <2>2, <2>5 DEF Follows
    <2> QED BY <2>1, <2>6 DEF R, ReservesKept, PairsKept
  <1>11. CASE ~ IsIgnored(e)
    <2> DEFINE c == Begun(d)
               b == Burned(c, e)
               D == BalanceRead(BalanceRead(b, p, p), p, Zero)
               paid == Paid(d, p, n)
    <2>1. Transferred(d, e) = D
      <3>1. Minted(c, e) = c /\ SentToPair(c, e) = c
        BY <1>3, <1>4 DEF Minted, SentToPair
      <3> QED BY <1>4, <1>11, <3>1 DEF Transferred, Begun
    <2>2. /\ b \in Store /\ RowsFollow(b, h) /\ ReservesKept(d, b)
          /\ b.trades = d.trades /\ b.tx = TRUE
          /\ b.mints = IF HasOpenMint(d) THEN AllButLast(d.mints) ELSE d.mints
          /\ b.burns = IF OpenBurn(d) THEN WithLast(d.burns, paid) ELSE Append(d.burns, paid)
      <3>1. k = -n
        BY <1>5, <1>11
      <3>2. BurnedAs(d, h, p, n, b)
        BY <1>1, <1>4, <1>6, <3>1, BurnedFacts
      <3> QED BY <3>2 DEF BurnedAs
    <2>3. /\ paid \in BurnRow
          /\ OpenBurn(d) =>
               /\ paid.pair = Last(d.burns).pair /\ paid.sender = Last(d.burns).sender
               /\ paid.liquidity = Last(d.burns).liquidity
               /\ paid.needsComplete = Last(d.burns).needsComplete
               /\ paid.complete = Last(d.burns).complete
               /\ paid.fee = IF HasOpenMint(d) THEN Last(d.mints).liquidity
                             ELSE Last(d.burns).fee
      BY <1>1, <1>3, PaidFacts
    <2> HIDE DEF b, paid
    <2>4. d.burns \in Seq(BurnRow) /\ d.mints \in Seq(MintRow)
      BY <1>1 DEF Store
    <2>5. OpenBurn(d) => b.burns # <<>> /\ Last(b.burns) = paid
      BY <2>2, <2>3, <2>4, WithLastFacts DEF OpenBurn
    <2>6. SentFollows(b, R)
      <3> SUFFICES ASSUME R.sent
                   PROVE  /\ b.burns # <<>> /\ Last(b.burns).needsComplete
                          /\ Last(b.burns).sender # None
        BY DEF SentFollows
      <3>1. OpenBurn(d) /\ Last(d.burns).sender # None
        BY <1>1, <1>8 DEF CallsFollow, SentFollows, OpenBurn
      <3> QED BY <2>3, <2>5, <3>1 DEF OpenBurn
    <2>7. ASSUME R.tidy PROVE TidyFollows(b, R, ph)
      <3>1. /\ r.tidy /\ at.at \in {"sent", "fee"} /\ user # None
            /\ d.burns # <<>> /\ Last(d.burns) = NewBurn(p, user, n, TRUE)
            /\ OpenMintFollows(d, at)
        BY <1>9, <2>7
      <3>2. OpenBurn(d) /\ ~ Last(d.burns).complete
        BY <3>1 DEF OpenBurn, NewBurn
      <3>3. /\ HasOpenMint(d) <=> at.at = "fee"
            /\ at.at = "fee" => /\ Last(d.mints).liquidity = at.fee
                                /\ AllButLast(d.mints) # <<>> => Last(AllButLast(d.mints)).complete
        BY <3>1 DEF OpenMintFollows
      <3>4. ~ HasOpenMint(b)
        BY <2>2, <3>3 DEF HasOpenMint
      <3>5. OpenMintFollows(b, ph)
        BY <1>6, <3>4 DEF OpenMintFollows
      <3>6. paid = [pair |-> p, sender |-> user, liquidity |-> n, fee |-> fee,
                    needsComplete |-> TRUE, complete |-> FALSE]
        <4>1. /\ paid.pair = p /\ paid.sender = user /\ paid.liquidity = n
              /\ paid.needsComplete = TRUE /\ paid.complete = FALSE
          <5> DEFINE row == Last(d.burns)
          <5>1. row = NewBurn(p, user, n, TRUE)
            BY <3>1
          <5> HIDE DEF row
          <5>2. row.pair = p /\ row.sender = user /\ row.liquidity = n
            BY <5>1 DEF NewBurn
          <5>3. row.needsComplete = TRUE
            BY <5>1 DEF NewBurn
          <5>4. row.complete = FALSE
            BY <5>1 DEF NewBurn
          <5>5. /\ paid.pair = row.pair /\ paid.sender = row.sender
                /\ paid.liquidity = row.liquidity
            BY <2>3, <3>2 DEF row
          <5>6. paid.needsComplete = row.needsComplete
            BY <2>3, <3>2 DEF row
          <5>7. paid.complete = row.complete
            BY <2>3, <3>2 DEF row
          <5> QED BY <5>2, <5>3, <5>4, <5>5, <5>6, <5>7
        <4>2. paid.fee = fee
          <5>1. Last(d.burns).fee = 0
            BY <3>1 DEF NewBurn
          <5> QED BY <2>3, <3>2, <3>3, <5>1
        <4> HIDE DEF user, fee
        <4> QED BY <2>3, <4>1, <4>2 DEF BurnRow
      <3>7. OpenBurnFollows(b, ph)
        BY <1>6, <2>2, <2>5, <3>1, <3>2, <3>6 DEF OpenBurnFollows
      <3>8. Done(b.mints) = Done(d.mints)
        <4>1. CASE HasOpenMint(d)
          <5>1. d.mints # <<>> /\ ~ Last(d.mints).complete /\ Last(d.mints) \in MintRow
            BY <2>4, <4>1, LastFacts DEF HasOpenMint
          <5> QED BY <2>2, <2>4, <4>1, <5>1, DoneOfWithLast
        <4>2. CASE ~ HasOpenMint(d)
          BY <2>2, <4>2
        <4> QED BY <4>1, <4>2
      <3>9. Done(b.burns) = Done(d.burns)
        <4>1. ~ paid.complete
          BY <2>3, <3>2
        <4>2. paid \in BurnRow /\ b.burns = WithLast(d.burns, paid)
          BY <2>2, <2>3, <3>2
        <4>3. Done(WithLast(d.burns, paid)) = IF paid.complete THEN Append(Done(d.burns), paid)
                                              ELSE Done(d.burns)
          BY <2>4, <3>1, <3>2, <4>2, DoneOfWithLast
        <4> QED BY <4>1, <4>2, <4>3
      <3>10. /\ MintRows(Done(b.mints)) = R.mints /\ BurnRows(Done(b.burns)) = R.burns
             /\ b.trades = R.swaps
        BY <1>1, <1>7, <2>2, <3>1, <3>8, <3>9 DEF CallsFollow, TidyFollows
      <3> QED BY <3>5, <3>7, <3>10 DEF TidyFollows
    <2>8. CallsFollow(b, R, ph)
      BY <1>6, <2>6, <2>7 DEF CallsFollow, TidyFollows
    <2>9. Follows(b, R, h)
      BY <1>6, <1>7, <2>2, <2>8 DEF Follows
    <2>10. Follows(D, R, h) /\ ReservesKept(b, D)
      BY <1>6, <1>7, <2>2, <2>9, BothReadFollow
    <2> QED BY <2>1, <2>2, <2>10, ReservesKeptOn DEF R
  <1> QED BY <1>10, <1>11

-----------------------------------------------------------------------------
(* Liquidity                                                                *)

\* The sums over the pairs are those that the property takes.
LEMMA SumsAreLiquidity == LiquidityIsSum <=> SumsFollow(db)
  <1>1. \A t : DOMAIN Reserves(db, t) = WithToken(db, t)
    BY DEF Reserves
  <1>2. DOMAIN Values(db) = Known(db)
    BY DEF Values
  <1>3. SumFunction(Values(db)) = SumFunctionOnSet(Values(db), Known(db))
    BY <1>2 DEF SumFunction
  <1>4. \A t : SumFunction(Reserves(db, t)) = SumFunctionOnSet(Reserves(db, t), WithToken(db, t))
    BY <1>1 DEF SumFunction
  <1>5. LiquidityIsSum <=> /\ db.factoryUSD = SumFunction(Values(db))
                           /\ \A t \in Tokens :
                                db.tradeLiquidity[t] = SumFunction(Reserves(db, t))
    BY DEF LiquidityIsSum, Values, Reserves, Known, WithToken
  <1> QED BY <1>3, <1>4, <1>5 DEF SumsFollow

LEMMA SumsKept ==
  ASSUME NEW d, NEW D, SumsFollow(d), ReservesKept(d, D)
  PROVE  SumsFollow(D)
  <1>1. Known(D) = Known(d)
    BY DEF Known, ReservesKept, PairsKept
  <1>2. \A t : WithToken(D, t) = WithToken(d, t)
    BY <1>1 DEF WithToken
  <1>3. Values(D) = Values(d)
    <2>1. \A p \in Known(d) : D.pair[p].reserveUSD = d.pair[p].reserveUSD
      BY DEF Known, ReservesKept, PairsKept
    <2> QED BY <1>1, <2>1 DEF Values
  <1>4. \A t : Reserves(D, t) = Reserves(d, t)
    <2> TAKE t
    <2>1. \A p \in WithToken(d, t) : D.pair[p].reserve = d.pair[p].reserve
      BY DEF WithToken, Known, ReservesKept, PairsKept
    <2> QED BY <1>2, <2>1 DEF Reserves
  <1> QED BY <1>1, <1>2, <1>3, <1>4 DEF SumsFollow, ReservesKept, PairsKept

\* The sets and the values that are summed.
LEMMA SumsTyped ==
  ASSUME NEW d \in Store
  PROVE  /\ IsFiniteSet(Known(d)) /\ Known(d) \subseteq Pairs
         /\ \A p \in Known(d) : Values(d)[p] \in Int /\ Values(d)[p] = d.pair[p].reserveUSD
         /\ \A t : /\ IsFiniteSet(WithToken(d, t)) /\ WithToken(d, t) \subseteq Known(d)
                   /\ \A p \in WithToken(d, t) : /\ Reserves(d, t)[p] \in Int
                                                 /\ Reserves(d, t)[p] = d.pair[p].reserve
  <1>1. Known(d) \subseteq Pairs /\ \A t : WithToken(d, t) \subseteq Known(d)
    BY DEF Known, WithToken
  <1>2. IsFiniteSet(Known(d)) /\ \A t : IsFiniteSet(WithToken(d, t))
    BY <1>1, HoldersAssumption, FS_Subset
  <1>3. \A p \in Known(d) : d.pair[p] \in PairRow
    BY DEF Known, Store
  <1>4. \A p \in Known(d) : d.pair[p].reserveUSD \in Int /\ d.pair[p].reserve \in Int
    BY <1>3 DEF PairRow
  <1>5. \A p \in Known(d) : Values(d)[p] = d.pair[p].reserveUSD
    BY DEF Values
  <1>6. \A t : \A p \in WithToken(d, t) : Reserves(d, t)[p] = d.pair[p].reserve
    BY DEF Reserves
  <1> QED BY <1>1, <1>2, <1>4, <1>5, <1>6

\* A new pair has nothing to add.
LEMMA ZeroAdded ==
  ASSUME NEW S, IsFiniteSet(S), NEW f, \A x \in S : f[x] \in Int,
         NEW h, NEW z, z \notin S, h[z] = 0, \A x \in S : h[x] = f[x]
  PROVE  SumFunctionOnSet(h, S \union {z}) = SumFunctionOnSet(f, S)
  <1> DEFINE T == S \union {z}
  <1>1. IsFiniteSet(T) /\ z \in T /\ T \ {z} = S
    BY FS_AddElement
  <1>2. \A x \in T : h[x] \in Int
    OBVIOUS
  <1> HIDE DEF T
  <1>3. SumFunctionOnSet(h, T) = h[z] + SumFunctionOnSet(h, T \ {z})
    BY <1>1, <1>2, SumWithout
  <1>4. SumFunctionOnSet(h, S) = SumFunctionOnSet(f, S) /\ SumFunctionOnSet(f, S) \in Int
    BY SumAgrees, SumType
  <1>5. SumFunctionOnSet(h, T) = h[z] + SumFunctionOnSet(f, S)
    BY <1>1, <1>3, <1>4
  <1>6. SumFunctionOnSet(h, T) = SumFunctionOnSet(f, S)
    BY <1>4, <1>5
  <1> QED BY <1>6 DEF T

LEMMA SumsOfCreated ==
  ASSUME NEW d \in Store, SumsFollow(d), NEW p \in Pairs, d.pair[p] = None,
         NEW D \in Store, D.factoryUSD = d.factoryUSD, D.tradeLiquidity = d.tradeLiquidity,
         D.pair[p] # None, D.pair[p].reserve = 0, D.pair[p].reserveUSD = 0,
         \A q \in Pairs \ {p} : D.pair[q] = d.pair[q]
  PROVE  SumsFollow(D)
  <1>1. Known(D) = Known(d) \union {p} /\ p \notin Known(d)
    BY DEF Known
  <1>2. \A q \in Known(d) : q \in Pairs \ {p} /\ D.pair[q] = d.pair[q]
    BY <1>1 DEF Known
  <1>3. SumFunctionOnSet(Values(D), Known(D)) = SumFunctionOnSet(Values(d), Known(d))
    <2> DEFINE S == Known(d)
               f == Values(d)
               h == Values(D)
    <2>1. IsFiniteSet(S) /\ \A q \in S : f[q] \in Int
      BY SumsTyped
    <2>2. p \notin S /\ \A q \in S : h[q] = f[q]
      BY <1>1, <1>2, SumsTyped
    <2>3. h[p] = 0
      BY <1>1, SumsTyped
    <2> HIDE DEF S, f, h
    <2>4. SumFunctionOnSet(h, S \union {p}) = SumFunctionOnSet(f, S)
      BY <2>1, <2>2, <2>3, ZeroAdded
    <2> QED BY <1>1, <2>4 DEF S, f, h
  <1>4. ASSUME NEW t \in Tokens
        PROVE  SumFunctionOnSet(Reserves(D, t), WithToken(D, t))
                 = SumFunctionOnSet(Reserves(d, t), WithToken(d, t))
    <2> DEFINE S == WithToken(d, t)
               f == Reserves(d, t)
               h == Reserves(D, t)
    <2>1. IsFiniteSet(S) /\ S \subseteq Known(d) /\ (\A q \in S : f[q] \in Int)
      BY SumsTyped
    <2>2. \A q \in S : q \in WithToken(D, t)
      BY <1>1 DEF WithToken
    <2>3. \A q \in S : h[q] = f[q]
      BY <1>2, <2>1, <2>2, SumsTyped
    <2>4. CASE t \in {Token0[p], Token1[p]}
      <3>1. WithToken(D, t) = S \union {p} /\ p \notin S
        BY <1>1, <2>4 DEF WithToken
      <3>2. h[p] = 0
        BY <3>1, SumsTyped
      <3> HIDE DEF S, f, h
      <3>3. SumFunctionOnSet(h, S \union {p}) = SumFunctionOnSet(f, S)
        BY <2>1, <2>3, <3>1, <3>2, ZeroAdded
      <3> QED BY <3>1, <3>3 DEF S, f, h
    <2>5. CASE t \notin {Token0[p], Token1[p]}
      <3>1. WithToken(D, t) = S
        BY <1>1, <2>5 DEF WithToken
      <3> HIDE DEF S, f, h
      <3>2. SumFunctionOnSet(h, S) = SumFunctionOnSet(f, S)
        BY <2>1, <2>3, SumAgrees
      <3> QED BY <3>1, <3>2 DEF S, f, h
    <2> QED BY <2>4, <2>5
  <1> QED BY <1>3, <1>4 DEF SumsFollow

\* New reserves replace the old ones.
LEMMA SumsOfSynced ==
  ASSUME NEW d \in Store, SumsFollow(d), NEW p \in Pairs, d.pair[p] # None,
         NEW x \in Int, NEW usd \in Int,
         NEW D \in Store, D.factoryUSD = d.factoryUSD - d.pair[p].reserveUSD + usd,
         \A t \in Tokens : D.tradeLiquidity[t] =
           IF t \in {Token0[p], Token1[p]} THEN d.tradeLiquidity[t] - d.pair[p].reserve + x
           ELSE d.tradeLiquidity[t],
         D.pair[p] # None, D.pair[p].reserve = x, D.pair[p].reserveUSD = usd,
         \A q \in Pairs \ {p} : D.pair[q] = d.pair[q]
  PROVE  SumsFollow(D)
  <1>1. Known(D) = Known(d) /\ p \in Known(d)
    BY DEF Known
  <1>2. \A t : WithToken(D, t) = WithToken(d, t)
    BY <1>1 DEF WithToken
  <1>3. \A q \in Known(d) \ {p} : q \in Pairs \ {p} /\ D.pair[q] = d.pair[q]
    BY DEF Known
  <1>4. D.factoryUSD = SumFunctionOnSet(Values(D), Known(D))
    <2> DEFINE S == Known(d)
               f == Values(d)
               h == Values(D)
    <2>1. IsFiniteSet(S) /\ (\A q \in S : f[q] \in Int) /\ p \in S
      BY <1>1, SumsTyped
    <2>2. h[p] = usd /\ h[p] \in Int /\ f[p] = d.pair[p].reserveUSD
          /\ \A q \in S \ {p} : h[q] = f[q]
      BY <1>1, <1>3, SumsTyped
    <2>3. d.factoryUSD = SumFunctionOnSet(f, S)
      BY DEF SumsFollow
    <2> HIDE DEF S, f, h
    <2>4. SumFunctionOnSet(h, S) = SumFunctionOnSet(f, S) - f[p] + h[p]
      BY <2>1, <2>2, SumChangedAtOne
    <2> QED BY <1>1, <2>2, <2>3, <2>4 DEF S, f, h
  <1>5. ASSUME NEW t \in Tokens
        PROVE  D.tradeLiquidity[t] = SumFunctionOnSet(Reserves(D, t), WithToken(D, t))
    <2> DEFINE S == WithToken(d, t)
               f == Reserves(d, t)
               h == Reserves(D, t)
    <2>1. IsFiniteSet(S) /\ S \subseteq Known(d) /\ (\A q \in S : f[q] \in Int)
      BY SumsTyped
    <2>2. \A q \in S \ {p} : h[q] = f[q]
      BY <1>2, <1>3, <2>1, SumsTyped
    <2>3. d.tradeLiquidity[t] = SumFunctionOnSet(f, S)
      BY DEF SumsFollow
    <2>4. CASE t \in {Token0[p], Token1[p]}
      <3>1. p \in S /\ p \in WithToken(D, t)
        BY <1>1, <2>4 DEF WithToken
      <3>2. h[p] = x /\ h[p] \in Int /\ f[p] = d.pair[p].reserve
        BY <3>1, SumsTyped
      <3>3. D.tradeLiquidity[t] = d.tradeLiquidity[t] - d.pair[p].reserve + x
        BY <2>4
      <3> HIDE DEF S, f, h
      <3>4. SumFunctionOnSet(h, S) = SumFunctionOnSet(f, S) - f[p] + h[p]
        BY <2>1, <2>2, <3>1, <3>2, SumChangedAtOne
      <3> QED BY <1>2, <2>3, <3>2, <3>3, <3>4 DEF S, f, h
    <2>5. CASE t \notin {Token0[p], Token1[p]}
      <3>1. p \notin S
        BY <2>5 DEF WithToken
      <3>2. D.tradeLiquidity[t] = d.tradeLiquidity[t]
        BY <2>5
      <3>3. \A q \in S : h[q] = f[q]
        BY <2>2, <3>1
      <3> HIDE DEF S, f, h
      <3>4. SumFunctionOnSet(h, S) = SumFunctionOnSet(f, S)
        BY <2>1, <3>3, SumAgrees
      <3> QED BY <1>2, <2>3, <3>2, <3>4 DEF S, f, h
    <2> QED BY <2>4, <2>5
  <1> QED BY <1>4, <1>5 DEF SumsFollow

-----------------------------------------------------------------------------
(* The other handlers                                                       *)

LEMMA CreateTurnFollows ==
  ASSUME NEW d, NEW r, NEW g, Follows(d, r, g), SumsFollow(d), NEW e, NEW h \in Ghost,
         TurnCreate(g, e, h)
  PROVE  /\ e.kind = "PairCreated"
         /\ Follows(PairCreated(d, e.pair), Report(r, e), h)
         /\ SumsFollow(PairCreated(d, e.pair))
  <1>1. d \in Store /\ r \in Reports /\ g \in Ghost /\ RowsFollow(d, g)
        /\ CallsFollow(d, r, g.phase)
    BY DEF Follows
  <1>2. PICK p \in Pairs \ g.known :
          /\ e = [kind |-> "PairCreated", pair |-> p]
          /\ h = [g EXCEPT !.known = @ \union {p}, !.total[p] = 0]
    BY DEF TurnCreate
  <1> DEFINE row == [totalSupply |-> 0, liquidityProviderCount |-> 0,
                     reserve |-> 0, reserveUSD |-> 0]
             D == PairCreated(d, p)
  <1>3. e.kind = "PairCreated" /\ e.pair = p
    BY <1>2
  <1>4. Report(r, e) = r
    BY <1>3 DEF Report
  <1>5. row \in PairRow /\ row # None
    BY NoneAssumption DEF PairRow
  <1>6. row.totalSupply = 0 /\ row.liquidityProviderCount = 0 /\ row.reserve = 0
        /\ row.reserveUSD = 0
    OBVIOUS
  <1>7. D = [d EXCEPT !.pair[p] = row]
    BY DEF PairCreated
  <1> HIDE DEF row, D
  <1>8. d.pair \in [Pairs -> PairRow \union {None}]
    BY <1>1 DEF Store
  <1>9. [d.pair EXCEPT ![p] = row] \in [Pairs -> PairRow \union {None}]
    BY <1>5, <1>8
  <1>10. /\ D \in Store /\ D.pair = [d.pair EXCEPT ![p] = row] /\ D.position = d.position
         /\ D.mints = d.mints /\ D.burns = d.burns /\ D.trades = d.trades /\ D.tx = d.tx
         /\ D.factoryUSD = d.factoryUSD /\ D.tradeLiquidity = d.tradeLiquidity
    BY <1>1, <1>7, <1>9 DEF Store
  <1>11. D.pair[p] = row /\ \A q \in Pairs \ {p} : D.pair[q] = d.pair[q]
    BY <1>2, <1>8, <1>10
  <1>12. d.pair[p] = None /\ Providers(d, p) = {}
    BY <1>1, <1>2 DEF RowsFollow
  <1>13. h.known = g.known \union {p} /\ h.total[p] = 0 /\ h.phase = g.phase
         /\ \A q \in Pairs \ {p} : h.total[q] = g.total[q]
    BY <1>1, <1>2 DEF Ghost
  <1>14. RowsFollow(D, h)
    <2> SUFFICES ASSUME NEW q \in Pairs
                 PROVE  /\ q \in h.known =>
                             /\ D.pair[q] # None /\ D.pair[q].totalSupply = h.total[q]
                             /\ D.pair[q].liquidityProviderCount = Cardinality(Providers(D, q))
                        /\ q \notin h.known => D.pair[q] = None /\ Providers(D, q) = {}
      BY DEF RowsFollow
    <2>1. Providers(D, q) = Providers(d, q)
      BY <1>10 DEF Providers
    <2>2. CASE q = p
      <3>1. Cardinality(Providers(D, q)) = 0
        BY <1>12, <2>1, <2>2, FS_EmptySet
      <3> QED BY <1>5, <1>6, <1>11, <1>13, <2>2, <3>1
    <2>3. CASE q # p
      BY <1>1, <1>11, <1>13, <2>1, <2>3 DEF RowsFollow
    <2> QED BY <2>2, <2>3
  <1>15. CallsFollow(D, r, h.phase)
    <2>1. CallsKept(d, D)
      BY <1>10 DEF CallsKept
    <2> QED BY <1>1, <1>13, <2>1, CallsFollowKept
  <1>16. Follows(D, r, h)
    BY <1>1, <1>10, <1>14, <1>15 DEF Follows
  <1>17. SumsFollow(D)
    <2>1. D.pair[p] # None /\ D.pair[p].reserve = 0 /\ D.pair[p].reserveUSD = 0
      BY <1>5, <1>6, <1>11
    <2> QED BY <1>1, <1>2, <1>10, <1>11, <1>12, <2>1, SumsOfCreated
  <1> QED BY <1>3, <1>4, <1>16, <1>17 DEF D

LEMMA SyncTurnFollows ==
  ASSUME NEW d, NEW r, NEW g, Follows(d, r, g), SumsFollow(d), NEW e, NEW h \in Ghost,
         TurnSync(g, e, h), NEW price \in Prices
  PROVE  /\ e.kind = "Sync"
         /\ Follows(Synced(d, e.pair, e.reserve, price), Report(r, e), h)
         /\ SumsFollow(Synced(d, e.pair, e.reserve, price))
  <1>1. d \in Store /\ r \in Reports /\ g \in Ghost /\ RowsFollow(d, g)
        /\ CallsFollow(d, r, g.phase) /\ h = g
    BY DEF Follows, TurnSync
  <1>2. PICK p \in g.known, x \in Int : e = SyncOf(p, x)
    BY DEF TurnSync
  <1>3. e.kind = "Sync" /\ e.pair = p /\ e.reserve = x
    BY <1>2 DEF SyncOf
  <1>4. Report(r, e) = r
    BY <1>3 DEF Report
  <1>5. p \in Pairs /\ d.pair[p] # None /\ d.pair[p] \in PairRow
    BY <1>1 DEF Ghost, RowsFollow, Store
  <1>6. PICK usd \in Int : usd = x * price
    BY AmmAssumption
  <1> DEFINE old == d.pair[p]
             row == [old EXCEPT !.reserve = x, !.reserveUSD = usd]
             pairs == [d.pair EXCEPT ![p] = row]
             total == d.factoryUSD - old.reserveUSD + usd
             tokens == [t \in Tokens |->
                          IF t \in {Token0[p], Token1[p]}
                          THEN d.tradeLiquidity[t] - old.reserve + x ELSE d.tradeLiquidity[t]]
             D == Synced(d, p, x, price)
  <1>7. D = [d EXCEPT !.pair = pairs, !.factoryUSD = total, !.tradeLiquidity = tokens]
    BY <1>1, <1>5, <1>6 DEF Synced, Store
  <1>8. row \in PairRow /\ row # None /\ row.totalSupply = old.totalSupply
        /\ row.liquidityProviderCount = old.liquidityProviderCount
        /\ row.reserve = x /\ row.reserveUSD = usd
    BY <1>5, NoneAssumption DEF PairRow
  <1>9. /\ d.pair \in [Pairs -> PairRow \union {None}] /\ d.factoryUSD \in Int
        /\ d.tradeLiquidity \in [Tokens -> Int] /\ old.reserve \in Int
        /\ old.reserveUSD \in Int
    BY <1>1, <1>5 DEF Store, PairRow
  <1>10. total \in Int /\ tokens \in [Tokens -> Int]
    BY <1>9
  <1> HIDE DEF row, total
  <1>11. /\ pairs \in [Pairs -> PairRow \union {None}] /\ pairs[p] = row
         /\ \A q \in Pairs \ {p} : pairs[q] = d.pair[q]
    BY <1>5, <1>8, <1>9
  <1>12. \A t \in Tokens : tokens[t] = IF t \in {Token0[p], Token1[p]}
                                       THEN d.tradeLiquidity[t] - old.reserve + x
                                       ELSE d.tradeLiquidity[t]
    OBVIOUS
  <1> HIDE DEF pairs, tokens, D
  <1>13. /\ D \in Store /\ D.pair = pairs /\ D.position = d.position
         /\ D.mints = d.mints /\ D.burns = d.burns /\ D.trades = d.trades /\ D.tx = d.tx
         /\ D.factoryUSD = total /\ D.tradeLiquidity = tokens
    BY <1>1, <1>7, <1>10, <1>11 DEF Store
  <1>14. RowsFollow(D, g)
    <2> SUFFICES ASSUME NEW q \in Pairs
                 PROVE  /\ q \in g.known =>
                             /\ D.pair[q] # None /\ D.pair[q].totalSupply = g.total[q]
                             /\ D.pair[q].liquidityProviderCount = Cardinality(Providers(D, q))
                        /\ q \notin g.known => D.pair[q] = None /\ Providers(D, q) = {}
      BY DEF RowsFollow
    <2>1. Providers(D, q) = Providers(d, q)
      BY <1>13 DEF Providers
    <2>2. CASE q = p
      BY <1>1, <1>8, <1>11, <1>13, <2>1, <2>2 DEF RowsFollow
    <2>3. CASE q # p
      BY <1>1, <1>11, <1>13, <2>1, <2>3 DEF RowsFollow
    <2> QED BY <2>2, <2>3
  <1>15. CallsFollow(D, r, g.phase)
    <2>1. CallsKept(d, D)
      BY <1>13 DEF CallsKept
    <2> QED BY <1>1, <2>1, CallsFollowKept
  <1>16. Follows(D, r, g)
    BY <1>1, <1>13, <1>14, <1>15 DEF Follows
  <1>17. SumsFollow(D)
    <2>1. D.pair[p] # None /\ D.pair[p].reserve = x /\ D.pair[p].reserveUSD = usd
      BY <1>8, <1>11, <1>13
    <2>2. D.factoryUSD = d.factoryUSD - d.pair[p].reserveUSD + usd
      BY <1>13 DEF total
    <2>3. \A t \in Tokens : D.tradeLiquidity[t] =
            IF t \in {Token0[p], Token1[p]} THEN d.tradeLiquidity[t] - d.pair[p].reserve + x
            ELSE d.tradeLiquidity[t]
      BY <1>12, <1>13
    <2>4. \A q \in Pairs \ {p} : D.pair[q] = d.pair[q]
      BY <1>11, <1>13
    <2> HIDE DEF old
    <2> QED BY <1>1, <1>5, <1>13, <2>1, <2>2, <2>3, <2>4, SumsOfSynced
  <1> QED BY <1>1, <1>3, <1>4, <1>16, <1>17 DEF D

LEMMA SwapTurnFollows ==
  ASSUME NEW d, NEW r, NEW g, Follows(d, r, g), NEW e, NEW h \in Ghost, TurnSwap(g, e, h)
  PROVE  /\ e.kind = "Swap"
         /\ Follows(Swapped(d, e.pair), Report(r, e), h)
         /\ ReservesKept(d, Swapped(d, e.pair))
  <1>1. d \in Store /\ r \in Reports /\ g \in Ghost /\ RowsFollow(d, g)
        /\ CallsFollow(d, r, g.phase) /\ h = g /\ IsBetween(g.phase)
    BY DEF Follows, TurnSwap
  <1>2. PICK p \in g.known : e = [kind |-> "Swap", pair |-> p]
    BY DEF TurnSwap
  <1> DEFINE D == Swapped(d, p)
             R == Report(r, e)
  <1>3. e.kind = "Swap" /\ e.pair = p /\ p \in Pairs
    BY <1>1, <1>2 DEF Ghost
  <1>4. d.trades \in Seq(Pairs) /\ r.swaps \in Seq(Pairs)
    BY <1>1 DEF Store, Reports
  <1>5. Append(d.trades, p) \in Seq(Pairs) /\ Append(r.swaps, p) \in Seq(Pairs)
    BY <1>3, <1>4, AppendProperties
  <1>6. /\ D \in Store /\ D.pair = d.pair /\ D.position = d.position
        /\ D.mints = d.mints /\ D.burns = d.burns /\ D.trades = Append(d.trades, p)
        /\ D.tx = TRUE /\ D.factoryUSD = d.factoryUSD /\ D.tradeLiquidity = d.tradeLiquidity
    BY <1>1, <1>5 DEF Swapped, Store
  <1>7. R = [r EXCEPT !.swaps = Append(r.swaps, p)]
    BY <1>1, <1>3 DEF Report, Reports
  <1> HIDE DEF D, R
  <1>8. R \in Reports /\ R.mints = r.mints /\ R.burns = r.burns
        /\ R.swaps = Append(r.swaps, p)
    BY <1>1, <1>5, <1>7 DEF Reports
  <1>9. (R.tidy <=> r.tidy) /\ (R.sent <=> r.sent)
    BY <1>1, <1>7 DEF Reports
  <1>10. RowsFollow(D, g)
    <2>1. \A q : Providers(D, q) = Providers(d, q)
      BY <1>6 DEF Providers
    <2> QED BY <1>1, <1>6, <2>1 DEF RowsFollow
  <1>11. CallsFollow(D, R, g.phase)
    <2>1. SentFollows(D, R)
      BY <1>1, <1>6, <1>9 DEF CallsFollow, SentFollows
    <2>2. ASSUME R.tidy PROVE TidyFollows(D, R, g.phase)
      <3>1. TidyFollows(d, r, g.phase) /\ r.tidy
        BY <1>1, <1>9, <2>2 DEF CallsFollow
      <3>2. OpenMintFollows(D, g.phase)
        BY <1>6, <3>1 DEF TidyFollows, OpenMintFollows, HasOpenMint
      <3>3. OpenBurnFollows(D, g.phase)
        BY <1>6, <3>1 DEF TidyFollows, OpenBurnFollows
      <3> QED BY <1>6, <1>8, <3>1, <3>2, <3>3 DEF TidyFollows
    <2> QED BY <1>1, <1>6, <2>1, <2>2 DEF CallsFollow, TidyFollows
  <1>12. Follows(D, R, g)
    BY <1>1, <1>6, <1>8, <1>10, <1>11 DEF Follows
  <1>13. ReservesKept(d, D)
    BY <1>6 DEF ReservesKept, PairsKept
  <1> QED BY <1>1, <1>3, <1>12, <1>13 DEF D, R

LEMMA MintReported ==
  ASSUME NEW r \in Reports, NEW e \in Event, e.kind = "Mint"
  PROVE  /\ Report(r, e) \in Reports /\ e.row \in MintCall /\ e.pair \in Pairs
         /\ Report(r, e).mints = Append(r.mints, e.row)
         /\ Report(r, e).burns = r.burns /\ Report(r, e).swaps = r.swaps
         /\ Report(r, e).tidy <=> r.tidy
         /\ Report(r, e).sent <=> r.sent
  <1>1. e.row \in MintCall /\ e.pair \in Pairs
    BY DEF Event
  <1>2. r.mints \in Seq(MintCall)
    BY DEF Reports
  <1>3. Append(r.mints, e.row) \in Seq(MintCall)
    BY <1>1, <1>2, AppendProperties
  <1> DEFINE R == Report(r, e)
  <1>4. R = [r EXCEPT !.mints = Append(r.mints, e.row)]
    BY DEF Report, Reports
  <1> HIDE DEF R
  <1>5. R \in Reports /\ R.mints = Append(r.mints, e.row) /\ R.burns = r.burns
        /\ R.swaps = r.swaps
    BY <1>3, <1>4 DEF Reports
  <1>6. (R.tidy <=> r.tidy) /\ (R.sent <=> r.sent)
    BY <1>4 DEF Reports
  <1> QED BY <1>1, <1>5, <1>6 DEF R

LEMMA BurnReported ==
  ASSUME NEW r \in Reports, NEW e \in Event, e.kind = "Burn"
  PROVE  /\ Report(r, e) \in Reports /\ e.row \in BurnCall /\ e.pair \in Pairs
         /\ Report(r, e).burns = Append(r.burns, e.row)
         /\ Report(r, e).mints = r.mints /\ Report(r, e).swaps = r.swaps
         /\ Report(r, e).tidy <=> r.tidy
         /\ Report(r, e).sent <=> r.sent
  <1>1. e.row \in BurnCall /\ e.pair \in Pairs
    BY DEF Event
  <1>2. r.burns \in Seq(BurnCall)
    BY DEF Reports
  <1>3. Append(r.burns, e.row) \in Seq(BurnCall)
    BY <1>1, <1>2, AppendProperties
  <1> DEFINE R == Report(r, e)
  <1>4. R = [r EXCEPT !.burns = Append(r.burns, e.row)]
    BY DEF Report, Reports
  <1> HIDE DEF R
  <1>5. R \in Reports /\ R.burns = Append(r.burns, e.row) /\ R.mints = r.mints
        /\ R.swaps = r.swaps
    BY <1>3, <1>4 DEF Reports
  <1>6. (R.tidy <=> r.tidy) /\ (R.sent <=> r.sent)
    BY <1>4 DEF Reports
  <1> QED BY <1>1, <1>5, <1>6 DEF R

\* The mint at the end is that of the call: its row is complete.
LEMMA MintedTurnFollows ==
  ASSUME NEW d, NEW r, NEW g, Follows(d, r, g), NEW e \in Event, NEW h \in Ghost,
         TurnMinted(g, e, h)
  PROVE  /\ e.kind = "Mint" /\ d.mints # <<>>
         /\ Follows(MintCompleted(d, e.pair), Report(r, e), h)
         /\ ReservesKept(d, MintCompleted(d, e.pair))
  <1>1. d \in Store /\ r \in Reports /\ g \in Ghost /\ RowsFollow(d, g)
        /\ CallsFollow(d, r, g.phase)
    BY DEF Follows
  <1> DEFINE ph == g.phase
             p == e.pair
             last == Last(d.mints)
             row == [last EXCEPT !.complete = TRUE]
             c == [d EXCEPT !.mints = WithLast(d.mints, row)]
             R == Report(r, e)
  <1>2. /\ ph.at = "minted" /\ ph.pair \in g.known /\ p = ph.pair
        /\ e.kind = "Mint" /\ e.row = [pair |-> ph.pair, to |-> ph.user, liquidity |-> ph.amount]
        /\ h = [g EXCEPT !.phase = Between]
    BY DEF TurnMinted, MintOf
  <1>3. d.mints # <<>> /\ d.mints \in Seq(MintRow)
    BY <1>1, <1>2 DEF CallsFollow, Store
  <1>4. last \in MintRow
    BY <1>3, LastFacts
  <1>5. MintCompleted(d, p) = WithPosition(c, p, last.to)
    BY <1>1 DEF MintCompleted, Store
  <1> HIDE DEF last
  <1>6. /\ row \in MintRow /\ row.pair = last.pair /\ row.to = last.to
        /\ row.liquidity = last.liquidity /\ row.complete /\ last.to \in Users
    BY <1>4 DEF MintRow
  <1>7. h.phase = Between /\ h.known = g.known /\ h.total = g.total
    BY <1>1, <1>2 DEF Ghost
  <1> HIDE DEF row
  <1>8. /\ WithLast(d.mints, row) \in Seq(MintRow) /\ WithLast(d.mints, row) # <<>>
        /\ Last(WithLast(d.mints, row)) = row
    BY <1>3, <1>6, WithLastFacts
  <1>9. /\ c \in Store /\ c.pair = d.pair /\ c.position = d.position
        /\ c.mints = WithLast(d.mints, row) /\ c.burns = d.burns /\ c.trades = d.trades
        /\ c.tx = d.tx /\ c.factoryUSD = d.factoryUSD /\ c.tradeLiquidity = d.tradeLiquidity
    BY <1>1, <1>8 DEF Store
  <1>10. /\ R \in Reports /\ e.row \in MintCall /\ R.mints = Append(r.mints, e.row)
         /\ R.burns = r.burns /\ R.swaps = r.swaps
         /\ R.tidy <=> r.tidy
         /\ R.sent <=> r.sent
    BY <1>1, <1>2, MintReported
  <1> HIDE DEF c, R
  <1>11. RowsFollow(c, h)
    <2>1. \A q : Providers(c, q) = Providers(d, q)
      BY <1>9 DEF Providers
    <2> QED BY <1>1, <1>7, <1>9, <2>1 DEF RowsFollow
  <1>12. CallsFollow(c, R, Between)
    <2>1. SentFollows(c, R)
      BY <1>1, <1>9, <1>10 DEF CallsFollow, SentFollows
    <2>2. ASSUME R.tidy PROVE TidyFollows(c, R, Between)
      <3>1. TidyFollows(d, r, ph) /\ r.tidy
        BY <1>1, <1>10, <2>2 DEF CallsFollow
      <3>2. last = [pair |-> ph.pair, to |-> ph.user, liquidity |-> ph.amount,
                    complete |-> FALSE]
        BY <1>2, <3>1 DEF TidyFollows, OpenMintFollows, last
      <3>3. ~ last.complete /\ MintPart(row) = e.row
        BY <1>2, <1>6, <3>2 DEF MintPart
      <3>4. Done(c.mints) = Append(Done(d.mints), row)
        <4>1. Done(WithLast(d.mints, row)) = IF row.complete THEN Append(Done(d.mints), row)
                                             ELSE Done(d.mints)
          BY <1>3, <1>6, <3>3, DoneOfWithLast DEF last
        <4> QED BY <1>6, <1>9, <4>1
      <3>5. MintRows(Done(c.mints)) = Append(MintRows(Done(d.mints)), MintPart(row))
        <4>1. Done(d.mints) \in Seq(MintRow)
          BY <1>3, DoneType
        <4> QED BY <1>6, <3>4, <4>1, MintRowsOfAppend
      <3>6. MintRows(Done(c.mints)) = R.mints
        BY <1>10, <3>1, <3>3, <3>5 DEF TidyFollows
      <3>7. OpenMintFollows(c, Between)
        BY <1>6, <1>8, <1>9 DEF OpenMintFollows, HasOpenMint, Between
      <3>8. OpenBurnFollows(c, Between)
        BY DEF OpenBurnFollows, Between
      <3>9. BurnRows(Done(c.burns)) = R.burns /\ c.trades = R.swaps
        BY <1>9, <1>10, <3>1 DEF TidyFollows
      <3> QED BY <3>6, <3>7, <3>8, <3>9 DEF TidyFollows
    <2> QED BY <2>1, <2>2 DEF CallsFollow, TidyFollows, Between
  <1> DEFINE D == WithPosition(c, p, last.to)
  <1>13. D \in Store /\ RowsFollow(D, h) /\ ReservesKept(c, D) /\ CallsKept(c, D)
    <2>1. p \in h.known
      BY <1>2, <1>7
    <2> HIDE DEF p
    <2> QED BY <1>6, <1>9, <1>11, <2>1, WithPositionFollows
  <1> HIDE DEF D
  <1>14. CallsFollow(D, R, Between)
    BY <1>12, <1>13, CallsFollowKept
  <1>15. Follows(D, R, h)
    BY <1>7, <1>10, <1>13, <1>14 DEF Follows
  <1>16. ReservesKept(d, D)
    <2>1. ReservesKept(d, c)
      BY <1>9 DEF ReservesKept, PairsKept
    <2> QED BY <1>13, <2>1, ReservesKeptOn
  <1> QED BY <1>2, <1>3, <1>5, <1>15, <1>16 DEF D, R

\* Without a Transaction, or a row that has a sender, the transaction is not tidy; and
\* without such a row nothing was sent.
LEMMA BurnedTurnFollows ==
  ASSUME NEW d, NEW r, NEW g, Follows(d, r, g), NEW e \in Event, NEW h \in Ghost,
         TurnBurned(g, e, h), HandleBurn(d, e)
  PROVE  /\ e.kind = "Burn"
         /\ \/ Follows(db', Report(r, e), h) /\ ReservesKept(d, db') /\ UNCHANGED halted
            \/ ~ Report(r, e).sent /\ ~ Report(r, e).tidy /\ Throw
  <1>1. d \in Store /\ r \in Reports /\ g \in Ghost /\ RowsFollow(d, g)
        /\ CallsFollow(d, r, g.phase)
    BY DEF Follows
  <1> DEFINE ph == g.phase
             p == e.pair
             last == Last(d.burns)
             row == [last EXCEPT !.complete = TRUE]
             c == [d EXCEPT !.burns = WithLast(d.burns, row)]
             found == d.burns # <<>> /\ last.sender # None
             R == Report(r, e)
  <1>2. /\ ph.at = "burned" /\ ph.pair \in g.known /\ p = ph.pair
        /\ e.kind = "Burn" /\ e.row = [pair |-> ph.pair, sender |-> ph.user,
                                       liquidity |-> ph.amount, fee |-> ph.fee]
        /\ h = [g EXCEPT !.phase = Between]
    BY DEF TurnBurned, BurnOf
  <1>3. /\ R \in Reports /\ e.row \in BurnCall /\ R.burns = Append(r.burns, e.row)
        /\ R.mints = r.mints /\ R.swaps = r.swaps
        /\ R.tidy <=> r.tidy
        /\ R.sent <=> r.sent
    BY <1>1, <1>2, BurnReported
  <1> HIDE DEF R
  <1>4. h.phase = Between /\ h.known = g.known /\ h.total = g.total
    BY <1>1, <1>2 DEF Ghost
  <1>5. ASSUME r.tidy
        PROVE  /\ d.tx /\ found
               /\ last = [pair |-> ph.pair, sender |-> ph.user, liquidity |-> ph.amount,
                          fee |-> ph.fee, needsComplete |-> TRUE, complete |-> FALSE]
    <2>1. OpenBurnFollows(d, ph)
      BY <1>1, <1>5 DEF CallsFollow, TidyFollows
    <2>2. /\ d.tx /\ d.burns # <<>> /\ ph.user # None
          /\ last = [pair |-> ph.pair, sender |-> ph.user, liquidity |-> ph.amount,
                     fee |-> ph.fee, needsComplete |-> TRUE, complete |-> FALSE]
      BY <1>2, <2>1 DEF OpenBurnFollows
    <2> QED BY <2>2
  <1>6. CASE ~ d.tx /\ db' = d /\ UNCHANGED halted
    <2>1. ~ R.tidy
      BY <1>3, <1>5, <1>6
    <2>2. RowsFollow(d, h)
      BY <1>1, <1>4 DEF RowsFollow
    <2>3. CallsFollow(d, R, Between)
      BY <1>1, <1>3, <2>1 DEF CallsFollow, SentFollows, TidyFollows, Between
    <2>4. Follows(d, R, h)
      BY <1>1, <1>3, <1>4, <2>2, <2>3 DEF Follows
    <2> QED BY <1>2, <1>6, <2>4 DEF R, ReservesKept, PairsKept
  <1>7. CASE ~ found /\ Throw
    <2>1. ~ R.tidy
      BY <1>3, <1>5, <1>7
    <2>2. ~ R.sent
      BY <1>1, <1>3, <1>7 DEF CallsFollow, SentFollows
    <2> QED BY <1>2, <1>7, <2>1, <2>2 DEF R
  <1>8. CASE found /\ db' = BurnCompleted(d, p) /\ UNCHANGED halted
    <2>1. d.burns # <<>> /\ d.burns \in Seq(BurnRow) /\ last.sender # None
      BY <1>1, <1>8 DEF Store
    <2>2. last \in BurnRow
      BY <2>1, LastFacts
    <2>3. BurnCompleted(d, p) = WithPosition(c, p, last.sender)
      BY <1>1 DEF BurnCompleted, Store
    <2> HIDE DEF last
    <2>4. /\ row \in BurnRow /\ row.pair = last.pair /\ row.sender = last.sender
          /\ row.liquidity = last.liquidity /\ row.fee = last.fee
          /\ last.sender \in Users
      BY <2>1, <2>2 DEF BurnRow
    <2>5. row.complete /\ (row.needsComplete <=> last.needsComplete)
      BY <2>2 DEF BurnRow
    <2> HIDE DEF row
    <2>6. /\ WithLast(d.burns, row) \in Seq(BurnRow) /\ WithLast(d.burns, row) # <<>>
          /\ Last(WithLast(d.burns, row)) = row
      BY <2>1, <2>4, WithLastFacts
    <2>7. /\ c \in Store /\ c.pair = d.pair /\ c.position = d.position
          /\ c.burns = WithLast(d.burns, row) /\ c.mints = d.mints /\ c.trades = d.trades
          /\ c.tx = d.tx /\ c.factoryUSD = d.factoryUSD
          /\ c.tradeLiquidity = d.tradeLiquidity
      BY <1>1, <2>6 DEF Store
    <2> HIDE DEF c
    <2>8. RowsFollow(c, h)
      <3>1. \A q : Providers(c, q) = Providers(d, q)
        BY <2>7 DEF Providers
      <3> QED BY <1>1, <1>4, <2>7, <3>1 DEF RowsFollow
    <2>9. CallsFollow(c, R, Between)
      <3>1. SentFollows(c, R)
        <4> SUFFICES ASSUME R.sent
                     PROVE  /\ c.burns # <<>> /\ Last(c.burns).needsComplete
                            /\ Last(c.burns).sender # None
          BY DEF SentFollows
        <4>1. last.needsComplete
          BY <1>1, <1>3 DEF CallsFollow, SentFollows, last
        <4> QED BY <2>1, <2>4, <2>5, <2>6, <2>7, <4>1
      <3>2. ASSUME R.tidy PROVE TidyFollows(c, R, Between)
        <4>1. TidyFollows(d, r, ph) /\ r.tidy
          BY <1>1, <1>3, <3>2 DEF CallsFollow
        <4>2. last = [pair |-> ph.pair, sender |-> ph.user, liquidity |-> ph.amount,
                      fee |-> ph.fee, needsComplete |-> TRUE, complete |-> FALSE]
          BY <1>5, <4>1
        <4>3. ~ last.complete /\ BurnPart(row) = e.row
          BY <1>2, <2>4, <4>2 DEF BurnPart
        <4>4. Done(c.burns) = Append(Done(d.burns), row)
          <5>1. Done(WithLast(d.burns, row)) = IF row.complete THEN Append(Done(d.burns), row)
                                               ELSE Done(d.burns)
            BY <2>1, <2>4, <4>3, DoneOfWithLast DEF last
          <5> QED BY <2>5, <2>7, <5>1
        <4>5. BurnRows(Done(c.burns)) = Append(BurnRows(Done(d.burns)), BurnPart(row))
          <5>1. Done(d.burns) \in Seq(BurnRow)
            BY <2>1, DoneType
          <5> QED BY <2>4, <4>4, <5>1, BurnRowsOfAppend
        <4>6. BurnRows(Done(c.burns)) = R.burns
          BY <1>3, <4>1, <4>3, <4>5 DEF TidyFollows
        <4>7. OpenMintFollows(c, Between)
          BY <1>2, <2>7, <4>1 DEF TidyFollows, OpenMintFollows, HasOpenMint, Between
        <4>8. OpenBurnFollows(c, Between)
          BY DEF OpenBurnFollows, Between
        <4>9. MintRows(Done(c.mints)) = R.mints /\ c.trades = R.swaps
          BY <1>3, <2>7, <4>1 DEF TidyFollows
        <4> QED BY <4>6, <4>7, <4>8, <4>9 DEF TidyFollows
      <3> QED BY <3>1, <3>2 DEF CallsFollow, TidyFollows, Between
    <2> DEFINE D == WithPosition(c, p, last.sender)
    <2>10. D \in Store /\ RowsFollow(D, h) /\ ReservesKept(c, D) /\ CallsKept(c, D)
      <3>1. p \in h.known
        BY <1>2, <1>4
      <3> HIDE DEF p
      <3> QED BY <2>4, <2>7, <2>8, <3>1, WithPositionFollows
    <2> HIDE DEF D
    <2>11. CallsFollow(D, R, Between)
      BY <2>9, <2>10, CallsFollowKept
    <2>12. Follows(D, R, h)
      BY <1>3, <1>4, <2>10, <2>11 DEF Follows
    <2>13. ReservesKept(d, D)
      <3>1. ReservesKept(d, c)
        BY <2>7 DEF ReservesKept, PairsKept
      <3> QED BY <2>10, <3>1, ReservesKeptOn
    <2> QED BY <1>2, <1>8, <2>3, <2>12, <2>13 DEF D, R
  <1> QED BY <1>6, <1>7, <1>8 DEF HandleBurn

-----------------------------------------------------------------------------
(* The step of the indexer                                                  *)

\* Whatever comes after g, its handler follows; only the Burn of a transaction in which
\* nothing was sent stops it.
LEMMA HandlerFollows ==
  ASSUME ChainInv, NEW d, NEW r, NEW g, Follows(d, r, g), SumsFollow(d), NEW e \in Event,
         NEW h \in Ghost, After(g, e, h), Handler(d, e)
  PROVE  \/ Follows(db', Report(r, e), h) /\ SumsFollow(db') /\ UNCHANGED halted
         \/ ~ Report(r, e).sent /\ ~ Report(r, e).tidy /\ Throw
  <1>1. CASE TurnCreate(g, e, h)
    <2>1. e.kind = "PairCreated"
      BY <1>1, CreateTurnFollows
    <2>2. db' = PairCreated(d, e.pair) /\ UNCHANGED halted
      BY <2>1 DEF Handler
    <2> QED BY <1>1, <2>2, CreateTurnFollows
  <1>2. CASE TurnLock(g, e, h) \/ TurnFee(g, e, h) \/ TurnMint(g, e, h) \/ TurnSend(g, e, h)
               \/ TurnSendToPair(g, e, h) \/ TurnBurn(g, e, h)
    <2>1. e.kind = "Transfer"
      BY <1>2 DEF TurnLock, TurnFee, TurnMint, TurnSend, TurnSendToPair, TurnBurn, TransferOf
    <2>2. Follows(Transferred(d, e), Report(r, e), h) /\ ReservesKept(d, Transferred(d, e))
      BY <1>2, LockTurnFollows, FeeTurnFollows, MintTurnFollows, SendTurnFollows,
         SendToPairTurnFollows, BurnTurnFollows
    <2>3. db' = Transferred(d, e) /\ UNCHANGED halted
      BY <2>1 DEF Handler
    <2> QED BY <2>2, <2>3, SumsKept
  <1>3. CASE TurnSync(g, e, h)
    <2>1. e.kind = "Sync"
      BY <1>3 DEF TurnSync, SyncOf
    <2>2. PICK price \in Prices : db' = Synced(d, e.pair, e.reserve, price)
      BY <2>1 DEF Handler
    <2>3. UNCHANGED halted
      BY <2>1 DEF Handler
    <2> QED BY <1>3, <2>2, <2>3, SyncTurnFollows
  <1>4. CASE TurnSwap(g, e, h)
    <2>1. e.kind = "Swap"
      BY <1>4, SwapTurnFollows
    <2>2. db' = Swapped(d, e.pair) /\ UNCHANGED halted
      BY <2>1 DEF Handler
    <2> QED BY <1>4, <2>2, SwapTurnFollows, SumsKept
  <1>5. CASE TurnMinted(g, e, h)
    <2>1. e.kind = "Mint" /\ d.mints # <<>>
      BY <1>5, MintedTurnFollows
    <2>2. db' = MintCompleted(d, e.pair) /\ UNCHANGED halted
      BY <2>1 DEF Handler
    <2> QED BY <1>5, <2>2, MintedTurnFollows, SumsKept
  <1>6. CASE TurnBurned(g, e, h)
    <2>1. e.kind = "Burn"
      BY <1>6 DEF TurnBurned, BurnOf
    <2>2. HandleBurn(d, e)
      BY <2>1 DEF Handler
    <2> QED BY <1>6, <2>2, BurnedTurnFollows, SumsKept
  <1> QED BY <1>1, <1>2, <1>3, <1>4, <1>5, <1>6 DEF After

\* A transaction without rows.
LEMMA NoRowsFollow ==
  ASSUME NEW D, D.mints = <<>>, D.burns = <<>>, D.trades = <<>>
  PROVE  CallsFollow(D, Fresh, Between)
  <1>1. DOMAIN <<>> = {}
    BY EmptySeq, LenProperties
  <1>2. MintRows(<<>>) = <<>> /\ BurnRows(<<>>) = <<>>
    BY <1>1 DEF MintRows, BurnRows
  <1>3. MintRows(Done(D.mints)) = <<>> /\ BurnRows(Done(D.burns)) = <<>>
    BY <1>2, DoneOfNone
  <1>4. OpenMintFollows(D, Between)
    BY DEF OpenMintFollows, Between, HasOpenMint
  <1>5. OpenBurnFollows(D, Between)
    BY DEF OpenBurnFollows, Between
  <1>6. TidyFollows(D, Fresh, Between)
    BY <1>3, <1>4, <1>5 DEF TidyFollows, Fresh
  <1> QED BY <1>6 DEF CallsFollow, SentFollows, Fresh, Between

\* The first event of a transaction finds no rows.
LEMMA OpenedStored ==
  ASSUME NEW d \in Store
  PROVE  /\ Opened(d) \in Store /\ Opened(d).pair = d.pair /\ Opened(d).position = d.position
         /\ Opened(d).mints = <<>> /\ Opened(d).burns = <<>> /\ Opened(d).trades = <<>>
         /\ Opened(d).factoryUSD = d.factoryUSD /\ Opened(d).tradeLiquidity = d.tradeLiquidity
  <1> DEFINE D == Opened(d)
  <1>1. PICK a \in Seq(MintRow) : a = <<>>
    BY EmptySeq
  <1>2. PICK b \in Seq(BurnRow) : b = <<>>
    BY EmptySeq
  <1>3. PICK t \in Seq(Pairs) : t = <<>>
    BY EmptySeq
  <1>4. D = [d EXCEPT !.tx = FALSE, !.mints = a, !.burns = b, !.trades = t]
    BY <1>1, <1>2, <1>3 DEF Opened
  <1> HIDE DEF D
  <1>5. /\ D \in Store /\ D.pair = d.pair /\ D.position = d.position /\ D.mints = a
        /\ D.burns = b /\ D.trades = t /\ D.factoryUSD = d.factoryUSD
        /\ D.tradeLiquidity = d.tradeLiquidity
    BY <1>4 DEF Store
  <1> QED BY <1>1, <1>2, <1>3, <1>5 DEF D

LEMMA OpenedFollows ==
  ASSUME NEW d, NEW r, NEW g, Follows(d, r, g)
  PROVE  /\ Follows(Opened(d), Fresh, [g EXCEPT !.phase = Between])
         /\ ReservesKept(d, Opened(d))
  <1> DEFINE D == Opened(d)
             h == [g EXCEPT !.phase = Between]
  <1>1. d \in Store /\ g \in Ghost /\ RowsFollow(d, g)
    BY DEF Follows
  <1>2. /\ D \in Store /\ D.pair = d.pair /\ D.position = d.position /\ D.mints = <<>>
        /\ D.burns = <<>> /\ D.trades = <<>> /\ D.factoryUSD = d.factoryUSD
        /\ D.tradeLiquidity = d.tradeLiquidity
    BY <1>1, OpenedStored
  <1>3. Fresh \in Reports
    BY DEF Fresh, Reports
  <1>4. Between \in Phase
    BY DEF Between, Phase
  <1>5. h \in Ghost /\ h.known = g.known /\ h.total = g.total /\ h.phase = Between
    BY <1>1, <1>4 DEF Ghost
  <1> HIDE DEF D, h
  <1>6. RowsFollow(D, h)
    <2>1. \A q : Providers(D, q) = Providers(d, q)
      BY <1>2 DEF Providers
    <2> QED BY <1>1, <1>2, <1>5, <2>1 DEF RowsFollow
  <1>7. CallsFollow(D, Fresh, Between)
    BY <1>2, NoRowsFollow
  <1>8. ReservesKept(d, D)
    BY <1>2 DEF ReservesKept, PairsKept
  <1> QED BY <1>2, <1>3, <1>5, <1>6, <1>7, <1>8 DEF Follows, D, h

LEMMA MessageFollows ==
  ASSUME ChainInv, NEW g, NEW m \in Message, NEW h \in Ghost,
         Follows(db, reported, g), SumsFollow(db), Turn(g, m, h),
         Handler(IF m.first THEN Opened(db) ELSE db, m.event),
         reported' = Report(IF m.first THEN Fresh ELSE reported, m.event)
  PROVE  \/ Follows(db', reported', h) /\ SumsFollow(db') /\ UNCHANGED halted
         \/ ~ reported'.sent /\ ~ reported'.tidy /\ Throw
  <1>1. m.event \in Event /\ After(At(g, m), m.event, h)
    BY DEF Message, Turn
  <1>2. CASE m.first
    <2> DEFINE d == Opened(db)
               b == [g EXCEPT !.phase = Between]
    <2>1. Follows(d, Fresh, b) /\ SumsFollow(d)
      BY OpenedFollows, SumsKept
    <2>2. After(b, m.event, h) /\ Handler(d, m.event) /\ reported' = Report(Fresh, m.event)
      BY <1>1, <1>2 DEF At
    <2> HIDE DEF d, b
    <2> QED BY <1>1, <2>1, <2>2, HandlerFollows
  <1>3. CASE ~ m.first
    <2>1. /\ After(g, m.event, h) /\ Handler(db, m.event)
          /\ reported' = Report(reported, m.event)
      BY <1>1, <1>3 DEF At
    <2> QED BY <1>1, <2>1, HandlerFollows
  <1> QED BY <1>2, <1>3

\* The head of the chain stays where it is, and the handlers take one turn more.
LEMMA HandleKeeps == ASSUME AmmInv, Handle PROVE AmmInv'
  <1>1. ~ halted /\ pending = <<>> /\ queue # <<>> /\ queue' = Tail(queue) /\ UNCHANGED chain
    BY DEF Handle
  <1>2. ChainInv /\ Stopped /\ SumsFollow(db) /\ db \in Store
    BY DEF AmmInv
  <1>3. PICK g, k \in Ghost : Follows(db, reported, g) /\ Path(g, Unhandled, k) /\ Leads(k)
    BY <1>1 DEF AmmInv
  <1>4. queue \in Seq(Message) /\ Unhandled = queue
    BY <1>1, <1>2, DeliveredOfNone, ConcatEmptySeq DEF ChainInv, Unhandled
  <1>5. Head(queue) \in Message /\ Tail(queue) \in Seq(Message)
    BY <1>1, <1>4, HeadTailProperties
  <1>6. PICK h \in Ghost : Turn(g, Head(queue), h) /\ Path(h, Tail(queue), k)
    BY <1>1, <1>3, <1>4, PathBegun
  <1>7. \/ Follows(db', reported', h) /\ SumsFollow(db') /\ UNCHANGED halted
        \/ ~ reported'.sent /\ ~ reported'.tidy /\ Throw
    <2> DEFINE m == Head(queue)
    <2>1. /\ m \in Message /\ Turn(g, m, h)
          /\ Handler(IF m.first THEN Opened(db) ELSE db, m.event)
          /\ reported' = Report(IF m.first THEN Fresh ELSE reported, m.event)
      BY <1>5, <1>6 DEF Handle
    <2> HIDE DEF m
    <2> QED BY <1>2, <1>3, <2>1, MessageFollows
  <1>8. ChainInv'
    BY <1>1, <1>2, <1>5 DEF ChainInv, chain
  <1>9. Unhandled' = Tail(queue)
    BY <1>1, <1>5, DeliveredOfNone, ConcatEmptySeq DEF Unhandled, chain
  <1>10. Leads(k)'
    BY <1>1, <1>3 DEF Leads, SentLeads, Existing, LockedOf, chain
  <1>11. CASE Follows(db', reported', h) /\ SumsFollow(db') /\ UNCHANGED halted
    <2>1. db' \in Store
      BY <1>11 DEF Follows
    <2>2. Path(h, Unhandled', k)
      BY <1>6, <1>9
    <2> QED BY <1>1, <1>8, <1>10, <1>11, <2>1, <2>2 DEF AmmInv, Stopped
  <1>12. CASE ~ reported'.sent /\ ~ reported'.tidy /\ Throw
    <2>1. db' = db /\ halted'
      BY <1>12 DEF Throw
    <2>2. SumsFollow(db') /\ db' \in Store
      BY <1>2, <2>1
    <2>3. Path(h, Unhandled', k)
      BY <1>6, <1>9
    <2> QED BY <1>8, <1>10, <1>12, <2>1, <2>2, <2>3 DEF AmmInv, Stopped
  <1> QED BY <1>7, <1>11, <1>12

-----------------------------------------------------------------------------
(* The calls of a pair                                                      *)

LEMMA EventsTyped ==
  ASSUME NEW p \in Pairs
  PROVE  /\ [kind |-> "PairCreated", pair |-> p] \in Event
         /\ [kind |-> "Swap", pair |-> p] \in Event
         /\ \A x \in Int : SyncOf(p, x) \in Event
         /\ \A u \in Users, n \in Nat : MintOf(p, u, n) \in Event
         /\ \A u \in Users \union {None}, n \in Nat, fee \in Nat : BurnOf(p, u, n, fee) \in Event
         /\ \A a \in Addresses, b \in Addresses, n \in Nat, tidy \in BOOLEAN :
              TransferOf(p, a, b, n, tidy) \in Event
  <1>1. \A x \in Int : SyncOf(p, x) \in Event
    BY DEF Event, SyncOf
  <1>2. \A u \in Users, n \in Nat : MintOf(p, u, n) \in Event
    BY DEF Event, MintOf, MintCall
  <1>3. \A u \in Users \union {None}, n \in Nat, fee \in Nat : BurnOf(p, u, n, fee) \in Event
    BY DEF Event, BurnOf, BurnCall
  <1>4. \A a \in Addresses, b \in Addresses, n \in Nat, tidy \in BOOLEAN :
          TransferOf(p, a, b, n, tidy) \in Event
    BY DEF Event, TransferOf
  <1>5. /\ [kind |-> "PairCreated", pair |-> p] \in Event
        /\ [kind |-> "Swap", pair |-> p] \in Event
    BY DEF Event
  <1> QED BY <1>1, <1>2, <1>3, <1>4, <1>5

\* What is held of a pair.
AddedTo(f, a, x, h) == h = [f EXCEPT ![a] = f[a] + x]

LEMMA HeldFacts ==
  ASSUME NEW p \in Pairs, NEW f \in [Holders(p) -> Nat]
  PROVE  /\ IsFiniteSet(Holders(p)) /\ SumFunction(f) = SumFunctionOnSet(f, Holders(p))
         /\ SumFunction(f) \in Nat
  <1>1. IsFiniteSet(Holders(p))
    BY HoldersAssumption, FS_AddElement DEF Holders
  <1>2. SumFunction(f) = SumFunctionOnSet(f, Holders(p))
    BY DEF SumFunction
  <1> QED BY <1>1, <1>2, SumNotNegative

LEMMA HeldChanged ==
  ASSUME NEW p \in Pairs, NEW f \in [Holders(p) -> Nat], NEW a \in Holders(p), NEW x \in Int,
         f[a] + x \in Nat, NEW h, AddedTo(f, a, x, h)
  PROVE  h \in [Holders(p) -> Nat] /\ SumFunction(h) = SumFunction(f) + x
  <1>1. h \in [Holders(p) -> Nat] /\ h[a] = f[a] + x /\ \A y \in Holders(p) \ {a} : h[y] = f[y]
    BY DEF AddedTo
  <1> DEFINE S == Holders(p)
  <1>2. /\ IsFiniteSet(S) /\ SumFunction(f) = SumFunctionOnSet(f, S)
        /\ SumFunction(h) = SumFunctionOnSet(h, S)
        /\ SumFunction(f) \in Nat /\ f[a] \in Nat
    BY <1>1, HeldFacts
  <1>3. /\ \A y \in S : f[y] \in Int
        /\ a \in S /\ h[a] \in Int /\ \A y \in S \ {a} : h[y] = f[y]
    BY <1>1
  <1> HIDE DEF S
  <1>4. SumFunctionOnSet(h, S) = SumFunctionOnSet(f, S) - f[a] + h[a]
    BY <1>2, <1>3, SumChangedAtOne
  <1>5. SumFunction(h) = SumFunction(f) - f[a] + (f[a] + x)
    BY <1>1, <1>2, <1>4
  <1>6. SumFunction(h) = SumFunction(f) + x
    BY <1>2, <1>5
  <1> QED BY <1>1, <1>6

\* A call that changes what there is of one pair, and who has it.
Sets(p, s, b, i) ==
  /\ supply' = [supply EXCEPT ![p] = s] /\ balance' = [balance EXCEPT ![p] = b]
  /\ ignored' \in Ignored /\ ignored'.burns = [ignored.burns EXCEPT ![p] = i]
Backed(p, s, b) ==
  IF s = 0 THEN \A a \in Holders(p) : b[a] = 0 ELSE s >= Minimum + SumFunction(b)
ChainSet(p, s, i) ==
  /\ ChainInv' /\ supply'[p] = s /\ ignored'.burns[p] = i
  /\ \A q \in Pairs \ {p} : supply'[q] = supply[q] /\ ignored'.burns[q] = ignored.burns[q]

LEMMA ChainMoves ==
  ASSUME ChainInv, NEW p \in Pairs, NEW s \in Nat, NEW b \in [Holders(p) -> Nat], NEW i \in Nat,
         Sets(p, s, b, i), Backed(p, s, b), pending' \in Seq(Event), queue' \in Seq(Message)
  PROVE  ChainSet(p, s, i)
  <1> DEFINE B == UNION {[Holders(q) -> Nat] : q \in Pairs}
  <1>1. supply' \in [Pairs -> Nat \union {None}] /\ ignored' \in Ignored
    BY DEF Sets, ChainInv, Ignored
  <1>2. balance' \in [Pairs -> B]
    <2>1. b \in B /\ balance \in [Pairs -> B]
      BY DEF ChainInv
    <2> HIDE DEF B
    <2> QED BY <2>1 DEF Sets
  <1>3. /\ supply'[p] = s /\ balance'[p] = b /\ ignored'.burns[p] = i
        /\ \A q \in Pairs \ {p} : /\ supply'[q] = supply[q] /\ balance'[q] = balance[q]
                                  /\ ignored'.burns[q] = ignored.burns[q]
    BY DEF Sets, ChainInv, Ignored
  <1>4. s # None
    BY NoneAssumption
  <1>5. \A q \in Pairs :
          /\ balance'[q] \in [Holders(q) -> Nat]
          /\ supply'[q] = None => ignored'.burns[q] = 0
          /\ supply'[q] \in {None, 0} => \A a \in Holders(q) : balance'[q][a] = 0
          /\ supply'[q] \notin {None, 0} => supply'[q] >= Minimum + SumFunction(balance'[q])
    <2> TAKE q \in Pairs
    <2>1. CASE q = p
      BY <1>3, <1>4, <2>1 DEF Backed
    <2>2. CASE q # p
      BY <1>3, <2>2 DEF ChainInv
    <2> QED BY <2>1, <2>2
  <1>6. ChainInv'
    BY <1>1, <1>2, <1>5 DEF ChainInv, Holders
  <1> QED BY <1>3, <1>6 DEF ChainSet

\* Where the chain is after it.
LEMMA LeadsOn ==
  ASSUME ChainInv, NEW h \in Ghost, Leads(h), NEW p \in Pairs, NEW s \in Nat, NEW i \in Nat,
         ChainSet(p, s, i), NEW k \in Ghost, k.known = h.known \union {p},
         k.total[p] = s - (IF s = 0 THEN 0 ELSE Minimum) + i * Minimum,
         \A q \in Pairs \ {p} : k.total[q] = h.total[q],
         IsBetween(k.phase), SentLeads(k)'
  PROVE  Leads(k)'
  <1>1. s # None
    BY NoneAssumption
  <1>2. k.known = Existing'
    BY <1>1 DEF Leads, Existing, ChainSet
  <1>3. ASSUME NEW q \in Existing'
        PROVE  k.total[q] = supply'[q] - LockedOf(q)' + ignored'.burns[q] * Minimum
    <2>1. CASE q = p
      BY <2>1 DEF ChainSet, LockedOf
    <2>2. CASE q # p
      <3>1. /\ q \in Pairs /\ supply'[q] = supply[q] /\ ignored'.burns[q] = ignored.burns[q]
            /\ k.total[q] = h.total[q]
        BY <1>3, <2>2 DEF Existing, ChainSet
      <3>2. q \in Existing
        BY <1>3, <3>1 DEF Existing
      <3>3. h.total[q] = supply[q] - LockedOf(q) + ignored.burns[q] * Minimum
        BY <3>2 DEF Leads
      <3> QED BY <3>1, <3>3 DEF LockedOf
    <2> QED BY <2>1, <2>2
  <1> QED BY <1>2, <1>3 DEF Leads

\* The first event of a call comes after those of the transaction, or begins one.
Opening(h) == IF pending = <<>> THEN [h EXCEPT !.phase = Between] ELSE h

LEMMA OpeningFacts ==
  ASSUME NEW h \in Ghost, Leads(h)
  PROVE  /\ Opening(h) \in Ghost /\ Opening(h).known = Existing /\ Opening(h).total = h.total
         /\ IsBetween(Opening(h).phase)
         /\ pending # <<>> => Opening(h).phase = h.phase
  <1>1. CASE pending = <<>>
    <2>1. Opening(h) = [h EXCEPT !.phase = Between]
      BY <1>1 DEF Opening
    <2>2. Between \in Phase /\ IsBetween(Between)
      BY DEF Between, Phase, IsBetween
    <2> QED BY <1>1, <2>1, <2>2 DEF Ghost, Leads
  <1>2. CASE pending # <<>>
    BY <1>2 DEF Opening, Leads
  <1> QED BY <1>1, <1>2

LEMMA CallBegins ==
  ASSUME ChainInv, NEW g, NEW h \in Ghost, Path(g, Unhandled, h), NEW e \in Event,
         NEW k \in Ghost, After(Opening(h), e, k)
  PROVE  Path(g, queue \o Delivered(Append(pending, e)), k)
  BY EmittedFirst DEF Opening, Unhandled, ChainInv

\* Where the chain is afterwards, and how it came there.
Led(g, k) == Path(g, Unhandled', k) /\ Leads(k)'

\* A mint or a burn ends with the new reserve and what it did.
Ended(k) == [k EXCEPT !.phase = Between]

LEMMA EndedFacts ==
  ASSUME NEW k \in Ghost
  PROVE  /\ Ended(k) \in Ghost /\ Ended(k).known = k.known /\ Ended(k).total = k.total
         /\ IsBetween(Ended(k).phase)
  <1>1. Between \in Phase /\ IsBetween(Between)
    BY DEF Between, Phase, IsBetween
  <1> QED BY <1>1 DEF Ended, Ghost

LEMMA CallEnds ==
  ASSUME NEW q \in Seq(Message), NEW s \in Seq(Event), NEW e \in Event, NEW g, NEW k \in Ghost,
         Path(g, q \o Delivered(Append(s, e)), k), NEW p \in k.known, NEW x \in Int,
         NEW f \in Event, TurnMinted(k, f, Ended(k)) \/ TurnBurned(k, f, Ended(k))
  PROVE  Path(g, q \o Delivered(Append(Append(Append(s, e), SyncOf(p, x)), f)), Ended(k))
  <1> DEFINE c == SyncOf(p, x)
             t == Append(s, e)
  <1>1. c \in Event
    BY EventsTyped DEF Ghost
  <1>2. After(k, c, k)
    <2>1. k.phase.at # "fee"
      BY DEF TurnMinted, TurnBurned
    <2> QED BY <2>1 DEF After, TurnSync
  <1>3. After(k, f, Ended(k)) /\ Ended(k) \in Ghost
    BY EndedFacts DEF After
  <1>4. t \in Seq(Event)
    BY AppendProperties
  <1> HIDE DEF c
  <1>5. Path(g, q \o Delivered(Append(t, c)), k)
    BY <1>1, <1>2, EmittedNext
  <1> HIDE DEF t
  <1>6. Path(g, q \o Delivered(Append(Append(t, c), f)), Ended(k))
    BY <1>1, <1>3, <1>4, <1>5, EmittedNext
  <1> QED BY <1>6 DEF c, t

\* A call whose last event is no transfer sends nothing.
LEMMA NothingSent ==
  ASSUME NEW s \in Seq(Event), NEW e \in Event, pending' = Append(s, e), e.kind # "Transfer",
         NEW k
  PROVE  pending' \in Seq(Event) /\ SentLeads(k)'
  <1>1. pending' \in Seq(Event) /\ Last(pending') = e
    BY LastOfAppend
  <1> QED BY <1>1 DEF SentLeads

\* The factory makes a pair.
LEMMA CreateMoves ==
  ASSUME ChainInv, NEW p \in Pairs, CreatePair(p)
  PROVE  /\ ChainSet(p, 0, 0)
         /\ pending' = Append(pending, [kind |-> "PairCreated", pair |-> p])
  <1> DEFINE e == [kind |-> "PairCreated", pair |-> p]
  <1>1. /\ supply' = [supply EXCEPT ![p] = 0] /\ UNCHANGED <<balance, ignored, queue>>
        /\ pending' = pending \o <<e>> /\ supply[p] = None
    BY DEF CreatePair, Emit
  <1>2. e \in Event
    BY EventsTyped
  <1> HIDE DEF e
  <1>3. pending' = Append(pending, e) /\ pending' \in Seq(Event)
    BY <1>1, <1>2, Appending, LastOfAppend DEF ChainInv
  <1>4. PICK i \in Nat : i = 0
    OBVIOUS
  <1>5. /\ balance[p] \in [Holders(p) -> Nat] /\ ignored.burns[p] = 0
        /\ \A a \in Holders(p) : balance[p][a] = 0
    BY <1>1 DEF ChainInv
  <1>6. Sets(p, i, balance[p], i)
    BY <1>1, <1>4, <1>5 DEF Sets, ChainInv, Ignored
  <1>7. Backed(p, i, balance[p])
    BY <1>4, <1>5 DEF Backed
  <1>8. queue' \in Seq(Message)
    BY <1>1 DEF ChainInv
  <1>9. ChainSet(p, i, i)
    BY <1>3, <1>5, <1>6, <1>7, <1>8, ChainMoves
  <1> QED BY <1>3, <1>4, <1>9 DEF e

LEMMA CreateLeads ==
  ASSUME ChainInv, NEW p \in Pairs, CreatePair(p),
         NEW g, NEW h \in Ghost, Path(g, Unhandled, h), Leads(h)
  PROVE  \E k \in Ghost : Led(g, k)
  <1> DEFINE e == [kind |-> "PairCreated", pair |-> p]
  <1>1. ChainSet(p, 0, 0) /\ pending' = Append(pending, e) /\ queue' = queue
    BY CreateMoves DEF CreatePair, Emit
  <1>2. e \in Event /\ e.kind # "Transfer"
    BY EventsTyped
  <1>3. PICK H \in Ghost : /\ H = Opening(h) /\ H.known = Existing /\ H.total = h.total
                           /\ IsBetween(H.phase)
    BY OpeningFacts
  <1> DEFINE t == [H.total EXCEPT ![p] = 0]
             k == [H EXCEPT !.known = H.known \union {p}, !.total = t]
  <1>4. p \in Pairs \ H.known
    BY <1>3 DEF CreatePair, Existing
  <1>5. /\ t \in [Pairs -> Int] /\ t[p] = 0 /\ \A q \in Pairs \ {p} : t[q] = H.total[q]
    BY <1>3 DEF Ghost
  <1>6. k = [H EXCEPT !.known = @ \union {p}, !.total[p] = 0]
    BY <1>3 DEF Ghost
  <1> HIDE DEF t
  <1>7. /\ k \in Ghost /\ k.known = H.known \union {p} /\ k.total = t /\ k.phase = H.phase
    BY <1>3, <1>5 DEF Ghost
  <1>8. TurnCreate(H, e, k)
    BY <1>3, <1>4, <1>6 DEF TurnCreate
  <1> HIDE DEF k, e
  <1>9. Path(g, Unhandled', k)
    <2>1. After(H, e, k)
      BY <1>8 DEF After
    <2> QED BY <1>1, <1>2, <1>3, <1>7, <2>1, CallBegins DEF Unhandled
  <1>10. Leads(k)'
    <2>1. PICK i \in Nat : i = 0
      OBVIOUS
    <2>2. SentLeads(k)'
      BY <1>1, <1>2, NothingSent DEF ChainInv
    <2>3. ChainSet(p, i, i)
      BY <1>1, <2>1
    <2>4. k.known = h.known \union {p}
      BY <1>3, <1>7 DEF Leads
    <2>5. k.total[p] = i - (IF i = 0 THEN 0 ELSE Minimum) + i * Minimum
      BY <1>5, <1>7, <2>1 DEF Minimum
    <2>6. \A q \in Pairs \ {p} : k.total[q] = h.total[q]
      BY <1>3, <1>5, <1>7
    <2>7. IsBetween(k.phase)
      BY <1>3, <1>7
    <2> QED BY <1>7, <2>2, <2>3, <2>4, <2>5, <2>6, <2>7, LeadsOn
  <1> QED BY <1>7, <1>9, <1>10 DEF Led

\* A swap only reports.
LEMMA SwapMoves ==
  ASSUME ChainInv, NEW p \in Pairs, Swap(p)
  PROVE  /\ ChainSet(p, supply[p], ignored.burns[p]) /\ supply[p] \in Nat \ {0}
         /\ pending' = Append(Append(pending, SyncOf(p, supply[p])), [kind |-> "Swap", pair |-> p])
  <1> DEFINE e == [kind |-> "Swap", pair |-> p]
             c == SyncOf(p, supply[p])
             s == supply[p]
             i == ignored.burns[p]
  <1>1. /\ supply[p] \notin {None, 0} /\ UNCHANGED <<supply, balance, ignored, queue>>
        /\ pending' = pending \o <<c, e>>
    BY DEF Swap, Emit
  <1>2. s \in Nat \ {0} /\ i \in Nat /\ balance[p] \in [Holders(p) -> Nat]
    BY <1>1 DEF ChainInv, Ignored
  <1>3. c \in Event /\ e \in Event
    <2>1. s \in Int
      BY <1>2
    <2> QED BY <2>1, EventsTyped
  <1> HIDE DEF e, c
  <1>4. pending' = Append(Append(pending, c), e) /\ pending' \in Seq(Event)
    BY <1>1, <1>3, Appending, AppendProperties DEF ChainInv
  <1>5. Sets(p, s, balance[p], i)
    BY <1>1 DEF Sets, ChainInv, Ignored
  <1>6. Backed(p, s, balance[p])
    BY <1>1, <1>2 DEF Backed, ChainInv
  <1>7. queue' \in Seq(Message)
    BY <1>1 DEF ChainInv
  <1>8. ChainSet(p, s, i)
    BY <1>2, <1>4, <1>5, <1>6, <1>7, ChainMoves
  <1> QED BY <1>2, <1>4, <1>8 DEF c, e

LEMMA SwapLeads ==
  ASSUME ChainInv, NEW p \in Pairs, Swap(p),
         NEW g, NEW h \in Ghost, Path(g, Unhandled, h), Leads(h)
  PROVE  \E k \in Ghost : Led(g, k)
  <1> DEFINE e == [kind |-> "Swap", pair |-> p]
             c == SyncOf(p, supply[p])
             s == supply[p]
             i == ignored.burns[p]
  <1>1. /\ ChainSet(p, s, i) /\ s \in Nat \ {0} /\ i \in Nat
        /\ pending' = Append(Append(pending, c), e) /\ queue' = queue
    BY SwapMoves DEF Swap, Emit, ChainInv, Ignored
  <1>2. e \in Event /\ e.kind # "Transfer" /\ c \in Event
    <2>1. s \in Int
      BY <1>1
    <2> QED BY <2>1, EventsTyped
  <1>3. PICK H \in Ghost : /\ H = Opening(h) /\ H.known = Existing /\ H.total = h.total
                           /\ IsBetween(H.phase)
    BY OpeningFacts
  <1>4. p \in H.known
    BY <1>1, <1>3, NoneAssumption DEF Existing
  <1>5. After(H, c, H)
    <2>1. H.phase.at # "fee" /\ s \in Int
      BY <1>1, <1>3 DEF IsBetween
    <2> QED BY <1>4, <2>1 DEF After, TurnSync
  <1>6. After(H, e, H)
    BY <1>3, <1>4 DEF After, TurnSwap
  <1> HIDE DEF c, e
  <1>7. Path(g, Unhandled', H)
    <2>1. Path(g, queue \o Delivered(Append(pending, c)), H)
      BY <1>2, <1>3, <1>5, CallBegins
    <2>2. Path(g, queue \o Delivered(Append(Append(pending, c), e)), H)
      BY <1>2, <1>3, <1>6, <2>1, EmittedNext DEF ChainInv
    <2> QED BY <1>1, <2>2 DEF Unhandled
  <1>8. Leads(H)'
    <2>1. SentLeads(H)'
      <3> DEFINE t == Append(pending, c)
      <3>1. t \in Seq(Event) /\ pending' = Append(t, e)
        BY <1>1, <1>2, AppendProperties DEF ChainInv
      <3> HIDE DEF t
      <3> QED BY <1>2, <3>1, NothingSent
    <2>2. H.known = h.known \union {p}
      BY <1>3, <1>4 DEF Leads
    <2>3. H.total[p] = s - (IF s = 0 THEN 0 ELSE Minimum) + i * Minimum
      BY <1>1, <1>3, <1>4 DEF Leads, LockedOf
    <2> QED BY <1>1, <1>3, <2>1, <2>2, <2>3, LeadsOn
  <1> QED BY <1>3, <1>7, <1>8 DEF Led

\* The transaction ends: its events wait to be handled.
LEMMA EndKeeps ==
  ASSUME ChainInv, EndTransaction
  PROVE  /\ ChainInv' /\ Unhandled' = Unhandled
         /\ \A h \in Ghost : Leads(h) => Leads(h)'
  <1>1. /\ queue' = queue \o Delivered(pending) /\ pending' = <<>>
        /\ UNCHANGED <<supply, balance, ignored>>
    BY DEF EndTransaction
  <1>2. queue' \in Seq(Message)
    BY <1>1, DeliveredType, ConcatProperties DEF ChainInv
  <1>3. ChainInv'
    BY <1>1, <1>2, EmptySeq DEF ChainInv
  <1>4. Unhandled' = queue'
    BY <1>1, <1>2, DeliveredOfNone, ConcatEmptySeq DEF Unhandled
  <1>5. \A h \in Ghost : Leads(h) => Leads(h)'
    BY <1>1 DEF Leads, SentLeads, Existing, LockedOf
  <1> QED BY <1>1, <1>3, <1>4, <1>5 DEF Unhandled

\* A provider sends what it holds.
LEMMA SendMoves ==
  ASSUME ChainInv, NEW p \in Pairs, NEW u \in Users, NEW to \in Users \union {p, Zero},
         NEW n \in Sends, Send(p, u, to, n)
  PROVE  /\ ChainSet(p, supply[p], ignored.burns[p]) /\ supply[p] \in Nat \ {0}
         /\ TransferOf(p, u, to, n, TRUE) \in Event
         /\ pending' = Append(pending, TransferOf(p, u, to, n, TRUE)) /\ queue' = queue
  <1> DEFINE e == TransferOf(p, u, to, n, TRUE)
             f == balance[p]
             b == [a \in Holders(p) |-> IF a = u THEN f[a] - n
                                        ELSE IF a = to THEN f[a] + n ELSE f[a]]
             c == [f EXCEPT ![u] = f[u] + (-n)]
             s == supply[p]
             i == ignored.burns[p]
  <1>1. n \in Nat /\ n > 0
    BY AmmAssumption
  <1>2. e \in Event
    <2>1. u \in Addresses /\ to \in Addresses /\ TRUE \in BOOLEAN
      BY DEF Addresses
    <2> QED BY <1>1, <2>1, EventsTyped
  <1> HIDE DEF e
  <1>3. /\ u # to /\ n <= f[u] /\ supply' = supply
        /\ balance' = [balance EXCEPT ![p] = b]
        /\ pending' = pending \o <<e>> /\ queue' = queue
    BY DEF Send, Emit, ChainInv, e
  <1>4. f \in [Holders(p) -> Nat] /\ u \in Holders(p) /\ i \in Nat /\ ignored \in Ignored
    BY DEF ChainInv, Holders, Ignored
  <1>5. s \notin {None, 0} /\ s \in Nat /\ s >= Minimum + SumFunction(f)
    <2>1. f[u] # 0
      BY <1>1, <1>3, <1>4
    <2> QED BY <1>4, <2>1 DEF ChainInv
  <1>6. ignored' \in Ignored /\ ignored'.burns = [ignored.burns EXCEPT ![p] = i]
    <2>1. ignored' = [ignored EXCEPT !.sends = ignored.sends \union {<<p, u>>}]
          \/ ignored' = ignored
      BY <1>4 DEF Send, Ignored
    <2>2. ignored.burns = [ignored.burns EXCEPT ![p] = i]
      BY <1>4 DEF Ignored
    <2>3. ignored' \in Ignored /\ ignored'.burns = ignored.burns
      BY <1>4, <2>1 DEF Ignored
    <2> QED BY <2>2, <2>3
  <1> HIDE DEF f
  <1>7. c \in [Holders(p) -> Nat] /\ SumFunction(c) = SumFunction(f) + (-n)
    <2>1. AddedTo(f, u, -n, c) /\ -n \in Int /\ f[u] + (-n) \in Nat
      BY <1>1, <1>3, <1>4 DEF AddedTo
    <2> HIDE DEF c
    <2> QED BY <1>4, <2>1, HeldChanged
  <1>8. b \in [Holders(p) -> Nat] /\ SumFunction(b) <= SumFunction(f)
    <2>1. SumFunction(f) \in Nat
      BY <1>4, HeldFacts
    <2>2. CASE to \in Holders(p)
      <3>1. b = [c EXCEPT ![to] = c[to] + n]
        BY <1>1, <1>3, <1>4, <2>2
      <3> HIDE DEF b
      <3>2. AddedTo(c, to, n, b) /\ n \in Int /\ c[to] + n \in Nat
        BY <1>1, <1>7, <2>2, <3>1 DEF AddedTo
      <3> HIDE DEF c
      <3>3. b \in [Holders(p) -> Nat] /\ SumFunction(b) = SumFunction(c) + n
        BY <1>7, <2>2, <3>2, HeldChanged
      <3>4. SumFunction(b) = SumFunction(f) + (-n) + n
        BY <1>7, <3>3
      <3> QED BY <1>1, <2>1, <3>3, <3>4
    <2>3. CASE to \notin Holders(p)
      <3>1. b = c
        BY <1>1, <1>3, <1>4, <2>3
      <3> HIDE DEF b, c
      <3> QED BY <1>1, <1>7, <2>1, <3>1
    <2> QED BY <2>2, <2>3
  <1> HIDE DEF b, c
  <1>9. pending' = Append(pending, e) /\ pending' \in Seq(Event) /\ queue' \in Seq(Message)
    BY <1>2, <1>3, Appending, AppendProperties DEF ChainInv
  <1>10. Sets(p, s, b, i)
    BY <1>3, <1>6 DEF Sets, ChainInv
  <1>11. Backed(p, s, b)
    <2>1. SumFunction(b) \in Nat /\ SumFunction(f) \in Nat
      BY <1>4, <1>8, HeldFacts
    <2>2. s >= Minimum + SumFunction(b)
      BY <1>5, <1>8, <2>1 DEF Minimum
    <2> QED BY <1>5, <2>2 DEF Backed
  <1>12. ChainSet(p, s, i)
    BY <1>4, <1>5, <1>8, <1>9, <1>10, <1>11, ChainMoves
  <1> QED BY <1>2, <1>3, <1>5, <1>9, <1>12 DEF e

LEMMA SendLeads ==
  ASSUME ChainInv, NEW p \in Pairs, NEW u \in Users, NEW to \in Users \union {p, Zero},
         NEW n \in Sends, Send(p, u, to, n),
         NEW g, NEW h \in Ghost, Path(g, Unhandled, h), Leads(h)
  PROVE  \E k \in Ghost : Led(g, k)
  <1> DEFINE s == supply[p]
             i == ignored.burns[p]
             ph == IF to = p THEN PhaseAt("sent", p, u, n, 0) ELSE Between
  <1>1. PICK e \in Event : e = TransferOf(p, u, to, n, TRUE)
    BY SendMoves
  <1>2. /\ ChainSet(p, s, i) /\ s \in Nat \ {0} /\ i \in Nat
        /\ pending' = Append(pending, e) /\ queue' = queue
    BY <1>1, SendMoves DEF ChainInv, Ignored
  <1>3. PICK H \in Ghost : /\ H = Opening(h) /\ H.known = Existing /\ H.total = h.total
                           /\ IsBetween(H.phase)
    BY OpeningFacts
  <1>4. p \in H.known
    BY <1>2, <1>3, NoneAssumption DEF Existing
  <1>5. n \in Nat /\ u # Zero /\ u # p /\ Zero \notin Pairs /\ Users \intersect Pairs = {}
    BY AmmAssumption, HoldersAssumption
  <1>6. ph \in Phase /\ IsBetween(ph)
    <2>1. Between \in Phase /\ IsBetween(Between)
      BY DEF Between, Phase, IsBetween
    <2>2. PhaseAt("sent", p, u, n, 0) \in Phase /\ IsBetween(PhaseAt("sent", p, u, n, 0))
      BY <1>5 DEF PhaseAt, Phase, IsBetween
    <2> QED BY <2>1, <2>2
  <1>7. /\ e.kind = "Transfer" /\ e.pair = p /\ e.from = u /\ e.to = to /\ e.value = n
    BY <1>1 DEF TransferOf
  <1>8. PICK z \in Int : z = 0
    OBVIOUS
  <1>9. Shown(e) = z
    BY <1>5, <1>7, <1>8 DEF Shown
  <1> HIDE DEF ph
  <1>10. PICK k \in Ghost : k = Moved(H, e, ph) /\ k.phase = ph /\ AddedTotal(H, p, z, k)
    BY <1>6, <1>7, <1>9, MovedFacts
  <1>11. After(H, e, k)
    <2>1. CASE to = p
      <3>1. k = Moved(H, e, PhaseAt("sent", p, u, n, 0)) /\ e = TransferOf(p, u, p, n, TRUE)
        BY <1>1, <1>10, <2>1 DEF ph
      <3> QED BY <1>3, <1>4, <1>5, <3>1 DEF After, TurnSendToPair
    <2>2. CASE to # p
      <3>1. k = Moved(H, e, Between) /\ to \in Users \union {Zero}
        BY <1>10, <2>2 DEF ph
      <3> QED BY <1>1, <1>3, <1>4, <1>5, <3>1 DEF After, TurnSend
    <2> QED BY <2>1, <2>2
  <1>12. Path(g, Unhandled', k)
    <2>1. Path(g, queue \o Delivered(Append(pending, e)), k)
      BY <1>3, <1>11, CallBegins
    <2> QED BY <1>2, <2>1 DEF Unhandled
  <1>13. SentLeads(k)'
    <2>1. Last(pending') = e
      BY <1>2, LastOfAppend DEF ChainInv
    <2>2. \A q \in Pairs : e.to = q => q = p /\ to = p
      BY <1>5, <1>7
    <2>3. \A q \in Pairs :
            e.to = q => e.from \in Users /\ k.phase = PhaseAt("sent", q, e.from, e.value, 0)
      BY <1>7, <1>10, <2>2 DEF ph
    <2> QED BY <2>1, <2>3 DEF SentLeads
  <1>14. Leads(k)'
    <2>1. h.total[p] = s - (IF s = 0 THEN 0 ELSE Minimum) + i * Minimum
      BY <1>2, <1>3, <1>4 DEF Leads, LockedOf
    <2>2. /\ k.known = h.known \union {p} /\ h.total[p] \in Int
          /\ k.total[p] = h.total[p] + z /\ \A q \in Pairs \ {p} : k.total[q] = h.total[q]
      BY <1>3, <1>4, <1>10 DEF Leads, AddedTotal, Ghost
    <2>3. k.total[p] = s - (IF s = 0 THEN 0 ELSE Minimum) + i * Minimum
      BY <1>8, <2>1, <2>2
    <2> QED BY <1>2, <1>6, <1>10, <1>13, <2>2, <2>3, LeadsOn
  <1> QED BY <1>12, <1>14 DEF Led

\* The events of a mint: what the first one locks, or a fee, comes before.
BeforeMint(p, fee) ==
  IF supply[p] = 0 THEN Append(pending, TransferOf(p, Zero, Zero, Minimum, TRUE))
  ELSE IF fee = 0 THEN pending ELSE Append(pending, TransferOf(p, Zero, FeeTo, fee, FALSE))

LEMMA FeeFirst ==
  ASSUME NEW s \in Seq(Event), NEW a \in Event, NEW b \in Event, NEW c \in Event, NEW d \in Event
  PROVE  /\ s \o (<<>> \o <<b, c, d>>) = Append(Append(Append(s, b), c), d)
         /\ s \o (<<a>> \o <<b, c, d>>) = Append(Append(Append(Append(s, a), b), c), d)
  <1>1. <<>> \o <<b, c, d>> = <<b, c, d>>
    OBVIOUS
  <1>2. <<a>> \o <<b, c, d>> = <<a, b, c, d>>
    <2>1. <<a>> \in Seq(Event)
      OBVIOUS
    <2>2. <<a>> \o <<b, c, d>> = Append(Append(Append(<<a>>, b), c), d)
      BY <2>1, Appending
    <2>3. /\ <<a, b>> = Append(<<a>>, b) /\ <<a, b, c>> = Append(<<a, b>>, c)
          /\ <<a, b, c, d>> = Append(<<a, b, c>>, d)
      OBVIOUS
    <2> QED BY <2>2, <2>3
  <1>3. s \o <<b, c, d>> = Append(Append(Append(s, b), c), d)
    BY Appending
  <1>4. s \o <<a, b, c, d>> = Append(Append(Append(Append(s, a), b), c), d)
    BY Appending
  <1> QED BY <1>1, <1>2, <1>3, <1>4

LEMMA MintPends ==
  ASSUME ChainInv, NEW p \in Pairs, NEW u \in Users, NEW n \in Mints, NEW fee \in 0 .. 1,
         Mint(p, u, n, fee), NEW x \in Int, supply'[p] = x,
         NEW tidy \in BOOLEAN, tidy = (fee = 0)
  PROVE  /\ BeforeMint(p, fee) \in Seq(Event) /\ TransferOf(p, Zero, u, n, tidy) \in Event
         /\ SyncOf(p, x) \in Event /\ MintOf(p, u, n) \in Event
         /\ pending' = Append(Append(Append(BeforeMint(p, fee), TransferOf(p, Zero, u, n, tidy)),
                                     SyncOf(p, x)), MintOf(p, u, n))
         /\ pending' \in Seq(Event) /\ queue' = queue
  <1>1. n \in Nat /\ fee \in Nat /\ Minimum \in Nat
    BY AmmAssumption DEF Minimum
  <1>2. /\ Zero \in Addresses /\ u \in Addresses /\ FeeTo \in Addresses
        /\ TRUE \in BOOLEAN /\ FALSE \in BOOLEAN
    BY AmmAssumption DEF Addresses
  <1>3. /\ TransferOf(p, Zero, Zero, Minimum, TRUE) \in Event
        /\ TransferOf(p, Zero, FeeTo, fee, FALSE) \in Event
        /\ TransferOf(p, Zero, u, n, tidy) \in Event
        /\ SyncOf(p, x) \in Event /\ MintOf(p, u, n) \in Event
    BY <1>1, <1>2, EventsTyped
  <1> DEFINE lock == TransferOf(p, Zero, Zero, Minimum, TRUE)
             paid == TransferOf(p, Zero, FeeTo, fee, FALSE)
             b == TransferOf(p, Zero, u, n, tidy)
             c == SyncOf(p, x)
             d == MintOf(p, u, n)
             all == Append(Append(Append(BeforeMint(p, fee), b), c), d)
  <1>4. /\ lock \in Event /\ paid \in Event /\ b \in Event /\ c \in Event /\ d \in Event
        /\ pending \in Seq(Event)
    BY <1>3 DEF ChainInv
  <1>5. BeforeMint(p, fee) \in Seq(Event) /\ all \in Seq(Event)
    <2>1. BeforeMint(p, fee) \in Seq(Event)
      BY <1>3, AppendProperties DEF BeforeMint, ChainInv
    <2> DEFINE s == BeforeMint(p, fee)
    <2> HIDE DEF s, b, c, d
    <2>2. Append(Append(Append(s, b), c), d) \in Seq(Event)
      BY <1>3, <2>1, AppendProperties DEF s, b, c, d
    <2> QED BY <2>1, <2>2 DEF s
  <1>6. pending' = all
    <2>1. CASE supply[p] = 0
      <3>1. fee = 0 /\ tidy = TRUE
        BY <2>1 DEF Mint
      <3>2. pending' = pending \o <<lock, b, c, d>>
        BY <2>1, <3>1 DEF Mint, Emit
      <3> HIDE DEF lock, b, c, d
      <3>3. pending' = Append(Append(Append(Append(pending, lock), b), c), d)
        BY <1>4, <3>2, Appending
      <3> QED BY <2>1, <3>3 DEF BeforeMint, lock
    <2>2. CASE supply[p] # 0 /\ fee = 0
      <3>1. tidy = TRUE
        BY <2>2
      <3>2. pending' = pending \o (<<>> \o <<b, c, d>>)
        BY <2>2, <3>1 DEF Mint, Emit, FeeMinted
      <3> HIDE DEF b, c, d
      <3>3. pending' = Append(Append(Append(pending, b), c), d)
        BY <1>4, <3>2, FeeFirst
      <3> QED BY <2>2, <3>3 DEF BeforeMint
    <2>3. CASE supply[p] # 0 /\ fee # 0
      <3>1. tidy = FALSE
        BY <2>3
      <3>2. pending' = pending \o (<<paid>> \o <<b, c, d>>)
        BY <2>3, <3>1 DEF Mint, Emit, FeeMinted
      <3> HIDE DEF paid, b, c, d
      <3>3. pending' = Append(Append(Append(Append(pending, paid), b), c), d)
        BY <1>4, <3>2, FeeFirst
      <3> QED BY <2>3, <3>3 DEF BeforeMint, paid
    <2> QED BY <2>1, <2>2, <2>3
  <1>7. queue' = queue
    BY DEF Mint, Emit
  <1> QED BY <1>3, <1>5, <1>6, <1>7

\* What a mint adds to the supply.
AfterMint(p, n, fee) == IF supply[p] = 0 THEN Minimum + n ELSE supply[p] + fee + n

LEMMA MintMoves ==
  ASSUME ChainInv, NEW p \in Pairs, NEW u \in Users, NEW n \in Mints, NEW fee \in 0 .. 1,
         Mint(p, u, n, fee)
  PROVE  /\ ChainSet(p, AfterMint(p, n, fee), ignored.burns[p])
         /\ AfterMint(p, n, fee) \in Nat \ {0} /\ ignored.burns[p] \in Nat
         /\ supply[p] \in Nat /\ supply'[p] = AfterMint(p, n, fee)
  <1> DEFINE f == balance[p]
             i == ignored.burns[p]
  <1>1. n \in Nat /\ n > 0 /\ fee \in Nat /\ FeeTo \in Users
    BY AmmAssumption
  <1>2. f \in [Holders(p) -> Nat] /\ i \in Nat /\ ignored' = ignored
    BY DEF ChainInv, Ignored, Mint
  <1>3. supply[p] \in Nat
    BY DEF ChainInv, Mint
  <1>4. u \in Holders(p) /\ FeeTo \in Holders(p)
    BY <1>1 DEF Holders
  <1>5. PICK s \in Nat \ {0} : s = AfterMint(p, n, fee)
    BY <1>1, <1>3 DEF AfterMint, Minimum
  <1>6. supply' = [supply EXCEPT ![p] = s]
    BY <1>5 DEF Mint, AfterMint, ChainInv
  <1>7. supply'[p] = s
    BY <1>6 DEF ChainInv
  <1> DEFINE paid == IF supply[p] = 0 THEN 0 ELSE fee
             c == [f EXCEPT ![FeeTo] = f[FeeTo] + paid]
             b == [c EXCEPT ![u] = c[u] + n]
  <1>8. balance' = [balance EXCEPT ![p] = b]
    <2>1. CASE supply[p] = 0
      <3>1. balance' = [balance EXCEPT ![p] = [f EXCEPT ![u] = f[u] + n]]
        BY <2>1 DEF Mint
      <3>2. c = f
        BY <1>2, <1>4, <2>1
      <3> QED BY <3>1, <3>2
    <2>2. CASE supply[p] # 0
      <3>1. balance' = [WithFee(balance, p, fee) EXCEPT ![p][u] = @ + n]
        BY <2>2 DEF Mint
      <3>2. WithFee(balance, p, fee) = [balance EXCEPT ![p] = c]
        BY <2>2 DEF WithFee
      <3>3. [balance EXCEPT ![p] = c][p] = c
        BY DEF ChainInv
      <3> HIDE DEF c
      <3>4. balance' = [[balance EXCEPT ![p] = c] EXCEPT ![p] = b]
        BY <3>1, <3>2, <3>3
      <3> QED BY <3>4 DEF ChainInv
    <2> QED BY <2>1, <2>2
  <1>9. paid \in Nat /\ paid \in Int /\ n \in Int
    BY <1>1
  <1> HIDE DEF f, paid
  <1>10. c \in [Holders(p) -> Nat] /\ SumFunction(c) = SumFunction(f) + paid
    <2>1. AddedTo(f, FeeTo, paid, c) /\ f[FeeTo] + paid \in Nat
      BY <1>2, <1>4, <1>9 DEF AddedTo
    <2> HIDE DEF c
    <2> QED BY <1>2, <1>4, <1>9, <2>1, HeldChanged
  <1> HIDE DEF c
  <1>11. b \in [Holders(p) -> Nat] /\ SumFunction(b) = SumFunction(c) + n
    <2>1. AddedTo(c, u, n, b) /\ c[u] + n \in Nat
      BY <1>1, <1>4, <1>10 DEF AddedTo
    <2> HIDE DEF b
    <2> QED BY <1>4, <1>9, <1>10, <2>1, HeldChanged
  <1> HIDE DEF b
  <1>12. s >= Minimum + SumFunction(b)
    <2>1. SumFunction(f) \in Nat
      BY <1>2, HeldFacts
    <2>2. SumFunction(b) = SumFunction(f) + paid + n
      BY <1>10, <1>11
    <2>3. CASE supply[p] = 0
      <3>1. \A a \in Holders(p) : f[a] = 0
        BY <2>3 DEF ChainInv, f
      <3>2. SumFunction(f) = 0
        <4> DEFINE S == Holders(p)
        <4>1. IsFiniteSet(S) /\ SumFunction(f) = SumFunctionOnSet(f, S) /\ \A a \in S : f[a] = 0
          BY <1>2, <3>1, HeldFacts
        <4> HIDE DEF S
        <4> QED BY <4>1, SumOfZeros
      <3>3. paid = 0 /\ s = Minimum + n
        BY <1>5, <2>3 DEF paid, AfterMint
      <3> QED BY <1>1, <2>2, <3>2, <3>3 DEF Minimum
    <2>4. CASE supply[p] # 0
      <3>1. supply[p] >= Minimum + SumFunction(f)
        <4>1. supply[p] \notin {None, 0}
          BY <1>3, <2>4, NoneAssumption
        <4> QED BY <4>1 DEF ChainInv, f
      <3>2. paid = fee /\ s = supply[p] + fee + n
        BY <1>5, <2>4 DEF paid, AfterMint
      <3> QED BY <1>1, <1>3, <2>1, <2>2, <3>1, <3>2 DEF Minimum
    <2> QED BY <2>3, <2>4
  <1>13. Sets(p, s, b, i)
    <2>1. ignored \in Ignored /\ ignored.burns = [ignored.burns EXCEPT ![p] = i]
      BY DEF ChainInv, Ignored
    <2> QED BY <1>2, <1>6, <1>8, <2>1 DEF Sets
  <1>14. Backed(p, s, b)
    BY <1>5, <1>12 DEF Backed
  <1>15. pending' \in Seq(Event) /\ queue' \in Seq(Message)
    <2>1. PICK tidy \in BOOLEAN : tidy = (fee = 0)
      OBVIOUS
    <2>2. s \in Int
      BY <1>5
    <2>3. pending' \in Seq(Event) /\ queue' = queue
      BY <1>7, <2>1, <2>2, MintPends
    <2> QED BY <2>3 DEF ChainInv
  <1>16. ChainSet(p, s, i)
    BY <1>2, <1>5, <1>11, <1>13, <1>14, <1>15, ChainMoves
  <1> QED BY <1>2, <1>3, <1>5, <1>7, <1>16

\* A fee is sent before the mint or the burn that pays it.
LEMMA FeeBegins ==
  ASSUME ChainInv, NEW g, NEW h \in Ghost, Path(g, Unhandled, h), Leads(h),
         NEW H \in Ghost, H = Opening(h), NEW p \in H.known, NEW fee \in Nat, NEW tidy \in BOOLEAN,
         tidy => H.phase.at = "sent" /\ H.phase.pair = p
  PROVE  /\ TransferOf(p, Zero, FeeTo, fee, tidy) \in Event
         /\ \E k \in Ghost :
              /\ Path(g, queue
                           \o Delivered(Append(pending, TransferOf(p, Zero, FeeTo, fee, tidy))), k)
              /\ k.phase = PhaseAt("fee", p, H.phase.user, H.phase.amount, fee)
              /\ AddedTotal(H, p, fee, k)
  <1> DEFINE e == TransferOf(p, Zero, FeeTo, fee, tidy)
             ph == PhaseAt("fee", p, H.phase.user, H.phase.amount, fee)
  <1>1. p \in Pairs /\ FeeTo \in Users
    BY AmmAssumption DEF Ghost
  <1>2. e \in Event
    <2>1. Zero \in Addresses /\ FeeTo \in Addresses
      BY <1>1 DEF Addresses
    <2> QED BY <1>1, <2>1, EventsTyped
  <1>3. ph \in Phase
    BY <1>1 DEF Ghost, Phase, PhaseAt
  <1>4. Shown(e) = fee /\ e.pair = p
    BY <1>1, TransferOfMint
  <1>5. fee \in Int /\ IsBetween(H.phase)
    BY OpeningFacts
  <1> HIDE DEF ph
  <1>6. PICK k \in Ghost : k = Moved(H, e, ph) /\ k.phase = ph /\ AddedTotal(H, p, fee, k)
    <2> HIDE DEF e
    <2> QED BY <1>1, <1>3, <1>4, <1>5, MovedFacts
  <1>7. After(Opening(h), e, k)
    BY <1>5, <1>6 DEF After, TurnFee, ph
  <1> HIDE DEF e
  <1>8. Path(g, queue \o Delivered(Append(pending, e)), k)
    BY <1>2, <1>7, CallBegins
  <1> QED BY <1>2, <1>6, <1>8 DEF e, ph

\* The transfer of a mint, after what comes before it.
MintBegun(g, H, p, u, n, fee, tidy) ==
  \E k \in Ghost :
    /\ Path(g, queue \o Delivered(Append(BeforeMint(p, fee), TransferOf(p, Zero, u, n, tidy))), k)
    /\ k.phase = PhaseAt("minted", p, u, n, 0)
    /\ AddedTotal(H, p, fee + n, k)

LEMMA MintBegins ==
  ASSUME ChainInv, NEW g, NEW h \in Ghost, Path(g, Unhandled, h), Leads(h),
         NEW H \in Ghost, H = Opening(h), NEW p \in H.known, NEW u \in Users, NEW n \in Nat,
         NEW fee \in Nat, supply[p] = 0 => fee = 0,
         NEW tidy \in BOOLEAN, tidy = (fee = 0)
  PROVE  MintBegun(g, H, p, u, n, fee, tidy)
  <1> DEFINE e == TransferOf(p, Zero, u, n, tidy)
             ph == PhaseAt("minted", p, u, n, 0)
  <1>1. p \in Pairs /\ IsBetween(H.phase) /\ H.total \in [Pairs -> Int]
    BY OpeningFacts DEF Ghost
  <1>2. e \in Event
    <2>1. Zero \in Addresses /\ u \in Addresses
      BY DEF Addresses
    <2> QED BY <1>1, <2>1, EventsTyped
  <1>3. ph \in Phase
    BY <1>1 DEF Phase, PhaseAt
  <1>4. Shown(e) = n /\ e.pair = p
    BY <1>1, TransferOfMint
  <1>5. PICK z \in Nat : z = 0
    OBVIOUS
  <1> HIDE DEF ph
  <1>6. ASSUME NEW K \in Ghost, p \in K.known, NEW paid \in Nat, AddedTotal(H, p, paid, K),
               IsBetween(K.phase) \/ (K.phase.at = "fee" /\ ~ tidy)
        PROVE  \E k \in Ghost : After(K, e, k) /\ k.phase = ph /\ AddedTotal(H, p, paid + n, k)
    <2>1. PICK k \in Ghost : k = Moved(K, e, ph) /\ k.phase = ph /\ AddedTotal(K, p, n, k)
      <3> HIDE DEF e
      <3>1. n \in Int
        OBVIOUS
      <3> QED BY <1>1, <1>3, <1>4, <3>1, MovedFacts
    <2>2. After(K, e, k)
      BY <1>6, <2>1 DEF After, TurnMint, ph
    <2>3. AddedTotal(H, p, paid + n, k)
      BY <1>1, <1>6, <2>1 DEF AddedTotal
    <2> QED BY <2>1, <2>2, <2>3
  <1> HIDE DEF e
  <1>7. CASE supply[p] = 0
    <2> DEFINE lock == TransferOf(p, Zero, Zero, Minimum, TRUE)
    <2>1. lock \in Event
      <3>1. Zero \in Addresses /\ Minimum \in Nat /\ TRUE \in BOOLEAN
        BY DEF Addresses, Minimum
      <3> QED BY <1>1, <3>1, EventsTyped
    <2>2. After(Opening(h), lock, H)
      BY <1>1 DEF After, TurnLock
    <2> HIDE DEF lock
    <2>3. Path(g, queue \o Delivered(Append(pending, lock)), H)
      BY <2>1, <2>2, CallBegins
    <2>4. AddedTotal(H, p, z, H) /\ fee = z
      BY <1>1, <1>5, <1>7 DEF AddedTotal
    <2>5. PICK k \in Ghost : After(H, e, k) /\ k.phase = ph /\ AddedTotal(H, p, z + n, k)
      BY <1>1, <1>6, <2>4
    <2>6. Path(g, queue \o Delivered(Append(Append(pending, lock), e)), k)
      BY <1>2, <2>1, <2>3, <2>5, EmittedNext DEF ChainInv
    <2>7. BeforeMint(p, fee) = Append(pending, lock)
      BY <1>7 DEF BeforeMint, lock
    <2> QED BY <2>4, <2>5, <2>6, <2>7 DEF MintBegun, e, ph
  <1>8. CASE supply[p] # 0 /\ fee = 0
    <2>1. AddedTotal(H, p, z, H) /\ fee = z
      BY <1>1, <1>5, <1>8 DEF AddedTotal
    <2>2. PICK k \in Ghost : After(H, e, k) /\ k.phase = ph /\ AddedTotal(H, p, z + n, k)
      BY <1>1, <1>6, <2>1
    <2>3. Path(g, queue \o Delivered(Append(pending, e)), k)
      BY <1>2, <2>2, CallBegins
    <2>4. BeforeMint(p, fee) = pending
      BY <1>8 DEF BeforeMint
    <2> QED BY <2>1, <2>2, <2>3, <2>4 DEF MintBegun, e, ph
  <1>9. CASE supply[p] # 0 /\ fee # 0
    <2> DEFINE paid == TransferOf(p, Zero, FeeTo, fee, FALSE)
    <2>1. PICK no \in BOOLEAN : no = FALSE
      OBVIOUS
    <2>2. /\ TransferOf(p, Zero, FeeTo, fee, no) \in Event
          /\ \E k \in Ghost :
               /\ Path(g, queue
                            \o Delivered(Append(pending, TransferOf(p, Zero, FeeTo, fee, no))), k)
               /\ k.phase = PhaseAt("fee", p, H.phase.user, H.phase.amount, fee)
               /\ AddedTotal(H, p, fee, k)
      BY <2>1, FeeBegins
    <2>3. PICK K \in Ghost : /\ Path(g, queue \o Delivered(Append(pending, paid)), K)
                             /\ K.phase = PhaseAt("fee", p, H.phase.user, H.phase.amount, fee)
                             /\ AddedTotal(H, p, fee, K)
      BY <2>1, <2>2
    <2>4. paid \in Event
      BY <2>1, <2>2
    <2> HIDE DEF paid
    <2>5. p \in K.known /\ K.phase.at = "fee" /\ ~ tidy
      <3>1. ~ tidy
        BY <1>9
      <3>2. p \in K.known
        BY <2>3 DEF AddedTotal
      <3>3. K.phase.at = "fee"
        BY <2>3 DEF PhaseAt
      <3> QED BY <3>1, <3>2, <3>3
    <2>6. PICK k \in Ghost : After(K, e, k) /\ k.phase = ph /\ AddedTotal(H, p, fee + n, k)
      BY <1>6, <2>3, <2>5
    <2>7. Path(g, queue \o Delivered(Append(Append(pending, paid), e)), k)
      BY <1>2, <2>3, <2>4, <2>6, EmittedNext DEF ChainInv
    <2>8. BeforeMint(p, fee) = Append(pending, paid)
      BY <1>9 DEF BeforeMint, paid
    <2> QED BY <2>6, <2>7, <2>8 DEF MintBegun, e, ph
  <1> QED BY <1>7, <1>8, <1>9

LEMMA MintLeads ==
  ASSUME ChainInv, NEW p \in Pairs, NEW u \in Users, NEW n \in Mints, NEW fee \in 0 .. 1,
         Mint(p, u, n, fee),
         NEW g, NEW h \in Ghost, Path(g, Unhandled, h), Leads(h)
  PROVE  \E k \in Ghost : Led(g, k)
  <1>1. n \in Nat /\ fee \in Nat /\ (supply[p] = 0 => fee = 0)
    <2>1. n \in Nat /\ fee \in Nat
      BY AmmAssumption
    <2>2. supply[p] = 0 => fee = 0
      BY DEF Mint
    <2> QED BY <2>1, <2>2
  <1>2. PICK s \in Nat \ {0} : s = AfterMint(p, n, fee)
    BY MintMoves
  <1>3. PICK i \in Nat : i = ignored.burns[p]
    BY MintMoves
  <1>4. ChainSet(p, s, i) /\ supply'[p] = s /\ supply[p] \in Nat
    BY <1>2, <1>3, MintMoves
  <1>5. PICK tidy \in BOOLEAN : tidy = (fee = 0)
    OBVIOUS
  <1>6. PICK b \in Seq(Event) : b = BeforeMint(p, fee)
    <2>1. s \in Int
      OBVIOUS
    <2> QED BY <1>4, <1>5, <2>1, MintPends
  <1> DEFINE e == TransferOf(p, Zero, u, n, tidy)
             d == MintOf(p, u, n)
  <1>7. /\ e \in Event /\ d \in Event /\ queue' = queue
        /\ pending' = Append(Append(Append(b, e), SyncOf(p, s)), d)
        /\ Append(Append(b, e), SyncOf(p, s)) \in Seq(Event)
    <2>1. s \in Int
      OBVIOUS
    <2>2. /\ e \in Event /\ d \in Event /\ queue' = queue /\ SyncOf(p, s) \in Event
          /\ pending' = Append(Append(Append(b, e), SyncOf(p, s)), d)
      BY <1>4, <1>5, <1>6, <2>1, MintPends
    <2> HIDE DEF e, d
    <2> DEFINE c == SyncOf(p, s)
    <2>3. c \in Event
      BY <2>2
    <2> HIDE DEF c
    <2>4. Append(Append(b, e), c) \in Seq(Event)
      BY <2>2, <2>3, AppendProperties
    <2> QED BY <2>2, <2>4 DEF c
  <1>8. PICK H \in Ghost : /\ H = Opening(h) /\ H.known = Existing /\ H.total = h.total
                           /\ IsBetween(H.phase)
    BY OpeningFacts
  <1>9. p \in H.known
    BY <1>4, <1>8, NoneAssumption DEF Existing
  <1>10. PICK K \in Ghost : /\ Path(g, queue \o Delivered(Append(b, e)), K)
                            /\ K.phase = PhaseAt("minted", p, u, n, 0)
                            /\ AddedTotal(H, p, fee + n, K)
    <2>1. MintBegun(g, H, p, u, n, fee, tidy)
      BY <1>1, <1>5, <1>8, <1>9, MintBegins
    <2> QED BY <1>6, <2>1 DEF MintBegun
  <1>11. PICK k \in Ghost : k = Ended(K) /\ k.known = K.known /\ k.total = K.total
                            /\ IsBetween(k.phase)
    BY EndedFacts
  <1>12. p \in K.known
    BY <1>9, <1>10 DEF AddedTotal
  <1>13. TurnMinted(K, d, Ended(K))
    BY <1>10, <1>12 DEF TurnMinted, PhaseAt, Ended
  <1>14. d.kind # "Transfer"
    BY DEF MintOf
  <1> HIDE DEF e, d
  <1>15. Path(g, Unhandled', k)
    <2>1. s \in Int /\ queue \in Seq(Message)
      BY DEF ChainInv
    <2>2. Path(g, queue \o Delivered(Append(Append(Append(b, e), SyncOf(p, s)), d)), Ended(K))
      BY <1>7, <1>10, <1>12, <1>13, <2>1, CallEnds
    <2> QED BY <1>7, <1>11, <2>2 DEF Unhandled
  <1>16. SentLeads(k)'
    <2> DEFINE t == Append(Append(b, e), SyncOf(p, s))
    <2>1. t \in Seq(Event) /\ pending' = Append(t, d)
      BY <1>7
    <2> HIDE DEF t
    <2> QED BY <1>7, <1>14, <2>1, NothingSent
  <1>17. Leads(k)'
    <2>1. h.total[p] = supply[p] - LockedOf(p) + i * Minimum /\ h.total[p] \in Int
      BY <1>3, <1>8, <1>9 DEF Leads, Ghost
    <2>2. /\ k.known = h.known \union {p} /\ k.total[p] = h.total[p] + (fee + n)
          /\ \A q \in Pairs \ {p} : k.total[q] = h.total[q]
      BY <1>8, <1>9, <1>10, <1>11 DEF Leads, AddedTotal
    <2>3. k.total[p] = s - (IF s = 0 THEN 0 ELSE Minimum) + i * Minimum
      BY <1>1, <1>2, <1>4, <2>1, <2>2 DEF LockedOf, AfterMint, Minimum
    <2> QED BY <1>4, <1>11, <1>16, <2>2, <2>3, LeadsOn
  <1> QED BY <1>15, <1>17 DEF Led

\* The events of a burn.
IsTidy(p, n, fee) == SentJustNow(p, n) /\ (fee = 0 \/ n # Minimum)
BeforeBurn(p, fee, tidy) ==
  IF fee = 0 THEN pending ELSE Append(pending, TransferOf(p, Zero, FeeTo, fee, tidy))

Burns(p, fee, n, tidy, user) ==
  /\ n = balance[p][p] /\ tidy = IsTidy(p, n, fee)
  /\ user = IF tidy THEN Last(pending).from ELSE None
BurnSets(p, fee, n, tidy, user) ==
  /\ n > 0
  /\ ignored' = IF n = Minimum THEN [ignored EXCEPT !.burns[p] = @ + 1] ELSE ignored
  /\ supply' = [supply EXCEPT ![p] = @ + fee - n]
  /\ balance' = [WithFee(balance, p, fee) EXCEPT ![p][p] = 0]
  /\ pending' = pending \o (FeeMinted(p, fee, tidy)
                              \o <<TransferOf(p, p, Zero, n, tidy), SyncOf(p, supply'[p]),
                                   BurnOf(p, user, n, fee)>>)
  /\ queue' = queue

LEMMA BurnUnfold ==
  ASSUME NEW p, NEW fee, Burn(p, fee), NEW n, NEW tidy \in BOOLEAN, NEW user,
         Burns(p, fee, n, tidy, user)
  PROVE  BurnSets(p, fee, n, tidy, user)
  <1> USE DEF Burns, BurnSets
  <1>1. /\ n > 0 /\ queue' = queue
        /\ ignored' = IF n = Minimum THEN [ignored EXCEPT !.burns[p] = @ + 1] ELSE ignored
        /\ supply' = [supply EXCEPT ![p] = @ + fee - n]
        /\ balance' = [WithFee(balance, p, fee) EXCEPT ![p][p] = 0]
    BY DEF Burn, Emit
  <1>2. CASE tidy
    <2>1. tidy = TRUE /\ IsTidy(p, n, fee) = TRUE /\ user = Last(pending).from
      BY <1>2
    <2> QED BY <1>1, <2>1 DEF Burn, Emit, IsTidy
  <1>3. CASE ~ tidy
    <2>1. tidy = FALSE /\ IsTidy(p, n, fee) = FALSE /\ user = None
      BY <1>3
    <2> QED BY <1>1, <2>1 DEF Burn, Emit, IsTidy
  <1> QED BY <1>2, <1>3

LEMMA BurnPends ==
  ASSUME ChainInv, NEW p \in Pairs, NEW fee \in 0 .. 1, Burn(p, fee),
         NEW n \in Nat, NEW tidy \in BOOLEAN,
         NEW user \in Users \union {None}, Burns(p, fee, n, tidy, user),
         NEW x \in Int, supply'[p] = x
  PROVE  /\ BeforeBurn(p, fee, tidy) \in Seq(Event) /\ TransferOf(p, p, Zero, n, tidy) \in Event
         /\ SyncOf(p, x) \in Event /\ BurnOf(p, user, n, fee) \in Event
         /\ pending' = Append(Append(Append(BeforeBurn(p, fee, tidy),
                                            TransferOf(p, p, Zero, n, tidy)),
                                     SyncOf(p, x)), BurnOf(p, user, n, fee))
         /\ pending' \in Seq(Event) /\ queue' = queue
  <1>1. /\ Zero \in Addresses /\ p \in Addresses /\ FeeTo \in Addresses /\ fee \in Nat
    BY AmmAssumption DEF Addresses
  <1>2. /\ TransferOf(p, Zero, FeeTo, fee, tidy) \in Event
        /\ TransferOf(p, p, Zero, n, tidy) \in Event
        /\ SyncOf(p, x) \in Event /\ BurnOf(p, user, n, fee) \in Event
    BY <1>1, EventsTyped
  <1> DEFINE paid == TransferOf(p, Zero, FeeTo, fee, tidy)
             b == TransferOf(p, p, Zero, n, tidy)
             c == SyncOf(p, x)
             d == BurnOf(p, user, n, fee)
             s == BeforeBurn(p, fee, tidy)
  <1>3. paid \in Event /\ b \in Event /\ c \in Event /\ d \in Event /\ pending \in Seq(Event)
    BY <1>2 DEF ChainInv
  <1>4. pending' = pending \o (FeeMinted(p, fee, tidy) \o <<b, c, d>>) /\ queue' = queue
    BY BurnUnfold DEF BurnSets
  <1>5. FeeMinted(p, fee, tidy) = IF fee = 0 THEN <<>> ELSE <<paid>>
    BY DEF FeeMinted
  <1>6. s = IF fee = 0 THEN pending ELSE Append(pending, paid)
    BY DEF BeforeBurn
  <1> HIDE DEF paid, b, c, d, s
  <1>7. s \in Seq(Event)
    BY <1>3, <1>6, AppendProperties
  <1>8. Append(Append(Append(s, b), c), d) \in Seq(Event)
    BY <1>3, <1>7, AppendProperties
  <1>9. pending' = Append(Append(Append(s, b), c), d)
    BY <1>3, <1>4, <1>5, <1>6, FeeFirst
  <1> QED BY <1>2, <1>4, <1>7, <1>8, <1>9 DEF s, b, c, d

\* What a burn takes from the supply, and from what is held.
BurnedOf(n, i) == IF n = Minimum THEN i + 1 ELSE i

LEMMA BurnMoves ==
  ASSUME ChainInv, NEW p \in Pairs, NEW fee \in 0 .. 1, Burn(p, fee),
         NEW n \in Nat, NEW tidy \in BOOLEAN,
         NEW user \in Users \union {None}, Burns(p, fee, n, tidy, user)
  PROVE  /\ ChainSet(p, supply[p] + fee - n, BurnedOf(n, ignored.burns[p]))
         /\ supply[p] + fee - n \in Nat \ {0} /\ BurnedOf(n, ignored.burns[p]) \in Nat
         /\ supply[p] \in Nat \ {0} /\ ignored.burns[p] \in Nat
         /\ supply'[p] = supply[p] + fee - n
  <1> DEFINE f == balance[p]
             c == [f EXCEPT ![FeeTo] = f[FeeTo] + fee]
             b == [c EXCEPT ![p] = c[p] + (-n)]
  <1>1. /\ n > 0
        /\ ignored' = IF n = Minimum THEN [ignored EXCEPT !.burns[p] = @ + 1] ELSE ignored
        /\ supply' = [supply EXCEPT ![p] = @ + fee - n]
        /\ balance' = [WithFee(balance, p, fee) EXCEPT ![p][p] = 0]
        /\ queue' = queue
    <2>1. BurnSets(p, fee, n, tidy, user)
      BY BurnUnfold
    <2> QED BY <2>1 DEF BurnSets
  <1>2. fee \in Nat /\ fee \in Int /\ -n \in Int /\ FeeTo \in Users /\ FeeTo # p
    BY AmmAssumption, HoldersAssumption
  <1>3. f \in [Holders(p) -> Nat] /\ p \in Holders(p) /\ FeeTo \in Holders(p)
    BY <1>2 DEF ChainInv, Holders
  <1>4. /\ supply[p] \in Nat \ {0} /\ supply[p] # None /\ supply[p] >= Minimum + SumFunction(f)
        /\ ignored.burns[p] \in Nat
    <2>1. balance[p][p] # 0
      BY <1>1 DEF Burns
    <2> QED BY <1>3, <2>1 DEF ChainInv, Ignored
  <1>5. balance' = [balance EXCEPT ![p] = b]
    <2>1. WithFee(balance, p, fee) = [balance EXCEPT ![p] = c]
      BY DEF WithFee
    <2>2. [balance EXCEPT ![p] = c][p] = c
      BY DEF ChainInv
    <2>3. c[p] + (-n) = 0
      BY <1>2, <1>3 DEF Burns
    <2> HIDE DEF c
    <2>4. b = [c EXCEPT ![p] = 0]
      BY <2>3
    <2>5. balance' = [[balance EXCEPT ![p] = c] EXCEPT ![p] = b]
      BY <1>1, <2>1, <2>2, <2>4
    <2> QED BY <2>5 DEF ChainInv
  <1>6. c[p] = n
    BY <1>2, <1>3 DEF Burns
  <1> HIDE DEF f
  <1>7. c \in [Holders(p) -> Nat] /\ SumFunction(c) = SumFunction(f) + fee
    <2>1. AddedTo(f, FeeTo, fee, c) /\ f[FeeTo] + fee \in Nat
      BY <1>2, <1>3 DEF AddedTo
    <2> HIDE DEF c
    <2> QED BY <1>2, <1>3, <2>1, HeldChanged
  <1> HIDE DEF c
  <1>8. b \in [Holders(p) -> Nat] /\ SumFunction(b) = SumFunction(c) + (-n)
    <2>1. AddedTo(c, p, -n, b) /\ c[p] + (-n) \in Nat
      BY <1>2, <1>6 DEF AddedTo
    <2> HIDE DEF b
    <2> QED BY <1>2, <1>3, <1>7, <2>1, HeldChanged
  <1> HIDE DEF b
  <1>9. PICK s \in Int : s = supply[p] + fee - n
    BY <1>2, <1>4
  <1>10. s >= Minimum + SumFunction(b) /\ s \in Nat \ {0}
    <2>1. SumFunction(f) \in Nat /\ SumFunction(b) \in Nat
      BY <1>3, <1>8, HeldFacts
    <2>2. SumFunction(b) = SumFunction(f) + fee - n
      BY <1>2, <1>7, <1>8, <2>1
    <2> QED BY <1>2, <1>4, <1>9, <2>1, <2>2 DEF Minimum
  <1>11. PICK i \in Nat : i = BurnedOf(n, ignored.burns[p])
    BY <1>4 DEF BurnedOf
  <1>12. ignored' \in Ignored /\ ignored'.burns = [ignored.burns EXCEPT ![p] = i]
    <2> DEFINE new == [ignored.burns EXCEPT ![p] = i]
    <2>1. ignored \in Ignored /\ new \in [Pairs -> Nat]
      BY DEF ChainInv, Ignored
    <2>2. CASE n = Minimum
      <3>1. ignored' = [ignored EXCEPT !.burns = new]
        BY <1>1, <1>11, <2>1, <2>2 DEF BurnedOf, Ignored
      <3> HIDE DEF new
      <3> QED BY <2>1, <3>1 DEF Ignored, new
    <2>3. CASE n # Minimum
      <3>1. ignored' = ignored /\ new = ignored.burns
        BY <1>1, <1>11, <2>1, <2>3 DEF BurnedOf, Ignored
      <3> QED BY <2>1, <3>1
    <2> QED BY <2>2, <2>3
  <1>13. supply' = [supply EXCEPT ![p] = s] /\ supply'[p] = s
    BY <1>1, <1>9 DEF ChainInv
  <1>14. Sets(p, s, b, i)
    BY <1>5, <1>12, <1>13 DEF Sets
  <1>15. Backed(p, s, b)
    BY <1>10 DEF Backed
  <1>16. pending' \in Seq(Event) /\ queue' \in Seq(Message)
    BY <1>1, <1>13, BurnPends DEF ChainInv
  <1>17. ChainSet(p, s, i)
    BY <1>8, <1>10, <1>14, <1>15, <1>16, ChainMoves
  <1> QED BY <1>4, <1>9, <1>10, <1>11, <1>13, <1>17

\* The transfer of a burn, after the fee that it may pay.
BurnShown(n) == IF n = Minimum THEN 0 ELSE -n
BurnBegun(g, H, p, fee, n, tidy, user) ==
  \E k \in Ghost :
    /\ Path(g, queue \o Delivered(Append(BeforeBurn(p, fee, tidy),
                                         TransferOf(p, p, Zero, n, tidy))), k)
    /\ k.phase = PhaseAt("burned", p, user, n, fee)
    /\ AddedTotal(H, p, fee + BurnShown(n), k)

LEMMA BurnBegins ==
  ASSUME ChainInv, NEW g, NEW h \in Ghost, Path(g, Unhandled, h), Leads(h),
         NEW H \in Ghost, H = Opening(h), NEW p \in H.known, NEW fee \in Nat, NEW n \in Nat,
         NEW tidy \in BOOLEAN, NEW user \in Users \union {None}, Burns(p, fee, n, tidy, user)
  PROVE  BurnBegun(g, H, p, fee, n, tidy, user)
  <1> DEFINE e == TransferOf(p, p, Zero, n, tidy)
             ph == PhaseAt("burned", p, user, n, fee)
  <1>1. p \in Pairs /\ IsBetween(H.phase) /\ H.total \in [Pairs -> Int]
    BY OpeningFacts DEF Ghost
  <1>2. e \in Event
    <2>1. Zero \in Addresses /\ p \in Addresses
      BY <1>1 DEF Addresses
    <2> QED BY <1>1, <2>1, EventsTyped
  <1>3. ph \in Phase
    BY <1>1 DEF Phase, PhaseAt
  <1>4. PICK x \in Int : x = BurnShown(n)
    BY DEF BurnShown
  <1>5. Shown(e) = x /\ e.pair = p
    <2>1. /\ e.pair = p /\ e.from = p /\ e.to = Zero /\ e.value = n /\ p # Zero
      BY <1>1, AmmAssumption DEF TransferOf
    <2> HIDE DEF e
    <2> QED BY <1>4, <2>1 DEF Shown, IsIgnored, BurnShown
  <1>6. ASSUME tidy
        PROVE  H.phase = PhaseAt("sent", p, user, n, 0) /\ (fee = 0 \/ n # Minimum)
    <2>1. SentJustNow(p, n) /\ (fee = 0 \/ n # Minimum) /\ user = Last(pending).from
      BY <1>6 DEF Burns, IsTidy
    <2> DEFINE m == Last(pending)
    <2>2. pending # <<>> /\ m.kind = "Transfer" /\ m.to = p /\ m.value = n
      BY <2>1 DEF SentJustNow
    <2>3. h.phase = PhaseAt("sent", p, m.from, m.value, 0)
      BY <1>1, <2>2 DEF Leads, SentLeads
    <2>4. H.phase = h.phase
      BY <2>2, OpeningFacts
    <2> QED BY <2>1, <2>2, <2>3, <2>4
  <1>7. ~ tidy => user = None
    BY DEF Burns
  <1> HIDE DEF ph
  <1>8. ASSUME NEW K \in Ghost, p \in K.known, NEW paid \in Nat, AddedTotal(H, p, paid, K),
               K.phase.at \in {"between", "sent", "fee"},
               fee = IF K.phase.at = "fee" THEN K.phase.fee ELSE 0,
               tidy => /\ K.phase.at \in {"sent", "fee"} /\ K.phase.pair = p
                       /\ K.phase.amount = n /\ K.phase.user = user
                       /\ K.phase.at = "fee" => n # Minimum
        PROVE  \E k \in Ghost : After(K, e, k) /\ k.phase = ph /\ AddedTotal(H, p, paid + x, k)
    <2>1. PICK k \in Ghost : k = Moved(K, e, ph) /\ k.phase = ph /\ AddedTotal(K, p, x, k)
      <3> HIDE DEF e
      <3> QED BY <1>1, <1>3, <1>5, MovedFacts
    <2>2. ph = PhaseAt("burned", p, IF tidy THEN K.phase.user ELSE None, n,
                       IF K.phase.at = "fee" THEN K.phase.fee ELSE 0)
      <3>1. user = IF tidy THEN K.phase.user ELSE None
        BY <1>7, <1>8
      <3> QED BY <1>8, <3>1 DEF ph
    <2>3. TurnBurn(K, e, k)
      BY <1>8, <2>1, <2>2 DEF TurnBurn
    <2>4. After(K, e, k)
      BY <2>3 DEF After
    <2>5. AddedTotal(H, p, paid + x, k)
      BY <1>1, <1>8, <2>1 DEF AddedTotal
    <2> QED BY <2>1, <2>4, <2>5
  <1> HIDE DEF e
  <1>9. CASE fee = 0
    <2>1. PICK z \in Nat : z = 0
      OBVIOUS
    <2>2. AddedTotal(H, p, z, H)
      BY <1>1, <2>1 DEF AddedTotal
    <2>3. H.phase.at \in {"between", "sent"}
      BY <1>1 DEF IsBetween
    <2>4. tidy => /\ H.phase.at = "sent" /\ H.phase.pair = p
                  /\ H.phase.amount = n /\ H.phase.user = user
      BY <1>6 DEF PhaseAt
    <2>5. PICK k \in Ghost : After(H, e, k) /\ k.phase = ph /\ AddedTotal(H, p, z + x, k)
      BY <1>8, <1>9, <2>2, <2>3, <2>4
    <2>6. Path(g, queue \o Delivered(Append(pending, e)), k)
      BY <1>2, <2>5, CallBegins
    <2>7. BeforeBurn(p, fee, tidy) = pending
      BY <1>9 DEF BeforeBurn
    <2> QED BY <1>4, <1>9, <2>1, <2>5, <2>6, <2>7 DEF BurnBegun, e, ph
  <1>10. CASE fee # 0
    <2> DEFINE paid == TransferOf(p, Zero, FeeTo, fee, tidy)
    <2>1. tidy => H.phase.at = "sent" /\ H.phase.pair = p
      BY <1>6 DEF PhaseAt
    <2>2. /\ paid \in Event
          /\ \E k \in Ghost :
               /\ Path(g, queue
                            \o Delivered(Append(pending, TransferOf(p, Zero, FeeTo, fee, tidy))), k)
               /\ k.phase = PhaseAt("fee", p, H.phase.user, H.phase.amount, fee)
               /\ AddedTotal(H, p, fee, k)
      BY <2>1, FeeBegins
    <2>3. PICK K \in Ghost : /\ Path(g, queue \o Delivered(Append(pending, paid)), K)
                             /\ K.phase = PhaseAt("fee", p, H.phase.user, H.phase.amount, fee)
                             /\ AddedTotal(H, p, fee, K)
      BY <2>2
    <2> HIDE DEF paid
    <2>4. p \in K.known
      BY <2>3 DEF AddedTotal
    <2>5. /\ K.phase.at = "fee" /\ K.phase.pair = p /\ K.phase.fee = fee
          /\ K.phase.user = H.phase.user /\ K.phase.amount = H.phase.amount
      BY <2>3 DEF PhaseAt
    <2>6. tidy => K.phase.amount = n /\ K.phase.user = user /\ n # Minimum
      BY <1>6, <1>10, <2>5 DEF PhaseAt
    <2>7. PICK k \in Ghost : After(K, e, k) /\ k.phase = ph /\ AddedTotal(H, p, fee + x, k)
      BY <1>8, <2>3, <2>4, <2>5, <2>6
    <2>8. Path(g, queue \o Delivered(Append(Append(pending, paid), e)), k)
      BY <1>2, <2>2, <2>3, <2>7, EmittedNext DEF ChainInv
    <2>9. BeforeBurn(p, fee, tidy) = Append(pending, paid)
      BY <1>10 DEF BeforeBurn, paid
    <2> QED BY <1>4, <2>7, <2>8, <2>9 DEF BurnBegun, e, ph
  <1> QED BY <1>9, <1>10

LEMMA BurnLeads ==
  ASSUME ChainInv, NEW p \in Pairs, NEW fee \in 0 .. 1, Burn(p, fee),
         NEW n \in Nat, NEW tidy \in BOOLEAN, NEW user \in Users \union {None},
         Burns(p, fee, n, tidy, user),
         NEW g, NEW h \in Ghost, Path(g, Unhandled, h), Leads(h)
  PROVE  \E k \in Ghost : Led(g, k)
  <1>1. fee \in Nat
    OBVIOUS
  <1>2. PICK s \in Nat \ {0} : s = supply[p] + fee - n
    BY BurnMoves
  <1>3. PICK i \in Nat : i = BurnedOf(n, ignored.burns[p])
    BY BurnMoves
  <1>4. ChainSet(p, s, i) /\ supply'[p] = s /\ supply[p] \in Nat \ {0} /\ ignored.burns[p] \in Nat
    BY <1>2, <1>3, BurnMoves
  <1>5. PICK b \in Seq(Event) : b = BeforeBurn(p, fee, tidy)
    <2>1. s \in Int
      OBVIOUS
    <2> QED BY <1>4, <2>1, BurnPends
  <1> DEFINE e == TransferOf(p, p, Zero, n, tidy)
             d == BurnOf(p, user, n, fee)
  <1>6. /\ e \in Event /\ d \in Event /\ queue' = queue
        /\ pending' = Append(Append(Append(b, e), SyncOf(p, s)), d)
        /\ Append(Append(b, e), SyncOf(p, s)) \in Seq(Event)
    <2>1. s \in Int
      OBVIOUS
    <2>2. /\ e \in Event /\ d \in Event /\ queue' = queue /\ SyncOf(p, s) \in Event
          /\ pending' = Append(Append(Append(b, e), SyncOf(p, s)), d)
      BY <1>4, <1>5, <2>1, BurnPends
    <2> HIDE DEF e, d
    <2> DEFINE c == SyncOf(p, s)
    <2>3. c \in Event
      BY <2>2
    <2> HIDE DEF c
    <2>4. Append(Append(b, e), c) \in Seq(Event)
      BY <2>2, <2>3, AppendProperties
    <2> QED BY <2>2, <2>4 DEF c
  <1>7. PICK H \in Ghost : /\ H = Opening(h) /\ H.known = Existing /\ H.total = h.total
                           /\ IsBetween(H.phase)
    BY OpeningFacts
  <1>8. p \in H.known
    BY <1>4, <1>7, NoneAssumption DEF Existing
  <1>9. PICK K \in Ghost : /\ Path(g, queue \o Delivered(Append(b, e)), K)
                           /\ K.phase = PhaseAt("burned", p, user, n, fee)
                           /\ AddedTotal(H, p, fee + BurnShown(n), K)
    <2>1. BurnBegun(g, H, p, fee, n, tidy, user)
      BY <1>1, <1>7, <1>8, BurnBegins
    <2> QED BY <1>5, <2>1 DEF BurnBegun
  <1>10. PICK k \in Ghost : k = Ended(K) /\ k.known = K.known /\ k.total = K.total
                            /\ IsBetween(k.phase)
    BY EndedFacts
  <1>11. p \in K.known
    BY <1>8, <1>9 DEF AddedTotal
  <1>12. TurnBurned(K, d, Ended(K))
    BY <1>9, <1>11 DEF TurnBurned, PhaseAt, Ended
  <1>13. d.kind # "Transfer"
    BY DEF BurnOf
  <1> HIDE DEF e, d
  <1>14. Path(g, Unhandled', k)
    <2>1. s \in Int /\ queue \in Seq(Message)
      BY DEF ChainInv
    <2>2. Path(g, queue \o Delivered(Append(Append(Append(b, e), SyncOf(p, s)), d)), Ended(K))
      BY <1>6, <1>9, <1>11, <1>12, <2>1, CallEnds
    <2> QED BY <1>6, <1>10, <2>2 DEF Unhandled
  <1>15. SentLeads(k)'
    <2> DEFINE t == Append(Append(b, e), SyncOf(p, s))
    <2>1. t \in Seq(Event) /\ pending' = Append(t, d)
      BY <1>6
    <2> HIDE DEF t
    <2> QED BY <1>6, <1>13, <2>1, NothingSent
  <1>16. Leads(k)'
    <2>1. /\ h.total[p] = supply[p] - Minimum + ignored.burns[p] * Minimum
          /\ h.total[p] \in Int
      BY <1>4, <1>7, <1>8 DEF Leads, Ghost, LockedOf
    <2>2. /\ k.known = h.known \union {p} /\ k.total[p] = h.total[p] + (fee + BurnShown(n))
          /\ \A q \in Pairs \ {p} : k.total[q] = h.total[q]
      BY <1>7, <1>8, <1>9, <1>10 DEF Leads, AddedTotal
    <2>3. k.total[p] = s - (IF s = 0 THEN 0 ELSE Minimum) + i * Minimum
      <3>1. PICK a \in Int, c \in Int, x \in Int :
              a = supply[p] /\ c = ignored.burns[p] /\ x = BurnShown(n)
        BY <1>4 DEF BurnShown
      <3>2. k.total[p] = a - 1 + c + fee + x
        BY <1>1, <2>1, <2>2, <3>1 DEF Minimum
      <3>3. s = a + fee - n /\ s # 0
        BY <1>2, <3>1
      <3>4. i = IF n = 1 THEN c + 1 ELSE c
        BY <1>3, <3>1 DEF BurnedOf, Minimum
      <3>5. x = IF n = 1 THEN 0 ELSE -n
        BY <3>1 DEF BurnShown, Minimum
      <3>6. k.total[p] = s - 1 + i
        BY <1>1, <3>2, <3>3, <3>4, <3>5
      <3> QED BY <3>3, <3>6 DEF Minimum
    <2> QED BY <1>4, <1>10, <1>15, <2>2, <2>3, LeadsOn
  <1> QED BY <1>14, <1>16 DEF Led

-----------------------------------------------------------------------------
(* The inductive invariant                                                  *)

\* A burn knows its sender when it is tidy.
LEMMA BurnNamed ==
  ASSUME ChainInv, NEW p \in Pairs, NEW fee \in 0 .. 1, NEW h \in Ghost, Leads(h)
  PROVE  \E n \in Nat, tidy \in BOOLEAN, user \in Users \union {None} :
           Burns(p, fee, n, tidy, user)
  <1>1. PICK n \in Nat : n = balance[p][p]
    BY DEF ChainInv, Holders
  <1>2. PICK tidy \in BOOLEAN : tidy = IsTidy(p, n, fee)
    BY DEF IsTidy
  <1>3. PICK user \in Users \union {None} : user = IF tidy THEN Last(pending).from ELSE None
    <2>1. ASSUME tidy PROVE Last(pending).from \in Users
      <3> DEFINE e == Last(pending)
      <3>1. pending # <<>> /\ e.kind = "Transfer" /\ e.to = p
        BY <1>2, <2>1 DEF IsTidy, SentJustNow
      <3> QED BY <3>1 DEF Leads, SentLeads
    <2> QED BY <2>1
  <1> QED BY <1>1, <1>2, <1>3 DEF Burns

\* A call moves the head of the chain, and nothing of the indexer.
LEMMA ChainKeeps == ASSUME AmmInv, Chain PROVE AmmInv'
  <1>1. ChainInv /\ Stopped /\ SumsFollow(db) /\ db \in Store
    BY DEF AmmInv
  <1>2. PICK g, h \in Ghost : /\ halted \/ Follows(db, reported, g)
                              /\ Path(g, Unhandled, h) /\ Leads(h)
    BY DEF AmmInv
  <1>3. UNCHANGED <<db, halted, reported>> /\ ChainInv' /\ \E k \in Ghost : Led(g, k)
    <2>1. CASE EndTransaction
      <3>1. ChainInv' /\ Led(g, h)
        BY <1>1, <1>2, <2>1, EndKeeps DEF Led
      <3> QED BY <2>1, <3>1 DEF EndTransaction
    <2>2. ASSUME NEW p \in Pairs, CreatePair(p)
          PROVE  UNCHANGED <<db, halted, reported>> /\ ChainInv' /\ \E k \in Ghost : Led(g, k)
      <3>1. UNCHANGED <<db, halted, reported>>
        BY <2>2 DEF CreatePair, Emit
      <3>2. ChainInv'
        BY <1>1, <2>2, CreateMoves DEF ChainSet
      <3> QED BY <1>1, <1>2, <2>2, <3>1, <3>2, CreateLeads
    <2>3. ASSUME NEW p \in Pairs, NEW u \in Users, NEW n \in Mints, NEW fee \in 0 .. 1,
                 Mint(p, u, n, fee)
          PROVE  UNCHANGED <<db, halted, reported>> /\ ChainInv' /\ \E k \in Ghost : Led(g, k)
      <3>1. UNCHANGED <<db, halted, reported>>
        BY <2>3 DEF Mint, Emit
      <3>2. ChainInv'
        BY <1>1, <2>3, MintMoves DEF ChainSet
      <3> QED BY <1>1, <1>2, <2>3, <3>1, <3>2, MintLeads
    <2>4. ASSUME NEW p \in Pairs, NEW u \in Users, NEW to \in Users \union {p, Zero},
                 NEW n \in Sends, Send(p, u, to, n)
          PROVE  UNCHANGED <<db, halted, reported>> /\ ChainInv' /\ \E k \in Ghost : Led(g, k)
      <3>1. UNCHANGED <<db, halted, reported>>
        BY <2>4 DEF Send, Emit
      <3>2. ChainInv'
        BY <1>1, <2>4, SendMoves DEF ChainSet
      <3> QED BY <1>1, <1>2, <2>4, <3>1, <3>2, SendLeads
    <2>5. ASSUME NEW p \in Pairs, NEW fee \in 0 .. 1, Burn(p, fee)
          PROVE  UNCHANGED <<db, halted, reported>> /\ ChainInv' /\ \E k \in Ghost : Led(g, k)
      <3>1. UNCHANGED <<db, halted, reported>>
        BY <2>5 DEF Burn, Emit
      <3>5. PICK n \in Nat, tidy \in BOOLEAN, user \in Users \union {None} :
              Burns(p, fee, n, tidy, user)
        BY <1>1, <1>2, BurnNamed
      <3>6. ChainInv'
        BY <1>1, <2>5, <3>5, BurnMoves DEF ChainSet
      <3> QED BY <1>1, <1>2, <2>5, <3>1, <3>5, <3>6, BurnLeads
    <2>6. ASSUME NEW p \in Pairs, Swap(p)
          PROVE  UNCHANGED <<db, halted, reported>> /\ ChainInv' /\ \E k \in Ghost : Led(g, k)
      <3>1. UNCHANGED <<db, halted, reported>>
        BY <2>6 DEF Swap, Emit
      <3>2. ChainInv'
        BY <1>1, <2>6, SwapMoves DEF ChainSet
      <3> QED BY <1>1, <1>2, <2>6, <3>1, <3>2, SwapLeads
    <2> QED BY <2>1, <2>2, <2>3, <2>4, <2>5, <2>6 DEF Chain
  <1>4. PICK k \in Ghost : Path(g, Unhandled', k) /\ Leads(k)'
    BY <1>3 DEF Led
  <1>5. Stopped' /\ SumsFollow(db') /\ db' \in Store
    BY <1>1, <1>3 DEF Stopped
  <1>6. halted' \/ Follows(db', reported', g)
    BY <1>2, <1>3
  <1> QED BY <1>3, <1>4, <1>5, <1>6 DEF AmmInv

\* At the start nothing has happened.
LEMMA InitHolds == Init => AmmInv
  <1> SUFFICES ASSUME Init PROVE AmmInv
    OBVIOUS
  <1>1. Between \in Phase /\ IsBetween(Between)
    BY DEF Between, Phase, IsBetween
  <1>2. PICK g \in Ghost : g.known = {} /\ g.phase = Between
    <2> DEFINE g == [known |-> {}, total |-> [p \in Pairs |-> 0], phase |-> Between]
    <2>1. g \in Ghost /\ g.known = {} /\ g.phase = Between
      BY <1>1 DEF Ghost
    <2> QED BY <2>1
  <1>3. /\ \A p \in Pairs : db.pair[p] = None /\ \A u \in Users : db.position[p][u] = None
        /\ db.factoryUSD = 0 /\ \A t \in Tokens : db.tradeLiquidity[t] = 0
        /\ db.mints = <<>> /\ db.burns = <<>> /\ db.trades = <<>>
    BY DEF Init
  <1>4. db \in Store
    <2>1. PICK a \in Seq(MintRow) : a = <<>>
      BY EmptySeq
    <2>2. PICK b \in Seq(BurnRow) : b = <<>>
      BY EmptySeq
    <2>3. PICK t \in Seq(Pairs) : t = <<>>
      BY EmptySeq
    <2>4. db = [pair |-> [p \in Pairs |-> None],
                position |-> [p \in Pairs |-> [u \in Users |-> None]],
                factoryUSD |-> 0, tradeLiquidity |-> [x \in Tokens |-> 0],
                tx |-> FALSE, mints |-> a, burns |-> b, trades |-> t]
      BY <2>1, <2>2, <2>3 DEF Init
    <2> QED BY <2>4 DEF Store
  <1>5. reported = Fresh /\ Fresh \in Reports /\ ~ halted
    BY DEF Init, Fresh, Reports
  <1>6. RowsFollow(db, g)
    <2>1. \A p \in Pairs : Providers(db, p) = {}
      BY <1>3 DEF Providers
    <2> QED BY <1>2, <1>3, <2>1 DEF RowsFollow
  <1>7. CallsFollow(db, Fresh, Between)
    BY <1>3, NoRowsFollow
  <1>8. Follows(db, reported, g)
    BY <1>2, <1>4, <1>5, <1>6, <1>7 DEF Follows
  <1>9. SumsFollow(db)
    <2>1. Known(db) = {} /\ \A t : WithToken(db, t) = {}
      BY <1>3 DEF Known, WithToken
    <2> QED BY <1>3, <2>1, SumOfNone DEF SumsFollow
  <1>10. ChainInv
    <2>1. /\ supply = [p \in Pairs |-> None] /\ pending = <<>> /\ queue = <<>>
          /\ balance = [p \in Pairs |-> [a \in Holders(p) |-> 0]]
          /\ ignored = [burns |-> [p \in Pairs |-> 0], sends |-> {}]
      BY DEF Init
    <2>2. ignored \in Ignored /\ \A p \in Pairs : ignored.burns[p] = 0
      BY <2>1 DEF Ignored
    <2>3. \A p \in Pairs : /\ balance[p] \in [Holders(p) -> Nat]
                           /\ \A a \in Holders(p) : balance[p][a] = 0
      BY <2>1
    <2>4. balance \in [Pairs -> UNION {[Holders(p) -> Nat] : p \in Pairs}]
      BY <2>1, <2>3
    <2>5. pending \in Seq(Event) /\ queue \in Seq(Message)
      BY <2>1, EmptySeq
    <2>6. supply \in [Pairs -> Nat \union {None}] /\ \A p \in Pairs : supply[p] = None
      BY <2>1
    <2> QED BY <2>2, <2>3, <2>4, <2>5, <2>6 DEF ChainInv
  <1>11. Path(g, Unhandled, g)
    <2>1. Unhandled = <<>>
      BY DeliveredOfNone, ConcatEmptySeq, EmptySeq DEF Init, Unhandled
    <2> QED BY <2>1, PathOfNone
  <1>12. Leads(g)
    <2>1. Existing = {} /\ pending = <<>>
      BY DEF Init, Existing
    <2> QED BY <1>1, <1>2, <2>1 DEF Leads, SentLeads
  <1> QED BY <1>4, <1>5, <1>8, <1>9, <1>10, <1>11, <1>12 DEF AmmInv, Stopped

\* The invariant of the indexer and the chain together: the messages that are not
\* handled are a path of turns from what the rows follow to what the pairs are.
THEOREM AmmInvariant == Spec => []AmmInv
  <1>1. AmmInv /\ [Next]_vars => AmmInv'
    <2> SUFFICES ASSUME AmmInv, [Next]_vars PROVE AmmInv'
      OBVIOUS
    <2>1. CASE Chain
      BY <2>1, ChainKeeps
    <2>2. CASE Handle
      BY <2>2, HandleKeeps
    <2>3. CASE UNCHANGED vars
      BY <2>3 DEF vars, chain, AmmInv, ChainInv, Stopped, Leads, SentLeads, Existing, LockedOf,
                  Unhandled
    <2> QED BY <2>1, <2>2, <2>3 DEF Next
  <1> QED BY <1>1, InitHolds, PTL DEF Spec

\* amm-core.ts:66-215 with 340-366 and 398-432.  The rows of the mints and burns of a
\* tidy transaction are what its calls did, in order, for any pairs and providers.
THEOREM RowsMatchCorrect == Spec => []RowsMatchCalls
  <1>1. AmmInv => RowsMatchCalls
    <2> SUFFICES ASSUME AmmInv, reported.tidy
                 PROVE  /\ MintRows(Done(db.mints)) = reported.mints
                        /\ BurnRows(Done(db.burns)) = reported.burns
                        /\ db.trades = reported.swaps
      BY DEF RowsMatchCalls
    <2>1. ~ halted
      BY DEF AmmInv, Stopped
    <2>2. PICK g \in Ghost : Follows(db, reported, g)
      BY <2>1 DEF AmmInv
    <2> QED BY <2>2 DEF Follows, CallsFollow, TidyFollows
  <1> QED BY <1>1, AmmInvariant, PTL

\* amm-core.ts:388-389 and 436.  Nothing that follows a send to a pair stops the indexer.
THEOREM HaltsCorrect == Spec => []HaltsOnlyWithoutSend
  <1>1. AmmInv => HaltsOnlyWithoutSend
    BY DEF AmmInv, Stopped, HaltsOnlyWithoutSend
  <1> QED BY <1>1, AmmInvariant, PTL

\* amm-core.ts:43-46, 69 and 134 with helpers/amm.ts:36.  When all is handled, what the
\* rows follow is what the pairs are.
THEOREM PairRowsCorrect == Spec => []PairRowsSettle
  <1>1. AmmInv => PairRowsSettle
    <2> SUFFICES ASSUME AmmInv, AtRest, NEW p \in Pairs, supply[p] # None
                 PROVE  /\ db.pair[p].totalSupply
                             = supply[p] - LockedOf(p) + ignored.burns[p] * Minimum
                        /\ db.pair[p].liquidityProviderCount = Cardinality(Providers(db, p))
      BY DEF PairRowsSettle, LockedOf, Providers
    <2>1. PICK g, h \in Ghost : Follows(db, reported, g) /\ Path(g, Unhandled, h) /\ Leads(h)
      BY DEF AmmInv, AtRest
    <2>2. Unhandled = <<>> /\ Len(<<>>) = 0
      BY DeliveredOfNone, ConcatEmptySeq, EmptySeq DEF AtRest, Unhandled
    <2>3. g = h
      BY <2>1, <2>2 DEF Path
    <2>4. p \in g.known /\ g.total[p] = supply[p] - LockedOf(p) + ignored.burns[p] * Minimum
      BY <2>1, <2>3 DEF Leads, Existing
    <2> QED BY <2>1, <2>4 DEF Follows, RowsFollow
  <1> QED BY <1>1, AmmInvariant, PTL

\* amm-core.ts:246-309.  The liquidity of tokens and factory are the sums over the pairs,
\* however many there are.
THEOREM LiquidityCorrect == Spec => []LiquidityIsSum
  <1>1. AmmInv => LiquidityIsSum
    BY SumsAreLiquidity DEF AmmInv
  <1> QED BY <1>1, AmmInvariant, PTL

-----------------------------------------------------------------------------
(* Balances                                                                 *)

\* The handlers read the balance of u in p at the event e.
Names(e, p, u) ==
  e.kind = "Transfer" /\ ~ IsIgnored(e) /\ e.pair = p /\ u \in {e.from, e.to}
NamedIn(s, p, u) == \E i \in 1 .. Len(s) : Names(s[i], p, u)
Awaited(p, u) ==
  NamedIn(pending, p, u) \/ \E i \in 1 .. Len(queue) : Names(queue[i].event, p, u)

\* A balance that is not shown is read at an event that is not handled yet.
BalancesFollow == \A p \in Pairs, u \in Users : BalanceShown(p, u) \/ Awaited(p, u)

LEMMA NamedInAppend ==
  ASSUME NEW s \in Seq(Event), NEW e \in Event, NEW p, NEW u
  PROVE  NamedIn(Append(s, e), p, u) <=> NamedIn(s, p, u) \/ Names(e, p, u)
  <1> DEFINE a == Append(s, e)
             N == Len(s)
  <1>1. N \in Nat /\ Len(a) = N + 1 /\ a[N + 1] = e /\ \A i \in 1 .. N : a[i] = s[i]
    BY AppendProperties, LenProperties
  <1> HIDE DEF a, N
  <1>2. 1 .. N + 1 = (1 .. N) \union {N + 1}
    BY <1>1
  <1> QED BY <1>1, <1>2 DEF NamedIn, a, N

\* The rows of positions; a store that differs from another elsewhere has them too.
Positions == [Pairs -> [Users -> Int \union {None}]]
Places(d) == "position" \in DOMAIN d /\ d.position \in Positions
Unmoved(d, D) == Places(D) /\ D.position = d.position

LEMMA RowsUnmoved ==
  ASSUME NEW d, Places(d), NEW e
  PROVE  /\ Unmoved(d, [d EXCEPT !.tx = TRUE])
         /\ Unmoved(d, Minted(d, e)) /\ Unmoved(d, SentToPair(d, e)) /\ Unmoved(d, Burned(d, e))
  <1>1. Unmoved(d, [d EXCEPT !.tx = TRUE])
    BY DEF Unmoved, Places
  <1>2. Unmoved(d, Minted(d, e))
    BY DEF Unmoved, Places, Minted
  <1>3. Unmoved(d, SentToPair(d, e))
    BY DEF Unmoved, Places, SentToPair
  <1>4. Unmoved(d, Burned(d, e))
    BY DEF Unmoved, Places, Burned
  <1> QED BY <1>1, <1>2, <1>3, <1>4

\* One position is written.
Writes(d, D, p, u, n) ==
  /\ Places(D) /\ D.position[p][u] = n
  /\ \A q \in Pairs, v \in Users : q # p \/ v # u => D.position[q][v] = d.position[q][v]

LEMMA WithPositionWrites ==
  ASSUME NEW d, Places(d), NEW p \in Pairs, NEW u \in Users
  PROVE  Writes(d, WithPosition(d, p, u), p, u,
                IF d.position[p][u] = None THEN 0 ELSE d.position[p][u])
  <1> DEFINE D == WithPosition(d, p, u)
  <1>1. CASE d.position[p][u] # None
    BY <1>1 DEF WithPosition, Writes
  <1>2. CASE d.position[p][u] = None
    <2>1. /\ "position" \in DOMAIN D
          /\ D.position = [d.position EXCEPT ![p] = [d.position[p] EXCEPT ![u] = 0]]
      BY <1>2 DEF WithPosition, Places
    <2> HIDE DEF D
    <2>2. d.position \in Positions /\ 0 \in Int
      BY DEF Places
    <2> QED BY <1>2, <2>1, <2>2 DEF Places, Positions, Writes, D
  <1> QED BY <1>1, <1>2

LEMMA BalanceReadWrites ==
  ASSUME NEW d, Places(d), NEW p \in Pairs, NEW u \in Users, balance[p][u] \in Int
  PROVE  Writes(d, BalanceRead(d, p, u), p, u, balance[p][u])
  <1> DEFINE c == WithPosition(d, p, u)
             D == BalanceRead(d, p, u)
             n == balance[p][u]
  <1>1. Places(c) /\ \A q \in Pairs, v \in Users :
                       q # p \/ v # u => c.position[q][v] = d.position[q][v]
    BY WithPositionWrites DEF Writes
  <1>2. D = [c EXCEPT !.position[p][u] = n]
    BY DEF BalanceRead
  <1> HIDE DEF c, n, D
  <1>3. /\ "position" \in DOMAIN D
        /\ D.position = [c.position EXCEPT ![p] = [c.position[p] EXCEPT ![u] = n]]
    BY <1>1, <1>2 DEF Places
  <1>4. n \in Int
    BY DEF n
  <1>5. c.position \in Positions
    BY <1>1 DEF Places
  <1> QED BY <1>1, <1>3, <1>4, <1>5 DEF Places, Positions, Writes, D, n

\* What a handler leaves of the positions: those that e names are read, others may be
\* created.
Reads(d, D, e) ==
  /\ Places(D)
  /\ \A p \in Pairs, u \in Users :
       IF Names(e, p, u) THEN D.position[p][u] = balance[p][u]
       ELSE \/ D.position[p][u] = d.position[p][u]
            \/ d.position[p][u] = None /\ D.position[p][u] = 0
BalancesTyped == \A p \in Pairs, u \in Users : balance[p][u] \in Int

LEMMA TransferredReads ==
  ASSUME NEW d, Places(d), NEW e, e.kind = "Transfer", e.pair \in Pairs, BalancesTyped
  PROVE  Reads(d, Transferred(d, e), e)
  <1>1. CASE IsIgnored(e)
    BY <1>1 DEF Transferred, Reads, Names
  <1>2. CASE ~ IsIgnored(e)
    <2> DEFINE t == [d EXCEPT !.tx = TRUE]
               m == Minted(t, e)
               s == SentToPair(m, e)
               b == Burned(s, e)
               x == BalanceRead(b, e.pair, e.from)
               y == BalanceRead(x, e.pair, e.to)
    <2>1. Unmoved(d, b)
      <3>1. Unmoved(d, t)
        BY RowsUnmoved
      <3> HIDE DEF t
      <3>2. Unmoved(t, m)
        BY <3>1, RowsUnmoved DEF Unmoved
      <3> HIDE DEF m
      <3>3. Unmoved(m, s)
        BY <3>2, RowsUnmoved DEF Unmoved
      <3> HIDE DEF s
      <3>4. Unmoved(s, b)
        BY <3>3, RowsUnmoved DEF Unmoved
      <3> QED BY <3>1, <3>2, <3>3, <3>4 DEF Unmoved
    <2>2. Transferred(d, e) = y
      BY <1>2 DEF Transferred
    <2> HIDE DEF b
    <2>3. IF e.from \in Users THEN Writes(b, x, e.pair, e.from, balance[e.pair][e.from])
          ELSE x = b
      BY <2>1, BalanceReadWrites DEF BalancesTyped, BalanceRead, Unmoved
    <2>4. Places(x)
      BY <2>1, <2>3 DEF Writes, Unmoved
    <2> HIDE DEF x
    <2>5. IF e.to \in Users THEN Writes(x, y, e.pair, e.to, balance[e.pair][e.to]) ELSE y = x
      BY <2>4, BalanceReadWrites DEF BalancesTyped, BalanceRead
    <2> HIDE DEF y
    <2>6. Places(y)
      BY <2>4, <2>5 DEF Writes
    <2>7. ASSUME NEW p \in Pairs, NEW u \in Users
          PROVE  IF Names(e, p, u) THEN y.position[p][u] = balance[p][u]
                 ELSE y.position[p][u] = d.position[p][u]
      <3>1. CASE e.pair = p /\ e.to = u
        BY <1>2, <2>5, <3>1 DEF Names, Writes
      <3>2. CASE e.pair = p /\ e.from = u /\ e.to # u
        <4>1. x.position[p][u] = balance[p][u] /\ y.position[p][u] = x.position[p][u]
          BY <2>3, <2>5, <3>2 DEF Writes
        <4> QED BY <1>2, <3>2, <4>1 DEF Names
      <3>3. CASE ~ (e.pair = p /\ u \in {e.from, e.to})
        <4>1. y.position[p][u] = x.position[p][u]
          BY <2>5, <3>3 DEF Writes
        <4>2. x.position[p][u] = b.position[p][u]
          BY <2>3, <3>3 DEF Writes
        <4> QED BY <2>1, <3>3, <4>1, <4>2 DEF Names, Unmoved
      <3> QED BY <3>1, <3>2, <3>3
    <2> QED BY <2>2, <2>6, <2>7 DEF Reads
  <1> QED BY <1>1, <1>2

\* A provider that a row names may be new.
LEMMA CreatedReads ==
  ASSUME NEW c, NEW d, Unmoved(d, c), NEW e, e.kind # "Transfer", e.pair \in Pairs,
         NEW u \in Users
  PROVE  Reads(d, WithPosition(c, e.pair, u), e)
  <1> DEFINE D == WithPosition(c, e.pair, u)
  <1>1. Writes(c, D, e.pair, u,
               IF c.position[e.pair][u] = None THEN 0 ELSE c.position[e.pair][u])
    BY WithPositionWrites DEF Unmoved
  <1> HIDE DEF D
  <1>2. ASSUME NEW q \in Pairs, NEW v \in Users
        PROVE  \/ D.position[q][v] = d.position[q][v]
               \/ d.position[q][v] = None /\ D.position[q][v] = 0
    <2>1. CASE q = e.pair /\ v = u
      BY <1>1, <2>1 DEF Writes, Unmoved
    <2>2. CASE q # e.pair \/ v # u
      BY <1>1, <2>2 DEF Writes, Unmoved
    <2> QED BY <2>1, <2>2
  <1>3. \A q, v : ~ Names(e, q, v)
    BY DEF Names
  <1> QED BY <1>1, <1>2, <1>3 DEF Reads, Writes, D

LEMMA UnmovedReads ==
  ASSUME NEW d, NEW D, Unmoved(d, D), NEW e, e.kind # "Transfer"
  PROVE  Reads(d, D, e)
  BY DEF Reads, Unmoved, Names

\* Every handler reads the balances that its event names, and an exception none.
LEMMA HandlerReads ==
  ASSUME NEW d \in Store, NEW e \in Event, Handler(d, e), BalancesTyped
  PROVE  \/ Reads(d, db', e)
         \/ db' = db /\ \A p, u : ~ Names(e, p, u)
  <1>1. Places(d) /\ e.pair \in Pairs
    <2>1. Places(d)
      BY DEF Store, Places, Positions
    <2>2. e.pair \in Pairs
      BY DEF Event
    <2> QED BY <2>1, <2>2
  <1>2. e.kind \in {"PairCreated", "Transfer", "Sync", "Mint", "Burn", "Swap"}
    BY DEF Event
  <1>3. CASE e.kind = "PairCreated"
    <2>1. db' = PairCreated(d, e.pair)
      BY <1>3 DEF Handler
    <2>2. Unmoved(d, db')
      BY <1>1, <2>1 DEF PairCreated, Unmoved, Places
    <2> QED BY <1>3, <2>2, UnmovedReads
  <1>4. CASE e.kind = "Transfer"
    <2>1. db' = Transferred(d, e)
      BY <1>4 DEF Handler
    <2> QED BY <1>1, <1>4, <2>1, TransferredReads
  <1>5. CASE e.kind = "Sync"
    <2>1. PICK price \in Prices : db' = Synced(d, e.pair, e.reserve, price)
      BY <1>5 DEF Handler
    <2>2. Unmoved(d, db')
      BY <1>1, <2>1 DEF Synced, Unmoved, Places
    <2> QED BY <1>5, <2>2, UnmovedReads
  <1>6. CASE e.kind = "Swap"
    <2>1. db' = Swapped(d, e.pair)
      BY <1>6 DEF Handler
    <2>2. Unmoved(d, db')
      BY <1>1, <2>1 DEF Swapped, Unmoved, Places
    <2> QED BY <1>6, <2>2, UnmovedReads
  <1>7. CASE e.kind = "Mint"
    <2>1. IF d.mints = <<>> THEN db' = db ELSE db' = MintCompleted(d, e.pair)
      BY <1>7 DEF Handler, Throw
    <2>2. ASSUME d.mints # <<>> PROVE Reads(d, db', e)
      <3> DEFINE c == [d EXCEPT !.mints = WithLast(@, [Last(@) EXCEPT !.complete = TRUE])]
      <3>1. Last(d.mints).to \in Users
        <4>1. d.mints \in Seq(MintRow)
          BY DEF Store
        <4>2. Last(d.mints) \in MintRow
          BY <2>2, <4>1, LastFacts
        <4> QED BY <4>2 DEF MintRow
      <3>2. Unmoved(d, c)
        BY <1>1 DEF Unmoved, Places
      <3>3. db' = WithPosition(c, e.pair, Last(d.mints).to)
        BY <2>1, <2>2 DEF MintCompleted
      <3> HIDE DEF c
      <3> QED BY <1>1, <1>7, <3>1, <3>2, <3>3, CreatedReads
    <2> QED BY <1>7, <2>1, <2>2 DEF Names
  <1>8. CASE e.kind = "Burn"
    <2> DEFINE found == d.burns # <<>> /\ Last(d.burns).sender # None
    <2>1. db' = d \/ (found /\ db' = BurnCompleted(d, e.pair)) \/ db' = db
      BY <1>8 DEF Handler, HandleBurn, Throw
    <2>2. CASE db' = d
      BY <1>1, <1>8, <2>2, UnmovedReads DEF Unmoved
    <2>3. CASE found /\ db' = BurnCompleted(d, e.pair)
      <3> DEFINE c == [d EXCEPT !.burns = WithLast(@, [Last(@) EXCEPT !.complete = TRUE])]
      <3>1. Last(d.burns).sender \in Users
        <4>1. d.burns \in Seq(BurnRow)
          BY DEF Store
        <4>2. Last(d.burns) \in BurnRow
          BY <2>3, <4>1, LastFacts
        <4> QED BY <2>3, <4>2 DEF BurnRow
      <3>2. Unmoved(d, c)
        BY <1>1 DEF Unmoved, Places
      <3>3. db' = WithPosition(c, e.pair, Last(d.burns).sender)
        BY <2>3 DEF BurnCompleted
      <3> HIDE DEF c
      <3> QED BY <1>1, <1>8, <3>1, <3>2, <3>3, CreatedReads
    <2> QED BY <1>8, <2>1, <2>2, <2>3 DEF Names
  <1> QED BY <1>2, <1>3, <1>4, <1>5, <1>6, <1>7, <1>8

\* What is still awaited is named by a later event.
LEMMA HandleShows == ASSUME AmmInv, BalancesFollow, Handle PROVE BalancesFollow'
  <1> DEFINE m == Head(queue)
             d == IF m.first THEN Opened(db) ELSE db
  <1>1. /\ pending = <<>> /\ queue # <<>> /\ queue' = Tail(queue)
        /\ balance' = balance /\ ignored' = ignored /\ pending' = pending
        /\ Handler(d, m.event)
    BY DEF Handle, chain
  <1>2. ChainInv /\ db \in Store
    BY DEF AmmInv
  <1>3. /\ queue \in Seq(Message) /\ m \in Message /\ m = queue[1]
        /\ Len(queue') = Len(queue) - 1 /\ Len(queue) \in Nat
        /\ \A i \in 1 .. Len(queue) - 1 : queue'[i] = queue[i + 1]
    BY <1>1, <1>2, HeadTailProperties, LenProperties, EmptySeq DEF ChainInv
  <1>4. m.event \in Event
    BY <1>3 DEF Message
  <1>5. d \in Store /\ d.position = db.position
    <2>1. Opened(db) \in Store /\ Opened(db).position = db.position
      BY <1>2, OpenedStored
    <2> QED BY <1>2, <2>1
  <1>6. BalancesTyped
    <2> SUFFICES ASSUME NEW p \in Pairs, NEW u \in Users PROVE balance[p][u] \in Int
      BY DEF BalancesTyped
    <2>1. balance[p] \in [Holders(p) -> Nat] /\ u \in Holders(p)
      BY <1>2 DEF ChainInv, Holders
    <2> QED BY <2>1
  <1> HIDE DEF m, d
  <1>7. \/ Reads(d, db', m.event)
        \/ db' = db /\ \A p, u : ~ Names(m.event, p, u)
    BY <1>1, <1>4, <1>5, <1>6, HandlerReads
  <1>8. SUFFICES ASSUME NEW p \in Pairs, NEW u \in Users
                 PROVE  BalanceShown(p, u)' \/ Awaited(p, u)'
    BY DEF BalancesFollow
  <1>9. CASE Names(m.event, p, u)
    BY <1>1, <1>7, <1>9 DEF Reads, BalanceShown
  <1>10. CASE ~ Names(m.event, p, u)
    <2>1. \/ db'.position[p][u] = db.position[p][u]
          \/ db.position[p][u] = None /\ db'.position[p][u] = 0
      BY <1>5, <1>7, <1>10 DEF Reads
    <2>2. CASE BalanceShown(p, u)
      <3>1. balance[p][u] # None
        BY <1>6, NoneAssumption DEF BalancesTyped
      <3> QED BY <1>1, <2>1, <2>2, <3>1 DEF BalanceShown
    <2>3. CASE Awaited(p, u)
      <3>1. ~ NamedIn(pending, p, u)
        BY <1>1, EmptySeq DEF NamedIn
      <3>2. PICK i \in 1 .. Len(queue) : Names(queue[i].event, p, u)
        BY <2>3, <3>1 DEF Awaited
      <3>3. i # 1 /\ i - 1 \in 1 .. Len(queue')
        BY <1>3, <1>10, <3>2
      <3>4. queue'[i - 1] = queue[i]
        <4>1. i - 1 + 1 = i
          BY <3>2
        <4> QED BY <1>3, <3>3, <4>1
      <3>5. Names(queue'[i - 1].event, p, u)
        BY <3>2, <3>4
      <3> QED BY <3>3, <3>5 DEF Awaited, Names, IsIgnored
    <2> QED BY <2>2, <2>3 DEF BalancesFollow
  <1> QED BY <1>9, <1>10

\* A call that moves the balance of a provider names it.
CallNames ==
  /\ queue' = queue /\ db' = db /\ ignored.sends \subseteq ignored'.sends
  /\ \A p \in Pairs, u \in Users :
       /\ NamedIn(pending, p, u) => NamedIn(pending', p, u)
       /\ \/ balance'[p][u] = balance[p][u]
          \/ NamedIn(pending', p, u)
          \/ <<p, u>> \in ignored'.sends

LEMMA CallShows == ASSUME BalancesFollow, CallNames PROVE BalancesFollow'
  <1> SUFFICES ASSUME NEW p \in Pairs, NEW u \in Users
               PROVE  BalanceShown(p, u)' \/ Awaited(p, u)'
    BY DEF BalancesFollow
  <1>1. CASE Awaited(p, u)
    BY <1>1 DEF CallNames, Awaited, NamedIn, Names, IsIgnored
  <1>2. CASE BalanceShown(p, u)
    <2>1. CASE NamedIn(pending', p, u)
      BY <2>1 DEF Awaited, NamedIn, Names, IsIgnored
    <2>2. CASE ~ NamedIn(pending', p, u)
      BY <1>2, <2>2 DEF CallNames, BalanceShown
    <2> QED BY <2>1, <2>2
  <1> QED BY <1>1, <1>2 DEF BalancesFollow

LEMMA EndShows ==
  ASSUME ChainInv, BalancesFollow, EndTransaction
  PROVE  BalancesFollow'
  <1> DEFINE t == Delivered(pending)
  <1>1. /\ queue' = queue \o t /\ pending' = <<>>
        /\ UNCHANGED <<balance, ignored, db>>
    BY DEF EndTransaction
  <1>2. pending \in Seq(Event) /\ queue \in Seq(Message) /\ t \in Seq(Message)
    BY DeliveredType DEF ChainInv
  <1>3. Len(pending) \in Nat /\ Len(t) = Len(pending)
        /\ \A i \in 1 .. Len(pending) : t[i].event = pending[i]
    <2>1. DOMAIN pending = 1 .. Len(pending) /\ Len(pending) \in Nat
      BY <1>2, LenProperties
    <2>2. t = [i \in 1 .. Len(pending) |-> [first |-> i = 1, event |-> pending[i]]]
      BY <2>1 DEF Delivered
    <2> HIDE DEF t
    <2>3. DOMAIN t = 1 .. Len(t) /\ Len(t) \in Nat
      BY <1>2, LenProperties
    <2> QED BY <2>1, <2>2, <2>3
  <1> HIDE DEF t
  <1>4. /\ Len(queue) \in Nat /\ Len(queue') = Len(queue) + Len(t)
        /\ \A i \in 1 .. Len(queue) : queue'[i] = queue[i]
        /\ \A i \in 1 .. Len(t) : queue'[Len(queue) + i] = t[i]
    <2>1. /\ Len(queue \o t) = Len(queue) + Len(t) /\ Len(queue) \in Nat /\ Len(t) \in Nat
          /\ \A i \in 1 .. Len(queue) + Len(t) :
               (queue \o t)[i] = IF i <= Len(queue) THEN queue[i] ELSE t[i - Len(queue)]
      BY <1>2, ConcatProperties, LenProperties
    <2>2. \A i \in 1 .. Len(queue) : queue'[i] = queue[i]
      BY <1>1, <2>1
    <2>3. ASSUME NEW i \in 1 .. Len(t) PROVE queue'[Len(queue) + i] = t[i]
      <3>1. Len(queue) + i \in 1 .. Len(queue) + Len(t) /\ ~ (Len(queue) + i <= Len(queue))
            /\ Len(queue) + i - Len(queue) = i
        BY <2>1
      <3> QED BY <1>1, <2>1, <3>1
    <2> QED BY <1>1, <2>1, <2>2, <2>3
  <1> SUFFICES ASSUME NEW p \in Pairs, NEW u \in Users
               PROVE  BalanceShown(p, u)' \/ Awaited(p, u)'
    BY DEF BalancesFollow
  <1>5. CASE BalanceShown(p, u)
    BY <1>1, <1>5 DEF BalanceShown
  <1>6. CASE NamedIn(pending, p, u)
    <2>1. PICK i \in 1 .. Len(pending) : Names(pending[i], p, u)
      BY <1>6 DEF NamedIn
    <2>2. i \in 1 .. Len(t) /\ Len(queue) + i \in 1 .. Len(queue')
      BY <1>3, <1>4
    <2>3. queue'[Len(queue) + i].event = pending[i]
      BY <1>3, <1>4, <2>2
    <2> QED BY <2>1, <2>2, <2>3 DEF Awaited, Names, IsIgnored
  <1>7. CASE \E i \in 1 .. Len(queue) : Names(queue[i].event, p, u)
    <2>1. PICK i \in 1 .. Len(queue) : Names(queue[i].event, p, u)
      BY <1>7
    <2>2. i \in 1 .. Len(queue') /\ queue'[i] = queue[i]
      BY <1>3, <1>4
    <2> QED BY <2>1, <2>2 DEF Awaited, Names, IsIgnored
  <1> QED BY <1>5, <1>6, <1>7 DEF BalancesFollow, Awaited

\* What names a provider in a call, and whom it pays.
LEMMA TransferNames ==
  ASSUME NEW p, NEW from, NEW to, NEW n, NEW tidy, to # Zero \/ n # Minimum
  PROVE  \A q, u : Names(TransferOf(p, from, to, n, tidy), q, u) <=> q = p /\ u \in {from, to}
  BY DEF Names, IsIgnored, TransferOf

LEMMA SendNames ==
  ASSUME ChainInv, NEW p \in Pairs, NEW u \in Users, NEW to \in Users \union {p, Zero},
         NEW n \in Sends, Send(p, u, to, n)
  PROVE  CallNames
  <1> DEFINE e == TransferOf(p, u, to, n, TRUE)
             b == [a \in Holders(p) |-> IF a = u THEN balance[p][a] - n
                                        ELSE IF a = to THEN balance[p][a] + n ELSE balance[p][a]]
  <1>1. e \in Event /\ pending' = Append(pending, e) /\ queue' = queue /\ pending \in Seq(Event)
    BY SendMoves DEF ChainInv
  <1>2. db' = db /\ balance' = [balance EXCEPT ![p] = b]
    BY DEF Send, Emit, ChainInv
  <1>3. ignored' = IF to = Zero /\ n = Minimum
                   THEN [ignored EXCEPT !.sends = ignored.sends \union {<<p, u>>}] ELSE ignored
    BY DEF Send, ChainInv, Ignored
  <1>4. /\ ignored.sends \subseteq ignored'.sends
        /\ to = Zero /\ n = Minimum => <<p, u>> \in ignored'.sends
    BY <1>3 DEF ChainInv, Ignored
  <1>5. ASSUME to # Zero \/ n # Minimum PROVE Names(e, p, u) /\ Names(e, p, to)
    <2>1. \A q, v : Names(e, q, v) <=> q = p /\ v \in {u, to}
      BY <1>5 DEF Names, IsIgnored, TransferOf
    <2> HIDE DEF e
    <2> QED BY <2>1
  <1>6. \A q, v : NamedIn(pending', q, v) <=> NamedIn(pending, q, v) \/ Names(e, q, v)
    BY <1>1, NamedInAppend
  <1> HIDE DEF e
  <1>7. ASSUME NEW q \in Pairs, NEW v \in Users, q # p \/ v \notin {u, to}
        PROVE  balance'[q][v] = balance[q][v]
    <2>1. v \in Holders(p)
      BY DEF Holders
    <2> QED BY <1>2, <1>7, <2>1 DEF ChainInv
  <1>8. Zero \notin Users
    BY AmmAssumption
  <1> QED BY <1>1, <1>2, <1>4, <1>5, <1>6, <1>7, <1>8 DEF CallNames

\* The events that come before and after the one that names a provider.
LEMMA NamedInThree ==
  ASSUME NEW s \in Seq(Event), NEW b \in Event, NEW c \in Event, NEW d \in Event, NEW p, NEW u
  PROVE  NamedIn(s, p, u) \/ Names(b, p, u) => NamedIn(Append(Append(Append(s, b), c), d), p, u)
  <1>1. Append(s, b) \in Seq(Event) /\ Append(Append(s, b), c) \in Seq(Event)
    BY AppendProperties
  <1> QED BY <1>1, NamedInAppend

\* The fee is paid to FeeTo, if there is one.
Pays(s, p, fee) ==
  /\ s \in Seq(Event)
  /\ \A q, v : \/ NamedIn(pending, q, v)
               \/ fee # 0 /\ q = p /\ v = FeeTo
               => NamedIn(s, q, v)

LEMMA FeePays ==
  ASSUME NEW s \in Seq(Event), NEW p \in Pairs, NEW fee \in Nat, NEW tidy \in BOOLEAN,
         NEW t, t = IF fee = 0 THEN s ELSE Append(s, TransferOf(p, Zero, FeeTo, fee, tidy)),
         s = pending
  PROVE  Pays(t, p, fee)
  <1> DEFINE e == TransferOf(p, Zero, FeeTo, fee, tidy)
  <1>1. FeeTo # Zero /\ Zero \in Addresses /\ FeeTo \in Addresses
    BY AmmAssumption DEF Addresses
  <1>2. e \in Event
    BY <1>1, EventsTyped
  <1>3. Names(e, p, FeeTo)
    BY <1>1, TransferNames
  <1> HIDE DEF e
  <1>4. Append(s, e) \in Seq(Event)
    BY <1>2, AppendProperties
  <1>5. \A q, v : NamedIn(Append(s, e), q, v) <=> NamedIn(s, q, v) \/ Names(e, q, v)
    BY <1>2, NamedInAppend
  <1>6. t = IF fee = 0 THEN s ELSE Append(s, e)
    BY DEF e
  <1> QED BY <1>3, <1>4, <1>5, <1>6 DEF Pays

LEMMA MintNames ==
  ASSUME ChainInv, NEW p \in Pairs, NEW u \in Users, NEW n \in Mints, NEW fee \in 0 .. 1,
         Mint(p, u, n, fee)
  PROVE  CallNames
  <1>1. PICK x \in Int : supply'[p] = x
    <2>1. supply'[p] \in Int
      BY MintMoves
    <2> QED BY <2>1
  <1>2. PICK tidy \in BOOLEAN : tidy = (fee = 0)
    OBVIOUS
  <1> DEFINE s == BeforeMint(p, fee)
             b == TransferOf(p, Zero, u, n, tidy)
             c == SyncOf(p, x)
             d == MintOf(p, u, n)
  <1>3. /\ s \in Seq(Event) /\ b \in Event /\ c \in Event /\ d \in Event
        /\ pending' = Append(Append(Append(s, b), c), d) /\ queue' = queue
    BY <1>1, <1>2, MintPends
  <1>4. Names(b, p, u)
    <2>1. u # Zero
      BY AmmAssumption
    <2> QED BY <2>1, TransferNames
  <1>5. Pays(s, p, fee)
    <2>1. pending \in Seq(Event) /\ fee \in Nat /\ FALSE \in BOOLEAN
      BY DEF ChainInv
    <2>2. CASE supply[p] = 0
      <3> DEFINE lock == TransferOf(p, Zero, Zero, Minimum, TRUE)
      <3>1. s = Append(pending, lock) /\ fee = 0
        BY <2>2 DEF BeforeMint, Mint
      <3>2. lock \in Event
        <4>1. Zero \in Addresses /\ Minimum \in Nat /\ TRUE \in BOOLEAN
          BY DEF Addresses, Minimum
        <4> QED BY <4>1, EventsTyped
      <3> HIDE DEF lock
      <3>3. \A q, v : NamedIn(Append(pending, lock), q, v)
                        <=> NamedIn(pending, q, v) \/ Names(lock, q, v)
        BY <2>1, <3>2, NamedInAppend
      <3> HIDE DEF s
      <3> QED BY <1>3, <3>1, <3>3 DEF Pays
    <2>3. CASE supply[p] # 0
      <3>1. s = IF fee = 0 THEN pending
                ELSE Append(pending, TransferOf(p, Zero, FeeTo, fee, FALSE))
        BY <2>3 DEF BeforeMint
      <3> HIDE DEF s
      <3> QED BY <2>1, <3>1, FeePays
    <2> QED BY <2>2, <2>3
  <1> HIDE DEF s, b, c, d
  <1>6. /\ NamedIn(pending', p, u)
        /\ \A q, v : NamedIn(s, q, v) => NamedIn(pending', q, v)
    BY <1>3, <1>4, NamedInThree
  <1>7. db' = db /\ ignored' = ignored
    BY DEF Mint, Emit
  <1>8. ASSUME NEW q \in Pairs, NEW v \in Users
        PROVE  balance'[q][v] = balance[q][v] \/ NamedIn(pending', q, v)
    <2>1. v \in Holders(q) /\ balance[q] \in [Holders(q) -> Nat]
      BY DEF Holders, ChainInv
    <2>2. CASE q = p /\ v = u
      BY <1>6, <2>2
    <2>3. CASE fee # 0 /\ q = p /\ v = FeeTo
      BY <1>5, <1>6, <2>3 DEF Pays
    <2>4. CASE ~ (q = p /\ v = u) /\ ~ (fee # 0 /\ q = p /\ v = FeeTo)
      <3>1. CASE supply[p] = 0
        BY <2>1, <2>4, <3>1 DEF Mint, ChainInv
      <3>2. CASE supply[p] # 0
        <4>1. balance' = [WithFee(balance, p, fee) EXCEPT ![p][u] = @ + n]
          BY <3>2 DEF Mint
        <4>2. /\ WithFee(balance, p, fee)[q][v] = balance[q][v]
              /\ DOMAIN WithFee(balance, p, fee) = Pairs
          <5>1. fee = 0 => balance[p][FeeTo] + fee = balance[p][FeeTo]
            <6>1. balance[p][FeeTo] \in Nat
              BY AmmAssumption DEF ChainInv, Holders
            <6> QED BY <6>1
          <5> QED BY <2>1, <2>4, <5>1 DEF WithFee, ChainInv
        <4> HIDE DEF WithFee
        <4> QED BY <2>1, <2>4, <4>1, <4>2
      <3> QED BY <3>1, <3>2
    <2> QED BY <2>2, <2>3, <2>4
  <1> QED BY <1>3, <1>5, <1>6, <1>7, <1>8 DEF CallNames, Pays

LEMMA BurnNames ==
  ASSUME ChainInv, NEW p \in Pairs, NEW fee \in 0 .. 1, Burn(p, fee),
         NEW n \in Nat, NEW tidy \in BOOLEAN,
         NEW user \in Users \union {None}, Burns(p, fee, n, tidy, user)
  PROVE  CallNames
  <1>0. BurnSets(p, fee, n, tidy, user)
    BY BurnUnfold
  <1>1. PICK x \in Int : supply'[p] = x
    <2>1. supply'[p] \in Int
      BY BurnMoves
    <2> QED BY <2>1
  <1> DEFINE s == BeforeBurn(p, fee, tidy)
             b == TransferOf(p, p, Zero, n, tidy)
             c == SyncOf(p, x)
             d == BurnOf(p, user, n, fee)
  <1>2. /\ s \in Seq(Event) /\ b \in Event /\ c \in Event /\ d \in Event
        /\ pending' = Append(Append(Append(s, b), c), d) /\ queue' = queue
    BY <1>1, BurnPends
  <1>3. Pays(s, p, fee)
    <2>1. pending \in Seq(Event) /\ fee \in Nat
      BY DEF ChainInv
    <2>2. s = IF fee = 0 THEN pending
              ELSE Append(pending, TransferOf(p, Zero, FeeTo, fee, tidy))
      BY DEF BeforeBurn
    <2> HIDE DEF s
    <2> QED BY <2>1, <2>2, FeePays
  <1> HIDE DEF s, b, c, d
  <1>4. \A q, v : NamedIn(s, q, v) => NamedIn(pending', q, v)
    BY <1>2, NamedInThree
  <1>5. db' = db
    BY DEF Burn, Emit
  <1>6. ignored'.sends = ignored.sends
    <2>1. ignored' = IF n = Minimum THEN [ignored EXCEPT !.burns[p] = @ + 1] ELSE ignored
      BY <1>0 DEF BurnSets
    <2> QED BY <2>1 DEF ChainInv, Ignored
  <1>7. ASSUME NEW q \in Pairs, NEW v \in Users
        PROVE  balance'[q][v] = balance[q][v] \/ NamedIn(pending', q, v)
    <2>1. /\ v \in Holders(q) /\ balance[q] \in [Holders(q) -> Nat] /\ v # p
          /\ FeeTo \in Holders(p)
      BY HoldersAssumption, AmmAssumption DEF Holders, ChainInv
    <2>2. CASE fee # 0 /\ q = p /\ v = FeeTo
      BY <1>3, <1>4, <2>2 DEF Pays
    <2>3. CASE ~ (fee # 0 /\ q = p /\ v = FeeTo)
      <3>1. balance' = [WithFee(balance, p, fee) EXCEPT ![p][p] = 0]
        BY <1>0 DEF BurnSets
      <3>2. /\ WithFee(balance, p, fee)[q][v] = balance[q][v]
            /\ DOMAIN WithFee(balance, p, fee) = Pairs
        <4>1. fee = 0 => balance[p][FeeTo] + fee = balance[p][FeeTo]
          <5>1. balance[p][FeeTo] \in Nat
            BY <2>1 DEF ChainInv
          <5> QED BY <5>1
        <4> QED BY <2>1, <2>3, <4>1 DEF WithFee, ChainInv
      <3> HIDE DEF WithFee
      <3> QED BY <2>1, <3>1, <3>2
    <2> QED BY <2>2, <2>3
  <1> QED BY <1>2, <1>3, <1>4, <1>5, <1>6, <1>7 DEF CallNames, Pays

LEMMA OthersName ==
  ASSUME ChainInv, NEW p \in Pairs, CreatePair(p) \/ Swap(p)
  PROVE  CallNames
  <1>1. /\ queue' = queue /\ db' = db /\ ignored' = ignored /\ balance' = balance
        /\ pending \in Seq(Event)
    BY DEF CreatePair, Swap, Emit, ChainInv
  <1>2. ASSUME NEW q, NEW u, NamedIn(pending, q, u) PROVE NamedIn(pending', q, u)
    <2>1. CASE CreatePair(p)
      <3> DEFINE e == [kind |-> "PairCreated", pair |-> p]
      <3>1. pending' = Append(pending, e)
        BY <2>1, CreateMoves
      <3>2. e \in Event
        BY EventsTyped
      <3> HIDE DEF e
      <3> QED BY <1>1, <1>2, <3>1, <3>2, NamedInAppend
    <2>2. CASE Swap(p)
      <3> DEFINE e == [kind |-> "Swap", pair |-> p]
                 c == SyncOf(p, supply[p])
      <3>1. pending' = Append(Append(pending, c), e) /\ supply[p] \in Int
        BY <2>2, SwapMoves
      <3>2. c \in Event /\ e \in Event
        BY <3>1, EventsTyped
      <3> HIDE DEF c, e
      <3>3. Append(pending, c) \in Seq(Event)
        BY <1>1, <3>2, AppendProperties
      <3> QED BY <1>1, <1>2, <3>1, <3>2, <3>3, NamedInAppend
    <2> QED BY <2>1, <2>2
  <1> QED BY <1>1, <1>2 DEF CallNames

LEMMA ChainShows == ASSUME AmmInv, BalancesFollow, Chain PROVE BalancesFollow'
  <1>1. ChainInv
    BY DEF AmmInv
  <1>2. CASE EndTransaction
    BY <1>1, <1>2, EndShows
  <1>3. ASSUME NEW p \in Pairs, CreatePair(p) \/ Swap(p) PROVE CallNames
    BY <1>1, <1>3, OthersName
  <1>4. ASSUME NEW p \in Pairs, NEW u \in Users, NEW n \in Mints, NEW fee \in 0 .. 1,
               Mint(p, u, n, fee)
        PROVE  CallNames
    BY <1>1, <1>4, MintNames
  <1>5. ASSUME NEW p \in Pairs, NEW u \in Users, NEW to \in Users \union {p, Zero},
               NEW n \in Sends, Send(p, u, to, n)
        PROVE  CallNames
    BY <1>1, <1>5, SendNames
  <1>6. ASSUME NEW p \in Pairs, NEW fee \in 0 .. 1, Burn(p, fee) PROVE CallNames
    <2>1. PICK n \in Nat, tidy \in BOOLEAN, user \in Users \union {None} :
            Burns(p, fee, n, tidy, user)
      BY <1>1, BurnNamed DEF AmmInv
    <2> QED BY <1>1, <1>6, <2>1, BurnNames
  <1>7. CASE CallNames
    BY <1>7, CallShows
  <1> QED BY <1>2, <1>3, <1>4, <1>5, <1>6, <1>7 DEF Chain

\* amm-core.ts:217-231.  What a provider holds is shown, or one of its transfers is still
\* to be handled, or it sent away what the handlers ignore.
THEOREM BalancesCorrect == Spec => [](AtRest => \A p \in Pairs, u \in Users : BalanceShown(p, u))
  <1>1. Init => BalancesFollow
    BY DEF Init, BalancesFollow, BalanceShown, Holders
  <1>2. AmmInv /\ BalancesFollow /\ [Next]_vars => BalancesFollow'
    <2> SUFFICES ASSUME AmmInv, BalancesFollow, [Next]_vars PROVE BalancesFollow'
      OBVIOUS
    <2>1. CASE UNCHANGED vars
      <3>1. pending' = pending /\ queue' = queue /\ db' = db /\ balance' = balance
            /\ ignored' = ignored
        BY <2>1 DEF vars, chain
      <3>2. CallNames
        BY <3>1 DEF CallNames
      <3> QED BY <3>2, CallShows
    <2> QED BY <2>1, ChainShows, HandleShows DEF Next
  <1>3. BalancesFollow => (AtRest => \A p \in Pairs, u \in Users : BalanceShown(p, u))
    <2>1. 1 .. Len(<<>>) = {}
      BY EmptySeq
    <2> QED BY <2>1 DEF BalancesFollow, Awaited, NamedIn, AtRest
  <1>4. Spec => []BalancesFollow
    BY <1>1, <1>2, AmmInvariant, PTL DEF Spec
  <1> QED BY <1>3, <1>4, PTL
=============================================================================
