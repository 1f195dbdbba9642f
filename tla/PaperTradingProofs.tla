------------------------- MODULE PaperTradingProofs -------------------------
(***************************************************************************)
(* Theorems about PaperTrading for all symbols, candidates, prices, stop   *)
(* levels and bounds: first what every management call guarantees of the   *)
(* deal it is given, wherever it is abandoned, then the session and the    *)
(* file.  Safe is the inductive invariant of what the engine can meet,     *)
(* Accounted adds the money and the trades behind it.                      *)
(***************************************************************************)
EXTENDS PaperTrading, SumLemmas

\* The lot has the shares the position still has to sell, at the same price.
Covers(lot, p) == p.rem > 0 => lot.qty >= p.rem /\ lot.cost = p.sig.entry

\* A deal as the engine meets it: a closed position is empty, break-even has lifted
\* the stop at least to the entry price, and shares were paid for.
SoundDeal(d) ==
  /\ d \in Deals
  /\ ~d.p.open => d.p.rem = 0
  /\ d.p.be => d.p.stop >= d.p.sig.entry
  /\ Covers(d.lot, d.p)
  /\ d.lot.qty > 0 => d.lot.cost > 0

\* The position in e is the same trade as in d, no larger, and never reopened.
SamePosition(d, e) ==
  /\ e.p.run = d.p.run
  /\ e.p.sig = d.p.sig
  /\ e.p.qty = d.p.qty
  /\ e.p.rem <= d.p.rem
  /\ ~d.p.open => ~e.p.open /\ e.p.realized = d.p.realized

\* The stop rises, or break-even has just set it.
StopHeld(d, e) ==
  /\ d.p.be => e.p.be
  /\ \/ e.p.stop >= d.p.stop
     \/ ~d.p.be /\ e.p.be

\* What is left of a lot when n shares are.
Rest(lot, n) ==
  IF n = lot.qty THEN lot ELSE IF n = 0 THEN NoLot ELSE [lot EXCEPT !.qty = n]

\* The ledger sells at most what leaves the position, and books what it sells; the
\* position books all that leaves it.
Sold(d, e, price) ==
  LET told == d.lot.qty - e.lot.qty
      left == d.p.rem - e.p.rem
      margin == price - d.p.sig.entry
  IN /\ 0 <= told /\ told <= left
     /\ e.lot = Rest(d.lot, e.lot.qty)
     /\ e.cash = d.cash + told * price
     /\ e.realized = d.realized + told * margin
     /\ e.p.realized = d.p.realized + left * margin

Step(d, e, price) ==
  /\ SoundDeal(e)
  /\ SamePosition(d, e)
  /\ StopHeld(d, e)
  /\ Sold(d, e, price)

-----------------------------------------------------------------------------
\* The types of the fields the arguments below compute with.
LEMMA DealTypes ==
  ASSUME NEW d, SoundDeal(d)
  PROVE  /\ d \in Deals /\ d.p \in Positions /\ d.p.sig \in Signals
         /\ d.p.sig \in SignalFields /\ d.p.sig.entry \in Nat
         /\ d.p.qty \in Nat \ {0} /\ d.p.rem \in Nat /\ d.p.stop \in Nat
         /\ d.p.realized \in Int /\ d.cash \in Int /\ d.realized \in Int
         /\ d.lot \in Lots /\ d.lot.qty \in Nat /\ d.lot.cost \in Nat
         /\ d.outcomes \in Seq(Outcomes) /\ d.left \in Nat /\ d.dropped \in BOOLEAN
<1>1. d \in Deals /\ d.p \in Positions /\ d.lot \in Lots
  BY DEF SoundDeal, Deals
<1>2. d.p.sig \in Signals /\ d.p.sig \in SignalFields
  BY <1>1, SignalsAssumption DEF Positions
<1>3. d.p.sig.entry \in Nat
  BY <1>2 DEF SignalFields
<1>4. QED
  BY <1>1, <1>2, <1>3 DEF Deals, Positions, Lots

\* Taking from a lot twice is taking from it once.
LEMMA RestTwice ==
  ASSUME NEW lot \in Lots, NEW m \in Nat, NEW n \in Nat, n <= m, m <= lot.qty
  PROVE  Rest(lot, m).qty = m /\ Rest(Rest(lot, m), n) = Rest(lot, n)
<1>1. lot = [qty |-> lot.qty, cost |-> lot.cost] /\ lot.qty \in Nat
  BY DEF Lots
<1>2. Rest(lot, m).qty = m
  BY <1>1 DEF Rest, NoLot
<1>3. CASE m = lot.qty
  BY <1>3 DEF Rest
<1>4. CASE m # lot.qty /\ m = 0
  <2>1. n = 0
    BY <1>4
  <2>2. QED
    BY <1>4, <2>1 DEF Rest, NoLot
<1>5. CASE m # lot.qty /\ m # 0
  <2>1. Rest(lot, m) = [qty |-> m, cost |-> lot.cost] /\ n # lot.qty
    BY <1>1, <1>5 DEF Rest
  <2>2. QED
    BY <1>1, <1>5, <2>1 DEF Rest
<1>6. QED
  BY <1>2, <1>3, <1>4, <1>5

\* Two steps at the same price make one.
LEMMA StepTransitive ==
  ASSUME NEW d, NEW e, NEW f, NEW price \in Nat, SoundDeal(d),
         Step(d, e, price), Step(e, f, price)
  PROVE  Step(d, f, price)
<1>1. SoundDeal(f) /\ SoundDeal(e)
  BY DEF Step
<1>2. /\ d.p.rem \in Nat /\ e.p.rem \in Nat /\ f.p.rem \in Nat
      /\ d.p.stop \in Nat /\ e.p.stop \in Nat /\ f.p.stop \in Nat
  BY <1>1, DealTypes
<1>3. SamePosition(d, f) /\ StopHeld(d, f)
  BY <1>2 DEF Step, SamePosition, StopHeld
<1>4. Sold(d, f, price)
  <2> DEFINE x == d.p.rem  y == e.p.rem  z == f.p.rem
             u == d.lot.qty  v == e.lot.qty  w == f.lot.qty
             margin == price - d.p.sig.entry
  <2>1. /\ x \in Nat /\ y \in Nat /\ z \in Nat /\ u \in Nat /\ v \in Nat /\ w \in Nat
        /\ margin \in Int /\ d.cash \in Int /\ d.realized \in Int /\ d.p.realized \in Int
        /\ d.lot \in Lots
    BY <1>1, DealTypes
  <2>2. /\ 0 <= u - v /\ u - v <= x - y /\ e.lot = Rest(d.lot, v)
        /\ e.cash = d.cash + (u - v) * price
        /\ e.realized = d.realized + (u - v) * margin
        /\ e.p.realized = d.p.realized + (x - y) * margin
    BY DEF Step, Sold
  <2>3. /\ 0 <= v - w /\ v - w <= y - z /\ f.lot = Rest(e.lot, w)
        /\ f.cash = e.cash + (v - w) * price
        /\ f.realized = e.realized + (v - w) * margin
        /\ f.p.realized = e.p.realized + (y - z) * margin
    BY DEF Step, Sold, SamePosition
  <2>4. f.lot = Rest(d.lot, w)
    BY <2>1, <2>2, <2>3, RestTwice
  <2> HIDE DEF x, y, z, u, v, w, margin
  <2>5. /\ (u - v) * price + (v - w) * price = (u - w) * price
        /\ (u - v) * margin + (v - w) * margin = (u - w) * margin
        /\ (x - y) * margin + (y - z) * margin = (x - z) * margin
    BY <2>1
  <2>6. /\ (u - v) * price \in Int /\ (v - w) * price \in Int
        /\ (u - v) * margin \in Int /\ (v - w) * margin \in Int
        /\ (x - y) * margin \in Int /\ (y - z) * margin \in Int
    BY <2>1
  <2>7. /\ f.cash = d.cash + (u - w) * price
        /\ f.realized = d.realized + (u - w) * margin
        /\ f.p.realized = d.p.realized + (x - z) * margin
        /\ 0 <= u - w /\ u - w <= x - z
    BY <2>1, <2>2, <2>3, <2>5, <2>6
  <2>8. QED
    BY <2>4, <2>7 DEF Sold, x, z, u, w, margin
<1>5. QED
  BY <1>1, <1>3, <1>4 DEF Step

\* Nothing sold, nothing booked.
LEMMA NothingSold ==
  ASSUME NEW d, NEW e, NEW price \in Nat, SoundDeal(d), e.lot = d.lot,
         e.cash = d.cash, e.realized = d.realized,
         e.p.rem = d.p.rem, e.p.realized = d.p.realized
  PROVE  Sold(d, e, price)
<1>1. /\ d.p.rem \in Nat /\ d.lot.qty \in Nat /\ d.p.realized \in Int
      /\ d.cash \in Int /\ d.realized \in Int /\ d.p.sig.entry \in Nat
  BY DealTypes
<1>2. d.p.rem - e.p.rem = 0 /\ d.lot.qty - e.lot.qty = 0
  BY <1>1
<1>3. /\ d.cash = d.cash + 0 * price
      /\ d.realized = d.realized + 0 * (price - d.p.sig.entry)
      /\ d.p.realized = d.p.realized + 0 * (price - d.p.sig.entry)
  BY <1>1
<1>4. e.lot = Rest(d.lot, e.lot.qty)
  BY DEF Rest
<1>5. QED
  BY <1>2, <1>3, <1>4 DEF Sold

\* Nothing happening is a step.
LEMMA StepReflexive ==
  ASSUME NEW d, NEW price \in Nat, SoundDeal(d)
  PROVE  Step(d, d, price)
<1>1. d.p.rem \in Nat /\ d.p.stop \in Nat
  BY DealTypes
<1>2. SamePosition(d, d) /\ StopHeld(d, d)
  BY <1>1 DEF SamePosition, StopHeld
<1>3. QED
  BY <1>2, NothingSold DEF Step

\* A step may end with a review, a look at st.session_state or its refusal.
LEMMA StepAside ==
  ASSUME NEW d, NEW e, NEW f \in Deals, NEW price \in Nat, Step(d, e, price),
         f.p = e.p, f.cash = e.cash, f.realized = e.realized, f.lot = e.lot
  PROVE  Step(d, f, price)
BY DEF Step, SoundDeal, SamePosition, StopHeld, Sold, Covers

-----------------------------------------------------------------------------
\* The ledger follows an exit of q shares for a profit of pnl, or is not told.
LEMMA SyncSound ==
  ASSUME NEW d \in Deals, NEW q \in Nat, NEW price \in Nat, NEW pnl \in Int
  PROVE  LET e == SyncBrokerOnExit(d, q, price, pnl)
         IN /\ e \in Deals /\ e.p = d.p
            /\ \/ e.cash = d.cash /\ e.realized = d.realized /\ e.lot = d.lot
               \/ /\ q # 0 /\ e.cash = d.cash + q * price
                  /\ e.realized = d.realized + pnl /\ e.lot = LotLess(d.lot, q)
<1> DEFINE e == SyncBrokerOnExit(d, q, price, pnl)
<1>1. /\ d.cash \in Int /\ d.realized \in Int /\ d.lot \in Lots
      /\ d.left \in Nat /\ d.dropped \in BOOLEAN
  BY DEF Deals
<1>2. CASE q = 0 \/ price = 0
  BY <1>2 DEF SyncBrokerOnExit
<1>3. CASE q # 0 /\ price # 0 /\ d.left = 0
  <2>1. e = [d EXCEPT !.dropped = TRUE]
    BY <1>3 DEF SyncBrokerOnExit, Dropped
  <2> HIDE DEF e
  <2>2. QED
    BY <2>1 DEF Deals, e
<1>4. CASE q # 0 /\ price # 0 /\ d.left # 0
  <2> DEFINE less == LotLess(d.lot, q)
             paid == price * q
  <2>1. e = [d EXCEPT !.left = d.left - 1, !.cash = d.cash + paid,
                      !.realized = d.realized + pnl, !.lot = less]
    BY <1>4 DEF SyncBrokerOnExit
  <2>2. less \in Lots
    <3>1. d.lot = [qty |-> d.lot.qty, cost |-> d.lot.cost]
          /\ d.lot.qty \in Nat /\ d.lot.cost \in Nat
      BY <1>1 DEF Lots
    <3>2. QED
      BY <3>1 DEF LotLess, NoLot, Lots
  <2>3. paid = q * price /\ paid \in Int
    OBVIOUS
  <2>4. d.left - 1 \in Nat
    BY <1>1, <1>4
  <2> HIDE DEF e, less, paid
  <2>5. d.cash + paid \in Int /\ d.realized + pnl \in Int
    BY <1>1, <2>3
  <2>6. e \in Deals /\ e.p = d.p /\ e.cash = d.cash + paid
        /\ e.realized = d.realized + pnl /\ e.lot = less
    BY <2>1, <2>2, <2>4, <2>5 DEF Deals
  <2>7. QED
    BY <1>4, <2>3, <2>6 DEF e, less
<1>5. QED
  BY <1>2, <1>3, <1>4

\* q shares leave a position.
LEMMA ReducedSound ==
  ASSUME NEW p \in Positions, NEW q \in Nat, NEW pnl \in Int, q <= p.rem
  PROVE  /\ Reduced(p, q, pnl) \in Positions
         /\ Reduced(p, q, pnl) =
              [p EXCEPT !.rem = p.rem - q, !.realized = p.realized + pnl]
<1>1. p.rem - q \in Nat /\ p.realized + pnl \in Int
  BY DEF Positions
<1>2. QED
  BY <1>1 DEF Reduced, Positions

\* q shares leave the position, which may close, and the ledger may follow.
LEMMA ExitSound ==
  ASSUME NEW d, NEW q \in Nat, NEW price \in Nat, NEW p \in Positions, SoundDeal(d),
         q <= d.p.rem, p.rem = d.p.rem - q,
         p.realized = d.p.realized + (price - d.p.sig.entry) * q,
         p.run = d.p.run, p.sig = d.p.sig, p.qty = d.p.qty,
         p.stop = d.p.stop, p.be = d.p.be,
         p.open = d.p.open \/ (~p.open /\ p.rem = 0)
  PROVE  Step(d, SyncBrokerOnExit([d EXCEPT !.p = p], q, price,
                                  (price - d.p.sig.entry) * q), price)
<1> DEFINE pnl == (price - d.p.sig.entry) * q
           cut == [d EXCEPT !.p = p]
           e == SyncBrokerOnExit(cut, q, price, pnl)
           entry == d.p.sig.entry
<1>1. /\ d \in Deals /\ entry \in Nat /\ d.p.rem \in Nat /\ d.p.stop \in Nat
      /\ d.p.realized \in Int /\ d.cash \in Int /\ d.realized \in Int
      /\ d.lot \in Lots /\ d.lot.qty \in Nat /\ d.lot.cost \in Nat
      /\ d.lot = [qty |-> d.lot.qty, cost |-> d.lot.cost]
  BY DealTypes DEF Lots
<1>2. pnl \in Int /\ pnl = q * (price - entry)
  BY <1>1
<1>3. /\ cut \in Deals /\ cut.p = p /\ cut.cash = d.cash
      /\ cut.realized = d.realized /\ cut.lot = d.lot
  BY <1>1 DEF Deals
<1>4. /\ ~d.p.open => d.p.rem = 0
      /\ d.p.be => d.p.stop >= entry
      /\ d.p.rem > 0 => d.lot.qty >= d.p.rem /\ d.lot.cost = entry
      /\ d.lot.qty > 0 => d.lot.cost > 0
  BY DEF SoundDeal, Covers
<1> HIDE DEF pnl, cut, e, entry
<1>5. /\ e \in Deals /\ e.p = p
      /\ \/ e.cash = d.cash /\ e.realized = d.realized /\ e.lot = d.lot
         \/ /\ q # 0 /\ e.cash = d.cash + q * price
            /\ e.realized = d.realized + pnl /\ e.lot = LotLess(d.lot, q)
  <2>1. /\ e \in Deals /\ e.p = cut.p
        /\ \/ e.cash = cut.cash /\ e.realized = cut.realized /\ e.lot = cut.lot
           \/ /\ q # 0 /\ e.cash = cut.cash + q * price
              /\ e.realized = cut.realized + pnl /\ e.lot = LotLess(cut.lot, q)
    BY <1>2, <1>3, SyncSound, Zenon DEF e
  <2>2. QED
    BY <1>3, <2>1
<1>6. q # 0 => /\ d.lot.qty >= q
               /\ LotLess(d.lot, q) = Rest(d.lot, d.lot.qty - q)
               /\ LotLess(d.lot, q).qty = d.lot.qty - q
               /\ LotLess(d.lot, q).qty > 0 => LotLess(d.lot, q).cost = d.lot.cost
  BY <1>1, <1>4 DEF LotLess, Rest, NoLot
<1>7. SoundDeal(e)
  <2>1. ~p.open => p.rem = 0
    BY <1>1, <1>4
  <2>2. p.be => p.stop >= p.sig.entry
    BY <1>4 DEF entry
  <2>3. Covers(e.lot, p) /\ (e.lot.qty > 0 => e.lot.cost > 0)
    BY <1>1, <1>4, <1>5, <1>6 DEF Covers, entry
  <2>4. QED
    BY <1>5, <2>1, <2>2, <2>3 DEF SoundDeal
<1>8. ~d.p.open => q = 0 /\ pnl = 0
  BY <1>1, <1>2, <1>4
<1>9. SamePosition(d, e) /\ StopHeld(d, e)
  <2>1. ~d.p.open => ~p.open /\ p.realized = d.p.realized
    BY <1>1, <1>8 DEF pnl, entry
  <2>2. QED
    BY <1>1, <1>5, <2>1 DEF SamePosition, StopHeld
<1>10. Sold(d, e, price)
  <2>1. d.p.rem - p.rem = q
    BY <1>1
  <2>2. p.realized = d.p.realized + q * (price - entry)
    BY <1>2 DEF pnl, entry
  <2>3. CASE e.cash = d.cash /\ e.realized = d.realized /\ e.lot = d.lot
    <3>1. /\ d.lot.qty - e.lot.qty = 0 /\ e.lot = Rest(d.lot, e.lot.qty)
          /\ 0 * price = 0 /\ 0 * (price - entry) = 0
      BY <1>1, <2>3 DEF Rest
    <3>2. e.cash = d.cash + 0 * price /\ e.realized = d.realized + 0 * (price - entry)
      BY <1>1, <2>3, <3>1
    <3>3. QED
      BY <1>5, <2>1, <2>2, <3>1, <3>2 DEF Sold, entry
  <2>4. CASE /\ q # 0 /\ e.cash = d.cash + q * price
             /\ e.realized = d.realized + pnl /\ e.lot = LotLess(d.lot, q)
    <3>1. d.lot.qty - e.lot.qty = q /\ e.lot = Rest(d.lot, e.lot.qty)
      BY <1>1, <1>6, <2>4
    <3>2. e.realized = d.realized + q * (price - entry)
      BY <1>2, <2>4
    <3>3. QED
      BY <1>5, <2>1, <2>2, <2>4, <3>1, <3>2 DEF Sold, entry
  <2>5. QED
    BY <1>5, <2>3, <2>4
<1>11. QED
  BY <1>7, <1>9, <1>10 DEF Step, e, cut, pnl, entry

\* Selling part of the position, or none of it.
LEMMA ClosePartialSound ==
  ASSUME NEW d, NEW wanted \in Nat, NEW price \in Nat, SoundDeal(d)
  PROVE  Step(d, ClosePartial(d, wanted, price), price)
<1> DEFINE q   == Lower(wanted, d.p.rem)
           pnl == (price - d.p.sig.entry) * q
           p   == Reduced(d.p, q, pnl)
<1>1. CASE wanted = 0
  BY <1>1, StepReflexive DEF ClosePartial
<1>2. CASE wanted # 0
  <2>1. q \in Nat /\ q <= d.p.rem /\ pnl \in Int
    <3>1. d.p.rem \in Nat /\ d.p.sig.entry \in Nat
      BY DealTypes
    <3>2. q \in Nat /\ q <= d.p.rem
      BY <3>1 DEF Lower
    <3> HIDE DEF q
    <3>3. QED
      BY <3>1, <3>2
  <2>2. ClosePartial(d, wanted, price)
          = SyncBrokerOnExit([d EXCEPT !.p = p], q, price, (price - d.p.sig.entry) * q)
    BY <1>2 DEF ClosePartial
  <2> HIDE DEF q
  <2>3. p \in Positions
        /\ p = [d.p EXCEPT !.rem = d.p.rem - q, !.realized = d.p.realized + pnl]
    BY <2>1, DealTypes, ReducedSound
  <2>4. /\ p.rem = d.p.rem - q /\ p.realized = d.p.realized + pnl
        /\ p.run = d.p.run /\ p.sig = d.p.sig /\ p.qty = d.p.qty
        /\ p.stop = d.p.stop /\ p.be = d.p.be /\ p.open = d.p.open
    <3>1. d.p \in Positions
      BY DealTypes
    <3> HIDE DEF p, pnl
    <3>2. QED
      BY <2>3, <3>1 DEF Positions
  <2> HIDE DEF p
  <2>5. QED
    BY <2>1, <2>2, <2>3, <2>4, ExitSound DEF pnl
<1>3. QED
  BY <1>1, <1>2

\* A review writes an outcome, or nothing, and leaves everything else alone.
LEMMA ReviewSound ==
  ASSUME NEW d \in Deals, NEW unreal \in Int, NEW answered \in BOOLEAN
  PROVE  LET e == Review(d, unreal, answered)
         IN /\ e \in Deals /\ e.p = d.p /\ e.cash = d.cash
            /\ e.realized = d.realized /\ e.lot = d.lot
<1> DEFINE outcome == [key |-> KeyOf(d.p), pnl |-> d.p.realized + unreal,
                       realized |-> d.p.realized]
<1>1. d.p \in Positions /\ d.outcomes \in Seq(Outcomes)
  BY DEF Deals
<1>2. KeyOf(d.p) \in Keys /\ d.p.realized \in Int
  BY <1>1 DEF Positions, KeyOf, Keys
<1>3. outcome \in Outcomes
  BY <1>2 DEF Outcomes
<1> HIDE DEF outcome
<1>4. Append(d.outcomes, outcome) \in Seq(Outcomes)
  BY <1>1, <1>3
<1>5. CASE answered /\ ~d.dropped
  <2>1. Review(d, unreal, answered) = [d EXCEPT !.outcomes = Append(d.outcomes, outcome)]
    BY <1>5 DEF Review, outcome
  <2>2. QED
    BY <2>1, <1>4 DEF Deals
<1>6. CASE ~(answered /\ ~d.dropped)
  BY <1>6 DEF Review
<1>7. QED
  BY <1>5, <1>6

\* Closing a trade empties and closes the position.
LEMMA CloseTradeSound ==
  ASSUME NEW d, NEW price \in Nat, NEW unreal \in Int, NEW answered \in BOOLEAN,
         SoundDeal(d)
  PROVE  Step(d, CloseTrade(d, price, unreal, answered), price)
<1> DEFINE q   == d.p.rem
           pnl == (price - d.p.sig.entry) * q
           r   == Reduced(d.p, q, pnl)
           p   == Closed(r)
           led == SyncBrokerOnExit([d EXCEPT !.p = p], q, price, pnl)
<1>1. q \in Nat /\ q <= d.p.rem /\ pnl \in Int /\ d.p \in Positions
  BY DealTypes
<1>2. CloseTrade(d, price, unreal, answered) = Review(led, unreal, answered)
  BY DEF CloseTrade
<1>3. /\ r \in Positions
      /\ r = [d.p EXCEPT !.rem = d.p.rem - q, !.realized = d.p.realized + pnl]
  BY <1>1, ReducedSound
<1>4. p = [r EXCEPT !.open = FALSE]
  BY DEF Closed
<1> HIDE DEF r, p, led, pnl
<1>5. /\ r.rem = d.p.rem - q /\ r.realized = d.p.realized + pnl
      /\ r.run = d.p.run /\ r.sig = d.p.sig /\ r.qty = d.p.qty
      /\ r.stop = d.p.stop /\ r.be = d.p.be
  BY <1>1, <1>3 DEF Positions
<1>6. /\ p \in Positions /\ p.rem = d.p.rem - q /\ p.realized = d.p.realized + pnl
      /\ p.run = d.p.run /\ p.sig = d.p.sig /\ p.qty = d.p.qty
      /\ p.stop = d.p.stop /\ p.be = d.p.be /\ ~p.open
  BY <1>3, <1>4, <1>5 DEF Positions
<1>7. p.rem = 0
  BY <1>1, <1>6
<1>8. Step(d, led, price)
  BY <1>1, <1>6, <1>7, ExitSound DEF led, pnl
<1>9. led \in Deals
  BY <1>8 DEF Step, SoundDeal
<1>10. QED
  BY <1>2, <1>8, <1>9, ReviewSound, StepAside

\* The engine is asked for, and closes the trade.
LEMMA EngineClosesSound ==
  ASSUME NEW d, NEW price \in Nat, NEW unreal \in Int, NEW answered \in BOOLEAN,
         SoundDeal(d)
  PROVE  Step(d, EngineCloses(d, price, unreal, answered), price)
<1>1. d \in Deals /\ d.left \in Nat
  BY DealTypes
<1>2. CASE d.left = 0
  <2>1. EngineCloses(d, price, unreal, answered) = [d EXCEPT !.dropped = TRUE]
    BY <1>2 DEF EngineCloses, Dropped
  <2> DEFINE e == [d EXCEPT !.dropped = TRUE]
  <2>2. /\ e \in Deals /\ e.p = d.p /\ e.cash = d.cash
        /\ e.realized = d.realized /\ e.lot = d.lot
    BY <1>1 DEF Deals
  <2> HIDE DEF e
  <2>3. QED
    BY <2>1, <2>2, StepReflexive, StepAside DEF e
<1>3. CASE d.left # 0
  <2> DEFINE e == [d EXCEPT !.left = d.left - 1]
  <2>1. d.left - 1 \in Nat
    BY <1>1, <1>3
  <2>2. /\ e \in Deals /\ e.p = d.p /\ e.cash = d.cash
        /\ e.realized = d.realized /\ e.lot = d.lot
    BY <1>1, <2>1 DEF Deals
  <2>3. EngineCloses(d, price, unreal, answered) = CloseTrade(e, price, unreal, answered)
    BY <1>3 DEF EngineCloses
  <2> HIDE DEF e
  <2>4. Step(d, e, price) /\ SoundDeal(e)
    BY <2>2, StepReflexive, StepAside DEF Step
  <2>5. QED
    BY <2>3, <2>4, CloseTradeSound, StepTransitive
<1>4. QED
  BY <1>2, <1>3

-----------------------------------------------------------------------------
\* A change of the position that keeps its size and its trade, and does not
\* lower its stop unless it sets break-even, is a step.
LEMMA PositionStep ==
  ASSUME NEW d, NEW price \in Nat, SoundDeal(d), NEW p \in Positions,
         p.run = d.p.run, p.sig = d.p.sig, p.qty = d.p.qty, p.rem = d.p.rem,
         p.open = d.p.open, p.realized = d.p.realized,
         d.p.be => p.be /\ p.stop >= d.p.stop,
         p.be => p.stop >= p.sig.entry,
         p.stop >= d.p.stop \/ p.be
  PROVE  Step(d, [d EXCEPT !.p = p], price)
<1> DEFINE e == [d EXCEPT !.p = p]
<1>1. /\ e \in Deals /\ e.p = p /\ e.cash = d.cash
      /\ e.realized = d.realized /\ e.lot = d.lot
  BY DealTypes DEF Deals
<1> HIDE DEF e
<1>2. SoundDeal(e)
  BY <1>1 DEF SoundDeal, Covers
<1>3. SamePosition(d, e) /\ StopHeld(d, e)
  BY <1>1, DealTypes DEF SamePosition, StopHeld
<1>4. Sold(d, e, price)
  BY <1>1, NothingSold
<1>5. QED
  BY <1>2, <1>3, <1>4 DEF Step, e

\* Raising the trailing stop is a step.
LEMMA MoveStopSound ==
  ASSUME NEW d, NEW price \in Nat, NEW level \in Nat, SoundDeal(d)
  PROVE  Step(d, MoveStop(d, level), price)
<1>1. d.p.be => d.p.stop >= d.p.sig.entry
  BY DEF SoundDeal
<1>2. /\ Raised(d.p, level) \in Positions
      /\ Raised(d.p, level).run = d.p.run /\ Raised(d.p, level).sig = d.p.sig
      /\ Raised(d.p, level).qty = d.p.qty /\ Raised(d.p, level).rem = d.p.rem
      /\ Raised(d.p, level).open = d.p.open
      /\ Raised(d.p, level).realized = d.p.realized
      /\ Raised(d.p, level).be = d.p.be
      /\ Raised(d.p, level).stop >= d.p.stop
  <2>1. d.p \in Positions /\ d.p.stop \in Nat
    BY DealTypes
  <2>2. QED
    BY <2>1 DEF Raised, Positions
<1>3. Raised(d.p, level).be => Raised(d.p, level).stop >= Raised(d.p, level).sig.entry
  <2>1. d.p.stop \in Nat /\ d.p.sig.entry \in Nat /\ Raised(d.p, level).stop \in Nat
    BY <1>2, DealTypes DEF Positions
  <2>2. QED
    BY <1>1, <1>2, <2>1
<1>4. QED
  BY <1>2, <1>3, PositionStep DEF MoveStop

\* Marking a target as hit is a step, with or without break-even.
LEMMA Hit1Sound ==
  ASSUME NEW d, NEW price \in Nat, SoundDeal(d)
  PROVE  Step(d, [d EXCEPT !.p = BrokenEven(Hit1(d.p))], price)
<1> DEFINE p == BrokenEven(Hit1(d.p))
<1>1. d.p \in Positions /\ d.p.sig.entry \in Nat /\ d.p.stop \in Nat
  BY DealTypes
<1>2. d.p.be => d.p.stop >= d.p.sig.entry
  BY DEF SoundDeal
<1>3. /\ Hit1(d.p) \in Positions
      /\ Hit1(d.p).run = d.p.run /\ Hit1(d.p).sig = d.p.sig
      /\ Hit1(d.p).qty = d.p.qty /\ Hit1(d.p).rem = d.p.rem
      /\ Hit1(d.p).open = d.p.open /\ Hit1(d.p).realized = d.p.realized
      /\ Hit1(d.p).be = d.p.be /\ Hit1(d.p).stop = d.p.stop
  BY <1>1 DEF Hit1, Positions
<1>4. /\ p \in Positions
      /\ p.run = d.p.run /\ p.sig = d.p.sig /\ p.qty = d.p.qty /\ p.rem = d.p.rem
      /\ p.open = d.p.open /\ p.realized = d.p.realized /\ p.be
      /\ p.stop = IF d.p.be THEN d.p.stop ELSE d.p.sig.entry
  <2>1. CASE d.p.be
    BY <2>1, <1>3 DEF BrokenEven
  <2>2. CASE ~d.p.be
    <3>1. p = [Hit1(d.p) EXCEPT !.be = TRUE, !.stop = d.p.sig.entry]
      BY <2>2, <1>3 DEF BrokenEven
    <3> HIDE DEF p
    <3>2. QED
      BY <3>1, <2>2, <1>1, <1>3 DEF Positions
  <2>3. QED
    BY <2>1, <2>2
<1> HIDE DEF p
<1>5. p.stop >= p.sig.entry /\ (d.p.be => p.stop >= d.p.stop)
  BY <1>1, <1>2, <1>4
<1>6. QED
  BY <1>4, <1>5, PositionStep DEF p

LEMMA Hit23Sound ==
  ASSUME NEW d, NEW price \in Nat, SoundDeal(d)
  PROVE  /\ Step(d, [d EXCEPT !.p = Hit2(d.p)], price)
         /\ Step(d, [d EXCEPT !.p = Hit3(d.p)], price)
<1>1. d.p \in Positions /\ d.p.sig.entry \in Nat /\ d.p.stop \in Nat
  BY DealTypes
<1>2. d.p.be => d.p.stop >= d.p.sig.entry
  BY DEF SoundDeal
<1>3. /\ Hit2(d.p) \in Positions
      /\ Hit2(d.p).run = d.p.run /\ Hit2(d.p).sig = d.p.sig
      /\ Hit2(d.p).qty = d.p.qty /\ Hit2(d.p).rem = d.p.rem
      /\ Hit2(d.p).open = d.p.open /\ Hit2(d.p).realized = d.p.realized
      /\ Hit2(d.p).be = d.p.be /\ Hit2(d.p).stop = d.p.stop
  BY <1>1 DEF Hit2, Positions
<1>4. /\ Hit3(d.p) \in Positions
      /\ Hit3(d.p).run = d.p.run /\ Hit3(d.p).sig = d.p.sig
      /\ Hit3(d.p).qty = d.p.qty /\ Hit3(d.p).rem = d.p.rem
      /\ Hit3(d.p).open = d.p.open /\ Hit3(d.p).realized = d.p.realized
      /\ Hit3(d.p).be = d.p.be /\ Hit3(d.p).stop = d.p.stop
  BY <1>1 DEF Hit3, Positions
<1>5. d.p.stop >= d.p.stop
  BY <1>1
<1>6. Step(d, [d EXCEPT !.p = Hit2(d.p)], price)
  BY <1>2, <1>3, <1>5, PositionStep
<1>7. Step(d, [d EXCEPT !.p = Hit3(d.p)], price)
  BY <1>2, <1>4, <1>5, PositionStep
<1>8. QED
  BY <1>6, <1>7

-----------------------------------------------------------------------------
\* The three targets.
LEMMA CheckTarget1Sound ==
  ASSUME NEW d, NEW price \in Nat, SoundDeal(d)
  PROVE  Step(d, CheckTarget1(d, price), price)
<1> DEFINE sold == ClosePartial(d, QuarterOf(d.p.qty), price)
<1>1. CASE d.p.hit1 \/ price < d.p.sig.t1
  BY <1>1, StepReflexive DEF CheckTarget1
<1>2. Step(d, sold, price)
  <2>1. QuarterOf(d.p.qty) \in Nat
    BY DealTypes DEF QuarterOf, Higher
  <2>2. QED
    BY <2>1, ClosePartialSound
<1>3. CASE ~(d.p.hit1 \/ price < d.p.sig.t1)
  <2>1. CheckTarget1(d, price)
          = IF sold.dropped THEN sold ELSE [sold EXCEPT !.p = BrokenEven(Hit1(sold.p))]
    BY <1>3 DEF CheckTarget1
  <2> HIDE DEF sold
  <2>2. Step(sold, [sold EXCEPT !.p = BrokenEven(Hit1(sold.p))], price)
    BY <1>2, Hit1Sound DEF Step
  <2>3. QED
    BY <1>2, <2>1, <2>2, StepTransitive
<1>4. QED
  BY <1>1, <1>3

LEMMA CheckTarget2Sound ==
  ASSUME NEW d, NEW price \in Nat, SoundDeal(d)
  PROVE  Step(d, CheckTarget2(d, price), price)
<1> DEFINE sold == ClosePartial(d, ThirtyFiveOf(d.p.qty), price)
           idle == d.dropped \/ d.p.hit2 \/ d.p.sig.t2 = 0 \/ price < d.p.sig.t2
<1>1. CASE idle
  BY <1>1, StepReflexive DEF CheckTarget2
<1>2. Step(d, sold, price)
  <2>1. ThirtyFiveOf(d.p.qty) \in Nat
    BY DealTypes DEF ThirtyFiveOf, Higher
  <2>2. QED
    BY <2>1, ClosePartialSound
<1>3. CASE ~idle
  <2>1. CheckTarget2(d, price)
          = IF sold.dropped THEN sold ELSE [sold EXCEPT !.p = Hit2(sold.p)]
    BY <1>3 DEF CheckTarget2
  <2> HIDE DEF sold
  <2>2. Step(sold, [sold EXCEPT !.p = Hit2(sold.p)], price)
    BY <1>2, Hit23Sound DEF Step
  <2>3. QED
    BY <1>2, <2>1, <2>2, StepTransitive
<1>4. QED
  BY <1>1, <1>3

LEMMA CheckTarget3Sound ==
  ASSUME NEW d, NEW price \in Nat, NEW unreal \in Int, NEW answered \in BOOLEAN,
         SoundDeal(d)
  PROVE  Step(d, CheckTarget3(d, price, unreal, answered), price)
<1> DEFINE idle == d.dropped \/ d.p.hit3 \/ d.p.sig.t3 = 0 \/ price < d.p.sig.t3
           marked == [d EXCEPT !.p = Hit3(d.p)]
<1>1. CASE idle
  BY <1>1, StepReflexive DEF CheckTarget3
<1>2. CASE ~idle
  <2>1. Step(d, marked, price) /\ SoundDeal(marked)
    BY Hit23Sound DEF Step
  <2>2. CheckTarget3(d, price, unreal, answered)
          = EngineCloses(marked, price, unreal, answered)
    BY <1>2 DEF CheckTarget3
  <2> HIDE DEF marked
  <2>3. Step(marked, CheckTarget3(d, price, unreal, answered), price)
    BY <2>1, <2>2, EngineClosesSound
  <2>4. QED
    BY <2>1, <2>3, StepTransitive
<1>3. QED
  BY <1>1, <1>2

-----------------------------------------------------------------------------
\* A price the market shows, through the stop and the targets, however far the
\* script comes.
THEOREM CheckExitsSound ==
  ASSUME NEW d, NEW price \in Nat, NEW answered \in BOOLEAN, SoundDeal(d)
  PROVE  Step(d, CheckExits(d, price, answered), price)
<1> DEFINE unreal == Unrealized(d.p, price)
           one == CheckTarget1(d, price)
           two == CheckTarget2(one, price)
<1>1. unreal \in Int
  BY DealTypes DEF Unrealized
<1> HIDE DEF unreal
<1>2. CASE StopHit(d.p, price)
  <2>1. CheckExits(d, price, answered) = EngineCloses(d, price, unreal, answered)
    BY <1>2 DEF CheckExits, unreal
  <2>2. QED
    BY <1>1, <2>1, EngineClosesSound
<1>3. CASE ~StopHit(d.p, price)
  <2>1. CheckExits(d, price, answered) = CheckTarget3(two, price, unreal, answered)
    BY <1>3 DEF CheckExits, unreal
  <2>2. Step(d, one, price) /\ SoundDeal(one)
    BY CheckTarget1Sound DEF Step
  <2> HIDE DEF one
  <2>3. Step(one, two, price) /\ SoundDeal(two)
    BY <2>2, CheckTarget2Sound DEF Step
  <2> HIDE DEF two
  <2>4. Step(two, CheckExits(d, price, answered), price)
    BY <1>1, <2>1, <2>3, CheckTarget3Sound
  <2>5. Step(d, two, price)
    BY <2>2, <2>3, StepTransitive
  <2>6. QED
    BY <2>4, <2>5, StepTransitive
<1>4. QED
  BY <1>2, <1>3

\* The same, followed by the trailing stop.
THEOREM ManagePositionSound ==
  ASSUME NEW d, NEW price \in Nat, NEW level \in Nat, NEW answered \in BOOLEAN,
         SoundDeal(d)
  PROVE  Step(d, ManagePosition(d, price, level, answered), price)
<1> DEFINE e == CheckExits(d, price, answered)
<1>1. Step(d, e, price) /\ SoundDeal(e)
  BY CheckExitsSound DEF Step
<1>2. ManagePosition(d, price, level, answered)
        = IF StopHit(d.p, price) \/ e.dropped THEN e ELSE MoveStop(e, level)
  BY DEF ManagePosition
<1> HIDE DEF e
<1>3. Step(e, MoveStop(e, level), price)
  BY <1>1, MoveStopSound
<1>4. QED
  BY <1>1, <1>2, <1>3, StepTransitive

-----------------------------------------------------------------------------
(***************************************************************************)
(* The session and the file.                                               *)
(***************************************************************************)

TradeOf(p) == [key |-> KeyOf(p), realized |-> p.realized]

\* The archived trades, without their order and their repetitions.
Archive(a) == {a.history[i] : i \in DOMAIN a.history}

\* Every position of an account, with its lot, is one the engine can meet.
SoundAccount(a) ==
  \A s \in Symbols :
    /\ a.lots[s].qty > 0 => a.lots[s].cost > 0
    /\ Has(a, s) =>
         /\ ~a.pos[s].open => a.pos[s].rem = 0
         /\ a.pos[s].be => a.pos[s].stop >= a.pos[s].sig.entry
         /\ Covers(a.lots[s], a.pos[s])

\* The position of s is closed and archived, as the monitor loop removes it.
Settled(a, s) == Has(a, s) /\ ~a.pos[s].open /\ TradeOf(a.pos[s]) \in Archive(a)

\* The monitor loop visits positions there are and removes settled ones; the file
\* never knows an order that the session has forgotten.
Safe ==
  /\ TypeOK
  /\ SoundAccount(session)
  /\ SoundAccount(saved)
  /\ \A s \in pass.todo : Has(session, s)
  /\ \A s \in pass.remove : Settled(session, s)
  /\ ~pass.on => pass.todo = {} /\ pass.remove = {}
  /\ confirmed \subseteq saved.orders
  /\ saved.orders \subseteq session.orders

\* What a fill makes of the account a, finished or not.
FilledFrom(a, b) ==
  \E sg \in Signals : MayFill(a, sg) /\ (b = Filled(a, sg) \/ b = Bought(a, sg))

\* What a management call makes of it, up to the place where it is abandoned.
ManagedFrom(a, b) ==
  \E s \in Symbols, price \in Prices, left \in Nat, d \in Deals :
    /\ Has(a, s)
    /\ Step(DealOf(a, s, left), d, price)
    /\ \/ b = Booked(a, s, d)
       \/ b = Filed(Booked(a, s, d), s)
       \/ ~d.p.open /\ b = Removed(Filed(Booked(a, s, d), s), {s})

\* What the removals of a monitor loop make of it.
ClearedFrom(a, b) ==
  \E ss \in SUBSET Symbols : (\A s \in ss : Settled(a, s)) /\ b = Removed(a, ss)

-----------------------------------------------------------------------------
\* The fields of an account.
LEMMA AccountTypes ==
  ASSUME NEW a \in Accounts
  PROVE  /\ a.pos \in [Symbols -> Positions \cup {NoPosition}]
         /\ a.cash \in Int /\ a.realized \in Int /\ a.writtenOff \in Nat
         /\ a.lots \in [Symbols -> Lots]
         /\ a.orders \in SUBSET Keys
         /\ a.history \in Seq(Trades)
         /\ \A s \in Symbols :
              /\ a.lots[s] \in Lots /\ a.lots[s].qty \in Nat /\ a.lots[s].cost \in Nat
              /\ Has(a, s) => /\ a.pos[s] \in Positions /\ a.pos[s].rem \in Nat
                              /\ a.pos[s].realized \in Int /\ a.pos[s].stop \in Nat
BY DEF Accounts, Has, Lots, Positions

\* A position of an account, taken together with the ledger, is a sound deal.
LEMMA DealSound ==
  ASSUME NEW a \in Accounts, NEW s \in Symbols, NEW left \in Nat, SoundAccount(a),
         Has(a, s), outcomes \in Seq(Outcomes)
  PROVE  /\ SoundDeal(DealOf(a, s, left))
         /\ DealOf(a, s, left).p = a.pos[s]
         /\ DealOf(a, s, left).lot = a.lots[s]
         /\ DealOf(a, s, left).cash = a.cash
         /\ DealOf(a, s, left).realized = a.realized
<1>1. DealOf(a, s, left) \in Deals
  BY AccountTypes DEF DealOf, Deals
<1>2. DealOf(a, s, left).p = a.pos[s] /\ DealOf(a, s, left).lot = a.lots[s]
  BY DEF DealOf
<1>3. QED
  BY <1>1, <1>2 DEF SoundDeal, SoundAccount, DealOf

\* What a management call leaves of the account.
LEMMA BookedSound ==
  ASSUME NEW a \in Accounts, NEW s \in Symbols, SoundAccount(a), Has(a, s),
         NEW d, SoundDeal(d)
  PROVE  /\ Booked(a, s, d) \in Accounts
         /\ SoundAccount(Booked(a, s, d))
         /\ Has(Booked(a, s, d), s)
         /\ Booked(a, s, d).cash = d.cash
         /\ Booked(a, s, d).realized = d.realized
         /\ Booked(a, s, d).orders = a.orders
         /\ Booked(a, s, d).history = a.history
         /\ Booked(a, s, d).writtenOff = a.writtenOff
         /\ d.p \in Positions /\ d.p # NoPosition
<1>1. /\ d.p \in Positions /\ d.cash \in Int /\ d.realized \in Int /\ d.lot \in Lots
  BY DealTypes
<1>2. d.p # NoPosition
  BY <1>1, NoPositionAssumption
<1> DEFINE b == Booked(a, s, d)
           pos == [a.pos EXCEPT ![s] = d.p]
           lots == [a.lots EXCEPT ![s] = d.lot]
<1>3. pos \in [Symbols -> Positions \cup {NoPosition}] /\ lots \in [Symbols -> Lots]
  BY <1>1, AccountTypes
<1>4. b = [a EXCEPT !.pos = pos, !.cash = d.cash, !.realized = d.realized, !.lots = lots]
  BY DEF Booked
<1>5. /\ b \in Accounts
      /\ b.pos = pos /\ b.lots = lots /\ b.cash = d.cash /\ b.realized = d.realized
      /\ b.orders = a.orders /\ b.history = a.history /\ b.writtenOff = a.writtenOff
  <2> HIDE DEF b, pos, lots
  <2>1. QED
    BY <1>1, <1>3, <1>4 DEF Accounts
<1> HIDE DEF b
<1>6. \A t \in Symbols : /\ b.pos[t] = IF t = s THEN d.p ELSE a.pos[t]
                         /\ b.lots[t] = IF t = s THEN d.lot ELSE a.lots[t]
                         /\ Has(b, t) <=> Has(a, t)
  BY <1>2, <1>5, AccountTypes DEF Has
<1>7. SoundAccount(b)
  BY <1>6 DEF SoundAccount, SoundDeal
<1>8. QED
  BY <1>1, <1>2, <1>5, <1>6, <1>7 DEF b

\* The same, for one symbol.
LEMMA BookedAt ==
  ASSUME NEW a \in Accounts, NEW s \in Symbols, SoundAccount(a), Has(a, s),
         NEW d, SoundDeal(d), NEW t \in Symbols
  PROVE  /\ Booked(a, s, d).pos[t] = IF t = s THEN d.p ELSE a.pos[t]
         /\ Booked(a, s, d).lots[t] = IF t = s THEN d.lot ELSE a.lots[t]
         /\ Has(Booked(a, s, d), t) <=> Has(a, t)
<1> DEFINE b == Booked(a, s, d)
<1>1. /\ b.pos = [a.pos EXCEPT ![s] = d.p] /\ b.lots = [a.lots EXCEPT ![s] = d.lot]
      /\ a.pos \in [Symbols -> Positions \cup {NoPosition}]
      /\ a.lots \in [Symbols -> Lots]
  BY AccountTypes DEF Accounts, Booked
<1>2. d.p # NoPosition
  BY DealTypes, NoPositionAssumption
<1> HIDE DEF b
<1>3. QED
  BY <1>1, <1>2 DEF Has, b

\* The archive gets the position when it is closed.
LEMMA FiledSound ==
  ASSUME NEW a \in Accounts, NEW s \in Symbols, SoundAccount(a), Has(a, s)
  PROVE  /\ Filed(a, s) \in Accounts
         /\ SoundAccount(Filed(a, s))
         /\ Filed(a, s).pos = a.pos /\ Filed(a, s).lots = a.lots
         /\ Filed(a, s).cash = a.cash /\ Filed(a, s).realized = a.realized
         /\ Filed(a, s).orders = a.orders /\ Filed(a, s).writtenOff = a.writtenOff
         /\ \A t : Has(Filed(a, s), t) <=> Has(a, t)
         /\ Archive(Filed(a, s))
              = Archive(a) \cup (IF a.pos[s].open THEN {} ELSE {TradeOf(a.pos[s])})
         /\ \/ Filed(a, s).history = a.history
            \/ \E t : Filed(a, s).history = Append(a.history, t)
<1> DEFINE b == Filed(a, s)
           p == a.pos[s]
           n == Len(a.history)
<1>1. p \in Positions /\ a.history \in Seq(Trades)
  BY AccountTypes
<1>2. TradeOf(p) \in Trades
  BY <1>1 DEF TradeOf, KeyOf, Keys, Trades, Positions
<1>3. b = [a EXCEPT !.history = IF p.open THEN a.history
                                ELSE Append(a.history, TradeOf(p))]
  BY DEF Filed, Archived, TradeOf
<1> DEFINE longer == Append(a.history, TradeOf(p))
<1>4. longer \in Seq(Trades)
  BY <1>1, <1>2
<1> HIDE DEF b, longer
<1>5. /\ b \in Accounts /\ b.pos = a.pos /\ b.lots = a.lots /\ b.cash = a.cash
      /\ b.realized = a.realized /\ b.orders = a.orders /\ b.writtenOff = a.writtenOff
      /\ b.history = IF p.open THEN a.history ELSE longer
  BY <1>1, <1>3, <1>4 DEF Accounts, longer
<1>6. SoundAccount(b) /\ \A t : Has(b, t) <=> Has(a, t)
  BY <1>5 DEF SoundAccount, Has
<1>7. Archive(b) = Archive(a) \cup (IF p.open THEN {} ELSE {TradeOf(p)})
  <2>1. CASE p.open
    BY <1>5, <2>1 DEF Archive
  <2>2. CASE ~p.open
    <3>1. /\ DOMAIN a.history = 1 .. n /\ n \in Nat /\ DOMAIN longer = 1 .. n + 1
          /\ \A i \in 1 .. n : longer[i] = a.history[i]
          /\ longer[n + 1] = TradeOf(p)
      BY <1>1, <1>2 DEF longer
    <3> HIDE DEF n
    <3>2. {longer[i] : i \in 1 .. n + 1} = {a.history[i] : i \in 1 .. n} \cup {TradeOf(p)}
      <4>1. \A i \in 1 .. n + 1 : i \in 1 .. n \/ i = n + 1
        BY <3>1
      <4>2. (\A i \in 1 .. n : i \in 1 .. n + 1) /\ n + 1 \in 1 .. n + 1
        BY <3>1
      <4>3. QED
        BY <3>1, <4>1, <4>2
    <3>3. QED
      BY <1>5, <2>2, <3>1, <3>2 DEF Archive
  <2>3. QED
    BY <2>1, <2>2
<1>8. b.history = a.history \/ \E t : b.history = Append(a.history, t)
  BY <1>5 DEF longer
<1>9. QED
  BY <1>5, <1>6, <1>7, <1>8 DEF b

\* What removing positions leaves of the account.
LEMMA RemovedSound ==
  ASSUME NEW a \in Accounts, NEW ss, SoundAccount(a)
  PROVE  /\ Removed(a, ss) \in Accounts
         /\ SoundAccount(Removed(a, ss))
         /\ \A s \in Symbols :
              /\ Removed(a, ss).pos[s] = IF s \in ss THEN NoPosition ELSE a.pos[s]
              /\ Has(Removed(a, ss), s) <=> Has(a, s) /\ s \notin ss
         /\ Removed(a, ss).lots = a.lots
         /\ Removed(a, ss).cash = a.cash
         /\ Removed(a, ss).realized = a.realized
         /\ Removed(a, ss).orders = a.orders
         /\ Removed(a, ss).history = a.history
         /\ Removed(a, ss).writtenOff = a.writtenOff
<1> DEFINE b == Removed(a, ss)
           pos == [s \in Symbols |-> IF s \in ss THEN NoPosition ELSE a.pos[s]]
<1>1. pos \in [Symbols -> Positions \cup {NoPosition}]
  BY AccountTypes
<1>2. b = [a EXCEPT !.pos = pos]
  BY DEF Removed
<1>3. /\ b \in Accounts
      /\ b.pos = pos /\ b.lots = a.lots /\ b.cash = a.cash /\ b.realized = a.realized
      /\ b.orders = a.orders /\ b.history = a.history /\ b.writtenOff = a.writtenOff
  <2> HIDE DEF b, pos
  <2>1. QED
    BY <1>1, <1>2 DEF Accounts
<1> HIDE DEF b
<1>4. \A s \in Symbols : /\ b.pos[s] = IF s \in ss THEN NoPosition ELSE a.pos[s]
                         /\ Has(b, s) <=> Has(a, s) /\ s \notin ss
  BY <1>3 DEF Has
<1>5. SoundAccount(b)
  BY <1>3, <1>4 DEF SoundAccount
<1>6. QED
  BY <1>3, <1>4, <1>5 DEF b

\* What a fill buys.
LEMMA FillTypes ==
  ASSUME NEW a \in Accounts, NEW sg \in Signals, MayFill(a, sg), run \in Nat
  PROVE  /\ FillQty(sg) \in Nat \ {0} /\ sg.sym \in Symbols /\ sg.entry \in Nat \ {0}
         /\ FillQty(sg) * sg.entry \in Nat \ {0}
         /\ Opened(run, sg, FillQty(sg)) \in Positions
         /\ Opened(run, sg, FillQty(sg)) # NoPosition
         /\ <<run, sg>> \in Keys
         /\ LotCost(a.lots[sg.sym]) \in Nat
<1>1. /\ sg \in SignalFields
      /\ sg.sym \in Symbols /\ sg.entry \in Nat /\ sg.qty \in Nat /\ sg.stop \in Nat
  BY SignalsAssumption DEF SignalFields
<1>2. FillQty(sg) \in Nat \ {0} /\ sg.entry \in Nat \ {0}
  <2>1. FillQty(sg) \in Int
    BY <1>1 DEF FillQty, Higher
  <2>2. FillQty(sg) > 0 /\ sg.entry > 0
    BY DEF MayFill
  <2> HIDE DEF FillQty
  <2>3. QED
    BY <1>1, <2>1, <2>2
<1> DEFINE q == FillQty(sg)
<1> HIDE DEF q
<1>3. q * sg.entry \in Nat \ {0}
  BY <1>2 DEF q
<1>4. Opened(run, sg, q) \in Positions
  BY <1>1, <1>2 DEF Opened, Positions, q
<1>5. LotCost(a.lots[sg.sym]) \in Nat
  <2>1. a.lots[sg.sym].qty \in Nat /\ a.lots[sg.sym].cost \in Nat
    BY <1>1, AccountTypes
  <2>2. QED
    BY <2>1 DEF LotCost
<1>6. QED
  BY <1>1, <1>2, <1>3, <1>4, <1>5, NoPositionAssumption DEF Keys, q

\* A fill that is abandoned: an order, a debit and a lot without a position.
LEMMA BoughtSound ==
  ASSUME NEW a \in Accounts, NEW sg \in Signals, SoundAccount(a), MayFill(a, sg), run \in Nat
  PROVE  /\ Bought(a, sg) \in Accounts
         /\ SoundAccount(Bought(a, sg))
         /\ Bought(a, sg).pos = a.pos
         /\ Bought(a, sg).lots =
              [a.lots EXCEPT ![sg.sym] = [qty |-> FillQty(sg), cost |-> sg.entry]]
         /\ \A t \in Symbols : Bought(a, sg).lots[t] =
              IF t = sg.sym THEN [qty |-> FillQty(sg), cost |-> sg.entry] ELSE a.lots[t]
         /\ Bought(a, sg).cash = a.cash - FillQty(sg) * sg.entry
         /\ Bought(a, sg).realized = a.realized
         /\ Bought(a, sg).orders = a.orders \cup {<<run, sg>>}
         /\ Bought(a, sg).history = a.history
         /\ Bought(a, sg).writtenOff = a.writtenOff + LotCost(a.lots[sg.sym])
<1> DEFINE b == Bought(a, sg)
           q == FillQty(sg)
           lot == [qty |-> q, cost |-> sg.entry]
           lots == [a.lots EXCEPT ![sg.sym] = lot]
           orders == a.orders \cup {<<run, sg>>}
           cash == a.cash - q * sg.entry
           lost == a.writtenOff + LotCost(a.lots[sg.sym])
<1>1. b = [a EXCEPT !.orders = orders, !.cash = cash, !.lots = lots, !.writtenOff = lost]
  BY DEF Bought
<1> HIDE DEF q
<1>2. /\ q \in Nat \ {0} /\ sg.sym \in Symbols /\ sg.entry \in Nat \ {0}
      /\ q * sg.entry \in Nat \ {0} /\ <<run, sg>> \in Keys
      /\ LotCost(a.lots[sg.sym]) \in Nat
  BY FillTypes DEF q
<1>3. lot \in Lots
  BY <1>2 DEF Lots
<1>4. lots \in [Symbols -> Lots] /\ orders \in SUBSET Keys
  <2> HIDE DEF lot
  <2>1. QED
    BY <1>2, <1>3, AccountTypes
<1>5. cash \in Int /\ lost \in Nat
  <2>1. a.cash \in Int /\ a.writtenOff \in Nat /\ q * sg.entry \in Int
    BY <1>2, AccountTypes
  <2>2. QED
    BY <1>2, <2>1
<1>6. /\ b \in Accounts
      /\ b.pos = a.pos /\ b.lots = lots /\ b.cash = cash /\ b.realized = a.realized
      /\ b.orders = orders /\ b.history = a.history /\ b.writtenOff = lost
  <2> HIDE DEF b, lots, orders, cash, lost
  <2>1. QED
    BY <1>1, <1>4, <1>5 DEF Accounts
<1> HIDE DEF b
<1>7. \A t \in Symbols : b.lots[t] = IF t = sg.sym THEN lot ELSE a.lots[t]
  BY <1>2, <1>6, AccountTypes
<1>8. SoundAccount(b)
  <2>1. ~Has(a, sg.sym)
    BY DEF MayFill
  <2>2. ASSUME NEW t \in Symbols
        PROVE  /\ b.lots[t].qty > 0 => b.lots[t].cost > 0
               /\ Has(b, t) => Has(a, t) /\ b.lots[t] = a.lots[t] /\ b.pos[t] = a.pos[t]
    BY <1>2, <1>6, <1>7, <2>1 DEF Has, SoundAccount
  <2>3. QED
    BY <2>2 DEF SoundAccount
<1>9. QED
  BY <1>6, <1>7, <1>8 DEF b, q

\* A fill adds one open position to that.
LEMMA FilledSound ==
  ASSUME NEW a \in Accounts, NEW sg \in Signals, SoundAccount(a), MayFill(a, sg), run \in Nat
  PROVE  /\ Filled(a, sg) \in Accounts
         /\ SoundAccount(Filled(a, sg))
         /\ Filled(a, sg) = [Bought(a, sg) EXCEPT !.pos = Filled(a, sg).pos]
         /\ Filled(a, sg).lots = Bought(a, sg).lots
         /\ Filled(a, sg).cash = Bought(a, sg).cash
         /\ Filled(a, sg).realized = a.realized
         /\ Filled(a, sg).orders = a.orders \cup {<<run, sg>>}
         /\ Filled(a, sg).history = a.history
         /\ Filled(a, sg).writtenOff = Bought(a, sg).writtenOff
         /\ \A t \in Symbols :
              /\ Filled(a, sg).pos[t] =
                   IF t = sg.sym THEN Opened(run, sg, FillQty(sg)) ELSE a.pos[t]
              /\ Has(Filled(a, sg), t) <=> Has(a, t) \/ t = sg.sym
<1> DEFINE b == Filled(a, sg)
           c == Bought(a, sg)
           p == Opened(run, sg, FillQty(sg))
           pos == [a.pos EXCEPT ![sg.sym] = p]
<1>1. b = [c EXCEPT !.pos = pos]
  BY DEF Filled
<1>2. /\ c \in Accounts /\ SoundAccount(c) /\ c.realized = a.realized
      /\ c.orders = a.orders \cup {<<run, sg>>} /\ c.history = a.history
      /\ c.pos = a.pos
      /\ c.lots[sg.sym] = [qty |-> FillQty(sg), cost |-> sg.entry]
      /\ sg.sym \in Symbols
  BY BoughtSound, FillTypes
<1>3. p \in Positions /\ p # NoPosition /\ FillQty(sg) \in Nat \ {0}
  BY FillTypes
<1>4. p.open /\ ~p.be /\ Covers(c.lots[sg.sym], p)
  BY <1>2, <1>3 DEF Opened, Covers
<1> HIDE DEF c, p
<1>5. pos \in [Symbols -> Positions \cup {NoPosition}]
  BY <1>2, <1>3, AccountTypes
<1>6. /\ b \in Accounts /\ b.pos = pos
      /\ b.lots = c.lots /\ b.cash = c.cash /\ b.realized = c.realized
      /\ b.orders = c.orders /\ b.history = c.history /\ b.writtenOff = c.writtenOff
  <2> HIDE DEF b, pos
  <2>1. QED
    BY <1>1, <1>2, <1>5 DEF Accounts
<1>7. b = [c EXCEPT !.pos = b.pos]
  BY <1>1, <1>6
<1> HIDE DEF b
<1>8. \A t \in Symbols : /\ b.pos[t] = IF t = sg.sym THEN p ELSE a.pos[t]
                         /\ Has(b, t) <=> Has(a, t) \/ t = sg.sym
  BY <1>2, <1>3, <1>6, AccountTypes DEF Has
<1>9. SoundAccount(b)
  <2>1. \A t \in Symbols \ {sg.sym} : b.pos[t] = c.pos[t] /\ (Has(b, t) <=> Has(c, t))
    BY <1>2, <1>8 DEF Has
  <2>2. b.pos[sg.sym] = p /\ b.lots[sg.sym] = c.lots[sg.sym]
    BY <1>2, <1>6, <1>8
  <2>3. ASSUME NEW t \in Symbols
        PROVE  /\ b.lots[t].qty > 0 => b.lots[t].cost > 0
               /\ Has(b, t) =>
                    /\ ~b.pos[t].open => b.pos[t].rem = 0
                    /\ b.pos[t].be => b.pos[t].stop >= b.pos[t].sig.entry
                    /\ Covers(b.lots[t], b.pos[t])
    <3>1. CASE t = sg.sym
      BY <1>2, <1>4, <1>6, <2>2, <3>1 DEF SoundAccount
    <3>2. CASE t # sg.sym
      BY <1>2, <1>6, <2>1, <3>2 DEF SoundAccount
    <3>3. QED
      BY <3>1, <3>2
  <2>4. QED
    BY <2>3 DEF SoundAccount
<1>10. QED
  BY <1>2, <1>6, <1>7, <1>8, <1>9 DEF b, c, p

\* A management call keeps the account sound, wherever it stops.
LEMMA ManagedSound ==
  ASSUME NEW a \in Accounts, NEW b, SoundAccount(a), ManagedFrom(a, b)
  PROVE  b \in Accounts /\ SoundAccount(b) /\ b.orders = a.orders
<1>1. PICK s \in Symbols, price \in Prices, left \in Nat, d \in Deals :
        /\ Has(a, s)
        /\ Step(DealOf(a, s, left), d, price)
        /\ \/ b = Booked(a, s, d)
           \/ b = Filed(Booked(a, s, d), s)
           \/ ~d.p.open /\ b = Removed(Filed(Booked(a, s, d), s), {s})
  BY DEF ManagedFrom
<1> DEFINE x == Booked(a, s, d)
           y == Filed(x, s)
<1>2. x \in Accounts /\ SoundAccount(x) /\ Has(x, s) /\ x.orders = a.orders
  BY <1>1, BookedSound DEF Step
<1> HIDE DEF x
<1>3. y \in Accounts /\ SoundAccount(y) /\ y.orders = a.orders
  BY <1>2, FiledSound
<1> HIDE DEF y
<1>4. /\ Removed(y, {s}) \in Accounts /\ SoundAccount(Removed(y, {s}))
      /\ Removed(y, {s}).orders = a.orders
  BY <1>3, RemovedSound
<1>5. QED
  BY <1>1, <1>2, <1>3, <1>4 DEF x, y

-----------------------------------------------------------------------------
(***************************************************************************)
(* Safe is inductive.                                                      *)
(***************************************************************************)

\* The deals the refresh and the monitor loop make with a position of the session.
LEMMA RefreshStep ==
  ASSUME Safe, NEW s \in Symbols, NEW price \in Prices, NEW answered \in Answers,
         NEW left \in Nat, Has(session, s)
  PROVE  LET d == CheckExits(DealOf(session, s, left), price, answered)
         IN Step(DealOf(session, s, left), d, price) /\ d \in Deals
<1>1. price \in Nat /\ answered \in BOOLEAN
  BY PricesAssumption, AnswersAssumption
<1>2. SoundDeal(DealOf(session, s, left))
  BY DealSound DEF Safe, TypeOK
<1>3. QED
  BY <1>1, <1>2, CheckExitsSound DEF Step, SoundDeal

LEMMA VisitStep ==
  ASSUME Safe, NEW s \in Symbols, NEW price \in Prices, NEW level \in Levels \cup {0},
         NEW answered \in Answers, NEW left \in Nat, Has(session, s)
  PROVE  LET d == ManagePosition(DealOf(session, s, left), price, level, answered)
         IN Step(DealOf(session, s, left), d, price) /\ d \in Deals
<1>1. price \in Nat /\ level \in Nat /\ answered \in BOOLEAN
  BY PricesAssumption, LevelsAssumption, AnswersAssumption
<1>2. SoundDeal(DealOf(session, s, left))
  BY DealSound DEF Safe, TypeOK
<1>3. QED
  BY <1>1, <1>2, ManagePositionSound DEF Step, SoundDeal

\* A turn of the refresh or of the monitor loop, finished or not.
LEMMA RefreshManages ==
  ASSUME Safe, NEW s \in Symbols, NEW price \in Prices, NEW answered \in Answers,
         \/ QuickRefresh(s, price, answered)
         \/ \E left \in 0 .. MostAccesses : QuickRefreshAbandoned(s, price, answered, left)
  PROVE  /\ ManagedFrom(session, session')
         /\ outcomes' \in Seq(Outcomes)
         /\ ~pass.on /\ UNCHANGED <<saved, pass, run, confirmed, restarts>>
         /\ aborts' \in {aborts, aborts + 1}
<1>1. PICK left \in Nat :
        \/ left = MostAccesses /\ QuickRefresh(s, price, answered)
        \/ QuickRefreshAbandoned(s, price, answered, left)
  BY DEF MostAccesses
<1> DEFINE d == CheckExits(DealOf(session, s, left), price, answered)
           a == Booked(session, s, d)
<1>2. /\ Has(session, s) /\ outcomes' = d.outcomes
      /\ ~pass.on /\ UNCHANGED <<saved, pass, run, confirmed, restarts>>
      /\ aborts' \in {aborts, aborts + 1}
      /\ \/ session' = a
         \/ session' = Filed(a, s)
         \/ ~d.p.open /\ session' = Removed(Filed(a, s), {s})
  BY <1>1 DEF QuickRefresh, QuickRefreshAbandoned
<1>3. Step(DealOf(session, s, left), d, price) /\ d \in Deals
  BY <1>2, RefreshStep
<1> HIDE DEF d
<1>4. ManagedFrom(session, session')
  BY <1>2, <1>3 DEF ManagedFrom
<1>5. QED
  BY <1>2, <1>3, <1>4 DEF Deals

LEMMA VisitManages ==
  ASSUME Safe, NEW s \in Symbols, NEW price \in Prices, NEW level \in Levels \cup {0},
         NEW answered \in Answers,
         \/ MonitorVisit(s, price, level, answered)
         \/ \E left \in 0 .. MostAccesses :
              MonitorVisitAbandoned(s, price, level, answered, left)
  PROVE  \E left \in Nat, d \in Deals :
           /\ Has(session, s) /\ s \in pass.todo
           /\ Step(DealOf(session, s, left), d, price)
           /\ outcomes' = d.outcomes
           /\ UNCHANGED <<saved, run, confirmed, restarts>>
           /\ aborts' \in {aborts, aborts + 1}
           /\ \/ session' = Booked(session, s, d) /\ pass' = NoPass
              \/ /\ session' = Filed(Booked(session, s, d), s)
                 /\ pass' = [pass EXCEPT !.todo = pass.todo \ {s},
                               !.remove = IF d.p.open THEN pass.remove
                                          ELSE pass.remove \cup {s}]
<1>1. PICK left \in Nat :
        \/ left = MostAccesses /\ MonitorVisit(s, price, level, answered)
        \/ MonitorVisitAbandoned(s, price, level, answered, left)
  BY DEF MostAccesses
<1> DEFINE d == ManagePosition(DealOf(session, s, left), price, level, answered)
<1>2. /\ s \in pass.todo /\ outcomes' = d.outcomes
      /\ UNCHANGED <<saved, run, confirmed, restarts>>
      /\ aborts' \in {aborts, aborts + 1}
      /\ \/ session' = Booked(session, s, d) /\ pass' = NoPass
         \/ /\ session' = Filed(Booked(session, s, d), s)
            /\ pass' = [pass EXCEPT !.todo = pass.todo \ {s},
                          !.remove = IF d.p.open THEN pass.remove
                                     ELSE pass.remove \cup {s}]
  BY <1>1 DEF MonitorVisit, MonitorVisitAbandoned
<1>3. Has(session, s)
  BY <1>2 DEF Safe
<1>4. Step(DealOf(session, s, left), d, price) /\ d \in Deals
  BY <1>3, VisitStep
<1> HIDE DEF d
<1>5. QED
  BY <1>2, <1>3, <1>4

\* What a step does to the two accounts.
LEMMA StepKinds ==
  ASSUME Safe, [Next]_vars
  PROVE  \/ FilledFrom(session, session') /\ (saved' = saved \/ saved' = session')
            /\ restarts' = restarts
         \/ ManagedFrom(session, session') /\ saved' = saved /\ restarts' = restarts
         \/ ClearedFrom(session, session') /\ saved' = saved /\ restarts' = restarts
         \/ session' = session /\ (saved' = saved \/ saved' = session)
            /\ restarts' = restarts
         \/ session' = saved /\ saved' = saved /\ restarts' = restarts + 1
<1>1. ASSUME NEW sg \in Signals, Fill(sg) \/ FillUnsaved(sg) \/ FillAbandoned(sg)
      PROVE  FilledFrom(session, session') /\ (saved' = saved \/ saved' = session')
             /\ restarts' = restarts
  BY <1>1 DEF Fill, FillUnsaved, FillAbandoned, FilledFrom
<1>2. ASSUME NEW s \in Symbols, NEW price \in Prices, NEW answered \in Answers,
             \/ QuickRefresh(s, price, answered)
             \/ \E left \in 0 .. MostAccesses :
                  QuickRefreshAbandoned(s, price, answered, left)
      PROVE  ManagedFrom(session, session') /\ saved' = saved /\ restarts' = restarts
  BY <1>2, RefreshManages
<1>3. ASSUME NEW s \in Symbols, NEW price \in Prices, NEW level \in Levels \cup {0},
             NEW answered \in Answers,
             \/ MonitorVisit(s, price, level, answered)
             \/ \E left \in 0 .. MostAccesses :
                  MonitorVisitAbandoned(s, price, level, answered, left)
      PROVE  ManagedFrom(session, session') /\ saved' = saved /\ restarts' = restarts
  BY <1>3, VisitManages DEF ManagedFrom
<1>4. CASE EndMonitor
  <2>1. /\ session' = Removed(session, pass.remove) /\ saved' = saved
        /\ restarts' = restarts
    BY <1>4 DEF EndMonitor
  <2>2. pass.remove \in SUBSET Symbols /\ \A s \in pass.remove : Settled(session, s)
    BY DEF Safe, TypeOK, Passes
  <2>3. QED
    BY <2>1, <2>2 DEF ClearedFrom
<1>5. ASSUME NEW gone \in SUBSET pass.remove, MonitorAborted(gone)
      PROVE  ClearedFrom(session, session') /\ saved' = saved /\ restarts' = restarts
  <2>1. session' = Removed(session, gone) /\ saved' = saved /\ restarts' = restarts
    BY <1>5 DEF MonitorAborted
  <2>2. gone \in SUBSET Symbols /\ \A s \in gone : Settled(session, s)
    BY DEF Safe, TypeOK, Passes
  <2>3. QED
    BY <2>1, <2>2 DEF ClearedFrom
<1>6. CASE \/ StartMonitor \/ (\E s \in Symbols : MonitorSkip(s)) \/ Checkpoint \/ NewRun
           \/ UNCHANGED vars
  BY <1>6 DEF StartMonitor, MonitorSkip, Checkpoint, NewRun, vars
<1>7. CASE Restart
  BY <1>7 DEF Restart
<1>8. QED
  BY <1>1, <1>2, <1>3, <1>4, <1>5, <1>6, <1>7 DEF Next

LEMMA FreshSound == FreshAccount \in Accounts /\ SoundAccount(FreshAccount)
<1>1. /\ FreshAccount.pos = [s \in Symbols |-> NoPosition]
      /\ FreshAccount.lots = [s \in Symbols |-> NoLot]
      /\ [s \in Symbols |-> NoLot] \in [Symbols -> Lots]
      /\ [s \in Symbols |-> NoPosition] \in [Symbols -> Positions \cup {NoPosition}]
      /\ << >> \in Seq(Trades)
  BY DEF FreshAccount, NoLot, Lots
<1>2. FreshAccount \in Accounts
  BY <1>1, CapitalAssumption DEF FreshAccount, Accounts
<1>3. SoundAccount(FreshAccount)
  <2>1. \A s \in Symbols : ~Has(FreshAccount, s) /\ FreshAccount.lots[s].qty = 0
    <3>1. \A s \in Symbols : ~Has(FreshAccount, s) /\ FreshAccount.lots[s] = NoLot
      BY <1>1 DEF Has
    <3>2. NoLot.qty = 0
      BY DEF NoLot
    <3>3. QED
      BY <3>1, <3>2
  <2>2. ASSUME NEW s \in Symbols
        PROVE  ~(FreshAccount.lots[s].qty > 0)
    <3>1. FreshAccount.lots[s].qty = 0
      BY <2>1
    <3>2. QED
      BY ONLY <3>1
  <2>3. QED
    BY <2>1, <2>2, Zenon DEF SoundAccount
<1>4. QED
  BY <1>2, <1>3

LEMMA SafeInit == Init => Safe
<1> SUFFICES ASSUME Init PROVE Safe
  OBVIOUS
<1>1. NoPass \in Passes /\ NoPass.todo = {} /\ NoPass.remove = {}
  BY DEF NoPass, Passes
<1>2. << >> \in Seq(Outcomes)
  OBVIOUS
<1>3. TypeOK
  BY <1>1, <1>2, FreshSound DEF Init, TypeOK
<1>4. QED
  BY <1>1, <1>3, FreshSound DEF Init, Safe

\* Both accounts stay sound, and the file known to the session.
LEMMA AccountsNext ==
  ASSUME Safe, [Next]_vars
  PROVE  /\ session' \in Accounts /\ SoundAccount(session')
         /\ saved' \in Accounts /\ SoundAccount(saved')
         /\ saved.orders \subseteq saved'.orders
         /\ saved'.orders \subseteq session'.orders
<1>1. /\ session \in Accounts /\ SoundAccount(session) /\ run \in Nat
      /\ saved \in Accounts /\ SoundAccount(saved)
      /\ saved.orders \subseteq session.orders
  BY DEF Safe, TypeOK
<1>2. ASSUME FilledFrom(session, session'), saved' = saved \/ saved' = session'
      PROVE  /\ session' \in Accounts /\ SoundAccount(session')
             /\ session.orders \subseteq session'.orders
  <2>1. PICK sg \in Signals : /\ MayFill(session, sg)
                              /\ session' = Filled(session, sg) \/ session' = Bought(session, sg)
    BY <1>2 DEF FilledFrom
  <2>2. /\ Filled(session, sg) \in Accounts /\ SoundAccount(Filled(session, sg))
        /\ session.orders \subseteq Filled(session, sg).orders
    BY <1>1, <2>1, FilledSound
  <2>3. /\ Bought(session, sg) \in Accounts /\ SoundAccount(Bought(session, sg))
        /\ session.orders \subseteq Bought(session, sg).orders
    <3>1. /\ Bought(session, sg) \in Accounts /\ SoundAccount(Bought(session, sg))
          /\ Bought(session, sg).orders = session.orders \cup {<<run, sg>>}
      BY <1>1, <2>1, BoughtSound
    <3>2. QED
      BY <3>1
  <2>4. QED
    BY <2>1, <2>2, <2>3
<1>3. ASSUME ManagedFrom(session, session')
      PROVE  /\ session' \in Accounts /\ SoundAccount(session')
             /\ session'.orders = session.orders
  BY <1>1, <1>3, ManagedSound
<1>4. ASSUME ClearedFrom(session, session')
      PROVE  /\ session' \in Accounts /\ SoundAccount(session')
             /\ session'.orders = session.orders
  BY <1>1, <1>4, RemovedSound DEF ClearedFrom
<1>5. QED
  BY <1>1, <1>2, <1>3, <1>4, StepKinds

\* A step that leaves what concerns the monitor loop alone.
LEMMA SafeAside ==
  ASSUME Safe, [Next]_vars, outcomes' \in Seq(Outcomes), run' \in Nat, confirmed' = confirmed,
         restarts' \in Nat, aborts' \in Nat,
         pass' = NoPass \/ (pass' = pass /\ (session' = session \/ ~pass.on))
  PROVE  Safe'
<1>1. TypeOK' /\ SoundAccount(session)' /\ SoundAccount(saved)'
  <2>1. NoPass \in Passes
    BY DEF NoPass, Passes
  <2>2. TypeOK'
    BY <2>1, AccountsNext DEF Safe, TypeOK
  <2>3. QED
    BY <2>2, AccountsNext DEF SoundAccount, Has
<1>2. confirmed' \subseteq saved'.orders /\ saved'.orders \subseteq session'.orders
  BY AccountsNext DEF Safe
<1>3. /\ \A s \in pass'.todo : Has(session', s)
      /\ \A s \in pass'.remove : Settled(session', s)
      /\ ~pass'.on => pass'.todo = {} /\ pass'.remove = {}
  BY DEF Safe, NoPass
<1>4. QED
  BY <1>1, <1>2, <1>3 DEF Safe, Has, Settled, Archive

LEMMA FillSafe ==
  ASSUME Safe, NEW sg \in Signals, Fill(sg) \/ FillUnsaved(sg) \/ FillAbandoned(sg)
  PROVE  Safe'
<1>1. [Next]_vars
  BY DEF Next
<1>2. /\ ~pass.on /\ UNCHANGED <<pass, run, outcomes, restarts>>
      /\ aborts' \in {aborts, aborts + 1} /\ run \in Nat /\ aborts \in Nat
      /\ restarts \in Nat /\ outcomes \in Seq(Outcomes)
      /\ session \in Accounts /\ SoundAccount(session)
      /\ MayFill(session, sg)
  BY DEF Fill, FillUnsaved, FillAbandoned, Safe, TypeOK
<1>3. CASE FillUnsaved(sg) \/ FillAbandoned(sg)
  <2>1. confirmed' = confirmed
    BY <1>3 DEF FillUnsaved, FillAbandoned
  <2>2. QED
    BY <1>1, <1>2, <2>1, SafeAside
<1>4. CASE Fill(sg)
  <2>1. /\ session' = Filled(session, sg) /\ saved' = session'
        /\ confirmed' = confirmed \cup {<<run, sg>>}
    BY <1>4 DEF Fill
  <2>2. session'.orders = session.orders \cup {<<run, sg>>} /\ <<run, sg>> \in Keys
    BY <1>2, <2>1, FilledSound, FillTypes
  <2>3. /\ session' \in Accounts /\ SoundAccount(session')
        /\ saved' \in Accounts /\ SoundAccount(saved')
    BY <1>1, AccountsNext
  <2>4. confirmed' \in SUBSET Keys /\ confirmed' \subseteq saved'.orders
        /\ saved'.orders \subseteq session'.orders
    BY <2>1, <2>2 DEF Safe, TypeOK
  <2>5. TypeOK'
    BY <1>2, <2>3, <2>4 DEF Safe, TypeOK
  <2>6. pass'.todo = {} /\ pass'.remove = {}
    BY <1>2 DEF Safe
  <2>7. QED
    BY <2>3, <2>4, <2>5, <2>6 DEF Safe, SoundAccount, Has
<1>5. QED
  BY <1>3, <1>4

LEMMA RefreshSafe ==
  ASSUME Safe, NEW s \in Symbols, NEW price \in Prices, NEW answered \in Answers,
         \/ QuickRefresh(s, price, answered)
         \/ \E left \in 0 .. MostAccesses : QuickRefreshAbandoned(s, price, answered, left)
  PROVE  Safe'
<1>1. [Next]_vars
  BY DEF Next
<1>2. /\ outcomes' \in Seq(Outcomes) /\ ~pass.on
      /\ UNCHANGED <<saved, pass, run, confirmed, restarts>>
      /\ aborts' \in {aborts, aborts + 1}
  BY RefreshManages
<1>3. run \in Nat /\ restarts \in Nat /\ aborts \in Nat
  BY DEF Safe, TypeOK
<1>4. QED
  BY <1>1, <1>2, <1>3, SafeAside

LEMMA VisitSafe ==
  ASSUME Safe, NEW s \in Symbols, NEW price \in Prices, NEW level \in Levels \cup {0},
         NEW answered \in Answers,
         \/ MonitorVisit(s, price, level, answered)
         \/ \E left \in 0 .. MostAccesses :
              MonitorVisitAbandoned(s, price, level, answered, left)
  PROVE  Safe'
<1>1. [Next]_vars
  BY DEF Next
<1>2. PICK left \in Nat, d \in Deals :
        /\ Has(session, s) /\ s \in pass.todo
        /\ Step(DealOf(session, s, left), d, price)
        /\ outcomes' = d.outcomes
        /\ UNCHANGED <<saved, run, confirmed, restarts>>
        /\ aborts' \in {aborts, aborts + 1}
        /\ \/ session' = Booked(session, s, d) /\ pass' = NoPass
           \/ /\ session' = Filed(Booked(session, s, d), s)
              /\ pass' = [pass EXCEPT !.todo = pass.todo \ {s},
                            !.remove = IF d.p.open THEN pass.remove
                                       ELSE pass.remove \cup {s}]
  BY VisitManages
<1>3. /\ outcomes' \in Seq(Outcomes) /\ run' \in Nat /\ restarts' \in Nat /\ aborts' \in Nat
      /\ confirmed' = confirmed
  BY <1>2 DEF Deals, Safe, TypeOK
<1>4. CASE pass' = NoPass
  BY <1>1, <1>3, <1>4, SafeAside
<1> DEFINE a == Booked(session, s, d)
<1>5. CASE /\ session' = Filed(a, s)
           /\ pass' = [pass EXCEPT !.todo = pass.todo \ {s},
                         !.remove = IF d.p.open THEN pass.remove
                                    ELSE pass.remove \cup {s}]
  <2>1. session \in Accounts /\ SoundAccount(session) /\ SoundDeal(d)
    BY <1>2 DEF Safe, TypeOK, Step
  <2>2. /\ a \in Accounts /\ SoundAccount(a) /\ a.history = session.history
        /\ \A t \in Symbols : /\ a.pos[t] = IF t = s THEN d.p ELSE session.pos[t]
                              /\ Has(a, t) <=> Has(session, t)
    <3>1. Has(session, s)
      BY <1>2
    <3>2. a \in Accounts /\ SoundAccount(a) /\ a.history = session.history
      BY ONLY <2>1, <3>1, BookedSound
    <3>3. ASSUME NEW t \in Symbols
          PROVE  /\ a.pos[t] = IF t = s THEN d.p ELSE session.pos[t]
                 /\ Has(a, t) <=> Has(session, t)
      BY ONLY <2>1, <3>1, BookedAt
    <3>4. QED
      BY <3>2, <3>3
  <2> HIDE DEF a
  <2>3. /\ session'.pos = a.pos
        /\ \A t : Has(session', t) <=> Has(a, t)
        /\ Archive(session') = Archive(a) \cup (IF d.p.open THEN {} ELSE {TradeOf(d.p)})
    BY <1>2, <1>5, <2>2, FiledSound
  <2>4. Archive(a) = Archive(session)
    BY <2>2 DEF Archive
  <2>5. DealOf(session, s, left).p = session.pos[s]
    BY DEF DealOf
  <2>6. /\ ~session.pos[s].open =>
             ~d.p.open /\ d.p.realized = session.pos[s].realized
        /\ KeyOf(d.p) = KeyOf(session.pos[s])
    BY <1>2, <2>5 DEF Step, SamePosition, KeyOf
  <2>7. /\ pass \in Passes /\ pass' \in Passes /\ pass'.on = pass.on
        /\ pass'.todo = pass.todo \ {s}
        /\ pass'.remove = IF d.p.open THEN pass.remove ELSE pass.remove \cup {s}
    BY <1>5 DEF Safe, TypeOK, Passes
  <2>8. \A t \in pass'.todo : Has(session', t)
    BY <2>2, <2>3, <2>7 DEF Safe, Passes
  <2>9. ASSUME NEW t \in pass'.remove
        PROVE  Settled(session', t)
    <3>1. CASE t = s /\ ~d.p.open
      BY <1>2, <2>2, <2>3, <3>1 DEF Settled
    <3>2. CASE t # s
      <4>1. t \in pass.remove /\ t \in Symbols
        BY <2>7, <3>2 DEF Passes
      <4>2. Settled(session, t)
        BY <4>1 DEF Safe
      <4>3. QED
        BY <2>2, <2>3, <2>4, <3>2, <4>1, <4>2 DEF Settled
    <3>3. CASE t = s /\ d.p.open
      <4>1. ~session.pos[s].open
        BY <2>7, <3>3 DEF Safe, Settled
      <4>2. QED
        BY <2>6, <3>3, <4>1
    <3>4. QED
      BY <3>1, <3>2, <3>3
  <2>10. ~pass'.on => pass'.todo = {} /\ pass'.remove = {}
    BY <1>2, <2>7 DEF Safe
  <2>11. TypeOK' /\ SoundAccount(session') /\ SoundAccount(saved')
         /\ confirmed' \subseteq saved'.orders /\ saved'.orders \subseteq session'.orders
    BY <1>1, <1>3, <2>7, AccountsNext DEF Safe, TypeOK
  <2>12. QED
    BY <2>8, <2>9, <2>10, <2>11 DEF Safe, SoundAccount, Has, Settled, Archive
<1>6. QED
  BY <1>2, <1>4, <1>5

\* The steps that change neither account, exchange them, or end the loop.
LEMMA OtherSafe ==
  ASSUME Safe,
         \/ StartMonitor \/ (\E s \in Symbols : MonitorSkip(s)) \/ EndMonitor
         \/ (\E gone \in SUBSET pass.remove : MonitorAborted(gone))
         \/ Checkpoint \/ Restart \/ NewRun \/ UNCHANGED vars
  PROVE  Safe'
<1>1. [Next]_vars
  BY DEF Next
<1>2. run \in Nat /\ restarts \in Nat /\ aborts \in Nat /\ outcomes \in Seq(Outcomes)
  BY DEF Safe, TypeOK
<1>3. CASE StartMonitor
  BY <1>3 DEF StartMonitor, Passes, OpenSymbols, Safe, TypeOK, SoundAccount, Has,
              Settled, Archive
<1>4. CASE \E s \in Symbols : MonitorSkip(s)
  BY <1>4 DEF MonitorSkip, Passes, Safe, TypeOK, SoundAccount, Has, Settled, Archive
<1>5. CASE EndMonitor
  BY <1>1, <1>2, <1>5, SafeAside DEF EndMonitor
<1>6. CASE \E gone \in SUBSET pass.remove : MonitorAborted(gone)
  BY <1>1, <1>2, <1>6, SafeAside DEF MonitorAborted
<1>7. CASE Checkpoint
  BY <1>1, <1>2, <1>7, SafeAside DEF Checkpoint
<1>8. CASE Restart
  BY <1>1, <1>2, <1>8, SafeAside DEF Restart
<1>9. CASE NewRun
  BY <1>1, <1>2, <1>9, SafeAside DEF NewRun
<1>10. CASE UNCHANGED vars
  BY <1>1, <1>2, <1>10, SafeAside DEF vars
<1>11. QED
  BY <1>3, <1>4, <1>5, <1>6, <1>7, <1>8, <1>9, <1>10

LEMMA SafeNext == Safe /\ [Next]_vars => Safe'
<1> SUFFICES ASSUME Safe, [Next]_vars PROVE Safe'
  OBVIOUS
<1>1. CASE \E sg \in Signals : Fill(sg) \/ FillUnsaved(sg) \/ FillAbandoned(sg)
  BY <1>1, FillSafe
<1>2. ASSUME NEW s \in Symbols, NEW price \in Prices, NEW answered \in Answers,
             \/ QuickRefresh(s, price, answered)
             \/ \E left \in 0 .. MostAccesses :
                  QuickRefreshAbandoned(s, price, answered, left)
      PROVE  Safe'
  BY <1>2, RefreshSafe
<1>3. ASSUME NEW s \in Symbols, NEW price \in Prices, NEW level \in Levels \cup {0},
             NEW answered \in Answers,
             \/ MonitorVisit(s, price, level, answered)
             \/ \E left \in 0 .. MostAccesses :
                  MonitorVisitAbandoned(s, price, level, answered, left)
      PROVE  Safe'
  BY <1>3, VisitSafe
<1>4. CASE \/ StartMonitor \/ (\E s \in Symbols : MonitorSkip(s)) \/ EndMonitor
           \/ (\E gone \in SUBSET pass.remove : MonitorAborted(gone))
           \/ Checkpoint \/ Restart \/ NewRun \/ UNCHANGED vars
  BY <1>4, OtherSafe
<1>5. QED
  BY <1>1, <1>2, <1>3, <1>4 DEF Next

\* The engine never leaves the states it is written for.
THEOREM SafeAlways == Spec => []Safe
<1>1. Init => Safe
  BY SafeInit
<1>2. Safe /\ [Next]_vars => Safe'
  BY SafeNext
<1>3. QED
  BY <1>1, <1>2, PTL DEF Spec

\* Type correctness.
THEOREM TypeCorrect == Spec => []TypeOK
<1>1. Safe => TypeOK
  BY DEF Safe
<1>2. QED
  BY <1>1, SafeAlways, PTL

\* A fill that was reported back is in the file, whatever failed to be written
\* since and however often the session restarted.
THEOREM ConfirmedAlwaysDurable == Spec => []ConfirmedFillsDurable
<1>1. Safe => ConfirmedFillsDurable
  BY DEF Safe, ConfirmedFillsDurable
<1>2. QED
  BY <1>1, SafeAlways, PTL

\* After break-even the stop never lets the trade lose, in memory and on disk.
THEOREM BreakEvenAlwaysProtects == Spec => []BreakEvenProtects
<1>1. Safe => BreakEvenProtects
  BY DEF Safe, SoundAccount, BreakEvenProtects, BothAccounts, OpenSymbols
<1>2. QED
  BY <1>1, SafeAlways, PTL

\* The ledger never lacks a share a position has to sell, in memory and on disk,
\* wherever fills and exits are abandoned and at every price, 0 included.
THEOREM SharesAlwaysCovered == Spec => []SharesCovered
<1>1. Safe => SharesCovered
  BY DEF Safe, SoundAccount, Covers, SharesCovered, BothAccounts, OpenSymbols
<1>2. QED
  BY <1>1, SafeAlways, PTL

-----------------------------------------------------------------------------
(***************************************************************************)
(* The trades an account knows, and the money behind them.  Faithful is    *)
(* the part of the inductive invariant that speaks of one account: what it *)
(* says holds of the session, and a checkpoint or a restart only copies    *)
(* accounts.                                                               *)
(***************************************************************************)

\* A position is filed under its own symbol; an open one is not archived, and a
\* closed one with its own result only; no key has two results; every key is that
\* of an order, and as long as the ledger's shares are the positions', the other
\* way round.
Told(a) ==
  /\ \A s \in OpenSymbols(a) : a.pos[s].sig.sym = s
  /\ \A s \in OpenSymbols(a) : \A t \in Archive(a) :
       t.key = KeyOf(a.pos[s]) => ~a.pos[s].open /\ t = TradeOf(a.pos[s])
  /\ \A t, u \in Archive(a) : t.key = u.key => t = u
  /\ \A t \in KnownTrades(a) : t.key \in a.orders
  /\ Aligned(a) => \A k \in a.orders : \E t \in KnownTrades(a) : t.key = k

Cost(a) == SumFunction([s \in Symbols |-> LotCost(a.lots[s])])
Profit(K) == SumFunction([t \in K |-> t.realized])

Conserved(a) == a.cash + Cost(a) + a.writtenOff = Capital + a.realized
Earned(a) == Aligned(a) => a.realized = Profit(KnownTrades(a))

Faithful(a) == Told(a) /\ Conserved(a) /\ Earned(a)

LEMMA CostTypes ==
  ASSUME NEW a \in Accounts
  PROVE  Cost(a) \in Int /\ \A s \in Symbols : LotCost(a.lots[s]) \in Nat
<1>1. \A s \in Symbols : LotCost(a.lots[s]) \in Nat
  BY AccountTypes DEF LotCost
<1> DEFINE w == [s \in Symbols |-> LotCost(a.lots[s])]
<1>2. Cost(a) = SumFunctionOnSet(w, Symbols)
  BY DEF Cost, SumFunction
<1>3. ASSUME NEW s \in Symbols PROVE w[s] \in Int
  <2>1. w[s] = LotCost(a.lots[s])
    OBVIOUS
  <2> HIDE DEF w
  <2>2. QED
    BY <1>1, <2>1
<1> HIDE DEF w
<1>4. QED
  BY <1>1, <1>2, <1>3, SymbolsAssumption, SumInt

\* When at most the lot of s changed, the cost changes by that lot's.
LEMMA CostChange ==
  ASSUME NEW a \in Accounts, NEW b \in Accounts, NEW s \in Symbols,
         \A t \in Symbols : t # s => b.lots[t] = a.lots[t]
  PROVE  Cost(b) = Cost(a) + LotCost(b.lots[s]) - LotCost(a.lots[s])
<1> DEFINE v == [t \in Symbols |-> LotCost(a.lots[t])]
           w == [t \in Symbols |-> LotCost(b.lots[t])]
<1>1. Cost(a) = SumFunctionOnSet(v, Symbols) /\ Cost(b) = SumFunctionOnSet(w, Symbols)
  BY DEF Cost, SumFunction
<1>2. v[s] = LotCost(a.lots[s]) /\ w[s] = LotCost(b.lots[s])
  OBVIOUS
<1>3. ASSUME NEW t \in Symbols
      PROVE  v[t] \in Int /\ w[t] \in Int /\ (t # s => v[t] = w[t])
  <2>1. v[t] = LotCost(a.lots[t]) /\ w[t] = LotCost(b.lots[t])
    OBVIOUS
  <2>2. LotCost(a.lots[t]) \in Nat /\ LotCost(b.lots[t]) \in Nat
    BY CostTypes
  <2> HIDE DEF v, w
  <2>3. QED
    BY <2>1, <2>2
<1> HIDE DEF v, w
<1>4. \E rest \in Int : /\ SumFunctionOnSet(v, Symbols) = v[s] + rest
                        /\ SumFunctionOnSet(w, Symbols) = w[s] + rest
  BY ONLY <1>3, SymbolsAssumption, SumChange
<1>5. v[s] \in Int /\ w[s] \in Int
  BY <1>3
<1>6. SumFunctionOnSet(w, Symbols) = SumFunctionOnSet(v, Symbols) + w[s] - v[s]
  BY <1>4, <1>5
<1>7. QED
  BY <1>1, <1>2, <1>6

LEMMA ProfitSum ==
  ASSUME NEW K, IsFiniteSet(K), K \subseteq Trades
  PROVE  /\ Profit(K) \in Int
         /\ \A x \in K : Profit(K) = x.realized + Profit(K \ {x})
<1> DEFINE w == [t \in K |-> t.realized]
<1>1. /\ \A t \in K : w[t] = t.realized /\ w[t] \in Int
      /\ Profit(K) = SumFunctionOnSet(w, K)
  BY DEF Profit, SumFunction, Trades
<1>2. Profit(K) \in Int
  <2> HIDE DEF w
  <2>1. QED
    BY <1>1, SumInt
<1>3. ASSUME NEW x \in K
      PROVE  Profit(K) = x.realized + Profit(K \ {x})
  <2> DEFINE v == [t \in K \ {x} |-> t.realized]
  <2>1. /\ \A t \in K \ {x} : v[t] = w[t]
        /\ Profit(K \ {x}) = SumFunctionOnSet(v, K \ {x})
    BY DEF Profit, SumFunction
  <2>2. IsFiniteSet(K \ {x})
    BY FS_RemoveElement
  <2> HIDE DEF v, w
  <2>3. SumFunctionOnSet(v, K \ {x}) = SumFunctionOnSet(w, K \ {x})
    BY <2>1, <2>2, SumCongruence
  <2>4. SumFunctionOnSet(w, K) = w[x] + SumFunctionOnSet(w, K \ {x})
    BY <1>1, SumRemove
  <2>5. QED
    BY <1>1, <2>1, <2>3, <2>4
<1>4. QED
  BY <1>2, <1>3

LEMMA KnownTypes ==
  ASSUME NEW a \in Accounts
  PROVE  /\ KnownTrades(a) = Archive(a) \cup {TradeOf(a.pos[s]) : s \in OpenSymbols(a)}
         /\ IsFiniteSet(KnownTrades(a)) /\ KnownTrades(a) \subseteq Trades
         /\ Archive(a) \subseteq Trades
<1> DEFINE positions == {TradeOf(a.pos[s]) : s \in OpenSymbols(a)}
           g == [s \in OpenSymbols(a) |-> TradeOf(a.pos[s])]
<1>1. KnownTrades(a) = Archive(a) \cup positions
  BY DEF KnownTrades, Archive, TradeOf
<1>2. a.history \in Seq(Trades)
  BY AccountTypes
<1>3. Archive(a) \subseteq Trades /\ IsFiniteSet(Archive(a))
  <2>1. DOMAIN a.history = 1 .. Len(a.history) /\ Len(a.history) \in Nat
        /\ \A i \in DOMAIN a.history : a.history[i] \in Trades
    BY <1>2
  <2>2. IsFiniteSet(DOMAIN a.history)
    BY <2>1, FS_Interval
  <2>3. IsFiniteSet({a.history[i] : i \in DOMAIN a.history})
    BY <2>2, ImageFinite
  <2>4. QED
    BY <2>1, <2>3 DEF Archive
<1>4. positions \subseteq Trades
  <2>1. ASSUME NEW s \in OpenSymbols(a)
        PROVE  TradeOf(a.pos[s]) \in Trades
    <3>1. a.pos[s] \in Positions
      BY AccountTypes DEF OpenSymbols
    <3>2. QED
      BY <3>1 DEF Positions, TradeOf, KeyOf, Keys, Trades
  <2>2. QED
    BY <2>1
<1>5. IsFiniteSet(positions)
  <2>1. IsFiniteSet(OpenSymbols(a))
    BY SymbolsAssumption, FS_Subset DEF OpenSymbols
  <2>2. IsFiniteSet({g[s] : s \in OpenSymbols(a)})
    <3> HIDE DEF g
    <3>1. QED
      BY <2>1, ImageFinite
  <2>3. {g[s] : s \in OpenSymbols(a)} = positions
    OBVIOUS
  <2>4. QED
    BY <2>2, <2>3
<1> HIDE DEF positions
<1>6. IsFiniteSet(KnownTrades(a))
  BY <1>1, <1>3, <1>5, FS_Union
<1>7. QED
  BY <1>1, <1>3, <1>4, <1>6 DEF positions

\* No two known trades have the same key.
LEMMA KnownKeys ==
  ASSUME NEW a \in Accounts, Told(a)
  PROVE  \A t, u \in KnownTrades(a) : t.key = u.key => t = u
<1> SUFFICES ASSUME NEW t \in KnownTrades(a), NEW u \in KnownTrades(a), t.key = u.key
             PROVE  t = u
  OBVIOUS
<1>1. \A s \in OpenSymbols(a), x \in Archive(a) :
        x.key = KeyOf(a.pos[s]) => x = TradeOf(a.pos[s])
  BY DEF Told
<1>2. ASSUME NEW s \in OpenSymbols(a), NEW r \in OpenSymbols(a),
             KeyOf(a.pos[s]) = KeyOf(a.pos[r])
      PROVE  s = r
  BY <1>2 DEF Told, KeyOf
<1>3. \A s \in OpenSymbols(a) : TradeOf(a.pos[s]).key = KeyOf(a.pos[s])
  BY DEF TradeOf
<1>4. /\ t \in Archive(a) \/ \E s \in OpenSymbols(a) : t = TradeOf(a.pos[s])
      /\ u \in Archive(a) \/ \E s \in OpenSymbols(a) : u = TradeOf(a.pos[s])
  BY KnownTypes
<1>5. CASE t \in Archive(a) /\ u \in Archive(a)
  BY <1>5 DEF Told
<1>6. CASE t \in Archive(a) /\ \E s \in OpenSymbols(a) : u = TradeOf(a.pos[s])
  BY <1>6, <1>1, <1>3
<1>7. CASE u \in Archive(a) /\ \E s \in OpenSymbols(a) : t = TradeOf(a.pos[s])
  BY <1>7, <1>1, <1>3
<1>8. CASE /\ \E s \in OpenSymbols(a) : t = TradeOf(a.pos[s])
           /\ \E s \in OpenSymbols(a) : u = TradeOf(a.pos[s])
  BY <1>8, <1>2, <1>3
<1>9. QED
  BY <1>4, <1>5, <1>6, <1>7, <1>8

LEMMA FreshFaithful == Faithful(FreshAccount)
<1> DEFINE a == FreshAccount
           w == [s \in Symbols |-> LotCost(a.lots[s])]
           none == [t \in {} |-> t.realized]
<1>1. /\ a.pos = [s \in Symbols |-> NoPosition] /\ a.history = << >>
      /\ a.cash = Capital /\ a.realized = 0 /\ a.orders = {} /\ a.writtenOff = 0
      /\ a.lots = [s \in Symbols |-> NoLot] /\ a \in Accounts
  BY FreshSound DEF FreshAccount
<1> HIDE DEF a
<1>2. \A s \in Symbols : ~Has(a, s) /\ LotCost(a.lots[s]) = 0
  <2>1. \A s \in Symbols : ~Has(a, s) /\ a.lots[s] = NoLot
    BY <1>1 DEF Has
  <2>2. LotCost(NoLot) = 0
    BY DEF LotCost, NoLot
  <2>3. QED
    BY <2>1, <2>2
<1>3. OpenSymbols(a) = {} /\ Archive(a) = {}
  BY <1>1, <1>2 DEF OpenSymbols, Archive
<1>4. KnownTrades(a) = {}
  BY <1>1, <1>3, KnownTypes
<1>5. Told(a)
  BY <1>1, <1>3, <1>4 DEF Told
<1>6. Cost(a) = 0
  <2>1. \A s \in Symbols : w[s] = 0
    BY <1>2
  <2>2. Cost(a) = SumFunctionOnSet(w, Symbols)
    BY DEF Cost, SumFunction
  <2> HIDE DEF w
  <2>3. QED
    BY <2>1, <2>2, SymbolsAssumption, SumZero
<1>7. Profit({}) = 0
  <2>1. Profit({}) = SumFunctionOnSet(none, {})
    BY DEF Profit, SumFunction
  <2>2. QED
    BY <2>1, SumEmpty
<1>8. Conserved(a) /\ Earned(a)
  BY <1>1, <1>4, <1>6, <1>7, CapitalAssumption DEF Conserved, Earned
<1>9. QED
  BY <1>5, <1>8 DEF Faithful, a

-----------------------------------------------------------------------------
\* A purchase turns cash into shares at cost, and what it wrote over is not lost.
LEMMA BoughtConserved ==
  ASSUME NEW a \in Accounts, NEW b \in Accounts, NEW sg \in Signals, SoundAccount(a),
         MayFill(a, sg), run \in Nat, Conserved(a),
         b.lots = Bought(a, sg).lots, b.cash = Bought(a, sg).cash,
         b.realized = a.realized, b.writtenOff = Bought(a, sg).writtenOff
  PROVE  Conserved(b)
<1> DEFINE q == FillQty(sg)
           s == sg.sym
           old == LotCost(a.lots[s])
<1>1. /\ q \in Nat /\ s \in Symbols /\ sg.entry \in Nat /\ old \in Nat
      /\ q * sg.entry \in Nat
  BY FillTypes
<1>2. /\ b.cash = a.cash - q * sg.entry /\ b.writtenOff = a.writtenOff + old
      /\ b.lots[s] = [qty |-> q, cost |-> sg.entry]
      /\ \A t \in Symbols : t # s => b.lots[t] = a.lots[t]
  <2>1. /\ b.cash = a.cash - q * sg.entry /\ b.writtenOff = a.writtenOff + old
        /\ b.lots = [a.lots EXCEPT ![s] = [qty |-> q, cost |-> sg.entry]]
    BY DEF Bought
  <2>2. a.lots \in [Symbols -> Lots]
    BY AccountTypes
  <2>3. QED
    BY <1>1, <2>1, <2>2
<1>3. LotCost(b.lots[s]) = q * sg.entry
  BY <1>1, <1>2 DEF LotCost
<1> HIDE DEF q, s, old
<1>4. Cost(b) = Cost(a) + q * sg.entry - old
  BY <1>1, <1>2, <1>3, CostChange DEF old
<1>5. /\ a.cash \in Int /\ a.realized \in Int /\ Cost(a) \in Int /\ Capital \in Int
      /\ a.writtenOff \in Int
  BY AccountTypes, CostTypes, CapitalAssumption
<1>6. QED
  BY <1>1, <1>2, <1>4, <1>5 DEF Conserved

\* A fill that is abandoned leaves shares that no position will sell.
LEMMA BoughtFaithful ==
  ASSUME NEW a \in Accounts, NEW sg \in Signals, SoundAccount(a), MayFill(a, sg),
         run \in Nat, Faithful(a)
  PROVE  Faithful(Bought(a, sg))
<1> DEFINE b == Bought(a, sg)
<1>1. /\ b \in Accounts /\ b.pos = a.pos /\ b.history = a.history
      /\ b.orders = a.orders \cup {<<run, sg>>} /\ b.realized = a.realized
      /\ b.lots[sg.sym] = [qty |-> FillQty(sg), cost |-> sg.entry]
  <2>1. sg.sym \in Symbols
    BY FillTypes
  <2>2. QED
    BY <2>1, BoughtSound
<1>2. FillQty(sg) \in Nat \ {0} /\ sg.sym \in Symbols
  BY FillTypes
<1>3. Conserved(b)
  BY <1>1, BoughtConserved DEF Faithful
<1> HIDE DEF b
<1>4. ~Aligned(b)
  <2>1. ~Has(b, sg.sym) /\ b.lots[sg.sym].qty = FillQty(sg)
    BY <1>1 DEF MayFill, Has
  <2>2. Stray(b, sg.sym) = FillQty(sg) - 0
    BY <2>1 DEF Stray
  <2>3. Stray(b, sg.sym) # 0
    BY <1>2, <2>2
  <2>4. QED
    BY <1>2, <2>3 DEF Aligned
<1>5. /\ OpenSymbols(b) = OpenSymbols(a) /\ Archive(b) = Archive(a)
      /\ KnownTrades(b) = KnownTrades(a)
  BY <1>1 DEF OpenSymbols, Has, Archive, KnownTrades
<1>6. Told(b)
  BY <1>1, <1>4, <1>5 DEF Faithful, Told
<1>7. QED
  BY <1>3, <1>4, <1>6 DEF Faithful, Earned, b

\* A fill adds one trade without profit.
LEMMA FilledFaithful ==
  ASSUME NEW a \in Accounts, NEW sg \in Signals, SoundAccount(a), MayFill(a, sg),
         run \in Nat, Faithful(a)
  PROVE  Faithful(Filled(a, sg))
<1> DEFINE b == Filled(a, sg)
           q == FillQty(sg)
           s == sg.sym
           p == Opened(run, sg, q)
           t == TradeOf(p)
<1>1. /\ b \in Accounts /\ b.lots = Bought(a, sg).lots /\ b.cash = Bought(a, sg).cash
      /\ b.realized = a.realized /\ b.orders = a.orders \cup {<<run, sg>>}
      /\ b.history = a.history /\ b.writtenOff = Bought(a, sg).writtenOff
  BY FilledSound
<1>2. /\ q \in Nat \ {0} /\ s \in Symbols /\ p # NoPosition
      /\ LotCost(a.lots[s]) \in Nat
  BY FillTypes
<1>3. /\ b.writtenOff = a.writtenOff + LotCost(a.lots[s])
      /\ b.pos = [a.pos EXCEPT ![s] = p]
      /\ b.lots = [a.lots EXCEPT ![s] = [qty |-> q, cost |-> sg.entry]]
  BY <1>1 DEF Bought, Filled
<1>4. /\ p.sig = sg /\ p.open /\ p.rem = q /\ KeyOf(p) = <<run, sg>>
      /\ t.key = <<run, sg>> /\ t.realized = 0
  BY DEF Opened, TradeOf, KeyOf
<1>5. ~Has(a, s) /\ <<run, sg>> \notin a.orders
  BY DEF MayFill
<1>6. Conserved(b)
  BY <1>1, BoughtConserved DEF Faithful
<1>7. Told(a) /\ Earned(a)
  BY DEF Faithful
<1> HIDE DEF b, q, p, t, s
<1>8. /\ \A r \in Symbols : r # s =>
             b.pos[r] = a.pos[r] /\ b.lots[r] = a.lots[r] /\ (Has(b, r) <=> Has(a, r))
      /\ b.pos[s] = p /\ b.lots[s] = [qty |-> q, cost |-> sg.entry] /\ Has(b, s)
  BY <1>2, <1>3, AccountTypes DEF Has
<1>9. /\ OpenSymbols(b) = OpenSymbols(a) \cup {s} /\ s \notin OpenSymbols(a)
      /\ Archive(b) = Archive(a)
  BY <1>1, <1>2, <1>5, <1>8 DEF OpenSymbols, Archive
<1>10. KnownTrades(b) = KnownTrades(a) \cup {t}
  <2>1. {TradeOf(b.pos[r]) : r \in OpenSymbols(b)}
          = {TradeOf(a.pos[r]) : r \in OpenSymbols(a)} \cup {t}
    BY <1>8, <1>9 DEF t, OpenSymbols
  <2>2. QED
    BY <1>1, <1>9, <2>1, KnownTypes
<1>11. \A u \in KnownTrades(a) : u.key \in a.orders /\ u.key # <<run, sg>>
  BY <1>5, <1>7 DEF Told
<1>12. Aligned(b) => Aligned(a)
  <2> SUFFICES ASSUME Aligned(b)
               PROVE  Aligned(a)
    OBVIOUS
  <2>1. a.writtenOff \in Nat /\ a.lots[s].qty \in Nat /\ a.lots[s].cost \in Nat
    BY <1>2, AccountTypes
  <2>2. a.writtenOff = 0 /\ LotCost(a.lots[s]) = 0
    BY <1>2, <1>3, <2>1 DEF Aligned
  <2>3. a.lots[s].qty = 0
    <3>1. a.lots[s].qty > 0 => a.lots[s].cost > 0
      BY <1>2 DEF SoundAccount
    <3>2. a.lots[s].qty * a.lots[s].cost = 0
      BY <2>2 DEF LotCost
    <3>3. QED
      BY <2>1, <3>1, <3>2
  <2>4. Stray(a, s) = 0
    BY <1>5, <2>3 DEF Stray
  <2>5. ASSUME NEW r \in Symbols, r # s
        PROVE  Stray(a, r) = 0
    BY <1>8, <2>5 DEF Aligned, Stray
  <2>6. QED
    BY <2>2, <2>4, <2>5 DEF Aligned
<1>13. Told(b)
  <2>1. \A r \in OpenSymbols(b) : b.pos[r].sig.sym = r
    BY <1>4, <1>7, <1>8, <1>9 DEF Told, OpenSymbols, s
  <2>2. ASSUME NEW r \in OpenSymbols(b), NEW u \in Archive(b), u.key = KeyOf(b.pos[r])
        PROVE  ~b.pos[r].open /\ u = TradeOf(b.pos[r])
    <3>1. u \in Archive(a) /\ u \in KnownTrades(a)
      BY <1>9, KnownTypes
    <3>2. r # s
      BY <1>4, <1>8, <1>11, <2>2, <3>1
    <3>3. r \in OpenSymbols(a) /\ b.pos[r] = a.pos[r]
      BY <1>8, <1>9, <3>2 DEF OpenSymbols
    <3>4. QED
      BY <1>7, <2>2, <3>1, <3>3 DEF Told
  <2>3. \A u, v \in Archive(b) : u.key = v.key => u = v
    BY <1>7, <1>9 DEF Told
  <2>4. \A u \in KnownTrades(b) : u.key \in b.orders
    BY <1>1, <1>4, <1>10, <1>11
  <2>5. Aligned(b) => \A k \in b.orders : \E u \in KnownTrades(b) : u.key = k
    BY <1>1, <1>4, <1>7, <1>10, <1>12 DEF Told
  <2>6. QED
    BY <2>1, <2>2, <2>3, <2>4, <2>5 DEF Told
<1>14. Earned(b)
  <2>1. t \in KnownTrades(b) /\ KnownTrades(b) \ {t} = KnownTrades(a)
    BY <1>4, <1>10, <1>11
  <2>2. Profit(KnownTrades(b)) = t.realized + Profit(KnownTrades(a))
    BY <1>1, <2>1, KnownTypes, ProfitSum
  <2>3. Profit(KnownTrades(a)) \in Int
    BY KnownTypes, ProfitSum
  <2>4. Profit(KnownTrades(b)) = Profit(KnownTrades(a))
    BY <1>4, <2>2, <2>3
  <2>5. QED
    BY <1>1, <1>7, <1>12, <2>4 DEF Earned
<1>15. QED
  BY <1>6, <1>13, <1>14 DEF Faithful, b

\* Archiving a closed position adds nothing that was not known.
LEMMA FiledFaithful ==
  ASSUME NEW a \in Accounts, NEW s \in Symbols, SoundAccount(a), Has(a, s), Faithful(a)
  PROVE  Faithful(Filed(a, s))
<1> DEFINE b == Filed(a, s)
           t == TradeOf(a.pos[s])
<1>1. /\ b \in Accounts /\ b.pos = a.pos /\ b.lots = a.lots /\ b.cash = a.cash
      /\ b.realized = a.realized /\ b.orders = a.orders /\ b.writtenOff = a.writtenOff
      /\ Archive(b) = Archive(a) \cup (IF a.pos[s].open THEN {} ELSE {t})
  BY FiledSound
<1>2. t.key = KeyOf(a.pos[s]) /\ s \in OpenSymbols(a)
  BY DEF TradeOf, OpenSymbols
<1>3. Told(a) /\ Conserved(a) /\ Earned(a)
  BY DEF Faithful
<1> HIDE DEF b
<1>4. OpenSymbols(b) = OpenSymbols(a) /\ (Aligned(b) <=> Aligned(a)) /\ Cost(b) = Cost(a)
  BY <1>1 DEF OpenSymbols, Has, Aligned, Stray, Cost
<1>5. KnownTrades(b) = KnownTrades(a)
  <2>1. {TradeOf(b.pos[r]) : r \in OpenSymbols(b)} = {TradeOf(a.pos[r]) : r \in OpenSymbols(a)}
    BY <1>1, <1>4
  <2>2. t \in KnownTrades(a)
    BY <1>2, KnownTypes
  <2>3. KnownTrades(a) = Archive(a) \cup {TradeOf(a.pos[r]) : r \in OpenSymbols(a)}
    BY KnownTypes
  <2>4. KnownTrades(b) = Archive(b) \cup {TradeOf(b.pos[r]) : r \in OpenSymbols(b)}
    BY <1>1, KnownTypes
  <2>5. CASE a.pos[s].open
    BY <1>1, <2>1, <2>3, <2>4, <2>5
  <2>6. CASE ~a.pos[s].open
    BY <1>1, <2>1, <2>2, <2>3, <2>4, <2>6
  <2>7. QED
    BY <2>5, <2>6
<1>6. Told(b)
  <2>1. ASSUME NEW r \in OpenSymbols(b), NEW u \in Archive(b), u.key = KeyOf(b.pos[r])
        PROVE  ~b.pos[r].open /\ u = TradeOf(b.pos[r])
    <3>1. r \in OpenSymbols(a) /\ b.pos[r] = a.pos[r]
      BY <1>1, <1>4
    <3>2. CASE u \in Archive(a)
      BY <1>3, <2>1, <3>1, <3>2 DEF Told
    <3>3. CASE u \notin Archive(a)
      <4>1. u = t /\ ~a.pos[s].open
        BY <1>1, <3>3
      <4>2. r = s
        BY <1>2, <1>3, <2>1, <3>1, <4>1 DEF Told, KeyOf
      <4>3. QED
        BY <3>1, <4>1, <4>2
    <3>4. QED
      BY <3>2, <3>3
  <2>2. \A u \in Archive(a) : u.key = t.key => u = t
    BY <1>2, <1>3 DEF Told
  <2>3. \A u, v \in Archive(b) : u.key = v.key => u = v
    <3>1. \A u, v \in Archive(a) : u.key = v.key => u = v
      BY <1>3 DEF Told
    <3>2. \A u \in Archive(b) : u \in Archive(a) \/ u = t
      BY <1>1
    <3> HIDE DEF t
    <3>3. QED
      BY <2>2, <3>1, <3>2
  <2>4. QED
    BY <1>1, <1>3, <1>4, <1>5, <2>1, <2>3 DEF Told
<1>7. Conserved(b) /\ Earned(b)
  BY <1>1, <1>3, <1>4, <1>5 DEF Conserved, Earned
<1>8. QED
  BY <1>6, <1>7 DEF Faithful, b

\* Settled positions leave nothing behind that the archive does not hold.
LEMMA RemovedFaithful ==
  ASSUME NEW a \in Accounts, NEW ss, SoundAccount(a), Faithful(a),
         \A s \in ss : Settled(a, s)
  PROVE  Faithful(Removed(a, ss))
<1> DEFINE b == Removed(a, ss)
<1>1. /\ b \in Accounts /\ b.lots = a.lots /\ b.cash = a.cash
      /\ b.realized = a.realized /\ b.orders = a.orders /\ b.history = a.history
      /\ b.writtenOff = a.writtenOff
  BY RemovedSound
<1>2. \A s \in Symbols : b.pos[s] = IF s \in ss THEN NoPosition ELSE a.pos[s]
  BY DEF Removed
<1>3. Told(a) /\ Conserved(a) /\ Earned(a)
  BY DEF Faithful
<1> HIDE DEF b
<1>4. \A s \in Symbols : Has(b, s) <=> Has(a, s) /\ s \notin ss
  BY <1>2 DEF Has
<1>5. /\ OpenSymbols(b) = OpenSymbols(a) \ ss /\ Archive(b) = Archive(a)
      /\ \A s \in OpenSymbols(b) : b.pos[s] = a.pos[s]
  BY <1>1, <1>2, <1>4 DEF OpenSymbols, Archive
<1>6. \A s \in OpenSymbols(a) \cap ss : TradeOf(a.pos[s]) \in Archive(a)
  BY DEF Settled
<1>7. KnownTrades(b) = KnownTrades(a)
  <2> DEFINE kept == {TradeOf(b.pos[s]) : s \in OpenSymbols(b)}
             held == {TradeOf(a.pos[s]) : s \in OpenSymbols(a)}
  <2>1. kept = {TradeOf(a.pos[s]) : s \in OpenSymbols(a) \ ss}
    BY <1>5
  <2>2. kept \subseteq held
    BY <2>1
  <2>3. held \subseteq kept \cup Archive(a)
    BY <1>6, <2>1
  <2>4. KnownTrades(a) = Archive(a) \cup held /\ KnownTrades(b) = Archive(a) \cup kept
    BY <1>1, <1>5, KnownTypes
  <2> HIDE DEF kept, held
  <2>5. QED
    BY <2>2, <2>3, <2>4
<1>8. \A s \in Symbols : Stray(b, s) = Stray(a, s)
  <2> SUFFICES ASSUME NEW s \in Symbols
               PROVE  Stray(b, s) = Stray(a, s)
    OBVIOUS
  <2>1. CASE s \in ss
    <3>1. Has(a, s) /\ a.pos[s].rem = 0 /\ ~Has(b, s)
      BY <1>4, <2>1 DEF Settled, SoundAccount
    <3>2. QED
      BY <1>1, <3>1 DEF Stray
  <2>2. CASE s \notin ss
    BY <1>1, <1>2, <1>4, <2>2 DEF Stray
  <2>3. QED
    BY <2>1, <2>2
<1>9. (Aligned(b) <=> Aligned(a)) /\ Cost(b) = Cost(a)
  BY <1>1, <1>8 DEF Aligned, Cost
<1>10. Told(b)
  <2>1. ASSUME NEW s \in OpenSymbols(b)
        PROVE  /\ b.pos[s].sig.sym = s
               /\ \A t \in Archive(b) : t.key = KeyOf(b.pos[s]) =>
                    ~b.pos[s].open /\ t = TradeOf(b.pos[s])
    <3>1. s \in OpenSymbols(a) /\ b.pos[s] = a.pos[s] /\ Archive(b) = Archive(a)
      BY <1>5
    <3>2. QED
      BY <1>3, <3>1 DEF Told
  <2>2. QED
    BY <1>1, <1>3, <1>5, <1>7, <1>9, <2>1 DEF Told
<1>11. Conserved(b) /\ Earned(b)
  BY <1>1, <1>3, <1>7, <1>9 DEF Conserved, Earned
<1>12. QED
  BY <1>10, <1>11 DEF Faithful, b

\* What a management call sells, in terms of the account.
LEMMA BookedSale ==
  ASSUME NEW a \in Accounts, NEW s \in Symbols, NEW left \in Nat, SoundAccount(a),
         Has(a, s), outcomes \in Seq(Outcomes), NEW d, NEW price \in Nat,
         Step(DealOf(a, s, left), d, price)
  PROVE  \E told \in Nat, gone \in Nat :
           LET p == a.pos[s]
               lot == a.lots[s]
           IN /\ told <= gone /\ gone <= p.rem /\ gone <= lot.qty
              /\ d.p.rem = p.rem - gone
              /\ d.lot.qty = lot.qty - told
              /\ d.lot = Rest(lot, lot.qty - told)
              /\ gone > 0 => lot.cost = p.sig.entry /\ p.open
              /\ d.cash = a.cash + told * price
              /\ d.realized = a.realized + told * (price - p.sig.entry)
              /\ d.p.realized = p.realized + gone * (price - p.sig.entry)
<1> DEFINE e == DealOf(a, s, left)
           told == a.lots[s].qty - d.lot.qty
           gone == a.pos[s].rem - d.p.rem
<1>1. /\ SoundDeal(e) /\ SoundDeal(d) /\ e.p = a.pos[s] /\ e.lot = a.lots[s]
      /\ e.cash = a.cash /\ e.realized = a.realized
  BY DealSound DEF Step
<1>2. /\ e.p.rem \in Nat /\ d.p.rem \in Nat /\ e.lot.qty \in Nat /\ d.lot.qty \in Nat
  BY <1>1, DealTypes
<1>3. /\ ~e.p.open => e.p.rem = 0
      /\ e.p.rem > 0 => e.lot.qty >= e.p.rem /\ e.lot.cost = e.p.sig.entry
  BY <1>1 DEF SoundDeal, Covers
<1>4. Sold(e, d, price)
  BY DEF Step
<1> HIDE DEF e
<1>5. /\ 0 <= told /\ told <= gone
      /\ d.lot = Rest(a.lots[s], d.lot.qty)
      /\ d.cash = a.cash + told * price
      /\ d.realized = a.realized + told * (price - a.pos[s].sig.entry)
      /\ d.p.realized = a.pos[s].realized + gone * (price - a.pos[s].sig.entry)
  BY <1>1, <1>4 DEF Sold
<1>6. told \in Nat /\ gone \in Nat /\ told <= gone
  <2>1. told \in Int /\ gone \in Int /\ 0 <= told /\ told <= gone
    BY <1>1, <1>2, <1>5
  <2> HIDE DEF told, gone
  <2>2. QED
    BY <2>1
<1>7. /\ d.p.rem = a.pos[s].rem - gone /\ d.lot.qty = a.lots[s].qty - told
      /\ gone <= a.pos[s].rem
      /\ a.pos[s].rem > 0 => gone <= a.lots[s].qty
  BY <1>1, <1>2, <1>3
<1>8. gone > 0 => a.pos[s].rem > 0
  BY <1>1, <1>2
<1>9. gone <= a.lots[s].qty
  BY <1>1, <1>2, <1>6, <1>7, <1>8
<1>10. gone > 0 => a.lots[s].cost = a.pos[s].sig.entry /\ a.pos[s].open
  BY <1>1, <1>2, <1>3, <1>8
<1> HIDE DEF told, gone
<1>11. QED
  BY <1>5, <1>6, <1>7, <1>9, <1>10

\* A management call sells at cost what it takes from the lot.
LEMMA BookedConserved ==
  ASSUME NEW a \in Accounts, NEW s \in Symbols, NEW left \in Nat, SoundAccount(a),
         Has(a, s), outcomes \in Seq(Outcomes), NEW d, NEW price \in Nat,
         Step(DealOf(a, s, left), d, price), Conserved(a)
  PROVE  Conserved(Booked(a, s, d))
<1> DEFINE b == Booked(a, s, d)
           lot == a.lots[s]
           entry == a.pos[s].sig.entry
<1>1. PICK told \in Nat, gone \in Nat :
        /\ told <= gone /\ gone <= lot.qty
        /\ d.lot.qty = lot.qty - told /\ d.lot = Rest(lot, lot.qty - told)
        /\ gone > 0 => lot.cost = entry
        /\ d.cash = a.cash + told * price
        /\ d.realized = a.realized + told * (price - entry)
  BY BookedSale
<1>2. SoundDeal(d)
  BY DEF Step
<1>3. /\ b \in Accounts /\ b.cash = d.cash /\ b.realized = d.realized
      /\ b.writtenOff = a.writtenOff
  BY <1>2, BookedSound
<1>4. ASSUME NEW t \in Symbols
      PROVE  b.lots[t] = IF t = s THEN d.lot ELSE a.lots[t]
  BY <1>2, BookedAt
<1> HIDE DEF b
<1>5. Cost(b) = Cost(a) + LotCost(d.lot) - LotCost(lot)
  BY <1>3, <1>4, CostChange
<1>6. lot.qty \in Nat /\ lot.cost \in Nat /\ lot = [qty |-> lot.qty, cost |-> lot.cost]
  BY AccountTypes DEF Lots
<1>7. LotCost(d.lot) = LotCost(lot) - told * lot.cost
  <2> DEFINE n == lot.qty - told
  <2>1. n \in Nat
    BY <1>1, <1>6
  <2>2. LotCost(d.lot) = n * lot.cost
    <3>1. CASE n = lot.qty
      BY <1>1, <3>1 DEF Rest, LotCost
    <3>2. CASE n # lot.qty /\ n = 0
      <4>1. d.lot = NoLot
        BY <1>1, <3>2 DEF Rest
      <4>2. LotCost(d.lot) = 0 /\ n * lot.cost = 0
        BY <1>6, <3>2, <4>1 DEF LotCost, NoLot
      <4>3. QED
        BY <4>2
    <3>3. CASE n # lot.qty /\ n # 0
      <4>1. d.lot = [lot EXCEPT !.qty = n]
        BY <1>1, <3>3 DEF Rest
      <4>2. d.lot.cost = lot.cost /\ d.lot.qty = n
        BY <1>1, <1>6, <4>1
      <4>3. QED
        BY <4>2 DEF LotCost
    <3>4. QED
      BY <3>1, <3>2, <3>3
  <2>3. n * lot.cost = lot.qty * lot.cost - told * lot.cost
    BY <1>6
  <2>4. QED
    BY <2>2, <2>3 DEF LotCost
<1>8. told * lot.cost = told * entry
  <2>1. CASE told = 0
    <3>1. entry \in Nat
      <4>1. a.pos[s] \in Positions
        BY AccountTypes
      <4>2. QED
        BY <4>1, SignalsAssumption DEF Positions, SignalFields
    <3> HIDE DEF entry, lot
    <3>2. QED
      BY <1>6, <2>1, <3>1
  <2>2. CASE told # 0
    BY <1>1, <2>2
  <2>3. QED
    BY <2>1, <2>2
<1>9. entry \in Nat
  <2>1. a.pos[s] \in Positions
    BY AccountTypes
  <2>2. QED
    BY <2>1, SignalsAssumption DEF Positions, SignalFields
<1>10. told * (price - entry) = told * price - told * entry
  BY <1>9
<1> DEFINE paid == told * price
           freed == told * entry
           before == LotCost(lot)
<1>11. paid \in Int /\ freed \in Int /\ before \in Int
  <2>1. paid \in Int
    OBVIOUS
  <2>2. freed \in Int
    BY <1>9
  <2>3. before \in Int
    BY CostTypes
  <2>4. QED
    BY <2>1, <2>2, <2>3
<1>12. /\ a.cash \in Int /\ a.realized \in Int /\ Cost(a) \in Int /\ Capital \in Int
       /\ a.writtenOff \in Int
  BY AccountTypes, CostTypes, CapitalAssumption
<1>13. /\ b.cash = a.cash + paid /\ b.realized = a.realized + (paid - freed)
       /\ Cost(b) = Cost(a) + (before - freed) - before
  BY <1>1, <1>3, <1>5, <1>7, <1>8, <1>10
<1> HIDE DEF paid, freed, before
<1>14. a.cash + Cost(a) + a.writtenOff = Capital + a.realized
  BY DEF Conserved
<1>15. b.cash + Cost(b) + b.writtenOff = Capital + b.realized
  BY ONLY <1>3, <1>11, <1>12, <1>13, <1>14
<1>16. QED
  BY <1>15 DEF Conserved, b

\* A management call changes the result of one trade, and by what the ledger books
\* as long as the ledger is told of every share.
LEMMA BookedFaithful ==
  ASSUME NEW a \in Accounts, NEW s \in Symbols, NEW left \in Nat, SoundAccount(a),
         Has(a, s), outcomes \in Seq(Outcomes), NEW d, NEW price \in Nat,
         Step(DealOf(a, s, left), d, price), Faithful(a)
  PROVE  Faithful(Booked(a, s, d))
<1> DEFINE b == Booked(a, s, d)
           p == a.pos[s]
           t == TradeOf(p)
           u == TradeOf(d.p)
<1>1. SoundDeal(d)
  BY DEF Step
<1>2. /\ b \in Accounts /\ b.realized = d.realized /\ b.orders = a.orders
      /\ b.history = a.history /\ b.writtenOff = a.writtenOff /\ Has(b, s)
  BY <1>1, BookedSound
<1>3. ASSUME NEW r \in Symbols
      PROVE  /\ b.pos[r] = IF r = s THEN d.p ELSE a.pos[r]
             /\ b.lots[r] = IF r = s THEN d.lot ELSE a.lots[r]
             /\ Has(b, r) <=> Has(a, r)
  BY <1>1, BookedAt
<1>4. /\ d.p.run = p.run /\ d.p.sig = p.sig
      /\ ~p.open => ~d.p.open /\ d.p.realized = p.realized
  <2>1. DealOf(a, s, left).p = p
    BY DEF DealOf
  <2>2. QED
    BY <2>1 DEF Step, SamePosition
<1>5. /\ KeyOf(d.p) = KeyOf(p) /\ t.key = KeyOf(p) /\ u.key = KeyOf(p)
      /\ t.realized = p.realized /\ u.realized = d.p.realized
      /\ ~p.open => u = t
  BY <1>4 DEF KeyOf, TradeOf
<1>6. Told(a) /\ Conserved(a) /\ Earned(a)
  BY DEF Faithful
<1>7. Conserved(b)
  BY <1>6, BookedConserved
<1> HIDE DEF b, t, u
<1>8. /\ s \in OpenSymbols(a) /\ OpenSymbols(b) = OpenSymbols(a)
      /\ Archive(b) = Archive(a)
  BY <1>2, <1>3 DEF OpenSymbols, Archive
<1>9. \A r \in OpenSymbols(a) : KeyOf(a.pos[r]) = KeyOf(p) => r = s
  BY <1>6, <1>8 DEF Told, KeyOf
<1>10. \A x \in Archive(a) : x.key = KeyOf(p) => ~p.open /\ x = t
  BY <1>6, <1>8 DEF Told, t
<1>11. t \in KnownTrades(a) /\ KnownTrades(b) = (KnownTrades(a) \ {t}) \cup {u}
  <2> DEFINE others == {TradeOf(a.pos[r]) : r \in OpenSymbols(a) \ {s}}
  <2>1. {TradeOf(a.pos[r]) : r \in OpenSymbols(a)} = others \cup {t}
    BY <1>8 DEF t
  <2>2. {TradeOf(b.pos[r]) : r \in OpenSymbols(b)} = others \cup {u}
    BY <1>3, <1>8 DEF u, OpenSymbols
  <2>3. KnownTrades(a) = Archive(a) \cup others \cup {t}
    BY <2>1, KnownTypes
  <2>4. KnownTrades(b) = Archive(a) \cup others \cup {u}
    BY <1>2, <1>8, <2>2, KnownTypes
  <2>5. t \notin others
    BY <1>5, <1>9 DEF TradeOf
  <2> HIDE DEF others
  <2>6. CASE p.open
    <3>1. t \notin Archive(a)
      BY <1>5, <1>10, <2>6
    <3>2. QED
      BY <2>3, <2>4, <2>5, <3>1
  <2>7. CASE ~p.open
    BY <1>5, <2>3, <2>4, <2>7
  <2>8. QED
    BY <2>3, <2>6, <2>7
<1>12. u \notin KnownTrades(a) \ {t}
  BY <1>5, <1>6, <1>11, KnownKeys
<1>13. PICK told \in Nat, gone \in Nat :
         /\ told <= gone /\ gone <= p.rem /\ gone <= a.lots[s].qty
         /\ d.p.rem = p.rem - gone /\ d.lot.qty = a.lots[s].qty - told
         /\ d.realized = a.realized + told * (price - p.sig.entry)
         /\ d.p.realized = p.realized + gone * (price - p.sig.entry)
  BY BookedSale
<1>14. Aligned(b) => Aligned(a) /\ told = gone
  <2> SUFFICES ASSUME Aligned(b)
               PROVE  Aligned(a) /\ told = gone
    OBVIOUS
  <2>1. p.rem \in Nat /\ a.lots[s].qty \in Nat
    BY AccountTypes
  <2>2. a.pos[s].rem > 0 => a.lots[s].qty >= a.pos[s].rem
    BY DEF SoundAccount, Covers
  <2>3. (a.lots[s].qty - told) - (p.rem - gone) = 0
    <3>1. Stray(b, s) = 0 /\ b.pos[s] = d.p /\ b.lots[s] = d.lot
      BY <1>3 DEF Aligned
    <3>2. QED
      BY <1>2, <1>13, <3>1 DEF Stray
  <2>4. told = gone /\ a.lots[s].qty - p.rem = 0
    <3> DEFINE held == a.lots[s].qty
               due == p.rem
    <3>1. /\ held \in Nat /\ due \in Nat /\ told \in Nat /\ gone \in Nat
          /\ told <= gone /\ gone <= due /\ (held - told) - (due - gone) = 0
          /\ due > 0 => held >= due
      BY <1>13, <2>1, <2>2, <2>3
    <3> HIDE DEF held, due
    <3>2. told = gone /\ held - due = 0
      BY ONLY <3>1
    <3>3. QED
      BY <3>2 DEF held, due
  <2>5. Stray(a, s) = 0
    BY <2>4 DEF Stray
  <2>6. ASSUME NEW r \in Symbols, r # s
        PROVE  Stray(a, r) = 0
    <3>1. Stray(b, r) = 0
      BY DEF Aligned
    <3>2. /\ b.pos[r] = a.pos[r] /\ b.lots[r] = a.lots[r] /\ (Has(b, r) <=> Has(a, r))
      BY <1>3, <2>6
    <3>3. QED
      BY <3>1, <3>2 DEF Stray
  <2>7. a.writtenOff = 0
    BY <1>2 DEF Aligned
  <2>8. QED
    BY <2>4, <2>5, <2>6, <2>7 DEF Aligned
<1>15. Told(b)
  <2>1. ASSUME NEW r \in OpenSymbols(b)
        PROVE  /\ b.pos[r].sig.sym = r
               /\ \A x \in Archive(b) : x.key = KeyOf(b.pos[r]) =>
                    ~b.pos[r].open /\ x = TradeOf(b.pos[r])
    <3>1. r \in Symbols /\ r \in OpenSymbols(a)
      BY <1>8 DEF OpenSymbols
    <3>2. CASE r = s
      <4>1. b.pos[r] = d.p
        BY <1>3, <3>1, <3>2
      <4>2. QED
        BY <1>4, <1>5, <1>6, <1>8, <1>10, <3>2, <4>1 DEF Told, u
    <3>3. CASE r # s
      <4>1. b.pos[r] = a.pos[r]
        BY <1>3, <3>1, <3>3
      <4>2. QED
        BY <1>6, <1>8, <3>1, <4>1 DEF Told
    <3>4. QED
      BY <3>2, <3>3
  <2>2. \A x, y \in Archive(b) : x.key = y.key => x = y
    BY <1>6, <1>8 DEF Told
  <2>3. \A x \in KnownTrades(b) : x.key \in b.orders
    BY <1>2, <1>5, <1>6, <1>11 DEF Told
  <2>4. ASSUME Aligned(b), NEW k \in b.orders
        PROVE  \E x \in KnownTrades(b) : x.key = k
    <3>1. PICK x \in KnownTrades(a) : x.key = k
      BY <1>2, <1>6, <1>14, <2>4 DEF Told
    <3>2. CASE x = t
      BY <1>5, <1>11, <3>1, <3>2
    <3>3. CASE x # t
      BY <1>11, <3>1, <3>3
    <3>4. QED
      BY <3>2, <3>3
  <2>5. QED
    BY <2>1, <2>2, <2>3, <2>4 DEF Told
<1>16. Earned(b)
  <2> SUFFICES ASSUME Aligned(b)
               PROVE  b.realized = Profit(KnownTrades(b))
    BY DEF Earned
  <2> DEFINE rest == KnownTrades(a) \ {t}
             gain == told * (price - p.sig.entry)
  <2>1. KnownTrades(b) \ {u} = rest /\ u \in KnownTrades(b)
    BY <1>11, <1>12
  <2>2. Profit(KnownTrades(b)) = u.realized + Profit(rest)
    BY <1>2, <2>1, KnownTypes, ProfitSum
  <2>3. Profit(KnownTrades(a)) = t.realized + Profit(rest)
    BY <1>11, KnownTypes, ProfitSum
  <2>4. Profit(rest) \in Int
    <3>1. IsFiniteSet(rest) /\ rest \subseteq Trades
      BY KnownTypes, FS_RemoveElement
    <3> HIDE DEF rest
    <3>2. QED
      BY <3>1, ProfitSum
  <2>5. a.realized = Profit(KnownTrades(a))
    BY <1>6, <1>14 DEF Earned
  <2>6. d.realized = a.realized + gain /\ d.p.realized = p.realized + gain
    BY <1>13, <1>14
  <2>7. a.realized \in Int /\ p.realized \in Int /\ gain \in Int
    <3>1. a.realized \in Int /\ p.realized \in Int /\ a.pos[s] \in Positions
      BY AccountTypes
    <3> DEFINE margin == price - p.sig.entry
    <3>2. margin \in Int
      <4>1. p.sig.entry \in Nat
        BY <3>1, SignalsAssumption DEF Positions, SignalFields
      <4>2. QED
        BY <4>1
    <3> HIDE DEF margin, p
    <3>3. told * margin \in Int
      BY ONLY <3>2, told \in Nat
    <3>4. QED
      BY ONLY <3>1, <3>3 DEF margin, gain, p
  <2> HIDE DEF rest, gain, p
  <2>8. d.realized = Profit(KnownTrades(b))
    <3>1. u.realized = d.p.realized /\ t.realized = p.realized
      BY <1>5
    <3>2. QED
      BY ONLY <2>2, <2>3, <2>4, <2>5, <2>6, <2>7, <3>1
  <2>9. QED
    BY <1>2, <2>8
<1>17. QED
  BY <1>7, <1>15, <1>16 DEF Faithful, b

\* A management call keeps the account faithful, wherever it stops.
LEMMA ManagedFaithful ==
  ASSUME NEW a \in Accounts, NEW b, SoundAccount(a), outcomes \in Seq(Outcomes),
         ManagedFrom(a, b), Faithful(a)
  PROVE  Faithful(b)
<1>1. PICK s \in Symbols, price \in Prices, left \in Nat, d \in Deals :
        /\ Has(a, s)
        /\ Step(DealOf(a, s, left), d, price)
        /\ \/ b = Booked(a, s, d)
           \/ b = Filed(Booked(a, s, d), s)
           \/ ~d.p.open /\ b = Removed(Filed(Booked(a, s, d), s), {s})
  BY DEF ManagedFrom
<1> DEFINE x == Booked(a, s, d)
           y == Filed(x, s)
<1>2. price \in Nat /\ SoundDeal(d)
  BY <1>1, PricesAssumption DEF Step
<1>3. Faithful(x)
  BY <1>1, <1>2, BookedFaithful
<1>4. x \in Accounts /\ SoundAccount(x) /\ Has(x, s)
  BY <1>1, <1>2, BookedSound
<1>5. x.pos[s] = d.p
  BY <1>1, <1>2, BookedAt
<1> HIDE DEF x
<1>6. Faithful(y)
  BY <1>3, <1>4, FiledFaithful
<1>7. /\ y \in Accounts /\ SoundAccount(y) /\ y.pos = x.pos
      /\ Has(y, s) <=> Has(x, s)
      /\ Archive(y) = Archive(x) \cup (IF x.pos[s].open THEN {} ELSE {TradeOf(x.pos[s])})
  BY <1>4, FiledSound
<1> HIDE DEF y
<1>8. ASSUME ~d.p.open
      PROVE  Faithful(Removed(y, {s}))
  <2>1. Settled(y, s)
    BY <1>4, <1>5, <1>7, <1>8 DEF Settled
  <2>2. QED
    BY <1>6, <1>7, <2>1, RemovedFaithful
<1>9. QED
  BY <1>1, <1>3, <1>6, <1>8 DEF x, y

Accounted == \A a \in BothAccounts : Faithful(a)

LEMMA AccountedInit == Init => Accounted
BY FreshFaithful DEF Init, Accounted, BothAccounts

LEMMA AccountedNext == Safe /\ Accounted /\ [Next]_vars => Accounted'
<1> SUFFICES ASSUME Safe, Accounted, [Next]_vars
             PROVE  Faithful(session') /\ Faithful(saved')
  <2>1. Accounted' <=> \A a \in {session', saved'} : Faithful(a)
    BY DEF Accounted, BothAccounts, Faithful, Told, Conserved, Earned, Aligned, Stray,
           KnownTrades, OpenSymbols, Has, Archive, Cost, Profit, TradeOf, KeyOf
  <2>2. QED
    BY <2>1
<1>1. /\ session \in Accounts /\ SoundAccount(session) /\ run \in Nat
      /\ outcomes \in Seq(Outcomes) /\ Faithful(session) /\ Faithful(saved)
  BY DEF Safe, TypeOK, Accounted, BothAccounts
<1>2. ASSUME FilledFrom(session, session')
      PROVE  Faithful(session')
  <2>1. PICK sg \in Signals : /\ MayFill(session, sg)
                              /\ session' = Filled(session, sg) \/ session' = Bought(session, sg)
    BY <1>2 DEF FilledFrom
  <2>2. QED
    BY <1>1, <2>1, FilledFaithful, BoughtFaithful
<1>3. ASSUME ManagedFrom(session, session')
      PROVE  Faithful(session')
  BY <1>1, <1>3, ManagedFaithful
<1>4. ASSUME ClearedFrom(session, session')
      PROVE  Faithful(session')
  BY <1>1, <1>4, RemovedFaithful DEF ClearedFrom
<1>5. QED
  BY <1>1, <1>2, <1>3, <1>4, StepKinds

LEMMA AccountedAlways == Spec => [](Safe /\ Accounted)
<1>1. Init => Safe /\ Accounted
  BY SafeInit, AccountedInit
<1>2. Safe /\ Accounted /\ [Next]_vars => (Safe /\ Accounted)'
  BY SafeNext, AccountedNext
<1>3. QED
  BY <1>1, <1>2, PTL DEF Spec

\* Whatever the engine does and wherever a script is abandoned, no money appears or
\* disappears: it moves between cash, shares at cost and realized profit.
THEOREM CashAlwaysConserved == Spec => []CashConserved
<1>1. Safe /\ Accounted => CashConserved
  BY DEF Accounted, Faithful, Conserved, Cost, CashConserved
<1>2. QED
  BY <1>1, AccountedAlways, PTL

\* As long as the ledger's shares are those of the positions, its realized profit is
\* that of the trades, each counted once.
THEOREM ProfitAlwaysMatches == Spec => []ProfitMatchesTrades
<1>1. Safe /\ Accounted => ProfitMatchesTrades
  BY DEF Accounted, Faithful, Earned, Profit, ProfitMatchesTrades
<1>2. QED
  BY <1>1, AccountedAlways, PTL

\* Every trade has an order, no order has two, and an order without one shows in the
\* ledger's shares.
THEOREM OrdersAlwaysTradedOnce == Spec => []OneTradePerOrder
<1>1. ASSUME Safe, Accounted
      PROVE  OneTradePerOrder
  <2> SUFFICES ASSUME NEW a \in BothAccounts
               PROVE  LET traded == {t.key : t \in KnownTrades(a)}
                      IN /\ traded \subseteq a.orders
                         /\ Cardinality(KnownTrades(a)) = Cardinality(traded)
                         /\ Aligned(a) => traded = a.orders
    BY DEF OneTradePerOrder
  <2> DEFINE traded == {t.key : t \in KnownTrades(a)}
  <2>1. a \in Accounts /\ Told(a)
    BY <1>1 DEF Safe, TypeOK, Accounted, Faithful, BothAccounts
  <2>2. traded \subseteq a.orders /\ (Aligned(a) => traded = a.orders)
    BY <2>1 DEF Told
  <2>3. IsFiniteSet(KnownTrades(a)) /\ \A t, u \in KnownTrades(a) : t.key = u.key => t = u
    BY <2>1, KnownTypes, KnownKeys
  <2> DEFINE f == [t \in KnownTrades(a) |-> t.key]
  <2>4. f \in Bijection(KnownTrades(a), traded)
    BY <2>3 DEF Bijection, Injection, Surjection, IsInjective
  <2>5. ExistsBijection(KnownTrades(a), traded)
    BY <2>4 DEF ExistsBijection
  <2>6. QED
    BY <2>2, <2>3, <2>5, FS_Bijection
<1>2. Safe /\ Accounted => OneTradePerOrder
  BY <1>1
<1>3. QED
  BY <1>2, AccountedAlways, PTL

-----------------------------------------------------------------------------
(***************************************************************************)
(* What a step does to one position and to the history.                    *)
(***************************************************************************)

\* q is what management may make of position p.
Managed(p, q) ==
  /\ p.be => q.be
  /\ q.be => q.stop >= q.sig.entry
  /\ q.stop >= p.stop \/ (~p.be /\ q.be)
  /\ ~p.open => ~q.open /\ q.realized = p.realized

\* b comes after a within a session: a position is managed, left alone or removed,
\* and the history only grows at its end.
Follows(a, b) ==
  /\ \A s \in Symbols : SameTrade(a, b, s) => Managed(a.pos[s], b.pos[s])
  /\ \/ b.history = a.history
     \/ \E t : b.history = Append(a.history, t)

LEMMA StepManaged ==
  ASSUME NEW d, NEW e, NEW price, Step(d, e, price)
  PROVE  Managed(d.p, e.p)
BY DEF Step, SoundDeal, StopHeld, SamePosition, Managed

LEMMA SameManaged ==
  ASSUME NEW a \in Accounts, SoundAccount(a), NEW s \in Symbols, Has(a, s)
  PROVE  Managed(a.pos[s], a.pos[s])
<1>1. a.pos[s].stop \in Nat
  BY AccountTypes DEF Positions
<1>2. QED
  BY <1>1 DEF Managed, SoundAccount

LEMMA FilledFollows ==
  ASSUME NEW a \in Accounts, NEW b, SoundAccount(a), run \in Nat, FilledFrom(a, b)
  PROVE  Follows(a, b)
<1>1. PICK sg \in Signals : MayFill(a, sg) /\ (b = Filled(a, sg) \/ b = Bought(a, sg))
  BY DEF FilledFrom
<1>2. ~Has(a, sg.sym)
  BY <1>1 DEF MayFill
<1>3. b.history = a.history
  <2>1. Filled(a, sg).history = a.history
    BY <1>1, FilledSound
  <2>2. Bought(a, sg).history = a.history
    BY <1>1, BoughtSound
  <2>3. QED
    BY <1>1, <2>1, <2>2
<1>4. ASSUME NEW s \in Symbols, Has(a, s)
      PROVE  b.pos[s] = a.pos[s]
  <2>1. s # sg.sym
    BY <1>2, <1>4
  <2>2. CASE b = Filled(a, sg)
    <3>1. Filled(a, sg).pos[s] = IF s = sg.sym THEN Opened(run, sg, FillQty(sg)) ELSE a.pos[s]
      BY <1>1, FilledSound
    <3>2. QED
      BY <2>1, <2>2, <3>1
  <2>3. CASE b = Bought(a, sg)
    <3>1. Bought(a, sg).pos = a.pos
      BY <1>1, BoughtSound
    <3>2. QED
      BY <2>3, <3>1
  <2>4. QED
    BY <1>1, <2>2, <2>3
<1>5. QED
  BY <1>3, <1>4, SameManaged DEF Follows, SameTrade

LEMMA ManagedFollows ==
  ASSUME NEW a \in Accounts, NEW b, SoundAccount(a), ManagedFrom(a, b)
  PROVE  Follows(a, b)
<1>1. PICK s \in Symbols, price \in Prices, left \in Nat, d \in Deals :
        /\ Has(a, s)
        /\ Step(DealOf(a, s, left), d, price)
        /\ \/ b = Booked(a, s, d)
           \/ b = Filed(Booked(a, s, d), s)
           \/ ~d.p.open /\ b = Removed(Filed(Booked(a, s, d), s), {s})
  BY DEF ManagedFrom
<1> DEFINE x == Booked(a, s, d)
           y == Filed(x, s)
<1>2. SoundDeal(d)
  BY <1>1 DEF Step
<1>3. x \in Accounts /\ SoundAccount(x) /\ Has(x, s) /\ x.history = a.history
  BY <1>1, <1>2, BookedSound
<1>4. ASSUME NEW t \in Symbols, Has(a, t)
      PROVE  Managed(a.pos[t], x.pos[t])
  <2>1. x.pos[t] = IF t = s THEN d.p ELSE a.pos[t]
    BY <1>1, <1>2, BookedAt
  <2>2. Managed(a.pos[s], d.p)
    <3>1. DealOf(a, s, left).p = a.pos[s]
      BY DEF DealOf
    <3>2. Managed(DealOf(a, s, left).p, d.p)
      BY <1>1, StepManaged
    <3>3. QED
      BY <3>1, <3>2
  <2>3. Managed(a.pos[t], a.pos[t])
    BY <1>4, SameManaged
  <2> HIDE DEF x
  <2>4. QED
    BY <2>1, <2>2, <2>3
<1> HIDE DEF x
<1>5. /\ y \in Accounts /\ SoundAccount(y) /\ y.pos = x.pos
      /\ y.history = x.history \/ \E t : y.history = Append(x.history, t)
  BY <1>3, FiledSound
<1> HIDE DEF y
<1> DEFINE z == Removed(y, {s})
<1>6. z.history = y.history
  BY <1>5, RemovedSound
<1>7. ASSUME NEW t \in Symbols, Has(z, t)
      PROVE  z.pos[t] = y.pos[t]
  BY <1>5, <1>7, RemovedSound DEF Has
<1> HIDE DEF z
<1>8. b = x \/ b = y \/ b = z
  BY <1>1 DEF x, y, z
<1>9. b.history = a.history \/ \E t : b.history = Append(a.history, t)
  BY <1>3, <1>5, <1>6, <1>8
<1>10. ASSUME NEW t \in Symbols, SameTrade(a, b, t)
       PROVE  Managed(a.pos[t], b.pos[t])
  BY <1>4, <1>5, <1>7, <1>8, <1>10 DEF SameTrade
<1>11. QED
  BY <1>9, <1>10 DEF Follows

LEMMA ClearedFollows ==
  ASSUME NEW a \in Accounts, NEW b, SoundAccount(a), ClearedFrom(a, b)
  PROVE  Follows(a, b)
<1>1. PICK ss \in SUBSET Symbols : b = Removed(a, ss)
  BY DEF ClearedFrom
<1>2. b.history = a.history
  BY <1>1, RemovedSound
<1>3. ASSUME NEW t \in Symbols, Has(b, t)
      PROVE  b.pos[t] = a.pos[t]
  BY <1>1, <1>3, RemovedSound DEF Has
<1>4. QED
  BY <1>2, <1>3, SameManaged DEF Follows, SameTrade

LEMMA SessionStep ==
  ASSUME Safe, Next, restarts' = restarts
  PROVE  Follows(session, session')
<1>1. /\ session \in Accounts /\ SoundAccount(session) /\ run \in Nat /\ restarts \in Nat
  BY DEF Safe, TypeOK
<1>2. ASSUME session' = session
      PROVE  Follows(session, session')
  BY <1>1, <1>2, SameManaged DEF Follows, SameTrade
<1>3. restarts' # restarts + 1
  BY <1>1
<1>4. QED
  BY <1>1, <1>2, <1>3, StepKinds, FilledFollows, ManagedFollows, ClearedFollows

\* The trailing stop of a trade only rises, but for the step to break-even.
THEOREM StopAlwaysRatchets == Spec => StopRatchet
<1> DEFINE Ratchet ==
      restarts' = restarts =>
        \A s \in Symbols : SameTrade(session, session', s) =>
          LET old == session.pos[s]
              new == session'.pos[s]
          IN \/ new.stop >= old.stop
             \/ ~old.be /\ new.be /\ new.stop >= new.sig.entry
<1>1. Safe /\ Next => Ratchet
  BY SessionStep DEF Managed, Follows
<1> HIDE DEF Ratchet
<1>2. Safe /\ [Next]_vars => [Ratchet]_vars
  BY <1>1
<1>3. Spec => [][Ratchet]_vars
  BY <1>2, SafeAlways, PTL DEF Spec
<1>4. QED
  BY <1>3 DEF StopRatchet, Ratchet

\* Nothing archived is taken back, nothing closed reopens or earns more.
THEOREM SettledAlwaysFinal == Spec => SettledIsFinal
<1> DEFINE Final ==
      restarts' = restarts =>
        /\ Len(session.history) <= Len(session'.history)
        /\ \A i \in DOMAIN session.history : session'.history[i] = session.history[i]
        /\ \A s \in Symbols :
             (SameTrade(session, session', s) /\ ~session.pos[s].open) =>
               /\ ~session'.pos[s].open
               /\ session'.pos[s].realized = session.pos[s].realized
<1>1. Safe /\ Next => Final
  <2> SUFFICES ASSUME Safe, Next, restarts' = restarts PROVE Final
    BY DEF Final
  <2>1. session.history \in Seq(Trades) /\ session'.history \in Seq(Trades)
    BY SafeNext, AccountTypes DEF Safe, TypeOK
  <2>2. /\ Len(session.history) <= Len(session'.history)
        /\ \A i \in DOMAIN session.history : session'.history[i] = session.history[i]
    <3>1. CASE session'.history = session.history
      BY <2>1, <3>1
    <3>2. CASE \E t : session'.history = Append(session.history, t)
      <4>1. PICK t : session'.history = Append(session.history, t)
        BY <3>2
      <4>2. /\ Len(session'.history) = Len(session.history) + 1
            /\ \A i \in 1 .. Len(session.history) : session'.history[i] = session.history[i]
        BY <2>1, <4>1
      <4>3. QED
        BY <2>1, <4>2
    <3>3. QED
      BY <3>1, <3>2, SessionStep DEF Follows
  <2>3. QED
    BY <2>2, SessionStep DEF Managed, Follows
<1> HIDE DEF Final
<1>2. Safe /\ [Next]_vars => [Final]_vars
  BY <1>1
<1>3. Spec => [][Final]_vars
  BY <1>2, SafeAlways, PTL DEF Spec
<1>4. QED
  BY <1>3 DEF SettledIsFinal, Final

-----------------------------------------------------------------------------
(***************************************************************************)
(* The engine implements the abstract ledger.                              *)
(***************************************************************************)

\* Archiving and removing positions is invisible.
LEMMA FilingMaps ==
  ASSUME NEW a \in Accounts, SoundAccount(a)
  PROVE  /\ \A s \in Symbols : Has(a, s) =>
              AbstractAccount(Filed(a, s)) = AbstractAccount(a)
         /\ \A ss : AbstractAccount(Removed(a, ss)) = AbstractAccount(a)
BY FiledSound, RemovedSound DEF AbstractAccount

\* A management call is one sale of the lot, or nothing.
LEMMA BookedMaps ==
  ASSUME NEW a \in Accounts, NEW s \in Symbols, NEW left \in Nat, SoundAccount(a), Has(a, s),
         outcomes \in Seq(Outcomes), NEW d, NEW price \in Nat,
         Step(DealOf(a, s, left), d, price)
  PROVE  LET lot == a.lots[s]
             x   == AbstractAccount(a)
             y   == AbstractAccount(Booked(a, s, d))
         IN \/ y = x
            \/ \E q \in 1 .. lot.qty :
                 y = [cash |-> x.cash + q * price,
                      gain |-> x.gain + q * (price - lot.cost),
                      lots |-> [x.lots EXCEPT ![s] = IF lot.qty - q = 0 THEN NoLot
                                                     ELSE [lot EXCEPT !.qty = lot.qty - q]],
                      lost |-> x.lost]
<1> DEFINE b   == Booked(a, s, d)
           lot == a.lots[s]
           margin == price - a.pos[s].sig.entry
<1>1. PICK q \in Nat, gone \in Nat :
        /\ q <= gone /\ gone <= lot.qty
        /\ d.lot = Rest(lot, lot.qty - q)
        /\ gone > 0 => lot.cost = a.pos[s].sig.entry
        /\ d.cash = a.cash + q * price
        /\ d.realized = a.realized + q * margin
  BY BookedSale
<1>2. SoundDeal(d)
  BY DEF Step
<1>3. /\ b.cash = d.cash /\ b.realized = d.realized /\ b.writtenOff = a.writtenOff
  BY <1>2, BookedSound
<1>4. b.lots = [a.lots EXCEPT ![s] = d.lot]
  BY DEF Booked
<1>5. /\ a.lots \in [Symbols -> Lots] /\ lot \in Lots /\ lot.qty \in Nat
      /\ a.cash \in Int /\ a.realized \in Int /\ margin \in Int
  <2>1. a.pos[s] \in Positions
    BY AccountTypes
  <2>2. a.pos[s].sig.entry \in Nat
    BY <2>1, SignalsAssumption DEF Positions, SignalFields
  <2>3. QED
    BY <2>2, AccountTypes
<1> HIDE DEF b
<1>6. CASE q = 0
  <2>1. d.lot = lot
    BY <1>1, <1>5, <1>6 DEF Rest
  <2>2. d.cash = a.cash /\ d.realized = a.realized
    <3>1. 0 * price = 0 /\ 0 * margin = 0
      BY <1>5
    <3> HIDE DEF margin
    <3>2. QED
      BY <1>1, <1>5, <1>6, <3>1
  <2>3. [a.lots EXCEPT ![s] = lot] = a.lots
    BY <1>5
  <2>4. AbstractAccount(b) = AbstractAccount(a)
    BY <1>3, <1>4, <2>1, <2>2, <2>3 DEF AbstractAccount
  <2>5. QED
    BY <2>4 DEF b
<1>7. CASE q # 0
  <2>1. q \in 1 .. lot.qty /\ lot.cost = a.pos[s].sig.entry
    BY <1>1, <1>5, <1>7
  <2> DEFINE rest == IF lot.qty - q = 0 THEN NoLot ELSE [lot EXCEPT !.qty = lot.qty - q]
  <2>2. d.lot = rest
    BY <1>1, <1>5, <2>1 DEF Rest
  <2>3. margin = price - lot.cost
    BY <2>1
  <2>4. AbstractAccount(b) = [cash |-> a.cash + q * price, gain |-> a.realized + q * margin,
                              lots |-> [a.lots EXCEPT ![s] = rest], lost |-> a.writtenOff]
    BY <1>1, <1>3, <1>4, <2>2 DEF AbstractAccount
  <2>5. /\ AbstractAccount(a).cash = a.cash /\ AbstractAccount(a).gain = a.realized
        /\ AbstractAccount(a).lots = a.lots /\ AbstractAccount(a).lost = a.writtenOff
    BY DEF AbstractAccount
  <2> HIDE DEF rest, lot, margin
  <2>6. QED
    BY <2>1, <2>3, <2>4, <2>5 DEF b, rest, lot
<1>8. QED
  BY <1>6, <1>7

\* A fill, finished or not, is one purchase.
LEMMA FilledMaps ==
  ASSUME NEW a \in Accounts, NEW b, SoundAccount(a), run \in Nat, FilledFrom(a, b)
  PROVE  LET x == AbstractAccount(a)
         IN \E sg \in Signals : LET q == FillQty(sg) IN
              /\ sg.sym \in Symbols
              /\ AbstractAccount(b) =
                   [cash |-> x.cash - q * sg.entry,
                    gain |-> x.gain,
                    lots |-> [x.lots EXCEPT ![sg.sym] = [qty |-> q, cost |-> sg.entry]],
                    lost |-> x.lost + x.lots[sg.sym].qty * x.lots[sg.sym].cost]
<1>1. PICK sg \in Signals : MayFill(a, sg) /\ (b = Filled(a, sg) \/ b = Bought(a, sg))
  BY DEF FilledFrom
<1>2. sg.sym \in Symbols
  BY <1>1, FillTypes
<1>3. /\ b.cash = a.cash - FillQty(sg) * sg.entry
      /\ b.realized = a.realized
      /\ b.lots = [a.lots EXCEPT ![sg.sym] = [qty |-> FillQty(sg), cost |-> sg.entry]]
      /\ b.writtenOff = a.writtenOff + LotCost(a.lots[sg.sym])
  BY <1>1, FilledSound, BoughtSound
<1>4. QED
  BY <1>2, <1>3 DEF AbstractAccount, LotCost

\* Every step of the engine is a step of the abstract ledger.
LEMMA LedgerStep ==
  ASSUME Safe, [Next]_vars
  PROVE  [Ledger!Next]_Ledger!vars
<1> DEFINE x  == AbstractAccount(session)
           Goal == [Ledger!Next]_Ledger!vars
<1>1. /\ session \in Accounts /\ SoundAccount(session) /\ outcomes \in Seq(Outcomes)
      /\ run \in Nat
  BY DEF Safe, TypeOK
<1>2. ASSUME AbstractAccount(session)' = AbstractAccount(session),
             AbstractAccount(saved)' = AbstractAccount(saved)
      PROVE  Goal
  BY <1>2 DEF Ledger!vars
<1>3. /\ AbstractAccount(session)' = AbstractAccount(session')
      /\ AbstractAccount(saved)' = AbstractAccount(saved')
  BY DEF AbstractAccount
<1>4. ASSUME FilledFrom(session, session'), saved' = saved \/ saved' = session'
      PROVE  Goal
  <2>1. PICK sg \in Signals :
          /\ sg.sym \in Symbols
          /\ AbstractAccount(session') =
               [cash |-> x.cash - FillQty(sg) * sg.entry,
                gain |-> x.gain,
                lots |-> [x.lots EXCEPT ![sg.sym] = [qty |-> FillQty(sg), cost |-> sg.entry]],
                lost |-> x.lost + x.lots[sg.sym].qty * x.lots[sg.sym].cost]
    BY <1>1, <1>4, FilledMaps
  <2>2. AbstractAccount(saved)' \in {AbstractAccount(saved), AbstractAccount(session)'}
    BY <1>3, <1>4
  <2>3. FillQty(sg) \in {FillQty(g) : g \in Signals} /\ sg.entry \in {g.entry : g \in Signals}
    OBVIOUS
  <2> HIDE DEF x
  <2>4. Ledger!Buy(sg.sym, FillQty(sg), sg.entry)
    BY <1>3, <2>1, <2>2 DEF Ledger!Buy, x
  <2>5. QED
    BY <2>1, <2>3, <2>4 DEF Ledger!Next
<1>5. ASSUME ManagedFrom(session, session'), saved' = saved
      PROVE  Goal
  <2>1. PICK s \in Symbols, price \in Prices, left \in Nat, d \in Deals :
          /\ Has(session, s)
          /\ Step(DealOf(session, s, left), d, price)
          /\ \/ session' = Booked(session, s, d)
             \/ session' = Filed(Booked(session, s, d), s)
             \/ session' = Removed(Filed(Booked(session, s, d), s), {s})
    BY <1>5 DEF ManagedFrom
  <2> DEFINE b == Booked(session, s, d)
  <2>2. price \in Nat /\ SoundDeal(d)
    BY <2>1, PricesAssumption DEF Step
  <2>3. b \in Accounts /\ SoundAccount(b) /\ Has(b, s)
    BY <1>1, <2>1, <2>2, BookedSound
  <2>4. AbstractAccount(session') = AbstractAccount(b)
    <3> HIDE DEF b
    <3>1. Filed(b, s) \in Accounts /\ SoundAccount(Filed(b, s))
      BY <2>3, FiledSound
    <3>2. /\ AbstractAccount(Filed(b, s)) = AbstractAccount(b)
          /\ AbstractAccount(Removed(Filed(b, s), {s})) = AbstractAccount(Filed(b, s))
      BY <2>3, <3>1, FilingMaps
    <3>3. QED
      BY <2>1, <3>2 DEF b
  <2>5. AbstractAccount(saved)' = AbstractAccount(saved)
    BY <1>3, <1>5
  <2>6. CASE AbstractAccount(b) = x
    BY <1>2, <1>3, <2>4, <2>5, <2>6
  <2>7. CASE AbstractAccount(b) # x
    <3> DEFINE lot == session.lots[s]
    <3>1. PICK q \in 1 .. lot.qty :
            AbstractAccount(b) =
              [cash |-> x.cash + q * price,
               gain |-> x.gain + q * (price - lot.cost),
               lots |-> [x.lots EXCEPT ![s] = IF lot.qty - q = 0 THEN NoLot
                                              ELSE [lot EXCEPT !.qty = lot.qty - q]],
               lost |-> x.lost]
      BY <1>1, <2>1, <2>2, <2>7, BookedMaps
    <3>2. x.lots[s] = lot /\ lot.qty \in Nat
      BY <1>1, AccountTypes DEF AbstractAccount
    <3>3. Ledger!NoLot = NoLot
      BY DEF Ledger!NoLot, NoLot
    <3> HIDE DEF x, b, lot
    <3>4. Ledger!Sell(s, q, price)
      BY <1>3, <2>4, <2>5, <3>1, <3>2, <3>3 DEF Ledger!Sell, x
    <3>5. q \in 1 .. AbstractAccount(session).lots[s].qty
      BY <3>2 DEF x
    <3>6. QED
      BY <2>1, <3>4, <3>5 DEF Ledger!Next
  <2>8. QED
    BY <2>6, <2>7
<1>6. ASSUME ClearedFrom(session, session'), saved' = saved
      PROVE  Goal
  <2>1. AbstractAccount(session') = AbstractAccount(session)
    BY <1>1, <1>6, FilingMaps DEF ClearedFrom
  <2>2. QED
    BY <1>2, <1>3, <1>6, <2>1
<1>7. ASSUME session' = session, saved' = saved \/ saved' = session
      PROVE  Goal
  BY <1>3, <1>7 DEF Ledger!Next, Ledger!Save, Ledger!vars
<1>8. ASSUME session' = saved, saved' = saved
      PROVE  Goal
  BY <1>3, <1>8 DEF Ledger!Next, Ledger!Recover, Ledger!vars
<1> HIDE DEF Goal
<1>9. Goal
  BY <1>4, <1>5, <1>6, <1>7, <1>8, StepKinds
<1>10. QED
  BY <1>9 DEF Goal

\* The engine keeps the abstract ledger's promise, wherever a script is abandoned and
\* whatever the prices.
THEOREM EngineImplementsLedger == Spec => LedgerPromise
<1>1. Init => Ledger!Init
  <2>1. Ledger!NoLot = NoLot
    BY DEF Ledger!NoLot, NoLot
  <2>2. AbstractAccount(FreshAccount) = Ledger!Fresh
    BY <2>1 DEF AbstractAccount, FreshAccount, Ledger!Fresh
  <2>3. QED
    BY <2>2 DEF Init, Ledger!Init
<1>2. Safe /\ [Next]_vars => [Ledger!Next]_Ledger!vars
  BY LedgerStep
<1>3. QED
  BY <1>1, <1>2, SafeAlways, PTL DEF Spec, LedgerPromise, Ledger!Spec

=============================================================================
