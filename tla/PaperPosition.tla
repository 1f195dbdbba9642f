--------------------------- MODULE PaperPosition ---------------------------
(***************************************************************************)
(* What the methods of PaperPosition and the trade management engine do to *)
(* one paper position and to the ledger that mirrors it.  Everything here  *)
(* is an operator: PaperTrading turns it into actions.                     *)
(*                                                                         *)
(* A deal is what one management call can change: the position p, the      *)
(* cash and the realized profit of the paper_broker ledger, the lot it has *)
(* for p's symbol, and the outcomes written to Experience Memory.  Prices  *)
(* are whole ticks, so round(x, 2) is exact and is left out.               *)
(*                                                                         *)
(* A rerun of the page abandons the script where it next asks for          *)
(* st.session_state.  A deal says how many more times it may ask (left);   *)
(* the time after that it is dropped, and nothing that follows happens.    *)
(***************************************************************************)
EXTENDS Integers, Sequences

CONSTANTS
  Symbols,   \* tradable symbols
  Signals    \* candidates a scan can hand over, one per strategy and signal_time

\* A candidate's execution fields, as create_atomic_paper_trade reads them.
SignalFields ==
  [sym: Symbols, qty: Nat, entry: Nat, stop: Nat, t1: Nat, t2: Nat, t3: Nat]

ASSUME SignalsAssumption == Signals \subseteq SignalFields

Lower(a, b) == IF a <= b THEN a ELSE b
Higher(a, b) == IF a >= b THEN a ELSE b

-----------------------------------------------------------------------------
(***************************************************************************)
(* A position.  sig carries symbol, strategy, entry and targets, run the   *)
(* run id of the key it was filled under.                                  *)
(***************************************************************************)
Positions ==
  [run: Nat, sig: Signals, qty: Nat \ {0}, rem: Nat, stop: Nat,
   hit1: BOOLEAN, hit2: BOOLEAN, hit3: BOOLEAN, be: BOOLEAN,
   open: BOOLEAN, realized: Int]

\* PaperPosition(...) followed by initialise().
Opened(r, sg, q) ==
  [run |-> r, sig |-> sg, qty |-> q, rem |-> q, stop |-> sg.stop,
   hit1 |-> FALSE, hit2 |-> FALSE, hit3 |-> FALSE, be |-> FALSE,
   open |-> TRUE, realized |-> 0]

\* _paper_idempotency_key: run, symbol, strategy and signal time.
Keys == Nat \X Signals
KeyOf(p) == <<p.run, p.sig>>

Outcomes == [key: Keys, pnl: Int, realized: Int]

\* paper_broker.positions[symbol]: quantity and average price.
Lots == [qty: Nat, cost: Nat]
NoLot == [qty |-> 0, cost |-> 0]

\* A lot without q of its shares; one without shares has no entry.
LotLess(lot, q) == IF lot.qty <= q THEN NoLot ELSE [lot EXCEPT !.qty = @ - q]

Deals ==
  [p: Positions, cash: Int, realized: Int, lot: Lots, outcomes: Seq(Outcomes),
   left: Nat, dropped: BOOLEAN]

\* The most times one management call asks for st.session_state: two partial
\* exits, the execution engine and the final exit.
MostAccesses == 4

Dropped(d) == [d EXCEPT !.dropped = TRUE]

-----------------------------------------------------------------------------
\* Mutants: the ledger keeps the shares it sold; it books the profit of an exit
\* where the proceeds belong.
SyncKeepingShares(d, q, price, pnl) ==
  IF q <= 0 \/ price <= 0 THEN d
  ELSE IF d.left = 0 THEN Dropped(d)
  ELSE [d EXCEPT !.left = @ - 1, !.cash = @ + price * q, !.realized = @ + pnl]

SyncBookingProfit(d, q, price, pnl) ==
  IF q <= 0 \/ price <= 0 THEN d
  ELSE IF d.left = 0 THEN Dropped(d)
  ELSE [d EXCEPT !.left = @ - 1, !.cash = @ + pnl, !.realized = @ + pnl,
                 !.lot = LotLess(@, q)]

\* _sync_paper_broker_on_exit: the ledger follows an exit, unless the quantity or
\* the price is not positive.  It is fetched from st.session_state.
SyncBrokerOnExit(d, q, price, pnl) ==
  IF q <= 0 \/ price <= 0 THEN d
  ELSE IF d.left = 0 THEN Dropped(d)
  ELSE [d EXCEPT !.left = @ - 1,
                 !.cash = @ + price * q,
                 !.realized = @ + pnl,
                 !.lot = LotLess(@, q)]

\* q shares leave the position for a profit of pnl.
Reduced(p, q, pnl) == [p EXCEPT !.rem = @ - q, !.realized = @ + pnl]

\* close_partial: never sells more than what remains; the status stays OPEN
\* even when nothing remains.
ClosePartial(d, wanted, price) ==
  LET q   == Lower(wanted, d.p.rem)
      pnl == (price - d.p.sig.entry) * q
  IN IF wanted <= 0 THEN d
     ELSE SyncBrokerOnExit([d EXCEPT !.p = Reduced(d.p, q, pnl)], q, price, pnl)

\* review_closed_trade -> record_outcome, when the position has a decision and
\* the database answers.  The profit reported is total_pnl(): what is realized
\* plus the unrealized profit update_price left on the position.
Review(d, unreal, answered) ==
  IF answered /\ ~d.dropped
  THEN [d EXCEPT !.outcomes =
          Append(@, [key |-> KeyOf(d.p), pnl |-> d.p.realized + unreal,
                     realized |-> d.p.realized])]
  ELSE d

Closed(p) == [p EXCEPT !.open = FALSE]

\* Mutants: close_trade sells the original quantity; it credits the ledger with
\* the whole trade's profit, the booked partial exits included.
CloseTradeWholeQty(d, price, unreal, answered) ==
  LET q   == d.p.qty
      pnl == (price - d.p.sig.entry) * q
  IN Review(SyncBrokerOnExit([d EXCEPT !.p = Closed(Reduced(d.p, q, pnl))],
                             q, price, pnl),
            unreal, answered)

CloseTradeTotalProfit(d, price, unreal, answered) ==
  LET q   == d.p.rem
      pnl == (price - d.p.sig.entry) * q
  IN Review(SyncBrokerOnExit([d EXCEPT !.p = Closed(Reduced(d.p, q, pnl))],
                             q, price, d.p.realized + pnl),
            unreal, answered)

\* close_trade: sell what remains, CLOSED, mirror it in the ledger, review.
CloseTrade(d, price, unreal, answered) ==
  LET q   == d.p.rem
      pnl == (price - d.p.sig.entry) * q
  IN Review(SyncBrokerOnExit([d EXCEPT !.p = Closed(Reduced(d.p, q, pnl))],
                             q, price, pnl),
            unreal, answered)

\* Mutant: move_stop without its comparison.
MovedAnywhere(p, level) == [p EXCEPT !.stop = level]

\* get_execution_engine().close_trade: the mode is read from st.session_state, and
\* the paper engine closes the position.
EngineCloses(d, price, unreal, answered) ==
  IF d.left = 0 THEN Dropped(d)
  ELSE CloseTrade([d EXCEPT !.left = @ - 1], price, unreal, answered)

\* move_stop: only ever raises the trailing stop.
Raised(p, level) == IF level > p.stop THEN [p EXCEPT !.stop = level] ELSE p
MoveStop(d, level) == [d EXCEPT !.p = Raised(d.p, level)]

\* activate_break_even: once, sets the trailing stop to the entry price.
BrokenEven(p) == IF p.be THEN p ELSE [p EXCEPT !.be = TRUE, !.stop = p.sig.entry]

-----------------------------------------------------------------------------
\* The part of the original quantity booked at targets 1 and 2:
\* max(1, int(qty * 0.25)) and max(1, int(qty * 0.35)).  The second is exact
\* for qty < 180, where the product of the two doubles first rounds down.
QuarterOf(q) == Higher(1, q \div 4)
ThirtyFiveOf(q) == Higher(1, (35 * q) \div 100)

\* check_stop_loss's condition.
StopHit(p, price) == p.open /\ price <= p.stop

Hit1(p) == [p EXCEPT !.hit1 = TRUE]
Hit2(p) == [p EXCEPT !.hit2 = TRUE]
Hit3(p) == [p EXCEPT !.hit3 = TRUE]

\* check_target1: a quarter is booked and the stop goes to break-even.
CheckTarget1(d, price) ==
  IF d.p.hit1 \/ price < d.p.sig.t1 THEN d
  ELSE LET sold == ClosePartial(d, QuarterOf(d.p.qty), price)
       IN IF sold.dropped THEN sold ELSE [sold EXCEPT !.p = BrokenEven(Hit1(sold.p))]

\* check_target2: a target of 0 means there is none.
CheckTarget2(d, price) ==
  IF d.dropped \/ d.p.hit2 \/ d.p.sig.t2 = 0 \/ price < d.p.sig.t2 THEN d
  ELSE LET sold == ClosePartial(d, ThirtyFiveOf(d.p.qty), price)
       IN IF sold.dropped THEN sold ELSE [sold EXCEPT !.p = Hit2(sold.p)]

\* check_target3: the rest is sold.  The target counts as hit before that.
CheckTarget3(d, price, unreal, answered) ==
  IF d.dropped \/ d.p.hit3 \/ d.p.sig.t3 = 0 \/ price < d.p.sig.t3 THEN d
  ELSE EngineCloses([d EXCEPT !.p = Hit3(d.p)], price, unreal, answered)

\* The unrealized profit update_price computes, before any exit of this call.
Unrealized(p, price) == (price - p.sig.entry) * p.rem

\* What a price does to a position: the stop first, and only when it is not
\* hit the three targets in order.
CheckExits(d, price, answered) ==
  LET unreal == Unrealized(d.p, price)
  IN IF StopHit(d.p, price) THEN EngineCloses(d, price, unreal, answered)
     ELSE CheckTarget3(CheckTarget2(CheckTarget1(d, price), price),
                       price, unreal, answered)

\* manage_position: the exits, then the trailing stop unless the stop was hit.
\* level is max(EMA20, price - 1.5 ATR), or 0 when fewer than 20 candles are
\* known and update_trailing_stop returns early.
ManagePosition(d, price, level, answered) ==
  LET done == CheckExits(d, price, answered)
  IN IF StopHit(d.p, price) \/ done.dropped THEN done ELSE MoveStop(done, level)

=============================================================================
