---------------------------- MODULE PaperTrading ----------------------------
(***************************************************************************)
(* The paper trading engine of one Streamlit session: atomic fills, the    *)
(* per-tick refresh, the monitor loop of the scan pipeline, checkpoints of *)
(* data/paper_state.json and restarts of the session.                      *)
(*                                                                         *)
(* The session's account lives in st.session_state and is lost when the    *)
(* page is reloaded or the process dies; the saved account is the file.    *)
(* Experience Memory is a database: its outcomes survive a restart.        *)
(***************************************************************************)
EXTENDS PaperPosition, FiniteSets, Functions

CONSTANTS
  Capital,      \* paper_trading_capital
  Prices,       \* prices a quote or a candle can show, in ticks
  Levels,       \* trailing stop levels max(EMA20, price - 1.5 ATR) can take
  Answers,      \* whether a review reaches Experience Memory: a set of BOOLEANs
  Discovery,    \* paper_preset is "PAPER DISCOVERY"
  NoPosition,   \* the symbol has no entry in paper_positions
  MaxRuns,      \* bound: run ids the core hands out
  MaxRestarts,  \* bound: restarts of the session
  MaxAborts,    \* bound: scripts abandoned half way
  MaxFills      \* bound: orders in the ledger

ASSUME SymbolsAssumption == IsFiniteSet(Symbols)
ASSUME CapitalAssumption == Capital \in Nat
ASSUME PricesAssumption == Prices \subseteq Nat
ASSUME LevelsAssumption == Levels \subseteq Nat
ASSUME AnswersAssumption == Answers \subseteq BOOLEAN
ASSUME DiscoveryAssumption == Discovery \in BOOLEAN
ASSUME NoPositionAssumption == NoPosition \notin Positions
ASSUME BoundsAssumption ==
  MaxRuns \in Nat /\ MaxRestarts \in Nat /\ MaxAborts \in Nat /\ MaxFills \in Nat

VARIABLES
  session,   \* the account in st.session_state
  saved,     \* the account in paper_state.json; the fresh one when no file exists
  pass,      \* the monitor loop: running, symbols left to visit, symbols to remove
  run,       \* run_id of the core runtime; 0 stands for None ("manual")
  outcomes,  \* experience_memory.trade_outcomes
  confirmed, \* keys whose fill was reported back: popped from waiting_entry
  restarts,  \* restarts so far (bound only)
  aborts     \* scripts abandoned so far (bound only)

vars == <<session, saved, pass, run, outcomes, confirmed, restarts, aborts>>

Trades == [key: Keys, realized: Int]

Accounts ==
  [pos: [Symbols -> Positions \cup {NoPosition}],   \* paper_positions
   cash: Int, realized: Int,                        \* paper_broker
   lots: [Symbols -> Lots],                         \* paper_broker.positions
   orders: SUBSET Keys,                             \* paper_broker.orders
   history: Seq(Trades),                            \* paper_history
   writtenOff: Nat]  \* no state of the code: the cost of the lots fills wrote over

Passes == [on: BOOLEAN, todo: SUBSET Symbols, remove: SUBSET Symbols]

FreshAccount ==
  [pos |-> [s \in Symbols |-> NoPosition], cash |-> Capital, realized |-> 0,
   lots |-> [s \in Symbols |-> NoLot], orders |-> {}, history |-> <<>>,
   writtenOff |-> 0]

NoPass == [on |-> FALSE, todo |-> {}, remove |-> {}]

Has(a, s) == a.pos[s] # NoPosition
OpenSymbols(a) == {s \in Symbols : Has(a, s)}

Init ==
  /\ session = FreshAccount
  /\ saved = FreshAccount
  /\ pass = NoPass
  /\ run = 0
  /\ outcomes = <<>>
  /\ confirmed = {}
  /\ restarts = 0
  /\ aborts = 0

-----------------------------------------------------------------------------
(***************************************************************************)
(* Fills.                                                                  *)
(***************************************************************************)

\* The quantity a fill buys: halved, but at least one, in discovery mode.
FillQty(sg) == IF Discovery THEN Higher(1, sg.qty \div 2) ELSE sg.qty

\* Mutant: the idempotency key is not looked up.
MayFillAgain(a, sg) ==
  /\ ~Has(a, sg.sym)
  /\ Discovery => Cardinality(OpenSymbols(a)) < 2
  /\ FillQty(sg) > 0
  /\ sg.entry > 0

\* The refusals of create_atomic_paper_trade that the account decides.  The
\* others (execution mode, stale quote) refuse without changing the account:
\* a fill that does not happen is a stutter here.
MayFill(a, sg) ==
  /\ <<run, sg>> \notin a.orders
  /\ ~Has(a, sg.sym)
  /\ Discovery => Cardinality(OpenSymbols(a)) < 2
  /\ FillQty(sg) > 0
  /\ sg.entry > 0

\* What a lot cost.
LotCost(lot) == lot.qty * lot.cost

\* Order, debit and ledger position, which replaces any the symbol has.
Bought(a, sg) ==
  [a EXCEPT !.orders = @ \cup {<<run, sg>>},
            !.cash = @ - FillQty(sg) * sg.entry,
            !.lots = [a.lots EXCEPT ![sg.sym] = [qty |-> FillQty(sg), cost |-> sg.entry]],
            !.writtenOff = @ + LotCost(a.lots[sg.sym])]

\* The same, and the paper position.
Filled(a, sg) ==
  [Bought(a, sg) EXCEPT
     !.pos = [a.pos EXCEPT ![sg.sym] = Opened(run, sg, FillQty(sg))]]

\* Mutant: the fill is reported before the account is saved.
FillReportedFirst(sg) ==
  /\ ~pass.on
  /\ MayFill(session, sg)
  /\ Cardinality(session.orders) < MaxFills
  /\ session' = Filled(session, sg)
  /\ confirmed' = confirmed \cup {<<run, sg>>}
  /\ UNCHANGED <<saved, pass, run, outcomes, restarts, aborts>>

\* paper_stage -> create_atomic_paper_trade: the account is saved before the
\* fill is reported.
Fill(sg) ==
  /\ ~pass.on
  /\ MayFill(session, sg)
  /\ Cardinality(session.orders) < MaxFills
  /\ session' = Filled(session, sg)
  /\ saved' = session'
  /\ confirmed' = confirmed \cup {<<run, sg>>}
  /\ UNCHANGED <<pass, run, outcomes, restarts, aborts>>

\* The same fill when writing the file raises, or the script is abandoned before
\* it is written: the session keeps the position and nothing is reported.
FillUnsaved(sg) ==
  /\ ~pass.on
  /\ MayFill(session, sg)
  /\ Cardinality(session.orders) < MaxFills
  /\ session' = Filled(session, sg)
  /\ UNCHANGED <<saved, pass, run, outcomes, confirmed, restarts, aborts>>

\* The script is abandoned where the fill asks for st.session_state.paper_positions:
\* the ledger has paid for shares that no position will sell.
FillAbandoned(sg) ==
  /\ ~pass.on
  /\ MayFill(session, sg)
  /\ Cardinality(session.orders) < MaxFills
  /\ aborts < MaxAborts
  /\ session' = Bought(session, sg)
  /\ aborts' = aborts + 1
  /\ UNCHANGED <<saved, pass, run, outcomes, confirmed, restarts>>

-----------------------------------------------------------------------------
(***************************************************************************)
(* Trade management.                                                       *)
(***************************************************************************)

\* s under management, by a script that asks for st.session_state left times more.
DealOf(a, s, left) ==
  [p |-> a.pos[s], cash |-> a.cash, realized |-> a.realized, lot |-> a.lots[s],
   outcomes |-> outcomes, left |-> left, dropped |-> FALSE]

\* Mutant: the history keeps the last trade only.
ArchivedLatest(history, p) ==
  IF p.open THEN history
  ELSE <<[key |-> KeyOf(p), realized |-> p.realized]>>

\* archive_closed_position appends to paper_history, when the position closed.
Archived(history, p) ==
  IF p.open THEN history
  ELSE Append(history, [key |-> KeyOf(p), realized |-> p.realized])

\* The account after a management call on s that led to the deal d.
Booked(a, s, d) ==
  [a EXCEPT !.pos = [a.pos EXCEPT ![s] = d.p],
            !.cash = d.cash,
            !.realized = d.realized,
            !.lots = [a.lots EXCEPT ![s] = d.lot]]

\* The account with the position of s archived, if it closed.
Filed(a, s) == [a EXCEPT !.history = Archived(@, a.pos[s])]

Removed(a, ss) ==
  [a EXCEPT !.pos = [s \in Symbols |-> IF s \in ss THEN NoPosition ELSE a.pos[s]]]

\* One turn of quick_refresh_open_positions' loop: a closed position is archived
\* and leaves paper_positions in the same turn.  Symbols without a quote are
\* skipped, so a refresh of several positions is a sequence of these steps.
QuickRefresh(s, price, answered) ==
  /\ ~pass.on
  /\ Has(session, s)
  /\ LET d == CheckExits(DealOf(session, s, MostAccesses), price, answered)
         a == Booked(session, s, d)
     IN /\ session' = IF d.p.open THEN a ELSE Removed(Filed(a, s), {s})
        /\ outcomes' = d.outcomes
  /\ UNCHANGED <<saved, pass, run, confirmed, restarts, aborts>>

\* A turn that the script does not finish: it is abandoned at an exit, before the
\* ledger follows, or while the closed position is archived and removed.
QuickRefreshAbandoned(s, price, answered, left) ==
  /\ ~pass.on
  /\ Has(session, s)
  /\ aborts < MaxAborts
  /\ LET d == CheckExits(DealOf(session, s, left), price, answered)
         a == Booked(session, s, d)
     IN /\ \/ d.dropped /\ session' = a
           \/ ~d.dropped /\ ~d.p.open /\ session' \in {a, Filed(a, s)}
        /\ outcomes' = d.outcomes
  /\ aborts' = aborts + 1
  /\ UNCHANGED <<saved, pass, run, confirmed, restarts>>

\* monitor_open_positions starts over the positions there are.
StartMonitor ==
  /\ ~pass.on
  /\ OpenSymbols(session) # {}
  /\ pass' = [on |-> TRUE, todo |-> OpenSymbols(session), remove |-> {}]
  /\ UNCHANGED <<session, saved, run, outcomes, confirmed, restarts, aborts>>

\* One turn of its loop: a closed position is archived now, and removed from
\* paper_positions only when the loop is over.
MonitorVisit(s, price, level, answered) ==
  /\ pass.on
  /\ s \in pass.todo
  /\ LET d == ManagePosition(DealOf(session, s, MostAccesses), price, level, answered)
     IN /\ session' = Filed(Booked(session, s, d), s)
        /\ outcomes' = d.outcomes
        /\ pass' = [pass EXCEPT !.todo = @ \ {s},
                                !.remove = IF d.p.open THEN @ ELSE @ \cup {s}]
  /\ UNCHANGED <<saved, run, confirmed, restarts, aborts>>

\* A turn, and with it the loop, that the script does not finish.  (Abandoned once
\* the position is archived, it is a full turn before MonitorAborted.)
MonitorVisitAbandoned(s, price, level, answered, left) ==
  /\ pass.on
  /\ s \in pass.todo
  /\ aborts < MaxAborts
  /\ LET d == ManagePosition(DealOf(session, s, left), price, level, answered)
     IN /\ d.dropped \/ ~d.p.open
        /\ session' = Booked(session, s, d)
        /\ outcomes' = d.outcomes
  /\ pass' = NoPass
  /\ aborts' = aborts + 1
  /\ UNCHANGED <<saved, run, confirmed, restarts>>

\* A turn for a symbol whose candles are not loaded.
MonitorSkip(s) ==
  /\ pass.on
  /\ s \in pass.todo
  /\ pass' = [pass EXCEPT !.todo = @ \ {s}]
  /\ UNCHANGED <<session, saved, run, outcomes, confirmed, restarts, aborts>>

\* The removals after the loop.
EndMonitor ==
  /\ pass.on
  /\ pass.todo = {}
  /\ session' = Removed(session, pass.remove)
  /\ pass' = NoPass
  /\ UNCHANGED <<saved, run, outcomes, confirmed, restarts, aborts>>

\* The loop is left between two turns by an exception, or by Streamlit's rerun
\* request raised where get_stock reads st.session_state, and no removal is made;
\* or the script is abandoned between two of the removals.
MonitorAborted(gone) ==
  /\ pass.on
  /\ pass.todo # {} => gone = {}
  /\ aborts < MaxAborts
  /\ session' = Removed(session, gone)
  /\ aborts' = aborts + 1
  /\ pass' = NoPass
  /\ UNCHANGED <<saved, run, outcomes, confirmed, restarts>>

-----------------------------------------------------------------------------
(***************************************************************************)
(* Checkpoints, restarts and run ids.                                      *)
(***************************************************************************)

\* persist_trading_state at the end of a successful pipeline; the temporary
\* file replaces the old one in one step.
Checkpoint ==
  /\ ~pass.on
  /\ saved' = session
  /\ UNCHANGED <<session, pass, run, outcomes, confirmed, restarts, aborts>>

\* Mutant: the positions are restored without the ledger.
RestartPositionsOnly ==
  /\ restarts < MaxRestarts
  /\ restarts' = restarts + 1
  /\ session' = [session EXCEPT !.pos = saved.pos, !.history = saved.history]
  /\ pass' = NoPass
  /\ UNCHANGED <<saved, run, outcomes, confirmed, aborts>>

\* The page is reloaded or the process starts again: restore_trading_state_once
\* runs before anything else and takes what the file holds.
Restart ==
  /\ restarts < MaxRestarts
  /\ restarts' = restarts + 1
  /\ session' = saved
  /\ pass' = NoPass
  /\ UNCHANGED <<saved, run, outcomes, confirmed, aborts>>

\* core.start() hands out a new run id (CoreRuntime models when).
NewRun ==
  /\ ~pass.on
  /\ run < MaxRuns
  /\ run' = run + 1
  /\ UNCHANGED <<session, saved, pass, outcomes, confirmed, restarts, aborts>>

Next ==
  \/ \E sg \in Signals : Fill(sg)
  \/ \E sg \in Signals : FillUnsaved(sg)
  \/ \E sg \in Signals : FillAbandoned(sg)
  \/ \E s \in Symbols, price \in Prices, answered \in Answers :
       QuickRefresh(s, price, answered)
  \/ \E s \in Symbols, price \in Prices, answered \in Answers,
       left \in 0 .. MostAccesses :
       QuickRefreshAbandoned(s, price, answered, left)
  \/ StartMonitor
  \/ \E s \in Symbols, price \in Prices, level \in Levels \cup {0}, answered \in Answers :
       MonitorVisit(s, price, level, answered)
  \/ \E s \in Symbols, price \in Prices, level \in Levels \cup {0}, answered \in Answers,
       left \in 0 .. MostAccesses :
       MonitorVisitAbandoned(s, price, level, answered, left)
  \/ \E s \in Symbols : MonitorSkip(s)
  \/ EndMonitor
  \/ \E gone \in SUBSET pass.remove : MonitorAborted(gone)
  \/ Checkpoint
  \/ Restart
  \/ NewRun

Spec == Init /\ [][Next]_vars

-----------------------------------------------------------------------------
(***************************************************************************)
(* Properties.  Each holds of the account in memory and of the one in the  *)
(* file, for a restart brings the file's back.                             *)
(***************************************************************************)

TypeOK ==
  /\ session \in Accounts
  /\ saved \in Accounts
  /\ pass \in Passes
  /\ run \in Nat
  /\ outcomes \in Seq(Outcomes)
  /\ confirmed \in SUBSET Keys
  /\ restarts \in Nat
  /\ aborts \in Nat

BothAccounts == {session, saved}

\* No money appears or disappears: cash, the cost of the ledger's shares and that of
\* the shares it forgot make up the capital and the profit it booked, over fills,
\* partial exits, stops and targets of which any may be abandoned, and restarts.
CashConserved ==
  \A a \in BothAccounts :
    a.cash + SumFunction([s \in Symbols |-> LotCost(a.lots[s])]) + a.writtenOff
      = Capital + a.realized

\* Whatever is abandoned, the ledger never lacks a share that a position still has
\* to sell, nor holds it at another price than the position's entry.
SharesCovered ==
  \A a \in BothAccounts : \A s \in OpenSymbols(a) :
    a.pos[s].rem > 0 =>
      a.lots[s].qty >= a.pos[s].rem /\ a.lots[s].cost = a.pos[s].sig.entry

\* The ledger's shares of s that no position will sell: those of a fill abandoned
\* before its position was made, of an exit abandoned before the ledger followed,
\* and of an exit at a price of 0, which the ledger skips.
Stray(a, s) == a.lots[s].qty - (IF Has(a, s) THEN a.pos[s].rem ELSE 0)

\* The ledger's shares are those of the positions, and none was forgotten.
Aligned(a) == a.writtenOff = 0 /\ \A s \in Symbols : Stray(a, s) = 0

\* The trades an account knows: archived ones and those in paper_positions.  A
\* position that an aborted monitor loop archived and left behind counts once.
KnownTrades(a) ==
  {a.history[i] : i \in DOMAIN a.history} \cup
  {[key |-> KeyOf(a.pos[s]), realized |-> a.pos[s].realized] : s \in OpenSymbols(a)}

\* The ledger's realized profit is the sum of its trades', as long as its shares
\* are those of the positions: a profit is missed together with the shares sold.
ProfitMatchesTrades ==
  \A a \in BothAccounts :
    Aligned(a) => a.realized = SumFunction([t \in KnownTrades(a) |-> t.realized])

\* Every trade has an order and every order at most one trade, so no candidate is
\* filled twice under one idempotency key; an order without a trade shows in the
\* ledger, as shares that no position will sell.
OneTradePerOrder ==
  \A a \in BothAccounts :
    LET traded == {t.key : t \in KnownTrades(a)}
    IN /\ traded \subseteq a.orders
       /\ Cardinality(KnownTrades(a)) = Cardinality(traded)
       /\ Aligned(a) => traded = a.orders

\* A fill reported back to the pipeline survives any restart.
ConfirmedFillsDurable == confirmed \subseteq saved.orders

\* After target 1 the stop is at the entry price or above, also in the file.
BreakEvenProtects ==
  \A a \in BothAccounts : \A s \in OpenSymbols(a) :
    a.pos[s].be => a.pos[s].stop >= a.pos[s].sig.entry

\* Both accounts hold the same trade of s.
SameTrade(a, b, s) == Has(a, s) /\ Has(b, s) /\ KeyOf(a.pos[s]) = KeyOf(b.pos[s])

\* Between restarts the trailing stop of a trade only rises, but for the one
\* step that activates break-even, which sets it to the entry price.
StopRatchet ==
  [][restarts' = restarts =>
       \A s \in Symbols : SameTrade(session, session', s) =>
         LET old == session.pos[s]
             new == session'.pos[s]
         IN \/ new.stop >= old.stop
            \/ ~old.be /\ new.be /\ new.stop >= new.sig.entry]_vars

\* Between restarts a settled trade is final: nothing archived is taken back or
\* rewritten, and a closed position neither reopens nor earns anything more.
SettledIsFinal ==
  [][restarts' = restarts =>
       /\ Len(session.history) <= Len(session'.history)
       /\ \A i \in DOMAIN session.history : session'.history[i] = session.history[i]
       /\ \A s \in Symbols :
            (SameTrade(session, session', s) /\ ~session.pos[s].open) =>
              /\ ~session'.pos[s].open
              /\ session'.pos[s].realized = session.pos[s].realized]_vars

-----------------------------------------------------------------------------
(***************************************************************************)
(* The account the engine keeps, seen as the abstract ledger's.            *)
(***************************************************************************)
AbstractAccount(a) ==
  [cash |-> a.cash, gain |-> a.realized, lots |-> a.lots, lost |-> a.writtenOff]

Ledger == INSTANCE PaperLedger WITH
            account    <- AbstractAccount(session),
            checkpoint <- AbstractAccount(saved),
            Quantities <- {FillQty(sg) : sg \in Signals},
            Costs      <- {sg.entry : sg \in Signals}

\* The engine keeps the abstract ledger's promise: each step is one purchase,
\* one sale at a price the market showed, a checkpoint, a recovery or nothing.
LedgerPromise == Ledger!Spec

-----------------------------------------------------------------------------
(***************************************************************************)
(* What the documentation says; the code does otherwise.                   *)
(***************************************************************************)

\* "Create order, fill, position, reservation and audit exactly once", "Keep
\* paper_broker cash and realized P&L aligned with PaperPosition exits": the
\* ledger's shares are those of the positions.
LedgerAligned == \A s \in Symbols : Stray(session, s) = 0


\* The outcome recorded is the realized result of the closed trade.
OutcomeIsRealized ==
  \A i \in DOMAIN outcomes : outcomes[i].pnl = outcomes[i].realized

=============================================================================
