----------------------------- MODULE Evaluation -----------------------------
(***************************************************************************)
(* One symbol, evaluated by scan after scan (DiscoveryPipeline.            *)
(* _evaluate_symbol, then the scoring of build_ai_consensus), while its    *)
(* daily candles arrive and the last one is still moving.                  *)
(*                                                                         *)
(* What outlives a scan: the stock object of the session, whose market,    *)
(* patterns and indicators are only ever updated, and on disk the          *)
(* prepared frame, the structure cache, the alignment of the time frames   *)
(* and the earnings notice, the last two for an hour.                      *)
(*                                                                         *)
(* A candle carries all the indicators of calculate_indicators, which the  *)
(* strategies read.                                                        *)
(***************************************************************************)
EXTENDS Scoring

CONSTANTS
  History,       \* the frame at the start
  Candles,       \* candles that may follow
  Days,          \* what a scan may find besides the frame: a day (Signals), the
                 \* answer of the earnings calendar, the analog report and the
                 \* news of the symbol, the weights of the active profile
  MaxBars,       \* bound: the longest frame
  MaxRevisions   \* bound: moves of a last candle, of all days

\* A day's candle; a share that trades has a range.
Candle ==
  {x \in [o : Nat, h : Nat, l : Nat, c : Nat, rvol : Nat, avgvol : Nat, ema20 : Nat,
          ema50 : Nat, ema100 : Nat, ema200 : Nat, rsi : 0..100, macd : Int, signal : Int,
          atr : Nat \ {0}, adx : Nat, width : Nat, ttm : BOOLEAN, vwap : Nat] :
     x.l <= x.h}

Report == [count : Nat, wins : Int, return : Int, drawdown : Int]

ASSUME EvaluationAssumption ==
  /\ History \in Seq(Candle) /\ Len(History) >= AverageWindow
  /\ Candles \subseteq Candle
  /\ \A day \in Days : /\ ValidWeights(day.weights)
                       /\ day.report \in Report
                       /\ day.news.sentiment \in Int

ASSUME LookbackAssumption ==
  /\ {AverageWindow, BreakoutLookback} \subseteq Nat \ {0}
  /\ {SwingReach, ZoneFirst, BlockFirst, BlockBars, GapBars, SqueezeTradeBars} \subseteq Nat

VARIABLES
  frame,         \* the downloaded candles; the last one is still forming
  moved,         \* revisions of the last candle so far
  prepared,      \* data/indicator_cache: the frame stored last, <<>> before one
  stock,         \* st.session_state.stock_objects[symbol]
  structure,     \* data/structure_cache: the day it was stored for, and what
  alignment,     \* data/mtf_cache, 0 when it expired
  notice,        \* news_earnings_cache.json, <<>> when it expired
  result         \* what the last scan of this day made of the symbol, <<>> before one

vars == <<frame, moved, prepared, stock, structure, alignment, notice, result>>

NewStock == [market |-> <<>>, patterns |-> <<>>, indicators |-> <<>>]

Init ==
  /\ frame = History
  /\ moved = 0
  /\ prepared = <<>>
  /\ stock = NewStock
  /\ structure = [day |-> 0, market |-> <<>>, patterns |-> <<>>]
  /\ alignment = 0
  /\ notice = <<>>
  /\ result = <<>>

\* The next trading day.
NewDay ==
  /\ Len(frame) < MaxBars
  /\ \E x \in Candles : frame' = Append(frame, x)
  /\ result' = <<>>
  /\ UNCHANGED <<moved, prepared, stock, structure, alignment, notice>>

\* The last candle moves: its high can only rise and its low only fall.
Revise ==
  /\ moved < MaxRevisions
  /\ moved' = moved + 1
  /\ \E x \in Candles :
       LET old == Last(frame)
       IN frame' = [frame EXCEPT ![Len(frame)] =
                      [x EXCEPT !.o = old.o, !.h = Max({old.h, x.h}), !.l = Min({old.l, x.l})]]
  /\ UNCHANGED <<prepared, stock, structure, alignment, notice, result>>

\* Mutant: nothing of the frame is cached.
PreparedAnew == frame

\* prepare_indicators: a frame with the date of the last candle and as many rows
\* is taken from the disk, however its last candle has moved since it was stored.
Prepared == IF Len(prepared) = Len(frame) THEN prepared ELSE frame

\* _signature: the date of the last candle.
Signature(f) == Len(f)

\* get_cached_structure, or update_market_structure.
Structured(f) ==
  IF structure.day = Signature(f) THEN FromCache(Opened(stock, f), structure)
  ELSE WithStructure(Opened(stock, f), f)

\* The strategies in the order in which their candidates are made.
Order == <<"PRICE SQUEEZE", "DEMAND_SUPPLY", "VCP", "BREAKOUT", "ORDER_BLOCK", "FVG">>

\* build_ai_consensus takes the candidate of the highest confidence; every
\* candidate has the same reward to risk, and the first one wins a tie.
BestOf(candidates) ==
  LET left == SelectSeq(Order, LAMBDA s : s \in DOMAIN candidates)
  IN left[Min({i \in DOMAIN left : \A j \in DOMAIN left :
                 candidates[left[j]].conf <= candidates[left[i]].conf})]

\* What the scan shows of a symbol without a candidate, and of one with some:
\* there, also what its confidence would be without any news.
NothingFound == [candidates |-> <<>>]

Outcome(ev, f, best, day) ==
  LET raw == RawScore(ev, f, best, day.report, day.news)
      confidence(components) == Confidence(components, day.weights, DOMAIN ev.candidates)
  IN [candidates |-> ev.candidates, best |-> best, news |-> day.news,
      score |-> confidence(raw), quiet |-> confidence([raw EXCEPT !.news = 500])]

\* What the evaluation of the frame f leaves: ev is the stock it opened as seen,
\* after the strategies.  The alignment is only asked for a symbol with a candidate.
Leaves(f, day, seen, ev, aligned, told) ==
  /\ prepared' = f
  /\ notice' = told
  /\ structure' = IF structure.day = Signature(f) THEN structure
                  ELSE [day |-> Signature(f), market |-> seen.market,
                        patterns |-> seen.patterns]
  /\ stock' = [market |-> ev.market, patterns |-> ev.patterns, indicators |-> ev.indicators]
  /\ IF DOMAIN ev.candidates = {}
     THEN alignment' = alignment /\ result' = NothingFound
     ELSE alignment' = aligned /\ result' = Outcome(ev, f, BestOf(ev.candidates), day)
  /\ UNCHANGED <<frame, moved>>

Concludes(f, day, seen, aligned, told) ==
  Leaves(f, day, seen, Concluded(seen, f, day, aligned, told), aligned, told)

\* A scan: prefetch_news_earnings, the frame prepared, _evaluate_symbol and the
\* score.  A download of the calendar that fails leaves a neutral notice, cached
\* like any other.
Scan ==
  \E day \in Days :
    LET told    == IF notice = <<>> THEN day.notice ELSE notice
        f       == Prepared
        seen    == Structured(f)
        aligned == IF alignment # 0 THEN alignment
                   ELSE Alignment(Get(seen.market, "TREND", "UNKNOWN"), day)
    IN Concludes(f, day, seen, aligned, told)

\* A scan that leaves the symbol out of its focus, or fails before its turn: all
\* frames are prepared before the first is evaluated.
Unfocused ==
  /\ prepared' = Prepared
  /\ \E day \in Days : notice' = IF notice = <<>> THEN day.notice ELSE notice
  /\ UNCHANGED <<frame, moved, stock, structure, alignment, result>>

\* An hour later the alignment and the notice are out of date.
Expire ==
  /\ alignment # 0 \/ notice # <<>>
  /\ alignment' = 0
  /\ notice' = <<>>
  /\ UNCHANGED <<frame, moved, prepared, stock, structure, result>>

\* The server restarts: the session is gone, the files are not.
Restart ==
  /\ stock' = NewStock
  /\ result' = <<>>
  /\ UNCHANGED <<frame, moved, prepared, structure, alignment, notice>>

Next == NewDay \/ Revise \/ Scan \/ Unfocused \/ Expire \/ Restart

Spec == Init /\ [][Next]_vars

-----------------------------------------------------------------------------
(***************************************************************************)
(* Properties.                                                             *)
(***************************************************************************)

\* Every candidate a strategy leaves can be traded, whatever the candle it was
\* found on: the stop is below the entry and the target above it.  Only on a candle
\* whose high is below 5 rupees a tenth of a percent rounds to nothing, and the
\* three may coincide.
LevelsSound ==
  result # <<>> =>
    \A s \in DOMAIN result.candidates :
      LET c == result.candidates[s]
      IN /\ c.stop <= c.entry /\ c.entry <= c.target
         /\ Last(prepared).h >= 500 => c.stop < c.entry /\ c.entry < c.target

\* A demand zone is used up once: after a candle has reached into it, no later
\* candle and no move of the last one makes it fresh again.
ZonesUsedUp ==
  [][\A z \in DemandZones(frame) : z \notin FreshDemand(frame) => z \notin FreshDemand(frame')]_vars

\* A second scan of the same day, in the same session, proposes the same trades at
\* the same levels, or none again: neither the candle that moved meanwhile nor what
\* the first scan left in the stock object and in the caches makes a strategy see
\* another setup.
RescanSameLevels ==
  [][(result # <<>> /\ result' # <<>>) =>
       /\ DOMAIN result'.candidates = DOMAIN result.candidates
       /\ \A s \in DOMAIN result.candidates :
            /\ result'.candidates[s].entry = result.candidates[s].entry
            /\ result'.candidates[s].stop = result.candidates[s].stop]_vars

\* Bad news never raises the confidence: with a negative sentiment and no
\* positive outlook it is not above what it would be without any news.
BadNewsNeverHelps ==
  (/\ result # <<>> /\ DOMAIN result.candidates # {}
   /\ result.news.active /\ result.news.sentiment < 0
   /\ result.news.outlook # "POSITIVE") => result.score <= result.quiet

\* The trend a scan works with is the trend of the candles it evaluates, whether it
\* was computed, found in the cache of an earlier scan, or both before and after a
\* restart.  The structure is cached by the date of the last candle, which keeps it
\* when it moves: what keeps the two together is that the moved candle is not
\* evaluated either.
StructureOfCandle ==
  (/\ result # <<>>
   /\ Cardinality(SwingHighs(prepared)) >= 2
   /\ Cardinality(SwingLows(prepared)) >= 2) =>
     stock.market["TREND"] = Classified(prepared, <<>>)["TREND"]

=============================================================================
