----------------------------- MODULE Strategies -----------------------------
(***************************************************************************)
(* The evaluation of one symbol: trade quality, the strategies in the      *)
(* order of the registry, the signal engines of both batches, and the      *)
(* validation of the candidates they leave.                                *)
(*                                                                         *)
(* The stock object's market, patterns, indicators and score are the       *)
(* dictionaries of the code: functions from keys to values, where a key    *)
(* may be missing and a value from an earlier evaluation may still be      *)
(* there.  An evaluation `ev` is the stock under evaluation together with  *)
(* its candidates, by strategy.                                            *)
(***************************************************************************)
EXTENDS Patterns, Discovery

CONSTANTS
  SqueezeTradeBars,           \* create_price_squeeze_candidate
  StrengthLookback,           \* calculate_relative_strength
  ProfileBars, ProfileBack, ProfileBins,   \* calculate_volume_profile
  FlowLookback,               \* analyze_institutional_activity
  MinAvgVolume                \* CONFIG["MIN_AVG_VOLUME"]

MinQuality == 70    \* MIN_TRADE_QUALITY
MinReward  == 25    \* MIN_RR, in tenths

Clamp(n, low, high) == Max({low, Min({n, high})})

Bullish(x) == x.macd > x.signal

\* compute_opportunity_features of the frame: no frame has a BB_WIDTH column
\* yet, and HIGH52 is missing in a frame shorter than its window.
FrameOf(f) ==
  LET x == Last(f)
      w == IF Len(f) > BreakoutLookback + 1
           THEN SubSeq(f, Len(f) - BreakoutLookback, Len(f) - 1) ELSE <<>>
  IN [close |-> x.c, vwap |-> x.vwap, ema20 |-> x.ema20, ema50 |-> x.ema50,
      rvol |-> x.rvol, adx |-> x.adx, atr |-> 10 * x.atr,
      macd |-> x.macd, signal |-> x.signal, compression |-> 50,
      resistance |-> IF w = <<>> THEN x.c ELSE Highest(w),
      support |-> IF w = <<>> THEN x.c ELSE Lowest(w),
      high52 |-> IF Len(f) < YearBars THEN x.c ELSE Highest(Window(f, Len(f), YearBars))]

\* calculate_trade_quality: trend, momentum, volume, volatility and risk; the
\* score of the last evaluation is dropped.
Quality(f) ==
  LET x == Last(f)
  IN [trend |-> Points(x.ema20 > x.ema50, 5) + Points(x.ema50 > x.ema100, 5)
                + Points(x.ema100 > x.ema200, 5) + Points(x.c > x.ema20, 5),
      momentum |-> Tier(x.rsi \in 55..70, 8, x.rsi > 70, 4) + Points(Bullish(x), 7),
      volume |-> IF x.rvol >= 20 THEN 15 ELSE Tier(x.rvol >= 15, 10, x.rvol >= 12, 5),
      volatility |-> Tier(100 * x.atr \in x.c..(5 * x.c), 10, 100 * x.atr < x.c, 5),
      pattern |-> 0, risk |-> 10]

\* StockObject.calculate_trade_quality: every key but the quality itself.
Sum(score) == SumFunctionOnSet(score, DOMAIN score)

Scored(ev, key, n) == [ev EXCEPT !.score[key] = ev.score[key] + n]

\* stock.patterns.update
WithPatterns(ev, entries) == [ev EXCEPT !.patterns = Updated(ev.patterns, entries)]

Marked(ev, marks) == WithPatterns(ev, [m \in marks |-> TRUE])

Has(ev, mark) == Get(ev.patterns, mark, FALSE)

Uptrend(ev) == Get(ev.market, "TREND", "") = "UPTREND"

-----------------------------------------------------------------------------
(***************************************************************************)
(* Candidates.                                                             *)
(***************************************************************************)

\* calculate_rr, in tenths; without a risk it stays 0.
RewardRisk(c) ==
  IF c.entry <= c.stop THEN 0 ELSE (10 * (c.target - c.entry)) \div (c.entry - c.stop)

\* Every strategy puts its target at three times the risk.
Trade(entry, stop, conf, state) ==
  [entry |-> entry, stop |-> stop, target |-> entry + 3 * (entry - stop),
   conf |-> conf, state |-> state]

\* save_trade_candidate, with normalize_strategy_confidence.
Saved(ev, strategy, c) ==
  LET saved == [c EXCEPT !.conf = Clamp(c.conf, 0, 100)]
  IN [ev EXCEPT !.candidates = Updated(ev.candidates, [s \in {strategy} |-> saved])]

\* update_market_structure
WithStructure(ev, f) ==
  LET market == Classified(f, ev.market)
      marks  == StructureMarks(f, market)
      next   == Marked([ev EXCEPT !.market = market], marks)
  IN [next EXCEPT
        !.score.trend = ev.score.trend
           + Points(Cardinality(SwingHighs(f)) >= 2 /\ Cardinality(SwingLows(f)) >= 2
                      /\ market["TREND"] = "UPTREND", 5),
        !.score.pattern = ev.score.pattern
           + Points("BOS" \in marks, 8) + Points("CHOCH" \in marks, 5)]

\* run_market_regime
RunRegime(ev, f) ==
  IF Len(f) < RegimeBars THEN ev
  ELSE Scored([ev EXCEPT !.market = Updated(ev.market,
                 [REGIME |-> Regime(f), MARKET_STRENGTH |-> MarketStrength(f)])],
              "trend", Points(Regime(f) = "TRENDING_BULL", 10))

\* calculate_price_squeeze and update_volatility_patterns
WithSqueeze(ev, f) ==
  LET score == SqueezeScore(f, Get(ev.patterns, "PRICE_SQUEEZE", 0))
      marks == ContractionMarks(f)
      worth == [NR4 |-> 2, NR7 |-> 3, INSIDE_BAR |-> 3, ATR_CONTRACTION |-> 3,
                VOLUME_DRYUP |-> 4]
      next  == IF Len(f) < SqueezeBars THEN ev
               ELSE Scored(WithPatterns(ev, [PRICE_SQUEEZE |-> score]),
                           "pattern", Min({15, score \div 5}))
  IN Scored(Marked(next, marks), "pattern", Sum([m \in marks |-> worth[m]]))

\* create_price_squeeze_candidate: there is one for every long enough frame.
SqueezeTrade(ev, x) ==
  LET conf == Points(Uptrend(ev), 20)
            + Points(x.ema20 > x.ema50 /\ x.ema50 > x.ema100 /\ x.ema100 > x.ema200, 20)
            + Points(Get(ev.patterns, "PRICE_SQUEEZE", 0) >= 50, 20)
            + Sum([m \in {"VOLUME_DRYUP", "NR7", "INSIDE_BAR", "ATR_CONTRACTION"} |->
                     Points(Has(ev, m), 10)])
      c == Trade(Above(x.h, 1), Min({x.l, x.c - 2 * x.atr}), conf, "WATCHLIST")
  IN IF RewardRisk(c) >= MinReward /\ conf >= 70 THEN [c EXCEPT !.state = "READY"] ELSE c

\* confirm_price_squeeze_breakout, on the candle the candidate was made from.
Confirmed(c, x) ==
  LET conf == c.conf + Points(x.rvol >= 18, 10) + Points(Bullish(x), 5)
                     + Points(x.rsi \in 55..70, 5)
  IN [c EXCEPT
        !.conf  = conf,
        !.state = IF x.c >= c.entry /\ x.rvol >= 18 /\ RewardRisk(c) >= MinReward /\ conf >= 70
                  THEN "BUY" ELSE IF conf >= 60 THEN "READY" ELSE "WATCHLIST"]

RunSqueeze(ev, f) ==
  LET next == WithSqueeze(ev, f)
      c    == Confirmed(SqueezeTrade(next, Last(f)), Last(f))
  IN IF Len(f) < SqueezeTradeBars THEN next
     ELSE Saved(next, "PRICE SQUEEZE", c)

\* The first of the strongest zones: those with a width are worth 75, others 65.
Strength(z) == IF z.high > z.low THEN 75 ELSE 65

BestZone(zones) ==
  LET best == {z \in zones : \A y \in zones : Strength(y) <= Strength(z)}
  IN CHOOSE z \in best : \A y \in best : z.index <= y.index

\* run_demand_supply_strategy
RunDemandSupply(ev, f) ==
  LET fresh == FreshDemand(f)
      next  == Scored(WithPatterns(ev, [FRESH_DEMAND |-> fresh, FRESH_SUPPLY |-> FreshSupply(f)]),
                      "pattern", Min({10, 2 * Cardinality(fresh)}))
      x     == Last(f)
      zone  == BestZone(fresh)
      conf  == 20 + Points(Uptrend(ev), 20) + Points(ev.quality >= MinQuality, 20)
                  + Points(Strength(zone) >= 70, 20)
                  + Points(x.rvol >= 12, 10) + Points(Bullish(x), 10)
      c     == Trade(zone.high, zone.low - x.atr, conf, "WATCHLIST")
  IN IF fresh = {} THEN next
     ELSE Saved(next, "DEMAND_SUPPLY",
                IF conf >= 70 /\ RewardRisk(c) >= MinReward THEN [c EXCEPT !.state = "READY"]
                ELSE c)

\* Mutant: the stop is the higher of the two levels.
VcpStopHigher(x) == Max({x.l, x.ema20})

VcpStop(x) == Min({x.l, x.ema20})

\* Mutant: the candidate is made before the frame is looked at.
RunVcpLate(ev, f) ==
  LET x == Last(f)
      next == IF Contracting(f) THEN Marked(ev, {"VCP"}) ELSE ev
  IN IF Has(ev, "VCP") THEN Saved(next, "VCP", Trade(Above(x.h, 2), VcpStop(x), 75, "READY"))
     ELSE next

\* run_vcp_strategy: the mark is set and never taken back.
RunVcp(ev, f) ==
  LET next == IF Contracting(f) THEN Scored(Marked(ev, {"VCP"}), "pattern", 15) ELSE ev
      x    == Last(f)
      conf == 75 + Points(Uptrend(ev), 10) + Points(x.rvol > 12, 10) + Points(Bullish(x), 5)
  IN IF Has(next, "VCP")
     THEN Saved(next, "VCP", Trade(Above(x.h, 2), VcpStop(x), conf, "READY"))
     ELSE next

\* detect_breakout
WithBreakout(ev, f) ==
  LET x  == Last(f)
      up == BreaksOut(f)
      next == [ev EXCEPT
        !.indicators = Updated(@, [BREAKOUT_LEVEL |-> BreakoutLevel(f)]),
        !.patterns = Updated(@, [BREAKOUT_READY |-> up, BREAKOUT |-> up \/ Has(ev, "BREAKOUT")]),
        !.score.pattern  = ev.score.pattern + Points(up, 12),
        !.score.volume   = ev.score.volume + Points(x.rvol >= 15, 5),
        !.score.momentum = ev.score.momentum + Points(Bullish(x), 5)]
  IN IF MayBreakOut(f) THEN next ELSE ev

\* create_breakout_candidate
RunBreakout(ev, f) ==
  LET next == WithBreakout(ev, f)
      x    == Last(f)
      conf == 70 + Points(Uptrend(ev), 10) + Points(x.rvol >= 15, 10) + Points(Bullish(x), 10)
      c    == Trade(next.indicators["BREAKOUT_LEVEL"], Min({x.ema20, x.l}), conf, "READY")
  IN IF ~Has(next, "BREAKOUT_READY") \/ c.entry <= c.stop THEN next
     ELSE Saved(next, "BREAKOUT", c)

\* run_order_block_strategy
RunOrderBlock(ev, f) ==
  LET bull == OrderBlocks(f, TRUE)
      next == IF Len(f) < BlockBars THEN ev
              ELSE Scored(WithPatterns(ev, [BULLISH_ORDER_BLOCKS |-> bull,
                                            BEARISH_ORDER_BLOCKS |-> OrderBlocks(f, FALSE)]),
                          "pattern", Min({5, Cardinality(bull)}))
      blocks == Get(next.patterns, "BULLISH_ORDER_BLOCKS", {})
      zone == Nearest(blocks, Last(f).c)
      conf == 70 + Points(Uptrend(ev), 10) + Points(Last(f).rvol >= 12, 10)
                 + Points(ev.quality >= 80, 10)
  IN IF blocks = {} \/ zone.high <= zone.low THEN next
     ELSE Saved(next, "ORDER_BLOCK", Trade(zone.high, zone.low, conf, "READY"))

\* run_fvg_strategy
RunGap(ev, f) ==
  LET bull == BullishGaps(f)
      next == IF Len(f) < GapBars THEN ev
              ELSE Scored(WithPatterns(ev, [BULLISH_FVG |-> bull, BEARISH_FVG |-> BearishGaps(f)]),
                          "pattern", Points(bull # {}, 8))
      gaps == Get(next.patterns, "BULLISH_FVG", {})
      x    == Last(f)
      zone == Nearest(gaps, x.c)
      conf == 70 + Points(Uptrend(ev), 10) + Points(x.rvol >= 12, 10) + Points(Bullish(x), 10)
      c    == Trade(zone.high, zone.low - x.atr, conf, "READY")
  IN IF gaps = {} \/ c.entry <= c.stop THEN next ELSE Saved(next, "FVG", c)

\* strategy_registry, sorted by priority.  The sweep strategy is not in it.
Registry == <<"MARKET REGIME", "PRICE SQUEEZE", "DEMAND & SUPPLY", "VCP", "BREAKOUT",
              "ORDER BLOCK", "FVG">>

Run(name, ev, f) ==
  CASE name = "MARKET REGIME"   -> RunRegime(ev, f)
    [] name = "PRICE SQUEEZE"   -> RunSqueeze(ev, f)
    [] name = "DEMAND & SUPPLY" -> RunDemandSupply(ev, f)
    [] name = "VCP"             -> RunVcp(ev, f)
    [] name = "BREAKOUT"        -> RunBreakout(ev, f)
    [] name = "ORDER BLOCK"     -> RunOrderBlock(ev, f)
    [] name = "FVG"             -> RunGap(ev, f)

\* _evaluate_symbol, its loop over the registry.
AllRun(ev, f) ==
  LET upTo[i \in 0..Len(Registry)] ==
        IF i = 0 THEN ev
        ELSE IF ShouldRun(Registry[i], FrameOf(f)) THEN Run(Registry[i], upTo[i - 1], f)
        ELSE upTo[i - 1]
  IN upTo[Len(Registry)]
=============================================================================
