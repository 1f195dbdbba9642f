------------------------------ MODULE Signals ------------------------------
(***************************************************************************)
(* The signal engines that run for a symbol once a strategy has left a     *)
(* candidate (run_batch1_signal_engines, run_batch2_signal_engines), and   *)
(* the validation of its candidates.                                       *)
(*                                                                         *)
(* What they read besides the frame is a `day`: the score of the symbol's  *)
(* sector, the return of the index (none, when its download failed), the   *)
(* trends of the two intraday frames and the earnings notice.  A score     *)
(* keeps its unit: relative_strength is in hundredths of a point, and      *)
(* batch2_bonus and ai_confidence are in tenths.                           *)
(***************************************************************************)
EXTENDS Strategies

With(ev, key, n) == [ev EXCEPT !.score = Updated(@, [k \in {key} |-> n])]

\* calculate_sector_strength, of the last candle of a sector's index; a sector
\* that was not computed counts 50 (get_sector_score).
SectorStrength(x) ==
  Points(x.ema20 > x.ema50, 30) + Points(x.ema50 > x.ema200, 30)
    + Points(Bullish(x), 20) + Points(x.rsi > 55, 20)

\* assign_sector
WithSector(ev, day) == With(ev, "sector", day.sector)

\* analyze_multi_timeframe: the daily trend and the two intraday trends.
Alignment(daily, day) ==
  LET known == {i \in 1..3 : <<daily, day.hour, day.quarter>>[i] # "UNKNOWN"}
      agree == Cardinality({<<daily, day.hour, day.quarter>>[i] : i \in known}) = 1
  IN IF ~agree THEN 30 ELSE IF Cardinality(known) = 3 THEN 100 ELSE 60

\* calculate_relative_strength, in hundredths: the return against the index's.
WithStrength(ev, f, day) ==
  LET base  == f[Len(f) - StrengthLookback + 1].c
      delta == (10000 * (Last(f).c - base)) \div base - Head(day.index)
  IN IF Len(f) <= StrengthLookback \/ day.index = <<>> THEN ev
     ELSE With(ev, "relative_strength", Clamp(5000 + 2 * delta, 0, 10000))

\* calculate_volume_profile: the price bin with the largest volume, each candle
\* counted at its middle.
PointOfControl(w) ==
  LET low  == Lowest(w)
      span == Highest(w) - low
      edgesBelow(x) == Cardinality({k \in 0..ProfileBins :
                         2 * (ProfileBins * low + k * span) < ProfileBins * (x.h + x.l)})
      bin(x) == Clamp(edgesBelow(x) - 1, 0, ProfileBins - 1)
      bins == [i \in DOMAIN w |-> bin(w[i])]
      volume == [b \in 0..(ProfileBins - 1) |->
                   Sum([i \in {j \in DOMAIN w : bins[j] = b} |-> Volume(w[i])])]
      poc == Min({b \in DOMAIN volume : \A a \in DOMAIN volume : volume[a] <= volume[b]})
  IN (2 * ProfileBins * low + (2 * poc + 1) * span + ProfileBins) \div (2 * ProfileBins)

WithProfile(ev, f) ==
  LET w   == IF Len(f) < ProfileBack THEN f ELSE Window(f, Len(f), ProfileBack)
      poc == PointOfControl(w)
      c   == Last(f).c
  IN IF Len(f) < ProfileBars \/ Highest(w) <= Lowest(w) THEN ev
     ELSE With(ev, "volume_profile", IF c > poc THEN 70 ELSE IF c = poc THEN 50 ELSE 30)

\* run_batch1_signal_engines, with the alignment of the cache or of today.
Batch1(ev, f, day, alignment) ==
  LET next == WithProfile(WithStrength(With(WithSector(ev, day), "mtf_alignment", alignment),
                                       f, day), f)
      score == next.score
      rs    == Get(score, "relative_strength", 5000)
      bonus == Tier(alignment >= 100, 8, alignment >= 60, 4)
             + Tier(rs >= 7000, 6, rs <= 3000, -4)
             + Tier(score.sector >= 80, 5, score.sector <= 40, -3)
             + Points(Get(score, "volume_profile", 50) >= 70, 4)
  IN With(next, "batch1_bonus", Clamp(bonus, -10, 25))

-----------------------------------------------------------------------------
\* detect_false_breakout: on a short frame only the mark is taken back.
WithFalseBreakout(ev, f) ==
  LET failed    == FailedBreakout(f)
      exhausted == Has(ev, "BREAKOUT_READY") /\ Exhausted(f)
  IN IF Len(f) < BreakoutLookback + FailWindow + 5
     THEN WithPatterns(ev, [FALSE_BREAKOUT |-> FALSE])
     ELSE With(WithPatterns(ev, [FALSE_BREAKOUT |-> failed, BREAKOUT_EXHAUSTION |-> exhausted]),
               "false_breakout_penalty", Points(failed, -15) + Points(exhausted, -8))

\* analyze_smart_money_concepts, from the marks and the zones.  No strategy of
\* the registry sets the marks of a liquidity sweep.
SmartMoney(ev) ==
  LET bull == Cardinality(Get(ev.patterns, "BULLISH_ORDER_BLOCKS", {}))
      bear == Cardinality(Get(ev.patterns, "BEARISH_ORDER_BLOCKS", {}))
      up   == Cardinality(Get(ev.patterns, "BULLISH_FVG", {}))
      down == Cardinality(Get(ev.patterns, "BEARISH_FVG", {}))
  IN Clamp(Points(Has(ev, "BOS"), 15) + Points(Has(ev, "BEARISH_BOS"), -10)
             + Points(Has(ev, "CHOCH"), 8)
             + Min({3 * bull, 9}) + Points(bear > bull, -5)
             + Min({2 * up, 6}) + Points(down > up, -3),
           -15, 30)

\* The accumulation of a candle, in hundredths of its volume.
Flow(x) ==
  LET n == 2 * x.c - x.h - x.l
      part(k) == (100 * k * Volume(x)) \div Spread(x)
  IN IF Spread(x) = 0 THEN 0 ELSE IF n < 0 THEN -part(-n) ELSE part(n)

\* On-balance volume over a window: its last value minus its first.
BalanceOf(w) ==
  FoldLeft(LAMBDA sum, i : sum + (IF w[i].c > w[i - 1].c THEN Volume(w[i])
                                  ELSE IF w[i].c < w[i - 1].c THEN -Volume(w[i]) ELSE 0),
           0, [i \in 1..(Len(w) - 1) |-> i + 1])

\* The last volume is two standard deviations above the mean of the others.
VolumeSpike(x, others) ==
  LET n == Len(others)
      s == Total(others, Volume)
      q == Total(others, LAMBDA y : Volume(y) * Volume(y))
      d == n * Volume(x) - s
  IN n * q > s * s /\ d > 0 /\ d * d * (n - 1) >= 4 * n * (n * q - s * s)

\* A spike on a narrow candle that closes high.
Absorbs(x, others) ==
  LET ranges == Total(others, Spread)
  IN /\ VolumeSpike(x, others)
     /\ ranges > 0 /\ 10 * Len(others) * Spread(x) <= 7 * ranges
     /\ Spread(x) > 0 /\ 10 * (x.c - x.l) >= 6 * Spread(x)

\* analyze_institutional_activity
WithInstitutional(ev, f) ==
  LET w      == Window(f, Len(f), FlowLookback + 1)
      others == SubSeq(w, 1, FlowLookback)
      rising == BalanceOf(w) > 0
      adl    == Total(Tail(w), Flow)
      flow   == CASE rising /\ adl > 0  -> 15
                  [] ~rising /\ adl < 0 -> -15
                  [] OTHER -> IF rising \/ adl > 0 THEN 6 ELSE -6
      score  == 50 + flow + Points(VolumeSpike(Last(f), others), 8)
                  + Points(Absorbs(Last(f), others), 10)
  IN IF Len(f) < FlowLookback + 5 THEN With(ev, "institutional", 50)
     ELSE With([ev EXCEPT !.indicators = Updated(@, [OBV_RISING |-> rising, ADL_UP |-> adl > 0])],
               "institutional", Clamp(score, 0, 100))

\* check_news_earnings_filter
NewsPenalty(notice) ==
  Max({-20, Points(notice.days <= 5, -15) + Points(notice.headlines >= 3, -3)})

\* run_batch2_signal_engines
Batch2(ev, f, notice) ==
  LET broken == WithFalseBreakout(ev, f)
      inst   == WithInstitutional(With(broken, "smart_money", SmartMoney(broken)), f)
      next   == With(inst, "news_earnings", NewsPenalty(notice))
      fall   == IF Len(f) < BreakoutLookback + FailWindow + 5 THEN 0
                ELSE next.score["false_breakout_penalty"]
      bonus  == Clamp(10 * next.score["smart_money"] + 4 * (next.score["institutional"] - 50)
                        + 10 * fall + 10 * NewsPenalty(notice), -300, 300)
  IN With(With(next, "batch2_bonus", bonus), "ai_confidence", Clamp(500 + bonus, 0, 1000))

-----------------------------------------------------------------------------
\* StockObject.calculate_trade_quality: every part of the score but the quality
\* itself, the sector's strength and the engines' own scores included.
TradeQuality(score) ==
  LET unit(key) == CASE key = "relative_strength" -> 1
                     [] key \in {"batch2_bonus", "ai_confidence"} -> 10
                     [] OTHER -> 100
  IN Sum([key \in DOMAIN score |-> unit(key) * score[key]]) \div 100

\* validate_trade_candidate: whatever the strategy said, the state is decided here.
Valid(ev, x, c, quality) ==
  /\ quality >= MinQuality
  /\ RewardRisk(c) >= MinReward
  /\ Uptrend(ev)
  /\ x.c >= MinPrice
  /\ x.avgvol >= MinAvgVolume

\* ... followed by apply_sector_bonus.
Validated(ev, f, c, quality) ==
  LET sector == ev.score.sector
      bonus  == IF sector >= 80 THEN 10 ELSE Tier(sector >= 60, 5, sector <= 40, -5)
  IN [c EXCEPT !.state = IF Valid(ev, Last(f), c, quality) THEN "READY" ELSE "WATCHLIST",
               !.conf  = Min({c.conf + bonus, 100})]

WithValidated(ev, f) ==
  LET quality == TradeQuality(ev.score)
  IN [ev EXCEPT !.candidates =
        [s \in DOMAIN ev.candidates |-> Validated(ev, f, ev.candidates[s], quality)]]

\* _evaluate_symbol.  The evaluation starts from the stock of the session and a
\* fresh score.  The frame is long enough for every indicator.
Opened(stock, f) ==
  [market |-> stock.market, patterns |-> stock.patterns, indicators |-> stock.indicators,
   score |-> Quality(f), quality |-> Sum(Quality(f)), candidates |-> <<>>]

\* A hit in the structure cache brings the market and the patterns it holds, and
\* none of the score points that update_market_structure gives.
FromCache(ev, structure) ==
  [ev EXCEPT !.market = Updated(@, structure.market),
             !.patterns = Updated(@, structure.patterns)]

\* The rest of it: the strategies, and for a symbol with a candidate the engines.
Concluded(ev, f, day, alignment, notice) ==
  LET run == AllRun(WithSector(ev, day), f)
  IN IF DOMAIN run.candidates = {} THEN run
     ELSE WithValidated(Batch2(Batch1(run, f, day, alignment), f, notice), f)

=============================================================================
