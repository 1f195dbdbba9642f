------------------------------ MODULE Scoring ------------------------------
(***************************************************************************)
(* Scoring V2: the trade confidence of a symbol's best candidate, from the *)
(* evaluated stock, its frame, the news and the historical analogs, and    *)
(* the weights of a scoring profile (scoring_engine_v2, scoring_profiles). *)
(*                                                                         *)
(* Points are in hundredths.  A sub-score is never above its own maximum,  *)
(* so the clamps around the single terms are left out.                     *)
(***************************************************************************)
EXTENDS Signals

CONSTANT DivergenceBars       \* the lookback of _rsi_divergence_bearish

Components == {"structure", "participation", "momentum", "market_sector",
               "historical", "news"}

DefaultWeights == [structure |-> 30, participation |-> 20, momentum |-> 20,
                   market_sector |-> 10, historical |-> 10, news |-> 10]

Families(strategy) ==
  CASE strategy = "BREAKOUT"      -> {"STRUCTURE", "MOMENTUM", "VOLUME"}
    [] strategy = "VCP"           -> {"STRUCTURE", "VOLATILITY_COMPRESSION", "VOLUME"}
    [] strategy = "DEMAND_SUPPLY" -> {"STRUCTURE", "MEAN_REVERSION"}
    [] strategy \in {"ORDER_BLOCK", "FVG"} -> {"STRUCTURE", "SMART_MONEY"}
    [] strategy = "PRICE SQUEEZE" -> {"VOLATILITY_COMPRESSION", "STRUCTURE"}

\* _compute_confluence: 2.5 points for every family after the first, at most 5.
Confluence(strategies) ==
  Min({500, 250 * (Cardinality(UNION {Families(s) : s \in strategies}) - 1)})

AtLeastZero(n) == Max({0, n})

Mtf(ev) == Get(ev.score, "mtf_alignment", 30)
Strong(ev, points) == Get(ev.score, "relative_strength", 5000) >= 100 * points

-----------------------------------------------------------------------------
(***************************************************************************)
(* Structure.                                                              *)
(***************************************************************************)

\* breakout_resistance_quality, of 8 points.
BreakoutQuality(ev) ==
  LET ready == Points(Has(ev, "BREAKOUT_READY"), 500)
      clean == IF Has(ev, "FALSE_BREAKOUT") THEN AtLeastZero(ready - 400)
               ELSE ready + Points(Has(ev, "BREAKOUT"), 200) + 100
  IN AtLeastZero(clean - Points(Has(ev, "BREAKOUT_EXHAUSTION"), 300))

\* support_resistance_structure, of 6.
SupportQuality(ev, x) ==
  Points(x.c > x.ema20, 200)
    + Points(/\ "BREAKOUT_LEVEL" \in DOMAIN ev.indicators
             /\ 1000 * x.c >= 998 * ev.indicators["BREAKOUT_LEVEL"], 200)
    + Tier(Get(ev.patterns, "FRESH_DEMAND", {}) # {}, 200, 100 * x.c > 101 * x.ema20, 100)

\* demand_supply_positioning, of 6; the first fresh supply zone counts.
ZoneQuality(ev, x) ==
  LET supply == Get(ev.patterns, "FRESH_SUPPLY", {})
      first  == CHOOSE z \in supply : \A y \in supply : z.index <= y.index
      base   == Points(Get(ev.patterns, "FRESH_DEMAND", {}) # {}, 400)
                  + Points(supply = {} \/ x.c > first.low, 200)
  IN IF supply # {} /\ x.c < first.high THEN AtLeastZero(base - 300) ELSE base

\* entry_location_extension, of 3.  The level may be of an earlier evaluation.
ExtensionQuality(ev, f) ==
  LET x == Last(f)
      level == Get(ev.indicators, "BREAKOUT_LEVEL", 0)
      room == IF level = 0 \/ x.atr = 0 THEN 200
              ELSE IF 2 * (x.c - level) > 5 * x.atr THEN 50
              ELSE IF 2 * (x.c - level) > 3 * x.atr THEN 100 ELSE 200
      atHigh == /\ Len(f) >= YearBars
                /\ 1000 * x.c > 995 * Highest(Window(f, Len(f), YearBars))
  IN AtLeastZero(room - Points(atHigh, 100))

\* _score_breakout_structure
BreakoutStructure(ev, f) ==
  LET x == Last(f)
      retest == IF Has(ev, "FALSE_BREAKOUT") THEN 0
                ELSE IF Has(ev, "BREAKOUT_READY") THEN 300 ELSE 100
      higher == IF Mtf(ev) >= 100 THEN 200 ELSE IF Mtf(ev) >= 60 THEN 150 ELSE 50
  IN BreakoutQuality(ev) + SupportQuality(ev, x) + ZoneQuality(ev, x) + retest
       + ExtensionQuality(ev, f) + higher

\* _score_generic_structure, for the other strategies.
GenericStructure(ev, f, strategy) ==
  LET x == Last(f)
      holds(key) == Get(ev.patterns, key, {}) # {}
      pattern == CASE strategy = "VCP" /\ Has(ev, "VCP") -> 1000
                   [] strategy = "DEMAND_SUPPLY" /\ holds("FRESH_DEMAND") -> 1000
                   [] /\ strategy \in {"ORDER_BLOCK", "FVG"}
                      /\ holds("BULLISH_ORDER_BLOCKS") \/ holds("BULLISH_FVG") -> 900
                   [] /\ strategy = "PRICE SQUEEZE"
                      /\ Get(ev.patterns, "PRICE_SQUEEZE", 0) >= 50 -> 900
                   [] OTHER -> 600
  IN pattern + (IF x.c > x.ema20 THEN 400 ELSE 100) + 300
       + (IF Mtf(ev) >= 60 THEN 400 ELSE 200)

Structure(ev, f, strategy) ==
  IF strategy = "BREAKOUT" THEN BreakoutStructure(ev, f) ELSE GenericStructure(ev, f, strategy)

-----------------------------------------------------------------------------
(***************************************************************************)
(* Participation, momentum, market and sector.                             *)
(***************************************************************************)

\* _score_participation: a breakout's volume is partly counted in its structure.
Participation(ev, f, strategy) ==
  LET x == Last(f)
      tail == IF Len(f) < AverageWindow THEN <<x>> ELSE Window(f, Len(f), AverageWindow)
      expands(tenths) == 10 * Len(tail) * Volume(x) >= tenths * Total(tail, Volume)
      volume == IF strategy = "BREAKOUT"
                THEN IF x.rvol >= 15 THEN 400 ELSE IF x.rvol >= 12 THEN 200 ELSE 50
                ELSE IF x.rvol >= 20 THEN 800 ELSE Tier(x.rvol >= 15, 600, x.rvol >= 12, 300)
      vwap == IF 1000 * x.c >= 1002 * x.vwap THEN 500
              ELSE IF 1000 * x.c >= 998 * x.vwap THEN 300 ELSE 100
      expansion == IF Total(tail, Volume) = 0 THEN 50
                   ELSE IF expands(18) THEN 300 ELSE IF expands(13) THEN 200 ELSE 50
      money == Get(ev.score, "smart_money", 0)
  IN volume + vwap + expansion + Tier(money >= 15, 200, money >= 8, 100)
       + Points(Get(ev.indicators, "OBV_RISING", FALSE), 100)
       + Points(Get(ev.indicators, "ADL_UP", FALSE), 100)

\* _macd_accel
Accelerates(f) ==
  LET n == Len(f)
  IN n >= 4 /\ f[n].macd - f[n - 1].macd > f[n - 1].macd - f[n - 2].macd

\* _rsi_divergence_bearish
Diverges(f) ==
  LET n == Len(f)
      first == f[n - DivergenceBars + 1]
  IN /\ n >= DivergenceBars + 5
     /\ f[n].c > first.c /\ f[n].rsi < first.rsi /\ f[n].rsi > 65

\* _score_momentum
Momentum(ev, f) ==
  LET x == Last(f)
      n == Len(f)
      fast == Accelerates(f)
      slope == IF n < 6 THEN 0 ELSE x.ema20 - f[n - 5].ema20
      strength == IF Strong(ev, 70) THEN 500 ELSE Tier(Strong(ev, 55), 350, Strong(ev, 45), 100)
      adx == IF x.adx >= 30 THEN 400 ELSE Tier(x.adx >= 25, 250, x.adx >= 20, 100)
      ema == Points(x.ema20 > x.ema50 /\ x.ema50 > x.ema100, 250)
               + Tier(slope > 0 /\ 1000 * slope > 3 * f[n - 5].ema20, 150, slope > 0, 50)
      macd == Points(Bullish(x), 150) + Tier(fast, 150, Bullish(x), 50)
      rsi == CASE Diverges(f) -> 0
               [] ~Diverges(f) /\ x.rsi \in 55..72 /\ (Bullish(x) \/ fast) -> 100
               [] ~Diverges(f) /\ x.rsi > 72 /\ Bullish(x) /\ x.rvol >= 13 -> 75
               [] ~Diverges(f) /\ x.rsi \in 45..55 /\ ~(x.rsi = 55 /\ (Bullish(x) \/ fast)) -> 50
               [] OTHER -> 25
  IN strength + adx + ema + macd + Tier(Mtf(ev) >= 100, 200, Mtf(ev) >= 60, 100) + rsi
       + Points(Bullish(x) /\ x.adx >= 20, 50)

\* _volatility_regime
VolatilityRegime(ev, x) ==
  CASE 100 * x.atr >= 8 * x.c -> "EXTREME"
    [] 100 * x.atr \in (5 * x.c)..(8 * x.c - 1) -> "ELEVATED"
    [] 100 * x.atr <= 3 * x.c /\ Get(ev.patterns, "PRICE_SQUEEZE", 0) >= 50
         -> "COMPRESSION_RELEASE"
    [] OTHER -> "NORMAL"

\* _score_market_sector
MarketSector(ev, x) ==
  LET sector   == Get(ev.score, "sector", 50)
      regime   == Get(ev.market, "REGIME", "SIDEWAYS")
      strength == Get(ev.market, "MARKET_STRENGTH", 50)
      vol      == VolatilityRegime(ev, x)
  IN (IF sector >= 80 THEN 300 ELSE IF sector >= 60 THEN 200
      ELSE IF sector <= 40 THEN 50 ELSE 150)
       + Tier(regime = "TRENDING_BULL", 200, regime = "SIDEWAYS", 100)
       + Tier(strength >= 70, 200, strength >= 55, 100)
       + Tier(vol \in {"NORMAL", "COMPRESSION_RELEASE"}, 200, vol = "ELEVATED", 100)
       + Points(Strong(ev, 55), 100)

-----------------------------------------------------------------------------
(***************************************************************************)
(* History and news.                                                       *)
(***************************************************************************)

\* _historical_sample_factor, in percent.
SampleFactor(n) ==
  IF n <= 0 THEN 0 ELSE IF n < 10 THEN 15 ELSE IF n < 30 THEN 45 ELSE IF n < 100 THEN 75 ELSE 100

\* _score_historical: win rate, expected return and drawdown are in percent; the
\* win rate stands for the calibrated probability as well.
Historical(report) ==
  LET factor == SampleFactor(report.count)
      win    == 4 * Clamp(report.wins, 0, 100)
      ret    == 2 * Clamp(10 * report.return + 50, 0, 100)
      dd     == 100 - Clamp(5 * report.drawdown, 0, 100)
      cal    == 2 * Clamp(report.wins, 0, 100)
  IN IF report.count <= 0 THEN 0
     ELSE (factor * (win + ret + dd + 50 + cal)) \div 100

\* Mutant: any sentiment counts as a good one.
NewsUnsigned(news) == IF news.sentiment = 0 THEN 500 ELSE 700

\* _interpret_news_v2 and _score_news: the composite replaces the sum of the
\* sub-scores.
News(news) ==
  LET outlook == CASE news.outlook = "POSITIVE" -> 200
                   [] news.outlook = "NEGATIVE" -> -200
                   [] news.outlook = "MIXED"    -> 50
                   [] OTHER -> 0
      sum == 500 + 200 * news.sentiment + Points(news.relevant, 100) + outlook
      cautious == IF news.results /\ news.sentiment < 0 /\ news.outlook = "POSITIVE"
                  THEN Max({sum, 600})
                  ELSE IF news.results /\ news.sentiment > 0 /\ news.outlook = "NEGATIVE"
                  THEN Min({sum, 400}) ELSE sum
  IN IF ~news.active THEN 500 ELSE IF news.veto THEN 0 ELSE Clamp(cautious, 0, 1000)

-----------------------------------------------------------------------------
(***************************************************************************)
(* The confidence under a profile.                                         *)
(***************************************************************************)

SafeBounds == [structure |-> 20..40, participation |-> 10..30, momentum |-> 10..30,
               market_sector |-> 5..20, historical |-> 0..20, news |-> 0..20]

\* validate_weights
ValidWeights(weights) ==
  /\ DOMAIN weights = Components
  /\ Sum(weights) = 100
  /\ \A c \in Components : weights[c] \in SafeBounds[c]

\* The six components, before the profile.
RawScore(ev, f, strategy, report, news) ==
  [structure     |-> Structure(ev, f, strategy),
   participation |-> Participation(ev, f, strategy),
   momentum      |-> Momentum(ev, f),
   market_sector |-> MarketSector(ev, Last(f)),
   historical    |-> Historical(report),
   news          |-> News(news)]

\* compute_trade_score_v2: each component keeps its quality under the profile's
\* weight, rounded to the hundredth.
Reweighted(raw, weights) ==
  [c \in Components |->
     Min({100 * weights[c],
          (2 * Min({100 * DefaultWeights[c], raw[c]}) * weights[c] + DefaultWeights[c])
            \div (2 * DefaultWeights[c])})]

\* TradeScoreV2.finalize
Confidence(raw, weights, strategies) ==
  Clamp(Sum(Reweighted(raw, weights)) + Confluence(strategies), 0, 10000)

=============================================================================
