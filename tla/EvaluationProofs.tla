-------------------------- MODULE EvaluationProofs --------------------------
(***************************************************************************)
(* Theorems about the evaluation of a symbol, for any candles, days,       *)
(* lookbacks and numbers of scans.                                         *)
(***************************************************************************)
EXTENDS Evaluation, SumLemmas

-----------------------------------------------------------------------------
(***************************************************************************)
(* The frame: what a new day or a move of the last candle leaves of it.    *)
(***************************************************************************)

FrameOK == frame \in Seq(Candle) /\ Len(frame) >= AverageWindow

\* g continues f: no candle is lost, and lows only fall.
Continues(f, g) ==
  /\ Len(f) <= Len(g)
  /\ \A i \in 1..Len(f) : g[i].l <= f[i].l

LEMMA CandleTypes ==
  ASSUME NEW x \in Candle
  PROVE  /\ {x.o, x.h, x.l, x.c, x.atr, x.ema20, x.rvol} \subseteq Nat
         /\ x.l <= x.h /\ x.atr > 0
BY DEF Candle

LEMMA RevisedCandle ==
  ASSUME NEW old \in Candle, NEW x \in Candle
  PROVE  LET y == [x EXCEPT !.o = old.o, !.h = Max({old.h, x.h}), !.l = Min({old.l, x.l})]
         IN y \in Candle /\ y.l <= old.l /\ y.h >= x.h
<1> DEFINE h == Max({old.h, x.h})
           l == Min({old.l, x.l})
           y == [x EXCEPT !.o = old.o, !.h = h, !.l = l]
<1>1. /\ {old.o, old.h, old.l, x.h, x.l} \subseteq Nat
      /\ x.l <= x.h
  BY CandleTypes
<1>2. old.h \in Int /\ old.l \in Int /\ x.h \in Int /\ x.l \in Int
  BY <1>1
<1>3. h \in {old.h, x.h} /\ h >= old.h /\ h >= x.h
  BY <1>2, MaxOfTwo
<1>4. l \in {old.l, x.l} /\ l <= old.l /\ l <= x.l
  BY <1>2, MinOfTwo
<1>5. h \in Nat /\ l \in Nat /\ l <= h /\ old.o \in Nat
  BY <1>1, <1>3, <1>4
<1> HIDE DEF h, l
<1>6. y \in Candle /\ y.l = l /\ y.h = h
  BY <1>5 DEF Candle
<1>7. QED
  BY <1>3, <1>4, <1>6 DEF h, l

LEMMA FrameNext ==
  ASSUME FrameOK, [Next]_vars
  PROVE  /\ FrameOK'
         /\ Continues(frame, frame')
<1>1. /\ frame \in Seq(Candle) /\ Len(frame) \in Nat /\ Len(frame) >= 1
      /\ \A i \in 1..Len(frame) : frame[i] \in Candle /\ frame[i].l \in Nat
  <2>1. AverageWindow \in Nat \ {0}
    BY LookbackAssumption
  <2>2. frame \in Seq(Candle) /\ Len(frame) \in Nat /\ Len(frame) >= AverageWindow
    BY DEF FrameOK
  <2>3. \A i \in 1..Len(frame) : frame[i] \in Candle
    BY <2>2
  <2>4. QED
    BY <2>1, <2>2, <2>3, CandleTypes
<1>2. CASE UNCHANGED frame
  BY <1>1, <1>2 DEF FrameOK, Continues
<1>3. CASE NewDay
  <2>1. PICK x \in Candles : frame' = Append(frame, x)
    BY <1>3 DEF NewDay
  <2>2. x \in Candle
    BY EvaluationAssumption
  <2>3. /\ frame' \in Seq(Candle) /\ Len(frame') = Len(frame) + 1
        /\ \A i \in 1..Len(frame) : frame'[i] = frame[i]
        /\ frame'[Len(frame')] = x
    BY <1>1, <2>1, <2>2
  <2>4. AverageWindow \in Nat
    BY LookbackAssumption
  <2>5. QED
    BY <1>1, <1>3, <2>2, <2>3, <2>4 DEF FrameOK, Continues
<1>4. CASE Revise
  <2> DEFINE n == Len(frame)
             old == Last(frame)
  <2>1. PICK x \in Candles :
          frame' = [frame EXCEPT ![n] =
                      [x EXCEPT !.o = old.o, !.h = Max({old.h, x.h}), !.l = Min({old.l, x.l})]]
    BY <1>4 DEF Revise
  <2>2. x \in Candle /\ old \in Candle /\ old = frame[n]
    BY <1>1, EvaluationAssumption DEF Last
  <2> DEFINE y == [x EXCEPT !.o = old.o, !.h = Max({old.h, x.h}), !.l = Min({old.l, x.l})]
  <2>3. y \in Candle /\ y.l <= old.l /\ y.h >= x.h
    BY <2>2, RevisedCandle
  <2>4. frame' = [frame EXCEPT ![n] = y]
    BY <2>1
  <2> HIDE DEF y, old
  <2>5. /\ frame' \in Seq(Candle) /\ Len(frame') = n
        /\ \A i \in 1..n : frame'[i] = IF i = n THEN y ELSE frame[i]
    BY <1>1, <2>3, <2>4
  <2>6. \A i \in 1..n : frame'[i].l <= frame[i].l
    BY <1>1, <2>2, <2>3, <2>5
  <2>7. QED
    BY <1>1, <2>5, <2>6 DEF FrameOK, Continues
<1>5. QED
  BY <1>2, <1>3, <1>4 DEF Next, Scan, Concludes, Leaves, Unfocused, Expire, Restart, vars

LEMMA FrameAlways == Spec => []FrameOK
<1>1. Init => FrameOK
  BY EvaluationAssumption DEF Init, FrameOK
<1>2. FrameOK /\ [Next]_vars => FrameOK'
  BY FrameNext
<1>3. QED
  BY <1>1, <1>2, PTL DEF Spec

\* A demand zone that a candle has reached into never becomes fresh again, on
\* whatever days follow and however the last candle moves.
THEOREM ZonesAreUsedUp == Spec => ZonesUsedUp
<1> DEFINE StaysUsed(z) == z \notin FreshDemand(frame) => z \notin FreshDemand(frame')
           Step == \A z \in DemandZones(frame) : StaysUsed(z)
<1>1. FrameOK /\ [Next]_vars => [Step]_vars
  <2> SUFFICES ASSUME FrameOK, [Next]_vars, NEW z \in DemandZones(frame),
                      z \notin FreshDemand(frame), z \in FreshDemand(frame')
               PROVE  FALSE
    OBVIOUS
  <2>1. FrameOK' /\ Continues(frame, frame')
    BY FrameNext
  <2>2. /\ \A i \in 1..Len(frame) : frame[i].l \in Nat /\ frame[i].h \in Nat
        /\ \A i \in 1..Len(frame') : frame'[i].l \in Nat
    BY <2>1, CandleTypes DEF FrameOK
  <2>3. z.index \in Nat /\ z.high \in Nat
    <3>1. PICK i \in ZoneIndices(frame) : z = Zone(frame[i], i)
      BY DEF DemandZones
    <3>2. i \in 1..Len(frame)
      BY <3>1, LookbackAssumption DEF ZoneIndices, FrameOK
    <3>3. QED
      BY <2>2, <3>1, <3>2 DEF Zone
  <2>4. PICK j \in (z.index + 1)..Len(frame) : frame[j].l <= z.high
    BY DEF FreshDemand, Tested
  <2>5. j \in 1..Len(frame) /\ j \in 1..Len(frame') /\ j \in (z.index + 1)..Len(frame')
    BY <2>1, <2>3, <2>4 DEF Continues, FrameOK
  <2>6. frame'[j].l <= z.high
    BY <2>1, <2>2, <2>3, <2>4, <2>5 DEF Continues
  <2>7. QED
    BY <2>5, <2>6 DEF FreshDemand, Tested
<1>2. QED
  BY <1>1, FrameAlways, PTL DEF Spec, ZonesUsedUp

-----------------------------------------------------------------------------
(***************************************************************************)
(* The confidence: every component is a number whatever the stock object   *)
(* holds, and the confidence grows with each of them.                      *)
(***************************************************************************)

LEMMA PointsTypes ==
  ASSUME NEW p, NEW q, NEW m \in Int, NEW n \in Int
  PROVE  Points(p, m) \in Int /\ Tier(p, m, q, n) \in Int
BY DEF Points, Tier

LEMMA AtLeastZeroType ==
  ASSUME NEW n \in Int
  PROVE  AtLeastZero(n) \in Int
<1>1. 0 \in Int
  OBVIOUS
<1>2. Max({0, n}) \in {0, n}
  BY <1>1, MaxOfTwo, Zenon
<1>3. QED
  BY <1>2 DEF AtLeastZero

LEMMA ClampFacts ==
  ASSUME NEW low \in Int, NEW high \in Int, low <= high, NEW n \in Int
  PROVE  /\ Clamp(n, low, high) \in Int
         /\ Clamp(n, low, high) = IF n <= low THEN low ELSE IF n >= high THEN high ELSE n
<1>1. /\ Min({n, high}) \in {n, high}
      /\ Min({n, high}) <= n /\ Min({n, high}) <= high
  BY MinOfTwo
<1> DEFINE m == Min({n, high})
<1>2. m \in Int
  BY <1>1
<1> HIDE DEF m
<1>3. /\ Max({low, m}) \in {low, m}
      /\ Max({low, m}) >= low /\ Max({low, m}) >= m
  BY <1>2, MaxOfTwo
<1>4. Clamp(n, low, high) = Max({low, m})
  BY DEF Clamp, m
<1>5. QED
  BY <1>1, <1>2, <1>3, <1>4 DEF m

LEMMA ClampMonotone ==
  ASSUME NEW low \in Int, NEW high \in Int, low <= high,
         NEW m \in Int, NEW n \in Int, m <= n
  PROVE  Clamp(m, low, high) <= Clamp(n, low, high)
<1>1. Clamp(m, low, high) = IF m <= low THEN low ELSE IF m >= high THEN high ELSE m
  BY ClampFacts
<1>2. Clamp(n, low, high) = IF n <= low THEN low ELSE IF n >= high THEN high ELSE n
  BY ClampFacts
<1>3. QED
  BY <1>1, <1>2

LEMMA StructureType ==
  ASSUME NEW ev, NEW f, NEW strategy
  PROVE  Structure(ev, f, strategy) \in Int
<1>1. BreakoutQuality(ev) \in Int
  <2>1. Points(Has(ev, "BREAKOUT_READY"), 500) \in {0, 500}
    BY DEF Points
  <2>2. Points(Has(ev, "BREAKOUT"), 200) \in {0, 200}
        /\ Points(Has(ev, "BREAKOUT_EXHAUSTION"), 300) \in {0, 300}
    BY DEF Points
  <2> DEFINE ready == Points(Has(ev, "BREAKOUT_READY"), 500)
             clean == IF Has(ev, "FALSE_BREAKOUT") THEN AtLeastZero(ready - 400)
                      ELSE ready + Points(Has(ev, "BREAKOUT"), 200) + 100
  <2>3. ready - 400 \in Int /\ AtLeastZero(ready - 400) \in Int
    BY <2>1, AtLeastZeroType
  <2>4. clean \in Int
    BY <2>1, <2>2, <2>3
  <2>5. clean - Points(Has(ev, "BREAKOUT_EXHAUSTION"), 300) \in Int
    BY <2>2, <2>4
  <2> HIDE DEF clean
  <2>6. AtLeastZero(clean - Points(Has(ev, "BREAKOUT_EXHAUSTION"), 300)) \in Int
    BY <2>5, AtLeastZeroType
  <2>7. QED
    BY <2>6 DEF BreakoutQuality, clean
<1>2. SupportQuality(ev, Last(f)) \in Int
  BY DEF SupportQuality, Points, Tier
<1>3. ZoneQuality(ev, Last(f)) \in Int
  <2> DEFINE x == Last(f)
             supply == Get(ev.patterns, "FRESH_SUPPLY", {})
             first  == CHOOSE z \in supply : \A y \in supply : z.index <= y.index
             base   == Points(Get(ev.patterns, "FRESH_DEMAND", {}) # {}, 400)
                         + Points(supply = {} \/ x.c > first.low, 200)
  <2>1. base \in Int
    BY DEF Points
  <2> HIDE DEF base
  <2>2. base - 300 \in Int /\ AtLeastZero(base - 300) \in Int
    BY <2>1, AtLeastZeroType
  <2>3. ZoneQuality(ev, x) = IF supply # {} /\ x.c < first.high THEN AtLeastZero(base - 300)
                             ELSE base
    BY DEF ZoneQuality, base
  <2>4. QED
    BY <2>1, <2>2, <2>3
<1>4. ExtensionQuality(ev, f) \in Int
  <2> DEFINE x == Last(f)
             level == Get(ev.indicators, "BREAKOUT_LEVEL", 0)
             room == IF level = 0 \/ x.atr = 0 THEN 200
                     ELSE IF 2 * (x.c - level) > 5 * x.atr THEN 50
                     ELSE IF 2 * (x.c - level) > 3 * x.atr THEN 100 ELSE 200
             atHigh == /\ Len(f) >= YearBars
                       /\ 1000 * x.c > 995 * Highest(Window(f, Len(f), YearBars))
  <2>1. room \in Int /\ Points(atHigh, 100) \in Int
    BY DEF Points
  <2> HIDE DEF room, atHigh
  <2>2. room - Points(atHigh, 100) \in Int
    BY <2>1
  <2>3. AtLeastZero(room - Points(atHigh, 100)) \in Int
    BY <2>2, AtLeastZeroType
  <2>4. QED
    BY <2>3 DEF ExtensionQuality, room, atHigh
<1>5. BreakoutStructure(ev, f) \in Int
  BY <1>1, <1>2, <1>3, <1>4 DEF BreakoutStructure
<1>6. GenericStructure(ev, f, strategy) \in Int
  BY DEF GenericStructure
<1>7. QED
  BY <1>5, <1>6 DEF Structure

LEMMA ParticipationType ==
  ASSUME NEW ev, NEW f, NEW strategy
  PROVE  Participation(ev, f, strategy) \in Int
BY DEF Participation, Points, Tier

LEMMA MomentumType ==
  ASSUME NEW ev, NEW f
  PROVE  Momentum(ev, f) \in Int
BY DEF Momentum, Points, Tier

LEMMA MarketSectorType ==
  ASSUME NEW ev, NEW x
  PROVE  MarketSector(ev, x) \in Int
BY DEF MarketSector, Points, Tier

LEMMA HistoricalType ==
  ASSUME NEW report \in Report
  PROVE  Historical(report) \in Int
<1>1. /\ report.wins \in Int /\ 10 * report.return + 50 \in Int /\ 5 * report.drawdown \in Int
      /\ 0 \in Int /\ 100 \in Int /\ 0 <= 100
  BY DEF Report
<1>2. /\ Clamp(report.wins, 0, 100) \in Int
      /\ Clamp(10 * report.return + 50, 0, 100) \in Int
      /\ Clamp(5 * report.drawdown, 0, 100) \in Int
  BY <1>1, ClampFacts
<1>3. SampleFactor(report.count) \in {0, 15, 45, 75, 100}
  BY DEF SampleFactor
<1>4. QED
  BY <1>2, <1>3 DEF Historical

-----------------------------------------------------------------------------
(***************************************************************************)
(* Dictionaries and evaluations.                                           *)
(***************************************************************************)

EvFields == {"market", "patterns", "indicators", "score", "quality", "candidates"}

Shape(ev) == DOMAIN ev = EvFields /\ ev = [k \in EvFields |-> ev[k]]

LEMMA UpdatedFacts ==
  ASSUME NEW d, NEW e
  PROVE  /\ DOMAIN Updated(d, e) = DOMAIN d \cup DOMAIN e
         /\ \A k \in DOMAIN e : Updated(d, e)[k] = e[k]
         /\ \A k \in DOMAIN d : k \notin DOMAIN e => Updated(d, e)[k] = d[k]
BY DEF Updated

LEMMA WithPatternsFacts ==
  ASSUME NEW ev, Shape(ev), NEW e
  PROVE  /\ Shape(WithPatterns(ev, e))
         /\ WithPatterns(ev, e).market = ev.market
         /\ WithPatterns(ev, e).indicators = ev.indicators
         /\ WithPatterns(ev, e).candidates = ev.candidates
         /\ WithPatterns(ev, e).patterns = Updated(ev.patterns, e)
BY DEF WithPatterns, Shape, EvFields

LEMMA ScoredFacts ==
  ASSUME NEW ev, Shape(ev), NEW key, NEW n
  PROVE  /\ Shape(Scored(ev, key, n))
         /\ Scored(ev, key, n).market = ev.market
         /\ Scored(ev, key, n).indicators = ev.indicators
         /\ Scored(ev, key, n).patterns = ev.patterns
         /\ Scored(ev, key, n).candidates = ev.candidates
BY DEF Scored, Shape, EvFields

LEMMA WithFacts ==
  ASSUME NEW ev, Shape(ev), NEW key, NEW n
  PROVE  /\ Shape(With(ev, key, n))
         /\ With(ev, key, n).market = ev.market
         /\ With(ev, key, n).indicators = ev.indicators
         /\ With(ev, key, n).patterns = ev.patterns
         /\ With(ev, key, n).candidates = ev.candidates
BY DEF With, Shape, EvFields

\* A candidate with the levels of a trade.
TradeFields == {"entry", "stop", "target", "conf", "state"}

Traded(c, level) ==
  /\ DOMAIN c = TradeFields /\ c = [k \in TradeFields |-> c[k]]
  /\ c.entry = level.entry
  /\ c.stop = level.stop
  /\ c.target = level.entry + 3 * (level.entry - level.stop)

LEMMA TradedFacts ==
  ASSUME NEW level, NEW conf, NEW state
  PROVE  /\ Traded(Trade(level.entry, level.stop, conf, state), level)
         /\ \A c, x : Traded(c, level) => /\ Traded([c EXCEPT !.conf = x], level)
                                          /\ Traded([c EXCEPT !.state = x], level)
<1>1. Traded(Trade(level.entry, level.stop, conf, state), level)
  BY DEF Trade, Traded, TradeFields
<1>2. ASSUME NEW c, NEW x, Traded(c, level)
      PROVE  Traded([c EXCEPT !.conf = x], level) /\ Traded([c EXCEPT !.state = x], level)
  BY <1>2 DEF Traded, TradeFields
<1>3. QED
  BY <1>1, <1>2

LEMMA SavedFacts ==
  ASSUME NEW ev, Shape(ev), NEW s, NEW c, NEW level, Traded(c, level)
  PROVE  /\ Shape(Saved(ev, s, c))
         /\ Saved(ev, s, c).market = ev.market
         /\ Saved(ev, s, c).patterns = ev.patterns
         /\ DOMAIN Saved(ev, s, c).candidates = DOMAIN ev.candidates \cup {s}
         /\ Traded(Saved(ev, s, c).candidates[s], level)
         /\ \A r \in DOMAIN ev.candidates : r # s =>
              Saved(ev, s, c).candidates[r] = ev.candidates[r]
<1> DEFINE kept == [c EXCEPT !.conf = Clamp(c.conf, 0, 100)]
           entries == [r \in {s} |-> kept]
<1>1. Traded(kept, level)
  BY TradedFacts
<1> HIDE DEF kept
<1>2. DOMAIN entries = {s} /\ entries[s] = kept
  OBVIOUS
<1>3. Saved(ev, s, c) = [ev EXCEPT !.candidates = Updated(ev.candidates, entries)]
  BY DEF Saved, kept
<1> HIDE DEF entries
<1>4. /\ Shape(Saved(ev, s, c))
      /\ Saved(ev, s, c).market = ev.market
      /\ Saved(ev, s, c).patterns = ev.patterns
      /\ Saved(ev, s, c).candidates = Updated(ev.candidates, entries)
  BY <1>3 DEF Shape, EvFields
<1> DEFINE d == ev.candidates
           u == Updated(d, entries)
<1>5. /\ DOMAIN u = DOMAIN d \cup DOMAIN entries
      /\ \A k \in DOMAIN entries : u[k] = entries[k]
      /\ \A k \in DOMAIN d : k \notin DOMAIN entries => u[k] = d[k]
  BY UpdatedFacts
<1> HIDE DEF u
<1>6. /\ DOMAIN u = DOMAIN d \cup {s}
      /\ Traded(u[s], level)
      /\ \A r \in DOMAIN d : r # s => u[r] = d[r]
  BY <1>1, <1>2, <1>5
<1>7. QED
  BY <1>4, <1>6 DEF u

-----------------------------------------------------------------------------
(***************************************************************************)
(* The strategies.  Where a candidate is made and at which levels is a     *)
(* function of the frame and of one mark, "VCP", that the stock object may *)
(* have kept from an earlier frame.                                        *)
(***************************************************************************)

Names == {"PRICE SQUEEZE", "DEMAND_SUPPLY", "VCP", "BREAKOUT", "ORDER_BLOCK", "FVG"}

Runs(name, f) == ShouldRun(name, FrameOf(f))

Levels(entry, stop) == [entry |-> entry, stop |-> stop]

SqueezeLevel(f) ==
  Levels(Above(Last(f).h, 1), Min({Last(f).l, Last(f).c - 2 * Last(f).atr}))
ZoneLevel(f) ==
  Levels(BestZone(FreshDemand(f)).high, BestZone(FreshDemand(f)).low - Last(f).atr)
VcpLevel(f) == Levels(Above(Last(f).h, 2), VcpStop(Last(f)))
BreakoutLevels(f) == Levels(BreakoutLevel(f), Min({Last(f).ema20, Last(f).l}))
BlockLevel(f) ==
  Levels(Nearest(OrderBlocks(f, TRUE), Last(f).c).high, Nearest(OrderBlocks(f, TRUE), Last(f).c).low)
GapLevel(f) ==
  Levels(Nearest(BullishGaps(f), Last(f).c).high,
         Nearest(BullishGaps(f), Last(f).c).low - Last(f).atr)

Level(s, f) ==
  CASE s = "PRICE SQUEEZE" -> SqueezeLevel(f)
    [] s = "DEMAND_SUPPLY" -> ZoneLevel(f)
    [] s = "VCP"           -> VcpLevel(f)
    [] s = "BREAKOUT"      -> BreakoutLevels(f)
    [] s = "ORDER_BLOCK"   -> BlockLevel(f)
    [] s = "FVG"           -> GapLevel(f)

\* The strategies that leave a candidate.
Found(f, marked) ==
  {s \in Names :
     \/ s = "PRICE SQUEEZE" /\ Runs("PRICE SQUEEZE", f) /\ Len(f) >= SqueezeTradeBars
     \/ s = "DEMAND_SUPPLY" /\ Runs("DEMAND & SUPPLY", f) /\ FreshDemand(f) # {}
     \/ s = "VCP" /\ Runs("VCP", f) /\ (Contracting(f) \/ marked)
     \/ /\ s = "BREAKOUT" /\ Runs("BREAKOUT", f) /\ MayBreakOut(f) /\ BreaksOut(f)
        /\ ~ (BreakoutLevels(f).entry <= BreakoutLevels(f).stop)
     \/ /\ s = "ORDER_BLOCK" /\ Runs("ORDER BLOCK", f) /\ Len(f) >= BlockBars
        /\ OrderBlocks(f, TRUE) # {} /\ ~ (BlockLevel(f).entry <= BlockLevel(f).stop)
     \/ /\ s = "FVG" /\ Runs("FVG", f) /\ Len(f) >= GapBars
        /\ BullishGaps(f) # {} /\ ~ (GapLevel(f).entry <= GapLevel(f).stop)}

LEMMA TooShort ==
  ASSUME NEW f \in Seq(Candle), NEW n \in Nat
  PROVE  Len(f) < n <=> ~ (Len(f) >= n)
<1>1. Len(f) \in Nat
  OBVIOUS
<1>2. QED
  BY <1>1

LEMMA FoundFacts ==
  ASSUME NEW f, NEW marked
  PROVE  /\ "PRICE SQUEEZE" \in Found(f, marked)
              <=> Runs("PRICE SQUEEZE", f) /\ Len(f) >= SqueezeTradeBars
         /\ "DEMAND_SUPPLY" \in Found(f, marked)
              <=> Runs("DEMAND & SUPPLY", f) /\ FreshDemand(f) # {}
         /\ "VCP" \in Found(f, marked) <=> Runs("VCP", f) /\ (Contracting(f) \/ marked)
         /\ "BREAKOUT" \in Found(f, marked)
              <=> /\ Runs("BREAKOUT", f) /\ MayBreakOut(f) /\ BreaksOut(f)
                  /\ ~ (BreakoutLevels(f).entry <= BreakoutLevels(f).stop)
         /\ "ORDER_BLOCK" \in Found(f, marked)
              <=> /\ Runs("ORDER BLOCK", f) /\ Len(f) >= BlockBars
                  /\ OrderBlocks(f, TRUE) # {} /\ ~ (BlockLevel(f).entry <= BlockLevel(f).stop)
         /\ "FVG" \in Found(f, marked)
              <=> /\ Runs("FVG", f) /\ Len(f) >= GapBars
                  /\ BullishGaps(f) # {} /\ ~ (GapLevel(f).entry <= GapLevel(f).stop)
BY DEF Found, Names

\* Patterns that a strategy reads are only there when the frame is long enough
\* for the strategy to find them anew.
Aged(p, f) ==
  /\ "VCP" \in DOMAIN p => p["VCP"] = TRUE
  /\ "BREAKOUT_READY" \in DOMAIN p => MayBreakOut(f)
  /\ "BULLISH_ORDER_BLOCKS" \in DOMAIN p => Len(f) >= BlockBars
  /\ "BULLISH_FVG" \in DOMAIN p => Len(f) >= GapBars

SameTrend(m, n) ==
  /\ "TREND" \in DOMAIN n <=> "TREND" \in DOMAIN m
  /\ "TREND" \in DOMAIN m => n["TREND"] = m["TREND"]

\* What a strategy other than VCP may change besides the candidates.
Advanced(ev, next, f) ==
  /\ Shape(next)
  /\ next.candidates = ev.candidates
  /\ SameTrend(ev.market, next.market)
  /\ Aged(next.patterns, f)
  /\ "VCP" \in DOMAIN next.patterns <=> "VCP" \in DOMAIN ev.patterns

\* The evaluation ev, after the strategies in done, of one that began with market.
Progress(ev, f, done, market, marked) ==
  /\ Shape(ev)
  /\ SameTrend(market, ev.market)
  /\ Aged(ev.patterns, f)
  /\ "VCP" \in DOMAIN ev.patterns
       <=> marked \/ ("VCP" \in done /\ Runs("VCP", f) /\ Contracting(f))
  /\ DOMAIN ev.candidates = Found(f, marked) \cap done
  /\ \A s \in DOMAIN ev.candidates : Traded(ev.candidates[s], Level(s, f))

LEMMA AdvancedNotFound ==
  ASSUME NEW ev, NEW next, NEW f, NEW done, NEW market, NEW marked,
         Progress(ev, f, done, market, marked), Advanced(ev, next, f),
         NEW s, s \notin Found(f, marked) \/ s \in done, s # "VCP" \/ s \in done
  PROVE  Progress(next, f, done \cup {s}, market, marked)
<1>1. SameTrend(market, next.market)
  BY DEF Progress, Advanced, SameTrend
<1>2. Found(f, marked) \cap (done \cup {s}) = Found(f, marked) \cap done
  OBVIOUS
<1>3. "VCP" \in done \cup {s} <=> "VCP" \in done
  OBVIOUS
<1>4. QED
  BY <1>1, <1>2, <1>3 DEF Progress, Advanced

LEMMA AdvancedFound ==
  ASSUME NEW ev, NEW next, NEW f, NEW done, NEW market, NEW marked,
         Progress(ev, f, done, market, marked), Advanced(ev, next, f),
         NEW s \in Found(f, marked), s # "VCP", NEW c, Traded(c, Level(s, f))
  PROVE  Progress(Saved(next, s, c), f, done \cup {s}, market, marked)
<1> DEFINE last == Saved(next, s, c)
<1>1. Shape(next)
  BY DEF Advanced
<1>2. /\ Shape(last) /\ last.market = next.market /\ last.patterns = next.patterns
      /\ DOMAIN last.candidates = DOMAIN next.candidates \cup {s}
      /\ Traded(last.candidates[s], Level(s, f))
      /\ \A r \in DOMAIN next.candidates : r # s => last.candidates[r] = next.candidates[r]
  BY <1>1, SavedFacts
<1> HIDE DEF last
<1>3. SameTrend(market, last.market)
  BY <1>2 DEF Progress, Advanced, SameTrend
<1>4. DOMAIN last.candidates = Found(f, marked) \cap (done \cup {s})
  BY <1>2 DEF Progress, Advanced
<1>5. "VCP" \in done \cup {s} <=> "VCP" \in done
  OBVIOUS
<1>6. \A r \in DOMAIN last.candidates : Traded(last.candidates[r], Level(r, f))
  BY <1>2 DEF Progress, Advanced
<1>7. Progress(last, f, done \cup {s}, market, marked)
  BY <1>2, <1>3, <1>4, <1>5, <1>6 DEF Progress, Advanced
<1>8. QED
  BY <1>7 DEF last

\* New patterns that are none of those the strategies ask for.
LEMMA PatternsAdvance ==
  ASSUME NEW ev, Shape(ev), NEW f, Aged(ev.patterns, f), NEW entries, "VCP" \notin DOMAIN entries,
         "BREAKOUT_READY" \in DOMAIN entries => MayBreakOut(f),
         "BULLISH_ORDER_BLOCKS" \in DOMAIN entries => Len(f) >= BlockBars,
         "BULLISH_FVG" \in DOMAIN entries => Len(f) >= GapBars
  PROVE  Advanced(ev, WithPatterns(ev, entries), f)
<1>1. /\ Shape(WithPatterns(ev, entries))
      /\ WithPatterns(ev, entries).market = ev.market
      /\ WithPatterns(ev, entries).candidates = ev.candidates
      /\ WithPatterns(ev, entries).patterns = Updated(ev.patterns, entries)
  BY WithPatternsFacts
<1> DEFINE p == Updated(ev.patterns, entries)
<1>2. /\ DOMAIN p = DOMAIN ev.patterns \cup DOMAIN entries
      /\ \A k \in DOMAIN ev.patterns : k \notin DOMAIN entries => p[k] = ev.patterns[k]
  BY UpdatedFacts
<1> HIDE DEF p
<1>3. Aged(p, f) /\ ("VCP" \in DOMAIN p <=> "VCP" \in DOMAIN ev.patterns)
  BY <1>2 DEF Aged
<1>4. QED
  BY <1>1, <1>3 DEF Advanced, SameTrend, p

LEMMA AdvancedTrans ==
  ASSUME NEW a, NEW b, NEW c, NEW f, Advanced(a, b, f), Advanced(b, c, f)
  PROVE  Advanced(a, c, f)
BY DEF Advanced, SameTrend

LEMMA ScoredAdvances ==
  ASSUME NEW ev, Shape(ev), NEW f, Aged(ev.patterns, f), NEW key, NEW n
  PROVE  Advanced(ev, Scored(ev, key, n), f) /\ Advanced(ev, ev, f)
BY ScoredFacts DEF Advanced, SameTrend

LEMMA RegimeAdvances ==
  ASSUME NEW ev, Shape(ev), NEW f, Aged(ev.patterns, f)
  PROVE  Advanced(ev, RunRegime(ev, f), f)
<1> DEFINE entries == [REGIME |-> Regime(f), MARKET_STRENGTH |-> MarketStrength(f)]
           next == [ev EXCEPT !.market = Updated(ev.market, entries)]
           n == Points(Regime(f) = "TRENDING_BULL", 10)
<1>1. RunRegime(ev, f) = IF Len(f) < RegimeBars THEN ev ELSE Scored(next, "trend", n)
  BY DEF RunRegime
<1>2. "TREND" \notin DOMAIN entries
  OBVIOUS
<1> HIDE DEF entries, n
<1>3. /\ Shape(next) /\ next.candidates = ev.candidates /\ next.patterns = ev.patterns
      /\ next.market = Updated(ev.market, entries)
  BY DEF Shape, EvFields
<1> HIDE DEF next
<1>4. SameTrend(ev.market, next.market)
  <2> DEFINE m == Updated(ev.market, entries)
  <2>1. /\ DOMAIN m = DOMAIN ev.market \cup DOMAIN entries
        /\ \A k \in DOMAIN ev.market : k \notin DOMAIN entries => m[k] = ev.market[k]
    BY UpdatedFacts
  <2> HIDE DEF m
  <2>2. SameTrend(ev.market, m)
    BY <1>2, <2>1 DEF SameTrend
  <2>3. QED
    BY <1>3, <2>2 DEF m
<1>5. Advanced(ev, next, f)
  BY <1>3, <1>4 DEF Advanced
<1>6. Advanced(next, Scored(next, "trend", n), f)
  BY <1>3, ScoredAdvances
<1>7. Advanced(ev, Scored(next, "trend", n), f)
  BY <1>5, <1>6, AdvancedTrans
<1>8. Advanced(ev, ev, f)
  BY ScoredAdvances
<1>9. QED
  BY <1>1, <1>7, <1>8

LEMMA MarkedAdvances ==
  ASSUME NEW ev, Shape(ev), NEW f, Aged(ev.patterns, f), NEW marks,
         marks \cap {"VCP", "BREAKOUT_READY", "BULLISH_ORDER_BLOCKS", "BULLISH_FVG"} = {}
  PROVE  Advanced(ev, Marked(ev, marks), f)
<1> DEFINE entries == [m \in marks |-> TRUE]
<1>1. DOMAIN entries = marks
  OBVIOUS
<1> HIDE DEF entries
<1>2. Advanced(ev, WithPatterns(ev, entries), f)
  BY <1>1, PatternsAdvance
<1>3. QED
  BY <1>2 DEF Marked, entries

LEMMA SqueezeAdvances ==
  ASSUME NEW ev, Shape(ev), NEW f, Aged(ev.patterns, f)
  PROVE  Advanced(ev, WithSqueeze(ev, f), f)
<1> DEFINE score == SqueezeScore(f, Get(ev.patterns, "PRICE_SQUEEZE", 0))
           marks == ContractionMarks(f)
           worth == [NR4 |-> 2, NR7 |-> 3, INSIDE_BAR |-> 3, ATR_CONTRACTION |-> 3,
                     VOLUME_DRYUP |-> 4]
           squeezed == WithPatterns(ev, [PRICE_SQUEEZE |-> score])
           first == Scored(squeezed, "pattern", Min({15, score \div 5}))
           next == IF Len(f) < SqueezeBars THEN ev ELSE first
           n == Sum([m \in marks |-> worth[m]])
<1>1. WithSqueeze(ev, f) = Scored(Marked(next, marks), "pattern", n)
  BY DEF WithSqueeze
<1>2. marks \cap {"VCP", "BREAKOUT_READY", "BULLISH_ORDER_BLOCKS", "BULLISH_FVG"} = {}
  BY DEF ContractionMarks
<1>3. Advanced(ev, squeezed, f)
  BY PatternsAdvance
<1> HIDE DEF n, marks, squeezed, score
<1>4. Advanced(squeezed, first, f)
  BY <1>3, ScoredAdvances DEF Advanced
<1>5. Advanced(ev, first, f)
  BY <1>3, <1>4, AdvancedTrans
<1>6. Advanced(ev, ev, f)
  BY ScoredAdvances
<1>7. Advanced(ev, next, f)
  BY <1>5, <1>6
<1> HIDE DEF next, first
<1>8. Advanced(next, Marked(next, marks), f)
  BY <1>2, <1>7, MarkedAdvances DEF Advanced
<1>9. Advanced(ev, Marked(next, marks), f)
  BY <1>7, <1>8, AdvancedTrans
<1>10. Advanced(Marked(next, marks), Scored(Marked(next, marks), "pattern", n), f)
  BY <1>9, ScoredAdvances DEF Advanced
<1>11. QED
  BY <1>1, <1>9, <1>10, AdvancedTrans

\* What a later look at the candidate changes of it.
Judged(c, conf, state) == [c EXCEPT !.conf = conf, !.state = state]

LEMMA JudgedTraded ==
  ASSUME NEW c, NEW level, Traded(c, level), NEW conf, NEW state
  PROVE  Traded(Judged(c, conf, state), level)
BY DEF Judged, Traded, TradeFields

LEMMA SqueezeTraded ==
  ASSUME NEW ev, NEW f
  PROVE  Traded(Confirmed(SqueezeTrade(ev, Last(f)), Last(f)), SqueezeLevel(f))
<1> DEFINE level == SqueezeLevel(f)
           x == Last(f)
<1>1. \A c : Traded(c, level) => Traded([c EXCEPT !.state = "READY"], level)
  BY TradedFacts
<1>2. \A c, conf : Traded(Trade(level.entry, level.stop, conf, "WATCHLIST"), level)
  BY TradedFacts
<1>3. \E conf, c : /\ c = Trade(level.entry, level.stop, conf, "WATCHLIST")
                   /\ SqueezeTrade(ev, x) \in {c, [c EXCEPT !.state = "READY"]}
  BY DEF SqueezeTrade, SqueezeLevel, Levels
<1> HIDE DEF level
<1>4. Traded(SqueezeTrade(ev, x), level)
  BY <1>1, <1>2, <1>3
<1> DEFINE idea == SqueezeTrade(ev, x)
<1>6. PICK conf, state : Confirmed(idea, x) = Judged(idea, conf, state)
  BY DEF Confirmed, Judged
<1>7. Traded(idea, level)
  BY <1>4
<1> HIDE DEF idea
<1>8. Traded(Confirmed(idea, x), level)
  BY <1>6, <1>7, JudgedTraded
<1>9. QED
  BY <1>8 DEF level, idea

LEMMA SqueezeRun ==
  ASSUME NEW ev, NEW f \in Seq(Candle), NEW done, NEW market, NEW marked,
         Progress(ev, f, done, market, marked), Runs("PRICE SQUEEZE", f)
  PROVE  Progress(RunSqueeze(ev, f), f, done \cup {"PRICE SQUEEZE"}, market, marked)
<1> DEFINE found == WithSqueeze(ev, f)
           idea == Confirmed(SqueezeTrade(found, Last(f)), Last(f))
<1>1. Advanced(ev, found, f)
  BY SqueezeAdvances DEF Progress
<1>2. Traded(idea, Level("PRICE SQUEEZE", f))
  BY SqueezeTraded DEF Level
<1>3. RunSqueeze(ev, f) = IF Len(f) < SqueezeTradeBars THEN found
                          ELSE Saved(found, "PRICE SQUEEZE", idea)
  BY DEF RunSqueeze
<1> HIDE DEF found, idea
<1>4. SqueezeTradeBars \in Nat
  BY LookbackAssumption
<1>5. Len(f) < SqueezeTradeBars <=> ~ (Len(f) >= SqueezeTradeBars)
  BY <1>4, TooShort
<1>6. "PRICE SQUEEZE" \in Found(f, marked) <=> ~ (Len(f) < SqueezeTradeBars)
  BY <1>5, FoundFacts, Zenon
<1>7. CASE Len(f) < SqueezeTradeBars
  BY <1>1, <1>3, <1>6, <1>7, AdvancedNotFound
<1>8. CASE ~ (Len(f) < SqueezeTradeBars)
  <2>1. "PRICE SQUEEZE" \in Found(f, marked) /\ "PRICE SQUEEZE" # "VCP"
    BY <1>6, <1>8
  <2>2. Progress(Saved(found, "PRICE SQUEEZE", idea), f, done \cup {"PRICE SQUEEZE"}, market, marked)
    BY <1>1, <1>2, <2>1, AdvancedFound, Zenon
  <2>3. QED
    BY <1>3, <1>8, <2>2
<1>9. QED
  BY <1>7, <1>8

LEMMA DemandSupplyRun ==
  ASSUME NEW ev, NEW f \in Seq(Candle), NEW done, NEW market, NEW marked,
         Progress(ev, f, done, market, marked), Runs("DEMAND & SUPPLY", f)
  PROVE  Progress(RunDemandSupply(ev, f), f, done \cup {"DEMAND_SUPPLY"}, market, marked)
<1> DEFINE entries == [FRESH_DEMAND |-> FreshDemand(f), FRESH_SUPPLY |-> FreshSupply(f)]
           zoned == WithPatterns(ev, entries)
           n == Min({10, 2 * Cardinality(FreshDemand(f))})
           found == Scored(zoned, "pattern", n)
           level == ZoneLevel(f)
<1>1. Shape(ev) /\ Aged(ev.patterns, f)
  BY DEF Progress
<1>2. DOMAIN entries = {"FRESH_DEMAND", "FRESH_SUPPLY"}
  OBVIOUS
<1> HIDE DEF entries
<1>3. Advanced(ev, zoned, f)
  BY <1>1, <1>2, PatternsAdvance
<1> HIDE DEF zoned
<1>4. Advanced(zoned, found, f)
  BY <1>3, ScoredAdvances DEF Advanced
<1> HIDE DEF found
<1>5. Advanced(ev, found, f)
  BY <1>3, <1>4, AdvancedTrans
<1>6. \E conf, idea : /\ idea = Trade(level.entry, level.stop, conf, "WATCHLIST")
                      /\ RunDemandSupply(ev, f) =
                           IF FreshDemand(f) = {} THEN found
                           ELSE Saved(found, "DEMAND_SUPPLY",
                                      IF conf >= 70 /\ RewardRisk(idea) >= MinReward
                                      THEN [idea EXCEPT !.state = "READY"] ELSE idea)
  BY DEF RunDemandSupply, ZoneLevel, Levels, found, zoned, entries, n
<1>7. PICK conf : \E idea :
              /\ idea = Trade(level.entry, level.stop, conf, "WATCHLIST")
              /\ RunDemandSupply(ev, f) =
                   IF FreshDemand(f) = {} THEN found
                   ELSE Saved(found, "DEMAND_SUPPLY",
                              IF conf >= 70 /\ RewardRisk(idea) >= MinReward
                              THEN [idea EXCEPT !.state = "READY"] ELSE idea)
  BY <1>6
<1> HIDE DEF level
<1> DEFINE idea == Trade(level.entry, level.stop, conf, "WATCHLIST")
           ready == [idea EXCEPT !.state = "READY"]
           last == IF conf >= 70 /\ RewardRisk(idea) >= MinReward THEN ready ELSE idea
<1>8. Traded(idea, level) /\ Traded(ready, level)
  <2>1. Traded(idea, level)
    BY TradedFacts
  <2> HIDE DEF idea
  <2>2. QED
    BY <2>1, TradedFacts
<1>9. RunDemandSupply(ev, f) = IF FreshDemand(f) = {} THEN found
                               ELSE Saved(found, "DEMAND_SUPPLY", last)
  BY <1>7
<1>10. Traded(last, level)
  BY <1>8
<1> HIDE DEF last, idea, ready
<1>11. Traded(last, Level("DEMAND_SUPPLY", f))
  BY <1>10 DEF Level, level
<1>12. "DEMAND_SUPPLY" \in Found(f, marked) <=> ~ (FreshDemand(f) = {})
  BY FoundFacts, Zenon
<1>13. CASE FreshDemand(f) = {}
  BY <1>5, <1>9, <1>12, <1>13, AdvancedNotFound
<1>14. CASE ~ (FreshDemand(f) = {})
  <2>1. "DEMAND_SUPPLY" \in Found(f, marked) /\ "DEMAND_SUPPLY" # "VCP"
    BY <1>12, <1>14
  <2>2. Progress(Saved(found, "DEMAND_SUPPLY", last), f, done \cup {"DEMAND_SUPPLY"}, market, marked)
    BY <1>5, <1>11, <2>1, AdvancedFound, Zenon
  <2>3. QED
    BY <1>9, <1>14, <2>2
<1>15. QED
  BY <1>13, <1>14

\* VCP: the mark is set with the candidate, or was there before.
LEMMA VcpRun ==
  ASSUME NEW ev, NEW f \in Seq(Candle), NEW done, NEW market, NEW marked,
         Progress(ev, f, done, market, marked), Runs("VCP", f), "VCP" \notin done
  PROVE  Progress(RunVcp(ev, f), f, done \cup {"VCP"}, market, marked)
<1> DEFINE entries == [m \in {"VCP"} |-> TRUE]
           found == IF Contracting(f) THEN Scored(Marked(ev, {"VCP"}), "pattern", 15) ELSE ev
           level == VcpLevel(f)
<1>1. Shape(ev) /\ Aged(ev.patterns, f) /\ ("VCP" \in DOMAIN ev.patterns <=> marked)
  BY DEF Progress
<1>2. /\ Shape(found) /\ found.market = ev.market /\ found.candidates = ev.candidates
      /\ Aged(found.patterns, f)
      /\ "VCP" \in DOMAIN found.patterns <=> Contracting(f) \/ marked
  <2>1. CASE Contracting(f)
    <3> DEFINE with == WithPatterns(ev, entries)
               p == Updated(ev.patterns, entries)
    <3>1. DOMAIN entries = {"VCP"} /\ entries["VCP"] = TRUE
      OBVIOUS
    <3>2. found = Scored(with, "pattern", 15)
      BY <2>1 DEF Marked
    <3> HIDE DEF entries, found
    <3>3. /\ Shape(with) /\ with.market = ev.market /\ with.candidates = ev.candidates
          /\ with.patterns = p
      BY <1>1, WithPatternsFacts
    <3> HIDE DEF with
    <3>4. /\ Shape(found) /\ found.market = ev.market /\ found.candidates = ev.candidates
          /\ found.patterns = p
      BY <3>2, <3>3, ScoredFacts
    <3>5. /\ DOMAIN p = DOMAIN ev.patterns \cup DOMAIN entries
          /\ \A k \in DOMAIN entries : p[k] = entries[k]
          /\ \A k \in DOMAIN ev.patterns : k \notin DOMAIN entries => p[k] = ev.patterns[k]
      BY UpdatedFacts
    <3> HIDE DEF p
    <3>6. "VCP" \in DOMAIN p /\ Aged(p, f)
      BY <1>1, <3>1, <3>5 DEF Aged
    <3>7. QED
      BY <2>1, <3>4, <3>6
  <2>2. CASE ~ Contracting(f)
    BY <1>1, <2>2
  <2>3. QED
    BY <2>1, <2>2
<1>3. Has(found, "VCP") <=> "VCP" \in DOMAIN found.patterns
  BY <1>2 DEF Has, Get, Aged
<1>4. PICK conf : RunVcp(ev, f) =
                    IF Has(found, "VCP")
                    THEN Saved(found, "VCP", Trade(level.entry, level.stop, conf, "READY"))
                    ELSE found
  BY DEF RunVcp, VcpLevel, Levels
<1> HIDE DEF found, level
<1> DEFINE idea == Trade(level.entry, level.stop, conf, "READY")
           saved == Saved(found, "VCP", idea)
<1>5. Traded(idea, level)
  BY TradedFacts
<1> HIDE DEF idea
<1>6. Level("VCP", f) = level
  BY DEF Level, level
<1>7. "VCP" \in Found(f, marked) <=> Contracting(f) \/ marked
  <2>1. "VCP" \in Found(f, marked) <=> Runs("VCP", f) /\ (Contracting(f) \/ marked)
    BY DEF Found, Names
  <2>2. QED
    BY <2>1
<1>8. SameTrend(market, found.market)
  BY <1>2 DEF Progress, SameTrend
<1>9. DOMAIN ev.candidates = Found(f, marked) \cap done
      /\ \A s \in DOMAIN ev.candidates : Traded(ev.candidates[s], Level(s, f))
  BY DEF Progress
<1>10. CASE Contracting(f) \/ marked
  <2>1. /\ Shape(saved) /\ saved.market = found.market /\ saved.patterns = found.patterns
        /\ DOMAIN saved.candidates = DOMAIN found.candidates \cup {"VCP"}
        /\ Traded(saved.candidates["VCP"], level)
        /\ \A r \in DOMAIN found.candidates :
             r # "VCP" => saved.candidates[r] = found.candidates[r]
    BY <1>2, <1>5, SavedFacts
  <2>2. RunVcp(ev, f) = saved
    BY <1>2, <1>3, <1>4, <1>10 DEF idea
  <2> HIDE DEF saved
  <2>3. DOMAIN saved.candidates = Found(f, marked) \cap (done \cup {"VCP"})
    BY <1>2, <1>7, <1>9, <1>10, <2>1
  <2>4. \A s \in DOMAIN saved.candidates : Traded(saved.candidates[s], Level(s, f))
    BY <1>2, <1>6, <1>9, <2>1
  <2>5. "VCP" \in DOMAIN saved.patterns
          <=> marked \/ ("VCP" \in done \cup {"VCP"} /\ Runs("VCP", f) /\ Contracting(f))
    BY <1>2, <2>1
  <2>6. QED
    BY <1>2, <1>8, <2>1, <2>2, <2>3, <2>4, <2>5 DEF Progress
<1>11. CASE ~ (Contracting(f) \/ marked)
  <2>1. RunVcp(ev, f) = found
    BY <1>2, <1>3, <1>4, <1>11
  <2>2. DOMAIN found.candidates = Found(f, marked) \cap (done \cup {"VCP"})
    BY <1>2, <1>7, <1>9, <1>11
  <2>3. "VCP" \in DOMAIN found.patterns
          <=> marked \/ ("VCP" \in done \cup {"VCP"} /\ Runs("VCP", f) /\ Contracting(f))
    BY <1>2, <1>11
  <2>4. QED
    BY <1>2, <1>8, <1>9, <2>1, <2>2, <2>3 DEF Progress
<1>12. QED
  BY <1>10, <1>11

LEMMA BreakoutRun ==
  ASSUME NEW ev, NEW f \in Seq(Candle), NEW done, NEW market, NEW marked,
         Progress(ev, f, done, market, marked), Runs("BREAKOUT", f)
  PROVE  Progress(RunBreakout(ev, f), f, done \cup {"BREAKOUT"}, market, marked)
<1> DEFINE found == WithBreakout(ev, f)
           entries == [BREAKOUT_READY |-> BreaksOut(f),
                       BREAKOUT |-> BreaksOut(f) \/ Has(ev, "BREAKOUT")]
           p == Updated(ev.patterns, entries)
           level == BreakoutLevels(f)
<1>1. Shape(ev) /\ Aged(ev.patterns, f)
  BY DEF Progress
<1>2. CASE MayBreakOut(f)
  <2>1. /\ DOMAIN entries = {"BREAKOUT_READY", "BREAKOUT"}
        /\ entries["BREAKOUT_READY"] = BreaksOut(f)
    OBVIOUS
  <2> DEFINE q == Updated(ev.indicators, [BREAKOUT_LEVEL |-> BreakoutLevel(f)])
  <2>2. q["BREAKOUT_LEVEL"] = BreakoutLevel(f)
    BY DEF Updated
  <2>3. /\ Shape(found) /\ found.market = ev.market /\ found.candidates = ev.candidates
        /\ found.patterns = p /\ found.indicators = q
    BY <1>1, <1>2 DEF WithBreakout, Shape, EvFields
  <2> HIDE DEF found, q, entries
  <2>4. /\ DOMAIN p = DOMAIN ev.patterns \cup DOMAIN entries
        /\ \A k \in DOMAIN entries : p[k] = entries[k]
        /\ \A k \in DOMAIN ev.patterns : k \notin DOMAIN entries => p[k] = ev.patterns[k]
    BY UpdatedFacts
  <2> HIDE DEF p
  <2>5. Aged(p, f) /\ ("VCP" \in DOMAIN p <=> "VCP" \in DOMAIN ev.patterns)
    BY <1>1, <1>2, <2>1, <2>4 DEF Aged
  <2>6. Advanced(ev, found, f)
    BY <2>3, <2>5 DEF Advanced, SameTrend
  <2>7. Has(found, "BREAKOUT_READY") = BreaksOut(f)
    BY <2>1, <2>3, <2>4 DEF Has, Get
  <2>8. PICK conf : RunBreakout(ev, f) =
                      IF ~Has(found, "BREAKOUT_READY") \/ level.entry <= level.stop THEN found
                      ELSE Saved(found, "BREAKOUT", Trade(level.entry, level.stop, conf, "READY"))
    BY <2>2, <2>3 DEF RunBreakout, BreakoutLevels, Levels, Trade, found
  <2> HIDE DEF level
  <2> DEFINE idea == Trade(level.entry, level.stop, conf, "READY")
  <2>9. Traded(idea, Level("BREAKOUT", f))
    BY TradedFacts DEF Level, level
  <2> HIDE DEF idea
  <2>10. "BREAKOUT" \in Found(f, marked) <=> BreaksOut(f) /\ ~ (level.entry <= level.stop)
    BY <1>2 DEF Found, Names, level
  <2>11. CASE ~ BreaksOut(f) \/ level.entry <= level.stop
    <3>1. RunBreakout(ev, f) = found
      BY <2>7, <2>8, <2>11
    <3>2. "BREAKOUT" \notin Found(f, marked)
      BY <2>10, <2>11
    <3>3. QED
      BY <2>6, <3>1, <3>2, AdvancedNotFound
  <2>12. CASE ~ (~ BreaksOut(f) \/ level.entry <= level.stop)
    <3>1. RunBreakout(ev, f) = Saved(found, "BREAKOUT", idea)
      BY <2>7, <2>8, <2>12 DEF idea
    <3>2. "BREAKOUT" \in Found(f, marked) /\ "BREAKOUT" # "VCP"
      BY <2>10, <2>12
    <3>3. Progress(Saved(found, "BREAKOUT", idea), f, done \cup {"BREAKOUT"}, market, marked)
      BY <2>6, <2>9, <3>2, AdvancedFound, Zenon
    <3>4. QED
      BY <3>1, <3>3
  <2>13. QED
    BY <2>11, <2>12
<1>3. CASE ~ MayBreakOut(f)
  <2>1. found = ev
    BY <1>3 DEF WithBreakout
  <2>2. ~ Has(ev, "BREAKOUT_READY")
    BY <1>1, <1>3 DEF Aged, Has, Get
  <2>3. RunBreakout(ev, f) = ev
    BY <2>1, <2>2 DEF RunBreakout
  <2>4. "BREAKOUT" \notin Found(f, marked)
    BY <1>3 DEF Found
  <2>5. Advanced(ev, ev, f)
    BY <1>1, ScoredAdvances
  <2>6. QED
    BY <2>3, <2>4, <2>5, AdvancedNotFound
<1>4. QED
  BY <1>2, <1>3

LEMMA OrderBlockRun ==
  ASSUME NEW ev, NEW f \in Seq(Candle), NEW done, NEW market, NEW marked,
         Progress(ev, f, done, market, marked), Runs("ORDER BLOCK", f)
  PROVE  Progress(RunOrderBlock(ev, f), f, done \cup {"ORDER_BLOCK"}, market, marked)
<1> DEFINE bull == OrderBlocks(f, TRUE)
           entries == [BULLISH_ORDER_BLOCKS |-> bull, BEARISH_ORDER_BLOCKS |-> OrderBlocks(f, FALSE)]
           with == WithPatterns(ev, entries)
           n == Min({5, Cardinality(bull)})
           found == IF Len(f) < BlockBars THEN ev ELSE Scored(with, "pattern", n)
           level == BlockLevel(f)
           blocks == IF Len(f) < BlockBars THEN {} ELSE bull
<1>1. Shape(ev) /\ Aged(ev.patterns, f)
  BY DEF Progress
<1>2. BlockBars \in Nat
  BY LookbackAssumption
<1>3. Len(f) < BlockBars <=> ~ (Len(f) >= BlockBars)
  BY <1>2, TooShort
<1>4. /\ Advanced(ev, found, f)
      /\ Get(found.patterns, "BULLISH_ORDER_BLOCKS", {}) = blocks
  <2>1. CASE Len(f) < BlockBars
    <3>1. found = ev /\ blocks = {}
      BY <2>1
    <3>2. "BULLISH_ORDER_BLOCKS" \notin DOMAIN ev.patterns
      BY <1>1, <1>3, <2>1 DEF Aged
    <3>3. Advanced(ev, ev, f)
      BY <1>1, ScoredAdvances
    <3>4. QED
      BY <3>1, <3>2, <3>3 DEF Get
  <2>2. CASE ~ (Len(f) < BlockBars)
    <3>1. found = Scored(with, "pattern", n) /\ blocks = bull
      BY <2>2
    <3>2. /\ DOMAIN entries = {"BULLISH_ORDER_BLOCKS", "BEARISH_ORDER_BLOCKS"}
          /\ entries["BULLISH_ORDER_BLOCKS"] = bull
      OBVIOUS
    <3> HIDE DEF entries, found, n, blocks
    <3>3. Advanced(ev, with, f)
      BY <1>1, <1>3, <2>2, <3>2, PatternsAdvance
    <3>4. with.patterns = Updated(ev.patterns, entries)
      BY <1>1, WithPatternsFacts
    <3> HIDE DEF with
    <3>5. /\ Advanced(with, Scored(with, "pattern", n), f)
          /\ Scored(with, "pattern", n).patterns = with.patterns
      <4>1. Shape(with) /\ Aged(with.patterns, f)
        BY <3>3 DEF Advanced
      <4>2. Advanced(with, Scored(with, "pattern", n), f)
        BY <4>1, ScoredAdvances
      <4>3. Scored(with, "pattern", n).patterns = with.patterns
        BY <4>1, ScoredFacts
      <4>4. QED
        BY <4>2, <4>3
    <3>6. Advanced(ev, found, f)
      BY <3>1, <3>3, <3>5, AdvancedTrans
    <3> DEFINE p == Updated(ev.patterns, entries)
    <3>7. /\ DOMAIN p = DOMAIN ev.patterns \cup DOMAIN entries
          /\ \A k \in DOMAIN entries : p[k] = entries[k]
      BY UpdatedFacts
    <3> HIDE DEF p
    <3>8. Get(p, "BULLISH_ORDER_BLOCKS", {}) = bull
      BY <3>2, <3>7 DEF Get
    <3>9. QED
      BY <3>1, <3>4, <3>5, <3>6, <3>8 DEF p
  <2>3. QED
    BY <2>1, <2>2
<1>5. \E conf : RunOrderBlock(ev, f) =
        LET q == Get(found.patterns, "BULLISH_ORDER_BLOCKS", {})
            zone == Nearest(q, Last(f).c)
        IN IF q = {} \/ zone.high <= zone.low THEN found
           ELSE Saved(found, "ORDER_BLOCK", Trade(zone.high, zone.low, conf, "READY"))
  BY DEF RunOrderBlock
<1> HIDE DEF found
<1>6. PICK conf : RunOrderBlock(ev, f) =
        IF blocks = {} \/ Nearest(blocks, Last(f).c).high <= Nearest(blocks, Last(f).c).low
        THEN found
        ELSE Saved(found, "ORDER_BLOCK", Trade(Nearest(blocks, Last(f).c).high,
                                               Nearest(blocks, Last(f).c).low, conf, "READY"))
  BY <1>4, <1>5
<1>7. CASE Len(f) < BlockBars
  <2>1. RunOrderBlock(ev, f) = found
    BY <1>6, <1>7
  <2>2. "ORDER_BLOCK" \notin Found(f, marked)
    BY <1>3, <1>7 DEF Found
  <2>3. QED
    BY <1>4, <2>1, <2>2, AdvancedNotFound
<1>8. CASE ~ (Len(f) < BlockBars)
  <2>1. blocks = bull
    BY <1>8
  <2> HIDE DEF blocks
  <2>2. RunOrderBlock(ev, f) =
          IF bull = {} \/ level.entry <= level.stop THEN found
          ELSE Saved(found, "ORDER_BLOCK", Trade(level.entry, level.stop, conf, "READY"))
    BY <1>6, <2>1 DEF BlockLevel, Levels
  <2> HIDE DEF level
  <2> DEFINE idea == Trade(level.entry, level.stop, conf, "READY")
  <2>3. Traded(idea, Level("ORDER_BLOCK", f))
    BY TradedFacts DEF Level, level
  <2> HIDE DEF idea
  <2>4. "ORDER_BLOCK" \in Found(f, marked) <=> ~ (bull = {}) /\ ~ (level.entry <= level.stop)
    BY <1>3, <1>8 DEF Found, Names, level
  <2>5. CASE bull = {} \/ level.entry <= level.stop
    <3>1. RunOrderBlock(ev, f) = found
      BY <2>2, <2>5
    <3>2. "ORDER_BLOCK" \notin Found(f, marked)
      BY <2>4, <2>5
    <3>3. QED
      BY <1>4, <3>1, <3>2, AdvancedNotFound
  <2>6. CASE ~ (bull = {} \/ level.entry <= level.stop)
    <3>1. RunOrderBlock(ev, f) = Saved(found, "ORDER_BLOCK", idea)
      BY <2>2, <2>6 DEF idea
    <3>2. "ORDER_BLOCK" \in Found(f, marked) /\ "ORDER_BLOCK" # "VCP"
      BY <2>4, <2>6
    <3>3. Progress(Saved(found, "ORDER_BLOCK", idea), f, done \cup {"ORDER_BLOCK"}, market, marked)
      BY <1>4, <2>3, <3>2, AdvancedFound, Zenon
    <3>4. QED
      BY <3>1, <3>3
  <2>7. QED
    BY <2>5, <2>6
<1>9. QED
  BY <1>7, <1>8

LEMMA GapRun ==
  ASSUME NEW ev, NEW f \in Seq(Candle), NEW done, NEW market, NEW marked,
         Progress(ev, f, done, market, marked), Runs("FVG", f)
  PROVE  Progress(RunGap(ev, f), f, done \cup {"FVG"}, market, marked)
<1> DEFINE bull == BullishGaps(f)
           entries == [BULLISH_FVG |-> bull, BEARISH_FVG |-> BearishGaps(f)]
           with == WithPatterns(ev, entries)
           n == Points(bull # {}, 8)
           found == IF Len(f) < GapBars THEN ev ELSE Scored(with, "pattern", n)
           level == GapLevel(f)
           gaps == IF Len(f) < GapBars THEN {} ELSE bull
<1>1. Shape(ev) /\ Aged(ev.patterns, f)
  BY DEF Progress
<1>2. GapBars \in Nat
  BY LookbackAssumption
<1>3. Len(f) < GapBars <=> ~ (Len(f) >= GapBars)
  BY <1>2, TooShort
<1>4. /\ Advanced(ev, found, f)
      /\ Get(found.patterns, "BULLISH_FVG", {}) = gaps
  <2>1. CASE Len(f) < GapBars
    <3>1. found = ev /\ gaps = {}
      BY <2>1
    <3>2. "BULLISH_FVG" \notin DOMAIN ev.patterns
      BY <1>1, <1>3, <2>1 DEF Aged
    <3>3. Advanced(ev, ev, f)
      BY <1>1, ScoredAdvances
    <3>4. QED
      BY <3>1, <3>2, <3>3 DEF Get
  <2>2. CASE ~ (Len(f) < GapBars)
    <3>1. found = Scored(with, "pattern", n) /\ gaps = bull
      BY <2>2
    <3>2. /\ DOMAIN entries = {"BULLISH_FVG", "BEARISH_FVG"}
          /\ entries["BULLISH_FVG"] = bull
      OBVIOUS
    <3> HIDE DEF entries, found, n, gaps
    <3>3. Advanced(ev, with, f)
      BY <1>1, <1>3, <2>2, <3>2, PatternsAdvance
    <3>4. with.patterns = Updated(ev.patterns, entries)
      BY <1>1, WithPatternsFacts
    <3> HIDE DEF with
    <3>5. /\ Advanced(with, Scored(with, "pattern", n), f)
          /\ Scored(with, "pattern", n).patterns = with.patterns
      <4>1. Shape(with) /\ Aged(with.patterns, f)
        BY <3>3 DEF Advanced
      <4>2. Advanced(with, Scored(with, "pattern", n), f)
        BY <4>1, ScoredAdvances
      <4>3. Scored(with, "pattern", n).patterns = with.patterns
        BY <4>1, ScoredFacts
      <4>4. QED
        BY <4>2, <4>3
    <3>6. Advanced(ev, found, f)
      BY <3>1, <3>3, <3>5, AdvancedTrans
    <3> DEFINE p == Updated(ev.patterns, entries)
    <3>7. /\ DOMAIN p = DOMAIN ev.patterns \cup DOMAIN entries
          /\ \A k \in DOMAIN entries : p[k] = entries[k]
      BY UpdatedFacts
    <3> HIDE DEF p
    <3>8. Get(p, "BULLISH_FVG", {}) = bull
      BY <3>2, <3>7 DEF Get
    <3>9. QED
      BY <3>1, <3>4, <3>5, <3>6, <3>8 DEF p
  <2>3. QED
    BY <2>1, <2>2
<1>5. \E conf : RunGap(ev, f) =
        LET q == Get(found.patterns, "BULLISH_FVG", {})
            zone == Nearest(q, Last(f).c)
            c == Trade(zone.high, zone.low - Last(f).atr, conf, "READY")
        IN IF q = {} \/ c.entry <= c.stop THEN found ELSE Saved(found, "FVG", c)
  BY DEF RunGap
<1> HIDE DEF found
<1>6. PICK conf : RunGap(ev, f) =
        LET zone == Nearest(gaps, Last(f).c)
            c == Trade(zone.high, zone.low - Last(f).atr, conf, "READY")
        IN IF gaps = {} \/ c.entry <= c.stop THEN found ELSE Saved(found, "FVG", c)
  BY <1>4, <1>5
<1>7. CASE Len(f) < GapBars
  <2>1. RunGap(ev, f) = found
    BY <1>6, <1>7
  <2>2. "FVG" \notin Found(f, marked)
    BY <1>3, <1>7 DEF Found
  <2>3. QED
    BY <1>4, <2>1, <2>2, AdvancedNotFound
<1>8. CASE ~ (Len(f) < GapBars)
  <2>1. gaps = bull
    BY <1>8
  <2> HIDE DEF gaps
  <2>2. RunGap(ev, f) =
          IF bull = {} \/ level.entry <= level.stop THEN found
          ELSE Saved(found, "FVG", Trade(level.entry, level.stop, conf, "READY"))
    BY <1>6, <2>1 DEF GapLevel, Levels, Trade
  <2> HIDE DEF level
  <2> DEFINE idea == Trade(level.entry, level.stop, conf, "READY")
  <2>3. Traded(idea, Level("FVG", f))
    BY TradedFacts DEF Level, level
  <2> HIDE DEF idea
  <2>4. "FVG" \in Found(f, marked) <=> ~ (bull = {}) /\ ~ (level.entry <= level.stop)
    BY <1>3, <1>8 DEF Found, Names, level
  <2>5. CASE bull = {} \/ level.entry <= level.stop
    <3>1. RunGap(ev, f) = found
      BY <2>2, <2>5
    <3>2. "FVG" \notin Found(f, marked)
      BY <2>4, <2>5
    <3>3. QED
      BY <1>4, <3>1, <3>2, AdvancedNotFound
  <2>6. CASE ~ (bull = {} \/ level.entry <= level.stop)
    <3>1. RunGap(ev, f) = Saved(found, "FVG", idea)
      BY <2>2, <2>6 DEF idea
    <3>2. "FVG" \in Found(f, marked) /\ "FVG" # "VCP"
      BY <2>4, <2>6
    <3>3. Progress(Saved(found, "FVG", idea), f, done \cup {"FVG"}, market, marked)
      BY <1>4, <2>3, <3>2, AdvancedFound, Zenon
    <3>4. QED
      BY <3>1, <3>3
  <2>7. QED
    BY <2>5, <2>6
<1>9. QED
  BY <1>7, <1>8

LEMMA AdvancedKeeps ==
  ASSUME NEW ev, NEW next, NEW f, NEW done, NEW market, NEW marked,
         Progress(ev, f, done, market, marked), Advanced(ev, next, f)
  PROVE  Progress(next, f, done, market, marked)
<1>1. SameTrend(market, next.market)
  BY DEF Progress, Advanced, SameTrend
<1>2. QED
  BY <1>1 DEF Progress, Advanced

LEMMA RegimeRun ==
  ASSUME NEW ev, NEW f, NEW done, NEW market, NEW marked,
         Progress(ev, f, done, market, marked)
  PROVE  Progress(RunRegime(ev, f), f, done, market, marked)
<1>1. Advanced(ev, RunRegime(ev, f), f)
  BY RegimeAdvances DEF Progress
<1>2. QED
  BY <1>1, AdvancedKeeps

\* A strategy the funnel does not run leaves the evaluation as it is.
LEMMA NotRun ==
  ASSUME NEW ev, NEW f, NEW done, NEW market, NEW marked,
         Progress(ev, f, done, market, marked)
  PROVE  /\ ~ Runs("PRICE SQUEEZE", f) => Progress(ev, f, done \cup {"PRICE SQUEEZE"}, market, marked)
         /\ ~ Runs("DEMAND & SUPPLY", f) => Progress(ev, f, done \cup {"DEMAND_SUPPLY"}, market, marked)
         /\ ~ Runs("VCP", f) => Progress(ev, f, done \cup {"VCP"}, market, marked)
         /\ ~ Runs("BREAKOUT", f) => Progress(ev, f, done \cup {"BREAKOUT"}, market, marked)
         /\ ~ Runs("ORDER BLOCK", f) => Progress(ev, f, done \cup {"ORDER_BLOCK"}, market, marked)
         /\ ~ Runs("FVG", f) => Progress(ev, f, done \cup {"FVG"}, market, marked)
<1>1. ASSUME NEW s, s \notin Found(f, marked), s = "VCP" => ~ Runs("VCP", f)
      PROVE  Progress(ev, f, done \cup {s}, market, marked)
  <2>1. Found(f, marked) \cap (done \cup {s}) = Found(f, marked) \cap done
    BY <1>1
  <2>2. "VCP" \in done \cup {s} /\ Runs("VCP", f) <=> "VCP" \in done /\ Runs("VCP", f)
    BY <1>1
  <2>3. QED
    BY <2>1, <2>2 DEF Progress
<1>2. /\ ~ Runs("PRICE SQUEEZE", f) => "PRICE SQUEEZE" \notin Found(f, marked)
      /\ ~ Runs("DEMAND & SUPPLY", f) => "DEMAND_SUPPLY" \notin Found(f, marked)
      /\ ~ Runs("VCP", f) => "VCP" \notin Found(f, marked)
      /\ ~ Runs("BREAKOUT", f) => "BREAKOUT" \notin Found(f, marked)
      /\ ~ Runs("ORDER BLOCK", f) => "ORDER_BLOCK" \notin Found(f, marked)
      /\ ~ Runs("FVG", f) => "FVG" \notin Found(f, marked)
  BY FoundFacts, Zenon
<1>3. QED
  BY <1>1, <1>2

\* All of them, in the order of the registry.
LEMMA AllRunFacts ==
  ASSUME NEW ev, NEW f \in Seq(Candle), NEW market, NEW marked,
         Progress(ev, f, {}, market, marked)
  PROVE  Progress(AllRun(ev, f), f, Names, market, marked)
<1> DEFINE Step(name, e) == IF Runs(name, f) THEN Run(name, e, f) ELSE e
           ev1 == Step("MARKET REGIME", ev)
           ev2 == Step("PRICE SQUEEZE", ev1)
           ev3 == Step("DEMAND & SUPPLY", ev2)
           ev4 == Step("VCP", ev3)
           ev5 == Step("BREAKOUT", ev4)
           ev6 == Step("ORDER BLOCK", ev5)
           ev7 == Step("FVG", ev6)
<1>1. AllRun(ev, f) = ev7
  <2> DEFINE IsUpTo(u) == u = [i \in 0..Len(Registry) |->
                                 IF i = 0 THEN ev
                                 ELSE IF ShouldRun(Registry[i], FrameOf(f))
                                 THEN Run(Registry[i], u[i - 1], f) ELSE u[i - 1]]
             g == [i \in 0..7 |->
                     IF i = 0 THEN ev ELSE IF i = 1 THEN ev1 ELSE IF i = 2 THEN ev2
                     ELSE IF i = 3 THEN ev3 ELSE IF i = 4 THEN ev4 ELSE IF i = 5 THEN ev5
                     ELSE IF i = 6 THEN ev6 ELSE ev7]
             u == CHOOSE v : IsUpTo(v)
  <2>1. AllRun(ev, f) = u[Len(Registry)]
    BY DEF AllRun
  <2>2. IsUpTo(g)
    <3>1. Len(Registry) = 7
      BY DEF Registry
    <3>2. \A i \in 0..7 : g[i] = IF i = 0 THEN ev ELSE Step(Registry[i], g[i - 1])
      <4>1. /\ ev1 = Step(Registry[1], ev) /\ ev2 = Step(Registry[2], ev1)
            /\ ev3 = Step(Registry[3], ev2) /\ ev4 = Step(Registry[4], ev3)
            /\ ev5 = Step(Registry[5], ev4) /\ ev6 = Step(Registry[6], ev5)
            /\ ev7 = Step(Registry[7], ev6)
        <5> HIDE DEF Step
        <5>1. QED
          BY DEF Registry
      <4> HIDE DEF ev1, ev2, ev3, ev4, ev5, ev6, ev7, Step
      <4>2. /\ g[0] = ev /\ g[1] = ev1 /\ g[2] = ev2 /\ g[3] = ev3 /\ g[4] = ev4
            /\ g[5] = ev5 /\ g[6] = ev6 /\ g[7] = ev7
        OBVIOUS
      <4> HIDE DEF g
      <4>3. \A i \in 0..7 : i \in {0, 1, 2, 3, 4, 5, 6, 7}
        OBVIOUS
      <4>4. QED
        BY <4>1, <4>2, <4>3
    <3> HIDE DEF ev1, ev2, ev3, ev4, ev5, ev6, ev7
    <3>3. DOMAIN g = 0..7 /\ g = [i \in 0..7 |-> g[i]]
      OBVIOUS
    <3> HIDE DEF g
    <3>4. QED
      BY <3>1, <3>2, <3>3 DEF Runs
  <2>3. IsUpTo(u)
    BY <2>2
  <2> HIDE DEF u
  <2>4. /\ Len(Registry) = 7 /\ u[0] = ev
        /\ \A i \in 1..7 : u[i] = Step(Registry[i], u[i - 1])
    <3>1. Len(Registry) = 7
      BY DEF Registry
    <3>2. QED
      BY <2>3, <3>1 DEF Runs
  <2>5. /\ u[1] = ev1 /\ u[2] = ev2 /\ u[3] = ev3 /\ u[4] = ev4
        /\ u[5] = ev5 /\ u[6] = ev6 /\ u[7] = ev7
    <3>1. /\ u[1] = Step(Registry[1], u[0]) /\ u[2] = Step(Registry[2], u[1])
          /\ u[3] = Step(Registry[3], u[2]) /\ u[4] = Step(Registry[4], u[3])
          /\ u[5] = Step(Registry[5], u[4]) /\ u[6] = Step(Registry[6], u[5])
          /\ u[7] = Step(Registry[7], u[6])
      <4> HIDE DEF Step
      <4>1. QED
        BY <2>4
    <3>2. /\ Registry[1] = "MARKET REGIME" /\ Registry[2] = "PRICE SQUEEZE"
          /\ Registry[3] = "DEMAND & SUPPLY" /\ Registry[4] = "VCP"
          /\ Registry[5] = "BREAKOUT" /\ Registry[6] = "ORDER BLOCK" /\ Registry[7] = "FVG"
      BY DEF Registry
    <3> HIDE DEF Step
    <3>3. QED
      BY <2>4, <3>1, <3>2
  <2>6. QED
    BY <2>1, <2>4, <2>5
<1> HIDE DEF ev1, ev2, ev3, ev4, ev5, ev6, ev7
<1>2. Progress(ev1, f, {}, market, marked)
  BY RegimeRun DEF ev1, Run
<1>3. Progress(ev2, f, {} \cup {"PRICE SQUEEZE"}, market, marked)
  BY <1>2, SqueezeRun, NotRun DEF ev2, Run
<1>4. Progress(ev3, f, {"PRICE SQUEEZE"} \cup {"DEMAND_SUPPLY"}, market, marked)
  <2>1. Progress(ev2, f, {"PRICE SQUEEZE"}, market, marked)
    BY <1>3
  <2>2. QED
    BY <2>1, DemandSupplyRun, NotRun DEF ev3, Run
<1>5. Progress(ev4, f, {"PRICE SQUEEZE", "DEMAND_SUPPLY"} \cup {"VCP"}, market, marked)
  <2>1. Progress(ev3, f, {"PRICE SQUEEZE", "DEMAND_SUPPLY"}, market, marked)
    BY <1>4
  <2>2. "VCP" \notin {"PRICE SQUEEZE", "DEMAND_SUPPLY"}
    OBVIOUS
  <2>3. QED
    BY <2>1, <2>2, VcpRun, NotRun DEF ev4, Run
<1>6. Progress(ev5, f, {"PRICE SQUEEZE", "DEMAND_SUPPLY", "VCP"} \cup {"BREAKOUT"}, market, marked)
  BY <1>5, BreakoutRun, NotRun DEF ev5, Run
<1>7. Progress(ev6, f, {"PRICE SQUEEZE", "DEMAND_SUPPLY", "VCP", "BREAKOUT"} \cup {"ORDER_BLOCK"},
               market, marked)
  BY <1>6, OrderBlockRun, NotRun DEF ev6, Run
<1>8. Progress(ev7, f, (Names \ {"FVG"}) \cup {"FVG"}, market, marked)
  <2>1. Progress(ev6, f, Names \ {"FVG"}, market, marked)
    BY <1>7 DEF Names
  <2>2. QED
    BY <2>1, GapRun, NotRun DEF ev7, Run
<1>9. (Names \ {"FVG"}) \cup {"FVG"} = Names
  BY DEF Names
<1>10. QED
  BY <1>1, <1>8, <1>9

-----------------------------------------------------------------------------
(***************************************************************************)
(* The levels.                                                             *)
(***************************************************************************)

\* A price of five rupees or more, raised by a permille, is a higher price.
LEMMA AboveFacts ==
  ASSUME NEW price \in Nat
  PROVE  /\ Above(price, 1) \in Int /\ Above(price, 2) \in Int
         /\ Above(price, 1) >= price /\ Above(price, 2) >= price
         /\ price >= 500 => Above(price, 1) > price /\ Above(price, 2) > price
<1>1. /\ Above(price, 1) = (1001 * price + 500) \div 1000
      /\ Above(price, 2) = (1002 * price + 500) \div 1000
  BY DEF Above
<1>2. QED
  BY <1>1

\* The first of some zones is one of them.
LEMMA FirstZone ==
  ASSUME NEW zones, zones # {}, \A z \in zones : z.index \in Nat
  PROVE  (CHOOSE z \in zones : \A y \in zones : z.index <= y.index) \in zones
<1> DEFINE S == {z.index : z \in zones}
<1>1. S \in SUBSET Nat /\ S # {}
  OBVIOUS
<1>2. PICK n \in S : \A m \in S : n <= m
  BY <1>1, NatLeast
<1>3. PICK z \in zones : n = z.index
  BY <1>2
<1>4. \A y \in zones : z.index <= y.index
  BY <1>2, <1>3
<1>5. QED
  BY <1>4

LEMMA BestZoneFacts ==
  ASSUME NEW zones, zones # {}, \A z \in zones : z.index \in Nat
  PROVE  BestZone(zones) \in zones
<1> DEFINE best == {z \in zones : \A y \in zones : Strength(y) <= Strength(z)}
<1>1. best # {}
  <2>1. \A z \in zones : Strength(z) \in {65, 75}
    BY DEF Strength
  <2>2. CASE \E z \in zones : Strength(z) = 75
    BY <2>1, <2>2
  <2>3. CASE ~ \E z \in zones : Strength(z) = 75
    BY <2>1, <2>3
  <2>4. QED
    BY <2>2, <2>3
<1>2. best \subseteq zones
  OBVIOUS
<1>3. BestZone(zones) = CHOOSE z \in best : \A y \in best : z.index <= y.index
  BY DEF BestZone
<1> HIDE DEF best
<1>4. QED
  BY <1>1, <1>2, <1>3, FirstZone

LEMMA NearestFacts ==
  ASSUME NEW zones, zones # {}, \A z \in zones : z.index \in Nat /\ z.high \in Nat,
         NEW price \in Nat
  PROVE  Nearest(zones, price) \in zones
<1> DEFINE far(z) == IF z.high < price THEN price - z.high ELSE z.high - price
           best == {z \in zones : \A y \in zones : far(z) <= far(y)}
           S == {far(z) : z \in zones}
<1>1. \A z \in zones : far(z) \in Nat
  OBVIOUS
<1>2. Nearest(zones, price) = CHOOSE z \in best : \A y \in best : z.index <= y.index
  BY DEF Nearest
<1> HIDE DEF far
<1>3. S \in SUBSET Nat /\ S # {}
  BY <1>1
<1>4. PICK n \in S : \A m \in S : n <= m
  BY <1>3, NatLeast
<1>5. PICK z \in zones : n = far(z)
  BY <1>4
<1>6. z \in best
  BY <1>4, <1>5
<1>7. best \subseteq zones /\ best # {}
  BY <1>6
<1> HIDE DEF best
<1>8. QED
  BY <1>2, <1>7, FirstZone

LEMMA HighestFacts ==
  ASSUME NEW w \in Seq(Candle), w # <<>>
  PROVE  Highest(w) \in Nat /\ \E i \in DOMAIN w : Highest(w) = w[i].h
<1> DEFINE S == {w[i].h : i \in DOMAIN w}
           g == [i \in DOMAIN w |-> w[i].h]
<1>1. Len(w) \in Nat /\ DOMAIN w = 1..Len(w) /\ \A i \in DOMAIN w : w[i] \in Candle
  OBVIOUS
<1>2. \A i \in DOMAIN w : w[i].h \in Nat
  BY <1>1, CandleTypes
<1>3. S \in SUBSET Int /\ S # {} /\ S = {g[i] : i \in DOMAIN w}
  BY <1>1, <1>2
<1>4. IsFiniteSet(DOMAIN w)
  BY <1>1, FS_Interval
<1>5. IsFiniteSet(S)
  <2> DEFINE D == DOMAIN w
  <2> HIDE DEF D, g
  <2>1. IsFiniteSet({g[i] : i \in D})
    BY <1>4, ImageFinite DEF D
  <2>2. QED
    BY <1>3, <2>1 DEF D
<1>6. Max(S) \in S
  BY <1>3, <1>5, MaxOfSet
<1>7. QED
  BY <1>2, <1>6 DEF Highest

\* Where a candidate is found, its stop is below its entry.
LEMMA LevelsOrdered ==
  ASSUME NEW f \in Seq(Candle), Len(f) >= AverageWindow, NEW marked,
         NEW s \in Found(f, marked)
  PROVE  /\ Level(s, f).entry \in Int /\ Level(s, f).stop \in Int
         /\ Level(s, f).stop <= Level(s, f).entry
         /\ Last(f).h >= 500 => Level(s, f).stop < Level(s, f).entry
<1> DEFINE x == Last(f)
<1>1. /\ Len(f) \in Nat /\ Len(f) >= 1
      /\ \A i \in 1..Len(f) : f[i] \in Candle
  BY LookbackAssumption
<1>2. x \in Candle
  BY <1>1 DEF Last
<1>3. /\ x.h \in Nat /\ x.l \in Nat /\ x.c \in Nat /\ x.atr \in Nat /\ x.ema20 \in Nat
      /\ x.l <= x.h /\ x.atr > 0
  BY <1>2, CandleTypes
<1>4. \A i \in 1..Len(f) : f[i].h \in Nat /\ f[i].l \in Nat /\ f[i].l <= f[i].h
  BY <1>1, CandleTypes
<1>5. CASE s = "PRICE SQUEEZE"
  <2>1. x.c - 2 * x.atr \in Int /\ x.l \in Int
    BY <1>3
  <2>2. /\ Min({x.l, x.c - 2 * x.atr}) \in {x.l, x.c - 2 * x.atr}
        /\ Min({x.l, x.c - 2 * x.atr}) <= x.l
    BY <2>1, MinOfTwo, Zenon
  <2>3. /\ Above(x.h, 1) \in Int /\ Above(x.h, 1) >= x.h
        /\ x.h >= 500 => Above(x.h, 1) > x.h
    BY <1>3, AboveFacts
  <2>4. Level(s, f) = Levels(Above(x.h, 1), Min({x.l, x.c - 2 * x.atr}))
    BY <1>5 DEF Level, SqueezeLevel
  <2>5. QED
    BY <1>3, <2>2, <2>3, <2>4 DEF Levels
<1>6. CASE s = "DEMAND_SUPPLY"
  <2> DEFINE zone == BestZone(FreshDemand(f))
  <2>1. FreshDemand(f) # {}
    BY <1>6, FoundFacts
  <2>2. \A z \in FreshDemand(f) : /\ z.index \in Nat /\ z.high \in Nat /\ z.low \in Nat
                                  /\ z.low <= z.high
    <3> SUFFICES ASSUME NEW z \in FreshDemand(f)
                 PROVE  z.index \in Nat /\ z.high \in Nat /\ z.low \in Nat /\ z.low <= z.high
      OBVIOUS
    <3>1. PICK i \in ZoneIndices(f) : z = Zone(f[i], i)
      BY DEF FreshDemand, DemandZones
    <3>2. i \in 1..Len(f)
      BY <1>1, <3>1, LookbackAssumption DEF ZoneIndices
    <3>3. QED
      BY <1>4, <3>1, <3>2 DEF Zone
  <2>3. zone \in FreshDemand(f)
    BY <2>1, <2>2, BestZoneFacts
  <2>4. Level(s, f) = Levels(zone.high, zone.low - x.atr)
    BY <1>6 DEF Level, ZoneLevel
  <2> HIDE DEF zone
  <2>5. QED
    BY <1>3, <2>2, <2>3, <2>4 DEF Levels
<1>7. CASE s = "VCP"
  <2>1. Min({x.l, x.ema20}) \in {x.l, x.ema20} /\ Min({x.l, x.ema20}) <= x.l
    <3>1. x.l \in Int /\ x.ema20 \in Int
      BY <1>3
    <3>2. QED
      BY <3>1, MinOfTwo, Zenon
  <2>2. /\ Above(x.h, 2) \in Int /\ Above(x.h, 2) >= x.h
        /\ x.h >= 500 => Above(x.h, 2) > x.h
    BY <1>3, AboveFacts
  <2>3. Level(s, f) = Levels(Above(x.h, 2), Min({x.l, x.ema20}))
    BY <1>7 DEF Level, VcpLevel, VcpStop
  <2>4. QED
    BY <1>3, <2>1, <2>2, <2>3 DEF Levels
<1>8. CASE s = "BREAKOUT"
  <2> DEFINE w == SubSeq(f, Len(f) - BreakoutLookback, Len(f) - 1)
  <2>1. MayBreakOut(f) /\ ~ (BreakoutLevels(f).entry <= BreakoutLevels(f).stop)
    BY <1>8, FoundFacts
  <2>2. BreakoutLookback \in Nat /\ BreakoutLookback >= 1 /\ Len(f) >= BreakoutLookback + 5
    BY <2>1, LookbackAssumption DEF MayBreakOut
  <2>3. w \in Seq(Candle) /\ w # <<>>
    BY <1>1, <2>2
  <2>4. Highest(w) \in Nat
    BY <2>3, HighestFacts
  <2>5. Above(Highest(w), 2) \in Int
    BY <2>4, AboveFacts
  <2>6. Min({x.ema20, x.l}) \in {x.ema20, x.l}
    <3>1. x.l \in Int /\ x.ema20 \in Int
      BY <1>3
    <3>2. QED
      BY <3>1, MinOfTwo, Zenon
  <2>7. BreakoutLevels(f) = Levels(Above(Highest(w), 2), Min({x.ema20, x.l}))
    BY DEF BreakoutLevels, BreakoutLevel, Resistance
  <2>8. Level(s, f) = BreakoutLevels(f)
    BY <1>8 DEF Level
  <2>9. QED
    BY <1>3, <2>1, <2>5, <2>6, <2>7, <2>8 DEF Levels
<1>9. CASE s = "ORDER_BLOCK"
  <2> DEFINE zones == OrderBlocks(f, TRUE)
             zone == Nearest(zones, x.c)
  <2>1. zones # {} /\ ~ (BlockLevel(f).entry <= BlockLevel(f).stop)
    BY <1>9, FoundFacts
  <2>2. \A z \in zones : z.index \in Nat /\ z.high \in Nat /\ z.low \in Nat
    <3> SUFFICES ASSUME NEW z \in zones
                 PROVE  z.index \in Nat /\ z.high \in Nat /\ z.low \in Nat
      OBVIOUS
    <3>1. PICK i \in (BlockFirst + 1)..(Len(f) - 3) : z = Zone(f[i], i)
      BY DEF OrderBlocks
    <3>2. i \in 1..Len(f)
      BY <1>1, <3>1, LookbackAssumption
    <3>3. QED
      BY <1>4, <3>1, <3>2 DEF Zone
  <2>3. zone \in zones
    BY <1>3, <2>1, <2>2, NearestFacts
  <2>4. Level(s, f) = BlockLevel(f) /\ BlockLevel(f) = Levels(zone.high, zone.low)
    BY <1>9 DEF Level, BlockLevel
  <2> HIDE DEF zone, zones
  <2>5. QED
    BY <2>1, <2>2, <2>3, <2>4 DEF Levels
<1>10. CASE s = "FVG"
  <2> DEFINE zones == BullishGaps(f)
             zone == Nearest(zones, x.c)
  <2>1. zones # {} /\ ~ (GapLevel(f).entry <= GapLevel(f).stop)
    BY <1>10, FoundFacts
  <2>2. \A z \in zones : z.index \in Nat /\ z.high \in Nat /\ z.low \in Nat
    <3> SUFFICES ASSUME NEW z \in zones
                 PROVE  z.index \in Nat /\ z.high \in Nat /\ z.low \in Nat
      OBVIOUS
    <3>1. PICK i \in 3..Len(f) : z = [low |-> f[i - 2].h, high |-> f[i].l, index |-> i]
      BY DEF BullishGaps
    <3>2. i \in 1..Len(f) /\ i - 2 \in 1..Len(f) /\ i \in Nat
      BY <1>1, <3>1
    <3>3. QED
      BY <1>4, <3>1, <3>2
  <2>3. zone \in zones
    BY <1>3, <2>1, <2>2, NearestFacts
  <2>4. Level(s, f) = GapLevel(f) /\ GapLevel(f) = Levels(zone.high, zone.low - x.atr)
    BY <1>10 DEF Level, GapLevel
  <2> HIDE DEF zone, zones
  <2>5. QED
    BY <1>3, <2>1, <2>2, <2>3, <2>4 DEF Levels
<1>11. QED
  BY <1>5, <1>6, <1>7, <1>8, <1>9, <1>10 DEF Found, Names

-----------------------------------------------------------------------------
(***************************************************************************)
(* Bad news.                                                               *)
(***************************************************************************)

LEMMA SixAreFinite ==
  ASSUME NEW a, NEW b, NEW c, NEW d, NEW e, NEW g
  PROVE  IsFiniteSet({a, b, c, d, e, g})
<1>1. IsFiniteSet({a} \cup {b} \cup {c} \cup {d} \cup {e} \cup {g})
  BY FS_Singleton, FS_Union
<1>2. {a, b, c, d, e, g} = {a} \cup {b} \cup {c} \cup {d} \cup {e} \cup {g}
  OBVIOUS
<1>3. QED
  BY <1>1, <1>2

LEMMA ConfluenceType ==
  ASSUME NEW strategies \in SUBSET Names
  PROVE  Confluence(strategies) \in Int
<1> DEFINE all == {"STRUCTURE", "MOMENTUM", "VOLUME", "VOLATILITY_COMPRESSION",
                   "MEAN_REVERSION", "SMART_MONEY"}
           families == UNION {Families(s) : s \in strategies}
<1>1. families \subseteq all
  BY DEF Families, Names
<1>2. IsFiniteSet(all)
  BY SixAreFinite
<1> HIDE DEF all, families
<1>3. Cardinality(families) \in Nat
  BY <1>1, <1>2, FS_Subset, FS_CardinalityType
<1> DEFINE n == 250 * (Cardinality(families) - 1)
<1>4. n \in Int /\ 500 \in Int
  BY <1>3
<1>5. Confluence(strategies) = Min({500, n})
  BY DEF Confluence, families
<1> HIDE DEF n
<1>6. Min({500, n}) \in {500, n}
  BY <1>4, MinOfTwo, Zenon
<1>7. QED
  BY <1>4, <1>5, <1>6

LEMMA NewsFacts ==
  ASSUME NEW news, news.sentiment \in Int
  PROVE  /\ News(news) \in Int
         /\ news.active /\ news.sentiment < 0 /\ news.outlook # "POSITIVE" => News(news) <= 500
<1> DEFINE outlook == CASE news.outlook = "POSITIVE" -> 200
                        [] news.outlook = "NEGATIVE" -> -200
                        [] news.outlook = "MIXED"    -> 50
                        [] OTHER -> 0
           relevant == Points(news.relevant, 100)
           sum == 500 + 200 * news.sentiment + relevant + outlook
           cautious == IF news.results /\ news.sentiment < 0 /\ news.outlook = "POSITIVE"
                       THEN Max({sum, 600})
                       ELSE IF news.results /\ news.sentiment > 0 /\ news.outlook = "NEGATIVE"
                       THEN Min({sum, 400}) ELSE sum
<1>1. relevant \in {0, 100} /\ outlook \in {200, -200, 50, 0}
      /\ (news.outlook # "POSITIVE" => outlook \in {-200, 50, 0})
  BY DEF Points
<1> HIDE DEF relevant, outlook
<1>2. sum \in Int /\ 600 \in Int /\ 400 \in Int
  BY <1>1
<1>3. news.sentiment < 0 /\ news.outlook # "POSITIVE" => sum <= 500
  BY <1>1
<1>4. News(news) = IF ~news.active THEN 500 ELSE IF news.veto THEN 0 ELSE Clamp(cautious, 0, 1000)
  BY DEF News, relevant, outlook
<1> HIDE DEF sum
<1>5. Max({sum, 600}) \in {sum, 600} /\ Min({sum, 400}) \in {sum, 400}
  <2>1. Max({sum, 600}) \in {sum, 600}
    BY <1>2, MaxOfTwo
  <2>2. Min({sum, 400}) \in {sum, 400}
    BY <1>2, MinOfTwo, Zenon
  <2>3. QED
    BY <2>1, <2>2
<1>6. cautious \in Int
      /\ (news.sentiment < 0 /\ news.outlook # "POSITIVE" => cautious = sum)
  BY <1>2, <1>5
<1> HIDE DEF cautious
<1>7. 0 \in Int /\ 1000 \in Int /\ 0 <= 1000
  OBVIOUS
<1>8. /\ Clamp(cautious, 0, 1000) \in Int
      /\ Clamp(cautious, 0, 1000) = IF cautious <= 0 THEN 0
                                    ELSE IF cautious >= 1000 THEN 1000 ELSE cautious
  BY <1>6, <1>7, ClampFacts
<1>9. QED
  BY <1>2, <1>3, <1>4, <1>6, <1>8

LEMMA TimesMonotone ==
  ASSUME NEW a \in Int, NEW b \in Int, a <= b, NEW w \in Nat
  PROVE  a * w <= b * w
<1>1. (b - a) * w >= 0
  OBVIOUS
<1>2. (b - a) * w = b * w - a * w
  OBVIOUS
<1>3. a * w \in Int /\ b * w \in Int
  OBVIOUS
<1>4. QED
  BY <1>1, <1>2, <1>3

\* What one component is worth under a profile.
Worth(n, default, w) ==
  Min({100 * w, (2 * Min({100 * default, n}) * w + default) \div (2 * default)})

LEMMA WorthFacts ==
  ASSUME NEW default \in {30, 20, 10}, NEW w \in Nat, NEW m \in Int, NEW n \in Int, m <= n
  PROVE  /\ Worth(m, default, w) \in Int /\ Worth(n, default, w) \in Int
         /\ Worth(m, default, w) <= Worth(n, default, w)
<1> DEFINE a == Min({100 * default, m})
           b == Min({100 * default, n})
           share(k) == (2 * k * w + default) \div (2 * default)
           p == share(a)
           q == share(b)
<1>1. 100 * default \in Int /\ 100 * w \in Int
  OBVIOUS
<1>2. /\ a \in {100 * default, m} /\ a <= 100 * default /\ a <= m
      /\ b \in {100 * default, n} /\ b <= 100 * default /\ b <= n
  BY <1>1, MinOfTwo
<1>3. a \in Int /\ b \in Int /\ a <= b
  BY <1>1, <1>2
<1>4. Worth(m, default, w) = Min({100 * w, p}) /\ Worth(n, default, w) = Min({100 * w, q})
  BY DEF Worth
<1> HIDE DEF a, b
<1>5. p \in Int /\ q \in Int /\ p <= q
  <2>1. a * w \in Int /\ b * w \in Int /\ a * w <= b * w
    BY <1>3, TimesMonotone
  <2> DEFINE u == a * w
             v == b * w
  <2>2. 2 * a * w = 2 * u /\ 2 * b * w = 2 * v
    BY <1>3
  <2>3. p = (2 * u + default) \div (2 * default) /\ q = (2 * v + default) \div (2 * default)
    BY <2>2
  <2> HIDE DEF u, v, p, q
  <2>4. CASE default = 30
    BY <2>1, <2>3, <2>4 DEF u, v
  <2>5. CASE default = 20
    BY <2>1, <2>3, <2>5 DEF u, v
  <2>6. CASE default = 10
    BY <2>1, <2>3, <2>6 DEF u, v
  <2>7. QED
    BY <2>4, <2>5, <2>6
<1> HIDE DEF p, q
<1>6. /\ Min({100 * w, p}) \in {100 * w, p} /\ Min({100 * w, p}) <= 100 * w /\ Min({100 * w, p}) <= p
      /\ Min({100 * w, q}) \in {100 * w, q} /\ Min({100 * w, q}) <= 100 * w /\ Min({100 * w, q}) <= q
  BY <1>1, <1>5, MinOfTwo
<1>7. QED
  BY <1>1, <1>4, <1>5, <1>6

LEMMA ConfidenceMonotone ==
  ASSUME NEW raw, NEW other, NEW weights, ValidWeights(weights),
         NEW strategies \in SUBSET Names,
         \A c \in Components : raw[c] \in Int /\ other[c] \in Int /\ raw[c] <= other[c]
  PROVE  Confidence(raw, weights, strategies) <= Confidence(other, weights, strategies)
<1> DEFINE v == Reweighted(raw, weights)
           w == Reweighted(other, weights)
<1>1. \A c \in Components : weights[c] \in Nat /\ DefaultWeights[c] \in {30, 20, 10}
  BY DEF ValidWeights, Components, SafeBounds, DefaultWeights
<1>2. \A c \in Components : /\ v[c] = Worth(raw[c], DefaultWeights[c], weights[c])
                            /\ w[c] = Worth(other[c], DefaultWeights[c], weights[c])
  BY DEF Reweighted, Worth
<1>3. DOMAIN v = Components /\ DOMAIN w = Components
  BY DEF Reweighted
<1> HIDE DEF v, w
<1>4. \A c \in Components : v[c] \in Int /\ w[c] \in Int /\ v[c] <= w[c]
  BY <1>1, <1>2, WorthFacts
<1>5. IsFiniteSet(Components)
  BY SixAreFinite DEF Components
<1>6. /\ SumFunctionOnSet(v, Components) <= SumFunctionOnSet(w, Components)
      /\ SumFunctionOnSet(v, Components) \in Int /\ SumFunctionOnSet(w, Components) \in Int
  BY <1>4, <1>5, SumMonotone, SumInt
<1>7. Confluence(strategies) \in Int
  BY ConfluenceType
<1> DEFINE m == Sum(v) + Confluence(strategies)
           n == Sum(w) + Confluence(strategies)
<1>8. m \in Int /\ n \in Int /\ m <= n
  BY <1>3, <1>6, <1>7 DEF Sum
<1>9. /\ Confidence(raw, weights, strategies) = Clamp(m, 0, 10000)
      /\ Confidence(other, weights, strategies) = Clamp(n, 0, 10000)
  BY DEF Confidence, v, w
<1> HIDE DEF m, n
<1>10. 0 \in Int /\ 10000 \in Int /\ 0 <= 10000
  OBVIOUS
<1>11. QED
  BY <1>8, <1>9, <1>10, ClampMonotone

LEMMA OutcomeFacts ==
  ASSUME NEW ev, NEW f, NEW best, NEW day \in Days, DOMAIN ev.candidates \subseteq Names
  PROVE  LET out == Outcome(ev, f, best, day)
         IN /\ out.candidates = ev.candidates
            /\ out.news.active /\ out.news.sentiment < 0 /\ out.news.outlook # "POSITIVE"
                 => out.score <= out.quiet
<1> DEFINE out == Outcome(ev, f, best, day)
           raw == RawScore(ev, f, best, day.report, day.news)
           quiet == [raw EXCEPT !.news = 500]
           strategies == DOMAIN ev.candidates
<1>1. /\ out.candidates = ev.candidates /\ out.news = day.news
      /\ out.score = Confidence(raw, day.weights, strategies)
      /\ out.quiet = Confidence(quiet, day.weights, strategies)
  BY DEF Outcome
<1> HIDE DEF out
<1>2. /\ ValidWeights(day.weights) /\ day.report \in Report /\ day.news.sentiment \in Int
  BY EvaluationAssumption
<1>3. \A c \in Components : raw[c] \in Int
  <2>1. /\ raw.structure = Structure(ev, f, best)
        /\ raw.participation = Participation(ev, f, best)
        /\ raw.momentum = Momentum(ev, f)
        /\ raw.market_sector = MarketSector(ev, Last(f))
        /\ raw.historical = Historical(day.report)
        /\ raw.news = News(day.news)
    BY DEF RawScore
  <2> HIDE DEF raw
  <2>2. QED
    BY <1>2, <2>1, StructureType, ParticipationType, MomentumType, MarketSectorType,
       HistoricalType, NewsFacts DEF Components
<1>4. /\ raw.news = News(day.news) /\ quiet.news = 500
      /\ \A c \in Components : c # "news" => quiet[c] = raw[c]
  BY DEF RawScore, Components
<1> HIDE DEF raw, quiet
<1>5. ASSUME day.news.active, day.news.sentiment < 0, day.news.outlook # "POSITIVE"
      PROVE  out.score <= out.quiet
  <2>1. News(day.news) <= 500
    BY <1>2, <1>5, NewsFacts
  <2>2. \A c \in Components : raw[c] \in Int /\ quiet[c] \in Int /\ raw[c] <= quiet[c]
    BY <1>3, <1>4, <2>1
  <2>3. Confidence(raw, day.weights, strategies) <= Confidence(quiet, day.weights, strategies)
    BY <1>2, <2>2, ConfidenceMonotone
  <2>4. QED
    BY <1>1, <2>3
<1>6. QED
  BY <1>1, <1>5 DEF out

-----------------------------------------------------------------------------
(***************************************************************************)
(* The evaluation of a symbol: what it opens with, and what the engines    *)
(* and the validation leave of the strategies' work.                       *)
(***************************************************************************)

LEMMA AgedLonger ==
  ASSUME NEW f \in Seq(Candle), NEW g \in Seq(Candle), Len(f) <= Len(g), NEW p, Aged(p, f)
  PROVE  Aged(p, g)
<1>1. BlockBars \in Nat /\ GapBars \in Nat /\ BreakoutLookback \in Nat
      /\ Len(f) \in Nat /\ Len(g) \in Nat
  BY LookbackAssumption
<1>2. /\ Len(f) >= BlockBars => Len(g) >= BlockBars
      /\ Len(f) >= GapBars => Len(g) >= GapBars
      /\ MayBreakOut(f) => MayBreakOut(g)
  BY <1>1 DEF MayBreakOut
<1>3. QED
  BY <1>2 DEF Aged

LEMMA WithAdvances ==
  ASSUME NEW ev, Shape(ev), NEW f, Aged(ev.patterns, f), NEW key, NEW n
  PROVE  Advanced(ev, With(ev, key, n), f)
BY WithFacts DEF Advanced, SameTrend

\* The engines of the first batch add to the score.
LEMMA Batch1Advances ==
  ASSUME NEW ev, Shape(ev), NEW f, Aged(ev.patterns, f), NEW day, NEW aligned
  PROVE  Advanced(ev, Batch1(ev, f, day, aligned), f)
<1> DEFINE a == WithSector(ev, day)
           b == With(a, "mtf_alignment", aligned)
           c == WithStrength(b, f, day)
           d == WithProfile(c, f)
<1>1. Advanced(ev, a, f)
  BY WithAdvances DEF WithSector
<1> HIDE DEF a
<1>2. Advanced(a, b, f)
  BY <1>1, WithAdvances DEF Advanced
<1> HIDE DEF b
<1>3. Advanced(b, c, f)
  <2>1. \E n : c \in {b, With(b, "relative_strength", n)}
    BY DEF WithStrength
  <2>2. Shape(b) /\ Aged(b.patterns, f)
    BY <1>2 DEF Advanced
  <2>3. QED
    BY <2>1, <2>2, WithAdvances, ScoredAdvances
<1> HIDE DEF c
<1>4. Advanced(c, d, f)
  <2>1. \E n : d \in {c, With(c, "volume_profile", n)}
    BY DEF WithProfile
  <2>2. Shape(c) /\ Aged(c.patterns, f)
    BY <1>3 DEF Advanced
  <2>3. QED
    BY <2>1, <2>2, WithAdvances, ScoredAdvances
<1> HIDE DEF d
<1>5. Advanced(ev, d, f)
  BY <1>1, <1>2, <1>3, <1>4, AdvancedTrans
<1>6. PICK n : Batch1(ev, f, day, aligned) = With(d, "batch1_bonus", n)
  BY DEF Batch1, a, b, c, d
<1>7. Advanced(d, With(d, "batch1_bonus", n), f)
  BY <1>5, WithAdvances DEF Advanced
<1>8. QED
  BY <1>5, <1>6, <1>7, AdvancedTrans

\* The second batch also marks a breakout that failed.
LEMMA Batch2Advances ==
  ASSUME NEW ev, Shape(ev), NEW f, Aged(ev.patterns, f), NEW told
  PROVE  Advanced(ev, Batch2(ev, f, told), f)
<1> DEFINE a == WithFalseBreakout(ev, f)
           b == With(a, "smart_money", SmartMoney(a))
           c == WithInstitutional(b, f)
           d == With(c, "news_earnings", NewsPenalty(told))
<1>1. Advanced(ev, a, f)
  <2> DEFINE short == [FALSE_BREAKOUT |-> FALSE]
             long == [FALSE_BREAKOUT |-> FailedBreakout(f),
                      BREAKOUT_EXHAUSTION |-> Has(ev, "BREAKOUT_READY") /\ Exhausted(f)]
  <2>1. DOMAIN short = {"FALSE_BREAKOUT"}
        /\ DOMAIN long = {"FALSE_BREAKOUT", "BREAKOUT_EXHAUSTION"}
    OBVIOUS
  <2>2. \E n : a \in {WithPatterns(ev, short),
                      With(WithPatterns(ev, long), "false_breakout_penalty", n)}
    BY DEF WithFalseBreakout
  <2> HIDE DEF short, long
  <2>3. Advanced(ev, WithPatterns(ev, short), f)
    BY <2>1, PatternsAdvance
  <2>4. Advanced(ev, WithPatterns(ev, long), f)
    BY <2>1, PatternsAdvance
  <2> DEFINE with == WithPatterns(ev, long)
  <2>5. \A n : Advanced(with, With(with, "false_breakout_penalty", n), f)
    BY <2>4, WithAdvances DEF Advanced
  <2>6. \A n : Advanced(ev, With(with, "false_breakout_penalty", n), f)
    BY <2>4, <2>5, AdvancedTrans
  <2>7. QED
    BY <2>2, <2>3, <2>6
<1> HIDE DEF a
<1>2. Advanced(a, b, f)
  BY <1>1, WithAdvances DEF Advanced
<1> HIDE DEF b
<1>3. Advanced(b, c, f)
  <2> DEFINE Noted(q) == [b EXCEPT !.indicators = q]
  <2>1. Shape(b) /\ Aged(b.patterns, f)
    BY <1>2 DEF Advanced
  <2>2. \E q, n : c \in {With(b, "institutional", 50), With(Noted(q), "institutional", n)}
    BY DEF WithInstitutional
  <2>3. \A q : Advanced(b, Noted(q), f)
    BY <2>1 DEF Advanced, SameTrend, Shape, EvFields
  <2> HIDE DEF Noted
  <2>4. \A q, n : Advanced(Noted(q), With(Noted(q), "institutional", n), f)
    BY <2>3, WithAdvances DEF Advanced
  <2>5. \A q, n : Advanced(b, With(Noted(q), "institutional", n), f)
    BY <2>3, <2>4, AdvancedTrans
  <2>6. Advanced(b, With(b, "institutional", 50), f)
    BY <2>1, WithAdvances
  <2>7. QED
    BY <2>2, <2>5, <2>6
<1> HIDE DEF c
<1>4. Advanced(c, d, f)
  BY <1>3, WithAdvances DEF Advanced
<1> HIDE DEF d
<1>5. Advanced(ev, d, f)
  BY <1>1, <1>2, <1>3, <1>4, AdvancedTrans
<1>6. \E m, n : Batch2(ev, f, told) = With(With(d, "batch2_bonus", m), "ai_confidence", n)
  BY DEF Batch2, a, b, c, d
<1>7. PICK m : \E n : Batch2(ev, f, told) = With(With(d, "batch2_bonus", m), "ai_confidence", n)
  BY <1>6
<1>8. PICK n : Batch2(ev, f, told) = With(With(d, "batch2_bonus", m), "ai_confidence", n)
  BY <1>7
<1> DEFINE e == With(d, "batch2_bonus", m)
<1>9. Advanced(d, e, f)
  BY <1>5, WithAdvances DEF Advanced
<1> HIDE DEF e
<1>10. Advanced(e, With(e, "ai_confidence", n), f)
  BY <1>9, WithAdvances DEF Advanced
<1>11. Advanced(ev, With(e, "ai_confidence", n), f)
  BY <1>5, <1>9, <1>10, AdvancedTrans
<1>12. QED
  BY <1>8, <1>11 DEF e

LEMMA ValidatedProgress ==
  ASSUME NEW ev, NEW f, NEW done, NEW market, NEW marked,
         Progress(ev, f, done, market, marked)
  PROVE  Progress(WithValidated(ev, f), f, done, market, marked)
<1> DEFINE quality == TradeQuality(ev.score)
           judged == [s \in DOMAIN ev.candidates |-> Validated(ev, f, ev.candidates[s], quality)]
           last == [ev EXCEPT !.candidates = judged]
<1>1. WithValidated(ev, f) = last
  BY DEF WithValidated
<1>2. \A s \in DOMAIN ev.candidates : Traded(judged[s], Level(s, f))
  <2> SUFFICES ASSUME NEW s \in DOMAIN ev.candidates
               PROVE  Traded(judged[s], Level(s, f))
    OBVIOUS
  <2> DEFINE c == ev.candidates[s]
  <2>1. Traded(c, Level(s, f))
    BY DEF Progress
  <2>2. \E conf, state : Validated(ev, f, c, quality) = Judged(c, conf, state)
    <3> HIDE DEF c, quality
    <3> DEFINE state == IF Valid(ev, Last(f), c, quality) THEN "READY" ELSE "WATCHLIST"
    <3>1. \E conf : Validated(ev, f, c, quality) = [c EXCEPT !.state = state, !.conf = conf]
      BY DEF Validated
    <3>2. \A conf : [c EXCEPT !.state = state, !.conf = conf] = Judged(c, conf, state)
      <4> HIDE DEF state
      <4>1. DOMAIN c = TradeFields
        BY <2>1 DEF Traded
      <4>2. QED
        BY <4>1 DEF Judged, TradeFields
    <3>3. QED
      BY <3>1, <3>2
  <2>3. judged[s] = Validated(ev, f, c, quality)
    OBVIOUS
  <2> HIDE DEF c, quality, judged
  <2>4. QED
    BY <2>1, <2>2, <2>3, JudgedTraded
<1>3. DOMAIN judged = DOMAIN ev.candidates
  OBVIOUS
<1> HIDE DEF judged
<1>4. /\ Shape(last) /\ last.market = ev.market /\ last.patterns = ev.patterns
      /\ last.candidates = judged
  BY DEF Progress, Shape, EvFields
<1> HIDE DEF last
<1>5. QED
  BY <1>1, <1>2, <1>3, <1>4 DEF Progress

\* What an evaluation starts from.
Fresh(ev, f, marked) ==
  /\ Shape(ev)
  /\ DOMAIN ev.candidates = {}
  /\ Aged(ev.patterns, f)
  /\ "VCP" \in DOMAIN ev.patterns <=> marked

LEMMA ConcludedFacts ==
  ASSUME NEW seen, NEW f \in Seq(Candle), NEW marked, Fresh(seen, f, marked),
         NEW day, NEW aligned, NEW told
  PROVE  Progress(Concluded(seen, f, day, aligned, told), f, Names, seen.market, marked)
<1> DEFINE market == seen.market
           ev == WithSector(seen, day)
           run == AllRun(ev, f)
           one == Batch1(run, f, day, aligned)
           two == Batch2(one, f, told)
<1>1. Progress(seen, f, {}, market, marked)
  BY DEF Fresh, Progress, SameTrend
<1>2. Advanced(seen, ev, f)
  BY WithAdvances DEF Fresh, WithSector
<1> HIDE DEF market, ev
<1>3. Progress(ev, f, {}, market, marked)
  BY <1>1, <1>2, AdvancedKeeps
<1>4. Progress(run, f, Names, market, marked)
  BY <1>3, AllRunFacts
<1>5. Concluded(seen, f, day, aligned, told) =
        IF DOMAIN run.candidates = {} THEN run ELSE WithValidated(two, f)
  BY DEF Concluded, ev
<1> HIDE DEF run
<1>6. Advanced(run, one, f)
  BY <1>4, Batch1Advances DEF Progress
<1> HIDE DEF one
<1>7. Advanced(one, two, f)
  BY <1>6, Batch2Advances DEF Advanced
<1> HIDE DEF two
<1>8. Progress(two, f, Names, market, marked)
  BY <1>4, <1>6, <1>7, AdvancedKeeps
<1>9. Progress(WithValidated(two, f), f, Names, market, marked)
  BY <1>8, ValidatedProgress
<1>10. QED
  BY <1>4, <1>5, <1>9 DEF market

LEMMA OpenedFacts ==
  ASSUME NEW st, NEW f
  PROVE  /\ Shape(Opened(st, f)) /\ DOMAIN Opened(st, f).candidates = {}
         /\ Opened(st, f).market = st.market /\ Opened(st, f).patterns = st.patterns
<1>1. /\ Shape(Opened(st, f)) /\ Opened(st, f).candidates = <<>>
      /\ Opened(st, f).market = st.market /\ Opened(st, f).patterns = st.patterns
  BY DEF Opened, Shape, EvFields
<1>2. DOMAIN << >> = {}
  OBVIOUS
<1>3. QED
  BY <1>1, <1>2

\* Two swings of each kind: then the frame alone decides the trend.
Swings(f) == Cardinality(SwingHighs(f)) >= 2 /\ Cardinality(SwingLows(f)) >= 2

TrendKnown(market, f) ==
  Swings(f) => "TREND" \in DOMAIN market /\ market["TREND"] = Classified(f, <<>>)["TREND"]

LEMMA SwingsFacts ==
  ASSUME NEW f \in Seq(Candle)
  PROVE  Swings(f) <=> ~ (Cardinality(SwingHighs(f)) < 2 \/ Cardinality(SwingLows(f)) < 2)
<1>1. SwingReach + 1 \in Int /\ Len(f) - SwingReach \in Int
  BY LookbackAssumption
<1>2. IsFiniteSet(Inner(f))
  BY <1>1, FS_Interval DEF Inner
<1>3. SwingHighs(f) \subseteq Inner(f) /\ SwingLows(f) \subseteq Inner(f)
  BY DEF SwingHighs, SwingLows
<1>4. Cardinality(SwingHighs(f)) \in Nat /\ Cardinality(SwingLows(f)) \in Nat
  BY <1>2, <1>3, FS_Subset, FS_CardinalityType
<1>5. QED
  BY <1>4 DEF Swings

LEMMA ClassifiedKnown ==
  ASSUME NEW f \in Seq(Candle), NEW market
  PROVE  TrendKnown(Classified(f, market), f)
<1> SUFFICES ASSUME Swings(f)
             PROVE  /\ "TREND" \in DOMAIN Classified(f, market)
                    /\ Classified(f, market)["TREND"] = Classified(f, <<>>)["TREND"]
  BY DEF TrendKnown
<1>1. ~ (Cardinality(SwingHighs(f)) < 2 \/ Cardinality(SwingLows(f)) < 2)
  BY SwingsFacts
<1> DEFINE H == SwingHighs(f)
           L == SwingLows(f)
           entries == [TREND |-> TrendOf(f[LastOf(H)].h, f[PrevOf(H)].h,
                                         f[LastOf(L)].l, f[PrevOf(L)].l),
                       LAST_SWING_HIGH |-> f[LastOf(H)].h,
                       LAST_SWING_LOW  |-> f[LastOf(L)].l]
<1>2. \A m : Classified(f, m) = Updated(m, entries)
  BY <1>1 DEF Classified
<1>3. "TREND" \in DOMAIN entries
  OBVIOUS
<1> HIDE DEF entries
<1>4. \A m : /\ "TREND" \in DOMAIN Updated(m, entries)
             /\ Updated(m, entries)["TREND"] = entries["TREND"]
  BY <1>3 DEF Updated
<1>5. QED
  BY <1>2, <1>4

LEMMA WithStructureFacts ==
  ASSUME NEW ev, Shape(ev), NEW f \in Seq(Candle), Aged(ev.patterns, f)
  PROVE  LET next == WithStructure(ev, f)
         IN /\ Shape(next) /\ next.candidates = ev.candidates
            /\ next.market = Classified(f, ev.market)
            /\ Aged(next.patterns, f)
            /\ "VCP" \in DOMAIN next.patterns <=> "VCP" \in DOMAIN ev.patterns
<1> DEFINE market == Classified(f, ev.market)
           marks == StructureMarks(f, market)
           found == [ev EXCEPT !.market = market]
           marked == Marked(found, marks)
<1>1. marks \cap {"VCP", "BREAKOUT_READY", "BULLISH_ORDER_BLOCKS", "BULLISH_FVG"} = {}
  BY DEF StructureMarks
<1>2. \E m, n : WithStructure(ev, f) = [marked EXCEPT !.score.trend = m, !.score.pattern = n]
  BY DEF WithStructure
<1> HIDE DEF market, marks
<1>3. /\ Shape(found) /\ found.candidates = ev.candidates /\ found.market = market
      /\ found.patterns = ev.patterns
  BY DEF Shape, EvFields
<1> HIDE DEF found
<1>4. Advanced(found, marked, f)
  BY <1>1, <1>3, MarkedAdvances
<1>5. marked.market = market
  <2>1. marked = WithPatterns(found, [m \in marks |-> TRUE])
    BY DEF Marked
  <2>2. QED
    BY <1>3, <2>1, WithPatternsFacts
<1> HIDE DEF marked
<1>6. PICK m : \E n : WithStructure(ev, f) = [marked EXCEPT !.score.trend = m, !.score.pattern = n]
  BY <1>2
<1>7. PICK n : WithStructure(ev, f) = [marked EXCEPT !.score.trend = m, !.score.pattern = n]
  BY <1>6
<1> DEFINE next == [marked EXCEPT !.score.trend = m, !.score.pattern = n]
<1>8. /\ Shape(next) /\ next.candidates = marked.candidates /\ next.market = marked.market
      /\ next.patterns = marked.patterns
  BY <1>4 DEF Advanced, Shape, EvFields
<1> HIDE DEF next
<1>9. /\ Shape(next) /\ next.candidates = ev.candidates
      /\ next.market = Classified(f, ev.market)
      /\ Aged(next.patterns, f)
      /\ "VCP" \in DOMAIN next.patterns <=> "VCP" \in DOMAIN ev.patterns
  BY <1>3, <1>4, <1>5, <1>8 DEF Advanced, market
<1>10. QED
  BY <1>7, <1>9 DEF next

LEMMA FromCacheFacts ==
  ASSUME NEW ev, Shape(ev), NEW f, Aged(ev.patterns, f), NEW cached, Aged(cached.patterns, f)
  PROVE  LET next == FromCache(ev, cached)
         IN /\ Shape(next) /\ next.candidates = ev.candidates
            /\ next.market = Updated(ev.market, cached.market)
            /\ Aged(next.patterns, f)
            /\ "VCP" \in DOMAIN next.patterns
                 <=> "VCP" \in DOMAIN ev.patterns \/ "VCP" \in DOMAIN cached.patterns
<1> DEFINE next == FromCache(ev, cached)
           d == ev.patterns
           e == cached.patterns
           p == Updated(d, e)
<1>1. /\ Shape(next) /\ next.candidates = ev.candidates
      /\ next.market = Updated(ev.market, cached.market) /\ next.patterns = p
  BY DEF FromCache, Shape, EvFields
<1> HIDE DEF next
<1>2. /\ DOMAIN p = DOMAIN d \cup DOMAIN e
      /\ \A k \in DOMAIN e : p[k] = e[k]
      /\ \A k \in DOMAIN d : k \notin DOMAIN e => p[k] = d[k]
  BY UpdatedFacts
<1> HIDE DEF p
<1>3. Aged(p, f)
  BY <1>2 DEF Aged
<1>4. QED
  BY <1>1, <1>2, <1>3 DEF next

\* Computed or found in the cache, the structure gives the evaluation a start,
\* and the trend of the frame if the cache has it.
LEMMA StructuredFacts ==
  ASSUME NEW f \in Seq(Candle), Aged(stock.patterns, f), Aged(structure.patterns, f)
  PROVE  LET seen == Structured(f)
             hit == structure.day = Signature(f)
             marked == \/ "VCP" \in DOMAIN stock.patterns
                       \/ hit /\ "VCP" \in DOMAIN structure.patterns
         IN /\ Fresh(seen, f, marked)
            /\ (hit => TrendKnown(structure.market, f)) => TrendKnown(seen.market, f)
<1> DEFINE seen == Structured(f)
           hit == structure.day = Signature(f)
           opened == Opened(stock, f)
           marked == \/ "VCP" \in DOMAIN stock.patterns
                     \/ hit /\ "VCP" \in DOMAIN structure.patterns
<1>1. seen = IF hit THEN FromCache(opened, structure) ELSE WithStructure(opened, f)
  BY DEF Structured
<1>2. /\ Shape(opened) /\ DOMAIN opened.candidates = {}
      /\ opened.market = stock.market /\ opened.patterns = stock.patterns
  BY OpenedFacts
<1> HIDE DEF opened, seen, hit
<1>3. CASE hit
  <2> DEFINE next == FromCache(opened, structure)
  <2>1. /\ Shape(next) /\ next.candidates = opened.candidates
        /\ next.market = Updated(opened.market, structure.market)
        /\ Aged(next.patterns, f)
        /\ "VCP" \in DOMAIN next.patterns
             <=> "VCP" \in DOMAIN opened.patterns \/ "VCP" \in DOMAIN structure.patterns
    BY <1>2, FromCacheFacts
  <2>2. seen = next
    BY <1>1, <1>3
  <2> HIDE DEF next
  <2>3. Fresh(seen, f, marked)
    BY <1>2, <1>3, <2>1, <2>2 DEF Fresh
  <2> DEFINE d == opened.market
             e == structure.market
             m == Updated(d, e)
  <2>4. DOMAIN m = DOMAIN d \cup DOMAIN e /\ \A k \in DOMAIN e : m[k] = e[k]
    <3> HIDE DEF d, e
    <3>1. QED
      BY UpdatedFacts
  <2>5. seen.market = m
    BY <2>1, <2>2
  <2> HIDE DEF m
  <2>6. TrendKnown(structure.market, f) => TrendKnown(seen.market, f)
    BY <2>4, <2>5 DEF TrendKnown
  <2>7. QED
    BY <1>3, <2>3, <2>6 DEF seen, hit
<1>4. CASE ~ hit
  <2> DEFINE next == WithStructure(opened, f)
  <2>1. /\ Shape(next) /\ next.candidates = opened.candidates
        /\ next.market = Classified(f, opened.market)
        /\ Aged(next.patterns, f)
        /\ "VCP" \in DOMAIN next.patterns <=> "VCP" \in DOMAIN opened.patterns
    BY <1>2, WithStructureFacts
  <2>2. seen = next
    BY <1>1, <1>4
  <2> HIDE DEF next
  <2>3. Fresh(seen, f, marked)
    BY <1>2, <1>4, <2>1, <2>2 DEF Fresh
  <2>4. TrendKnown(seen.market, f)
    BY <2>1, <2>2, ClassifiedKnown
  <2>5. QED
    BY <2>3, <2>4 DEF seen, hit
<1>5. QED
  BY <1>3, <1>4

-----------------------------------------------------------------------------
(***************************************************************************)
(* The invariant: what the stock object and the caches keep from one scan  *)
(* to the next.                                                            *)
(***************************************************************************)

\* The caches are of days of the frame, and a structure of today is that of the frame
\* that was prepared today.
CacheInv ==
  /\ prepared \in Seq(Candle) /\ Len(prepared) <= Len(frame)
  /\ Aged(stock.patterns, frame)
  /\ Aged(structure.patterns, frame)
  /\ structure.day \in Nat /\ structure.day <= Len(frame)
  /\ structure.day = Len(frame) =>
       Len(prepared) = Len(frame) /\ TrendKnown(structure.market, prepared)

\* What the last scan found is what the next scan of this day would find.
FoundInv ==
  result # <<>> =>
    /\ structure.day = Len(frame) /\ Len(prepared) = Len(frame)
    /\ "VCP" \in DOMAIN structure.patterns => "VCP" \in DOMAIN stock.patterns
    /\ DOMAIN result.candidates = Found(prepared, "VCP" \in DOMAIN stock.patterns)
    /\ \A s \in DOMAIN result.candidates : Traded(result.candidates[s], Level(s, prepared))
    /\ TrendKnown(stock.market, prepared)

EvaluationInv == FrameOK /\ CacheInv /\ FoundInv /\ BadNewsNeverHelps

LEMMA EvaluationInit == Init => EvaluationInv
<1> SUFFICES ASSUME Init PROVE EvaluationInv
  OBVIOUS
<1>1. FrameOK
  BY EvaluationAssumption DEF Init, FrameOK
<1>2. /\ stock.patterns = <<>> /\ structure.patterns = <<>> /\ structure.day = 0
      /\ result = <<>> /\ prepared = <<>>
  BY DEF Init, NewStock
<1>3. Len(frame) \in Nat /\ Len(frame) >= 1
  BY <1>1, LookbackAssumption DEF FrameOK
<1>4. Aged(<<>>, frame) /\ << >> \in Seq(Candle) /\ Len(<< >>) = 0
  BY DEF Aged
<1>5. QED
  BY <1>1, <1>2, <1>3, <1>4 DEF EvaluationInv, CacheInv, FoundInv, BadNewsNeverHelps

\* The frame a scan evaluates: of today, whether it was stored or not.
LEMMA PreparedFacts ==
  ASSUME EvaluationInv
  PROVE  /\ Prepared \in Seq(Candle) /\ Len(Prepared) = Len(frame)
         /\ Len(Prepared) >= AverageWindow
         /\ Aged(stock.patterns, Prepared) /\ Aged(structure.patterns, Prepared)
         /\ Len(prepared) = Len(frame) => Prepared = prepared
<1>1. /\ frame \in Seq(Candle) /\ prepared \in Seq(Candle) /\ Len(frame) >= AverageWindow
      /\ Aged(stock.patterns, frame) /\ Aged(structure.patterns, frame)
  BY DEF EvaluationInv, FrameOK, CacheInv
<1>2. /\ Prepared \in Seq(Candle) /\ Len(Prepared) = Len(frame)
      /\ Len(prepared) = Len(frame) => Prepared = prepared
  BY <1>1 DEF Prepared
<1>3. Len(frame) <= Len(Prepared)
  BY <1>1, <1>2
<1>4. Aged(stock.patterns, Prepared) /\ Aged(structure.patterns, Prepared)
  BY <1>1, <1>2, <1>3, AgedLonger
<1>5. QED
  BY <1>1, <1>2, <1>4

\* What a scan leaves: seen is what the strategies start from, ev what they leave.
Scanned(f, seen, ev, marked, day) ==
  /\ Progress(ev, f, Names, seen.market, marked)
  /\ marked <=> \/ "VCP" \in DOMAIN stock.patterns
                \/ /\ structure.day = Len(frame)
                   /\ "VCP" \in DOMAIN structure.patterns
  /\ stock' = [market |-> ev.market, patterns |-> ev.patterns, indicators |-> ev.indicators]
  /\ structure' = IF structure.day = Len(frame) THEN structure
                  ELSE [day |-> Len(frame), market |-> seen.market,
                        patterns |-> seen.patterns]
  /\ \/ result' = NothingFound /\ DOMAIN ev.candidates = {}
     \/ \E best : result' = Outcome(ev, f, best, day)
  /\ prepared' = f
  /\ frame' = frame

LEMMA ScanFacts ==
  ASSUME EvaluationInv, Scan
  PROVE  \E day \in Days : \E ev, marked :
           Scanned(Prepared, Structured(Prepared), ev, marked, day)
<1> DEFINE f == Prepared
           seen == Structured(f)
           marked == \/ "VCP" \in DOMAIN stock.patterns
                     \/ structure.day = Len(frame) /\ "VCP" \in DOMAIN structure.patterns
<1>1. PICK day \in Days : \E aligned, told : Concludes(f, day, seen, aligned, told)
  BY DEF Scan
<1>2. PICK aligned : \E told : Concludes(f, day, seen, aligned, told)
  BY <1>1
<1>3. PICK told : Concludes(f, day, seen, aligned, told)
  BY <1>2
<1> DEFINE ev == Concluded(seen, f, day, aligned, told)
<1>4. f \in Seq(Candle) /\ Aged(stock.patterns, f) /\ Aged(structure.patterns, f)
      /\ Len(f) = Len(frame)
  BY PreparedFacts
<1> HIDE DEF f
<1>5. Fresh(seen, f, marked)
  BY <1>4, StructuredFacts DEF Signature
<1> HIDE DEF marked, seen
<1>6. Progress(ev, f, Names, seen.market, marked)
  BY <1>4, <1>5, ConcludedFacts
<1>7. Leaves(f, day, seen, ev, aligned, told)
  BY <1>3 DEF Concludes
<1> HIDE DEF ev
<1>8. /\ stock' = [market |-> ev.market, patterns |-> ev.patterns, indicators |-> ev.indicators]
      /\ structure' = IF structure.day = Len(frame) THEN structure
                      ELSE [day |-> Len(frame), market |-> seen.market, patterns |-> seen.patterns]
      /\ \/ result' = NothingFound /\ DOMAIN ev.candidates = {}
         \/ \E best : result' = Outcome(ev, f, best, day)
      /\ prepared' = f /\ frame' = frame
  BY <1>4, <1>7 DEF Leaves, Signature
<1>9. marked <=> \/ "VCP" \in DOMAIN stock.patterns
                 \/ structure.day = Len(frame) /\ "VCP" \in DOMAIN structure.patterns
  BY DEF marked
<1>10. Scanned(f, seen, ev, marked, day)
  BY <1>6, <1>8, <1>9 DEF Scanned
<1>11. QED
  BY <1>10 DEF seen, f

\* The mark a scan leaves decides what it found, and so does the one it started with.
LEMMA FoundMarked ==
  ASSUME NEW f, NEW marked, NEW now, now <=> marked \/ (Runs("VCP", f) /\ Contracting(f))
  PROVE  Found(f, marked) = Found(f, now)
<1>1. "VCP" \in Found(f, marked) <=> "VCP" \in Found(f, now)
  BY DEF Found, Names
<1>2. \A s : s # "VCP" => (s \in Found(f, marked) <=> s \in Found(f, now))
  BY DEF Found
<1>3. QED
  BY <1>1, <1>2

LEMMA ScanKeepsInv ==
  ASSUME EvaluationInv, Scan
  PROVE  EvaluationInv'
<1> DEFINE f == Prepared
           seen == Structured(f)
           start == \/ "VCP" \in DOMAIN stock.patterns
                    \/ structure.day = Len(frame) /\ "VCP" \in DOMAIN structure.patterns
<1>1. PICK day \in Days : \E ev, marked : Scanned(f, seen, ev, marked, day)
  BY ScanFacts
<1>2. /\ f \in Seq(Candle) /\ Len(f) = Len(frame) /\ Len(frame) \in Nat
      /\ Aged(stock.patterns, f) /\ Aged(structure.patterns, f)
      /\ Aged(stock.patterns, frame) /\ Aged(structure.patterns, frame)
      /\ frame \in Seq(Candle)
      /\ Len(prepared) = Len(frame) => f = prepared
  BY PreparedFacts DEF EvaluationInv, FrameOK, CacheInv
<1>3. structure.day = Len(frame) => TrendKnown(structure.market, f)
  BY <1>2 DEF EvaluationInv, CacheInv
<1> HIDE DEF f
<1>4. /\ Fresh(seen, f, start)
      /\ (structure.day = Len(frame) => TrendKnown(structure.market, f))
           => TrendKnown(seen.market, f)
  BY <1>2, StructuredFacts DEF Signature
<1> HIDE DEF seen, start
<1>5. TrendKnown(seen.market, f)
  BY <1>3, <1>4
<1>6. PICK ev, marked : Scanned(f, seen, ev, marked, day)
  BY <1>1
<1>7. /\ Progress(ev, f, Names, seen.market, marked)
      /\ marked <=> start
      /\ stock' = [market |-> ev.market, patterns |-> ev.patterns, indicators |-> ev.indicators]
      /\ structure' = IF structure.day = Len(frame) THEN structure
                      ELSE [day |-> Len(frame), market |-> seen.market,
                            patterns |-> seen.patterns]
      /\ \/ result' = NothingFound /\ DOMAIN ev.candidates = {}
         \/ \E best : result' = Outcome(ev, f, best, day)
      /\ prepared' = f /\ frame' = frame
  BY <1>6 DEF Scanned, start
<1>8. TrendKnown(ev.market, f)
  BY <1>5, <1>7 DEF Progress, SameTrend, TrendKnown
<1>9. FrameOK'
  BY <1>7 DEF EvaluationInv, FrameOK
<1>10. stock'.patterns = ev.patterns /\ stock'.market = ev.market
  BY <1>7
<1>11. /\ CacheInv' /\ structure'.day = Len(frame)
       /\ "VCP" \in DOMAIN structure'.patterns => start
  <2>1. Aged(ev.patterns, frame)
    <3>1. Aged(ev.patterns, f)
      BY <1>7 DEF Progress
    <3>2. Len(f) <= Len(frame)
      BY <1>2
    <3>3. QED
      BY <1>2, <3>1, <3>2, AgedLonger
  <2>2. Aged(seen.patterns, frame) /\ ("VCP" \in DOMAIN seen.patterns <=> start)
    <3>1. Aged(seen.patterns, f) /\ ("VCP" \in DOMAIN seen.patterns <=> start)
      BY <1>4 DEF Fresh
    <3>2. Len(f) <= Len(frame)
      BY <1>2
    <3>3. QED
      BY <1>2, <3>1, <3>2, AgedLonger
  <2>3. CASE structure.day = Len(frame)
    <3>1. structure' = structure
      BY <1>7, <2>3
    <3>2. "VCP" \in DOMAIN structure.patterns => start
      BY <2>3 DEF start
    <3>3. QED
      BY <1>2, <1>3, <1>7, <1>10, <2>1, <2>3, <3>1, <3>2 DEF CacheInv
  <2>4. CASE structure.day # Len(frame)
    <3>1. /\ structure'.day = Len(frame) /\ structure'.market = seen.market
          /\ structure'.patterns = seen.patterns
      BY <1>7, <2>4
    <3>2. QED
      BY <1>2, <1>5, <1>7, <1>10, <2>1, <2>2, <3>1 DEF CacheInv
  <2>5. QED
    BY <2>3, <2>4
<1>12. /\ DOMAIN ev.candidates = Found(f, marked)
       /\ \A s \in DOMAIN ev.candidates : Traded(ev.candidates[s], Level(s, f))
  BY <1>7 DEF Progress, Found
<1>13. /\ DOMAIN result'.candidates = DOMAIN ev.candidates
       /\ \A s \in DOMAIN ev.candidates : result'.candidates[s] = ev.candidates[s]
       /\ BadNewsNeverHelps'
  <2>1. CASE result' = NothingFound /\ DOMAIN ev.candidates = {}
    <3>1. DOMAIN result'.candidates = {}
      BY <2>1 DEF NothingFound
    <3>2. QED
      BY <2>1, <3>1 DEF BadNewsNeverHelps
  <2>2. CASE \E best : result' = Outcome(ev, f, best, day)
    <3>1. PICK best : result' = Outcome(ev, f, best, day)
      BY <2>2
    <3>2. DOMAIN ev.candidates \subseteq Names
      BY <1>12 DEF Found
    <3> DEFINE out == Outcome(ev, f, best, day)
    <3>3. /\ out.candidates = ev.candidates
          /\ out.news.active /\ out.news.sentiment < 0 /\ out.news.outlook # "POSITIVE"
               => out.score <= out.quiet
      BY <3>2, OutcomeFacts
    <3>4. result' = out
      BY <3>1
    <3> HIDE DEF out
    <3>5. QED
      BY <3>3, <3>4 DEF BadNewsNeverHelps
  <2>3. QED
    BY <1>7, <2>1, <2>2
<1> DEFINE now == "VCP" \in DOMAIN stock'.patterns
<1>14. now <=> marked \/ (Runs("VCP", f) /\ Contracting(f))
  BY <1>7, <1>10 DEF Progress, Names
<1> HIDE DEF now
<1>15. FoundInv'
  <2>1. Found(f, marked) = Found(f, now)
    BY <1>14, FoundMarked
  <2>2. /\ DOMAIN result'.candidates = Found(f, now)
        /\ \A s \in DOMAIN result'.candidates : Traded(result'.candidates[s], Level(s, f))
    BY <1>12, <1>13, <2>1
  <2>3. "VCP" \in DOMAIN structure'.patterns => now
    BY <1>7, <1>11, <1>14
  <2>4. QED
    BY <1>2, <1>7, <1>8, <1>10, <1>11, <2>2, <2>3 DEF FoundInv, now
<1>16. QED
  BY <1>9, <1>11, <1>13, <1>15 DEF EvaluationInv

LEMMA EvaluationNext ==
  ASSUME EvaluationInv, [Next]_vars
  PROVE  EvaluationInv'
<1>1. FrameOK' /\ Continues(frame, frame')
  BY FrameNext DEF EvaluationInv
<1>2. /\ frame \in Seq(Candle) /\ frame' \in Seq(Candle) /\ Len(frame) <= Len(frame')
      /\ Len(frame) \in Nat /\ Len(frame') \in Nat
  BY <1>1 DEF EvaluationInv, FrameOK, Continues
<1>3. /\ Aged(stock.patterns, frame) /\ Aged(structure.patterns, frame)
      /\ structure.day \in Nat /\ structure.day <= Len(frame)
      /\ prepared \in Seq(Candle) /\ Len(prepared) \in Nat /\ Len(prepared) <= Len(frame)
  BY DEF EvaluationInv, CacheInv
<1>4. Aged(stock.patterns, frame') /\ Aged(structure.patterns, frame')
  BY <1>2, <1>3, AgedLonger
<1>5. CASE UNCHANGED <<frame, prepared, stock, structure, result>>
  BY <1>1, <1>5 DEF EvaluationInv, CacheInv, FoundInv, BadNewsNeverHelps
<1>6. CASE NewDay
  <2>1. /\ stock' = stock /\ structure' = structure /\ result' = <<>> /\ prepared' = prepared
        /\ Len(frame') = Len(frame) + 1
    BY <1>2, <1>6 DEF NewDay
  <2>2. CacheInv'
    BY <1>2, <1>3, <1>4, <2>1 DEF CacheInv
  <2>3. QED
    BY <1>1, <2>1, <2>2 DEF EvaluationInv, FoundInv, BadNewsNeverHelps
<1>7. CASE Revise
  <2>1. /\ UNCHANGED <<prepared, stock, structure, result>>
        /\ Len(frame') = Len(frame)
    BY <1>2, <1>7 DEF Revise
  <2>2. CacheInv'
    BY <1>2, <1>3, <1>4, <2>1 DEF EvaluationInv, CacheInv
  <2>3. FoundInv' /\ BadNewsNeverHelps'
    BY <2>1 DEF EvaluationInv, FoundInv, BadNewsNeverHelps
  <2>4. QED
    BY <1>1, <2>2, <2>3 DEF EvaluationInv
<1>8. CASE Scan
  BY <1>8, ScanKeepsInv
<1>9. CASE Restart
  <2>1. /\ stock'.patterns = <<>> /\ result' = <<>>
        /\ UNCHANGED <<frame, prepared, structure>>
    BY <1>9 DEF Restart, NewStock
  <2>2. Aged(<<>>, frame)
    BY DEF Aged
  <2>3. CacheInv'
    BY <2>1, <2>2 DEF EvaluationInv, CacheInv
  <2>4. QED
    BY <1>1, <2>1, <2>3 DEF EvaluationInv, FoundInv, BadNewsNeverHelps
<1>10. CASE Unfocused
  <2>1. prepared' = Prepared /\ UNCHANGED <<frame, stock, structure, result>>
    BY <1>10 DEF Unfocused
  <2>2. /\ Prepared \in Seq(Candle) /\ Len(Prepared) = Len(frame)
        /\ Len(prepared) = Len(frame) => Prepared = prepared
    BY PreparedFacts
  <2>3. CacheInv'
    BY <1>2, <2>1, <2>2 DEF EvaluationInv, CacheInv
  <2>4. FoundInv' /\ BadNewsNeverHelps'
    BY <2>1, <2>2 DEF EvaluationInv, FoundInv, BadNewsNeverHelps
  <2>5. QED
    BY <1>1, <2>3, <2>4 DEF EvaluationInv
<1>11. QED
  BY <1>5, <1>6, <1>7, <1>8, <1>9, <1>10 DEF Next, Expire, vars

LEMMA EvaluationAlways == Spec => []EvaluationInv
<1>1. EvaluationInv /\ [Next]_vars => EvaluationInv'
  BY EvaluationNext
<1>2. QED
  BY <1>1, EvaluationInit, PTL DEF Spec

\* Every candidate of every scan has its stop below its entry and its target
\* above it, for any candles and whatever the stock object has kept; on a candle
\* below 5 rupees they may coincide.
THEOREM LevelsAlwaysSound == Spec => []LevelsSound
<1>1. EvaluationInv => LevelsSound
  <2> SUFFICES ASSUME EvaluationInv, result # <<>>, NEW s \in DOMAIN result.candidates
               PROVE  LET c == result.candidates[s]
                      IN /\ c.stop <= c.entry /\ c.entry <= c.target
                         /\ Last(prepared).h >= 500 => c.stop < c.entry /\ c.entry < c.target
    BY DEF LevelsSound
  <2> DEFINE marked == "VCP" \in DOMAIN stock.patterns
             c == result.candidates[s]
             level == Level(s, prepared)
  <2>1. /\ s \in Found(prepared, marked) /\ Traded(c, level)
        /\ prepared \in Seq(Candle) /\ Len(prepared) >= AverageWindow
    BY DEF EvaluationInv, FoundInv, FrameOK, CacheInv
  <2> HIDE DEF marked, c
  <2>2. /\ level.entry \in Int /\ level.stop \in Int /\ level.stop <= level.entry
        /\ Last(prepared).h >= 500 => level.stop < level.entry
    BY <2>1, LevelsOrdered
  <2> HIDE DEF level
  <2>3. /\ c.stop <= c.entry /\ c.entry <= c.target
        /\ Last(prepared).h >= 500 => c.stop < c.entry /\ c.entry < c.target
    BY <2>1, <2>2 DEF Traded
  <2>4. QED
    BY <2>3 DEF c
<1>2. QED
  BY <1>1, EvaluationAlways, PTL

\* Bad news never raises the confidence, under any profile validate_weights lets
\* through and whatever else the score is made of.
THEOREM BadNewsNeverRaises == Spec => []BadNewsNeverHelps
<1>1. EvaluationInv => BadNewsNeverHelps
  BY DEF EvaluationInv
<1>2. QED
  BY <1>1, EvaluationAlways, PTL

\* A scan works with the trend of the candles it evaluates, through any number of
\* days, moves of the last candle, scans, cache hits and restarts.
THEOREM StructureAlwaysOfCandle == Spec => []StructureOfCandle
<1>1. EvaluationInv => StructureOfCandle
  BY DEF EvaluationInv, FoundInv, StructureOfCandle, TrendKnown, Swings
<1>2. QED
  BY <1>1, EvaluationAlways, PTL

\* Scanning again on the same day proposes the same trades at the same levels,
\* however the candle has moved.
THEOREM RescansProposeTheSame == Spec => RescanSameLevels
<1> DEFINE Same == (result # <<>> /\ result' # <<>>) =>
                     /\ DOMAIN result'.candidates = DOMAIN result.candidates
                     /\ \A s \in DOMAIN result.candidates :
                          /\ result'.candidates[s].entry = result.candidates[s].entry
                          /\ result'.candidates[s].stop = result.candidates[s].stop
<1>1. EvaluationInv /\ [Next]_vars => [Same]_vars
  <2> SUFFICES ASSUME EvaluationInv, [Next]_vars, result # <<>>, result' # <<>>
               PROVE  Same
    OBVIOUS
  <2>1. CASE result' = result
    BY <2>1
  <2>2. CASE Scan
    <3>1. EvaluationInv'
      BY EvaluationNext
    <3> DEFINE f == Prepared
               old == "VCP" \in DOMAIN stock.patterns
               new == "VCP" \in DOMAIN stock'.patterns
    <3>2. PICK day \in Days : \E ev, marked : Scanned(f, Structured(f), ev, marked, day)
      BY <2>2, ScanFacts
    <3>3. PICK ev, marked : Scanned(f, Structured(f), ev, marked, day)
      BY <3>2
    <3>4. f = prepared
      BY PreparedFacts DEF EvaluationInv, FoundInv
    <3>5. prepared' = prepared
      BY <3>3, <3>4 DEF Scanned
    <3>6. /\ DOMAIN result.candidates = Found(prepared, old)
          /\ \A s \in DOMAIN result.candidates :
               Traded(result.candidates[s], Level(s, prepared))
          /\ "VCP" \in DOMAIN structure.patterns => old
      BY DEF EvaluationInv, FoundInv
    <3>7. /\ DOMAIN result'.candidates = Found(prepared, new)
          /\ \A s \in DOMAIN result'.candidates :
               Traded(result'.candidates[s], Level(s, prepared))
      BY <3>1, <3>5 DEF EvaluationInv, FoundInv
    <3>8. new <=> old \/ (Runs("VCP", f) /\ Contracting(f))
      <4>1. marked <=> old
        BY <3>3, <3>6 DEF Scanned
      <4>2. stock'.patterns = ev.patterns /\ Progress(ev, f, Names, Structured(f).market, marked)
        BY <3>3 DEF Scanned
      <4>3. QED
        BY <4>1, <4>2 DEF Progress, Names
    <3> HIDE DEF old, new, f
    <3>9. Found(f, old) = Found(f, new)
      BY <3>8, FoundMarked
    <3>10. DOMAIN result'.candidates = DOMAIN result.candidates
      BY <3>4, <3>6, <3>7, <3>9
    <3>11. \A s \in DOMAIN result.candidates :
             /\ Traded(result.candidates[s], Level(s, prepared))
             /\ Traded(result'.candidates[s], Level(s, prepared))
      BY <3>6, <3>7, <3>10
    <3>12. QED
      BY <3>10, <3>11 DEF Traded
  <2>3. QED
    BY <2>1, <2>2 DEF Next, NewDay, Revise, Unfocused, Expire, Restart, vars
<1>2. QED
  BY <1>1, EvaluationAlways, PTL DEF Spec, RescanSameLevels

=============================================================================
