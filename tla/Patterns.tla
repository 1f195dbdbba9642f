------------------------------ MODULE Patterns ------------------------------
(***************************************************************************)
(* What the detectors find in a frame: swings and structure, contractions, *)
(* demand and supply zones, order blocks, fair value gaps, breakouts.      *)
(*                                                                         *)
(* A frame is a sequence of candles, the last one still forming.  A candle *)
(* is a record: open, high, low, close (o, h, l, c) and the indicators of  *)
(* that day, which pandas_ta computes and the models take as given.        *)
(* Relative volume is in tenths.  A percentage is compared by cross-       *)
(* multiplication.  The lookbacks are constants, so that a short frame can *)
(* stand for the two hundred candles the code asks for.                    *)
(***************************************************************************)
EXTENDS Integers, Sequences, FiniteSets, SequencesExt, FiniteSetsExt

CONSTANTS
  SwingReach,        \* STRUCTURE_LOOKBACK
  AverageWindow,     \* the rolling means of 20 candles
  ZoneFirst,         \* index of the first candle that may be a base
  BlockBars, BlockFirst,         \* ORDER_BLOCK_LOOKBACK, first candle
  GapBars,                       \* detect_fair_value_gaps
  BreakoutLookback, FailWindow,  \* BREAKOUT_LOOKBACK, check_window
  VcpBars, VcpWindow, VcpStep,   \* detect_vcp
  SqueezeBars,                   \* calculate_price_squeeze
  RegimeBars, SlopeBack,         \* detect_market_regime
  YearBars                       \* the rolling window of HIGH52

\* dict.get
Get(dict, key, default) == IF key \in DOMAIN dict THEN dict[key] ELSE default

\* dict.update
Updated(dict, entries) ==
  [key \in DOMAIN dict \cup DOMAIN entries |->
     IF key \in DOMAIN entries THEN entries[key] ELSE dict[key]]

\* The n candles that end with candle i.
Window(f, i, n) == SubSeq(f, i - n + 1, i)

Highest(w) == Max({w[i].h : i \in DOMAIN w})
Lowest(w)  == Min({w[i].l : i \in DOMAIN w})

Spread(x) == x.h - x.l
Body(x)   == IF x.c < x.o THEN x.o - x.c ELSE x.c - x.o
Volume(x) == x.rvol * x.avgvol

Total(w, Of(_)) ==
  LET upTo[i \in 0..Len(w)] == IF i = 0 THEN 0 ELSE upTo[i - 1] + Of(w[i])
  IN upTo[Len(w)]

\* Prices are in hundredths; round(price * (1000 + permille) / 1000, 2).
Above(price, permille) == (price * (1000 + permille) + 500) \div 1000

-----------------------------------------------------------------------------
(***************************************************************************)
(* Market structure.                                                       *)
(***************************************************************************)

\* detect_swings: the last SwingReach candles are never a swing.
Inner(f) == (SwingReach + 1)..(Len(f) - SwingReach)
Around(i) == (i - SwingReach)..(i + SwingReach)

SwingHighs(f) == {i \in Inner(f) : \A j \in Around(i) : f[j].h <= f[i].h}
SwingLows(f)  == {i \in Inner(f) : \A j \in Around(i) : f[j].l >= f[i].l}

LastOf(indices) == Max(indices)
PrevOf(indices) == Max(indices \ {Max(indices)})

TrendOf(high, prevHigh, low, prevLow) ==
  CASE high > prevHigh /\ low > prevLow -> "UPTREND"
    [] high < prevHigh /\ low < prevLow -> "DOWNTREND"
    [] high > prevHigh /\ low <= prevLow -> "POSSIBLE_BREAKOUT"
    [] high = prevHigh /\ low < prevLow -> "WEAKNESS"
    [] OTHER                            -> "SIDEWAYS"

\* classify_market_structure: with fewer than two swings of a kind the stock
\* keeps what an earlier frame said.
Classified(f, market) ==
  LET H == SwingHighs(f)
      L == SwingLows(f)
  IN IF Cardinality(H) < 2 \/ Cardinality(L) < 2 THEN market
     ELSE Updated(market,
            [TREND |-> TrendOf(f[LastOf(H)].h, f[PrevOf(H)].h, f[LastOf(L)].l, f[PrevOf(L)].l),
             LAST_SWING_HIGH |-> f[LastOf(H)].h,
             LAST_SWING_LOW  |-> f[LastOf(L)].l])

\* detect_break_of_structure and detect_change_of_character.
StructureMarks(f, market) ==
  {m \in {"BOS", "BEARISH_BOS", "CHOCH"} :
     CASE m = "BOS"         -> /\ "LAST_SWING_HIGH" \in DOMAIN market
                               /\ Last(f).c > market["LAST_SWING_HIGH"]
       [] m = "BEARISH_BOS" -> /\ "LAST_SWING_LOW" \in DOMAIN market
                               /\ Last(f).c < market["LAST_SWING_LOW"]
       [] m = "CHOCH"       -> Get(market, "TREND", "") = "POSSIBLE_BREAKOUT"}

\* detect_market_regime, which looks at the last two candles and the averages.
Regime(f) ==
  LET x == Last(f)
  IN CASE x.ema20 > x.ema50 /\ x.ema50 > x.ema200 -> "TRENDING_BULL"
       [] x.ema20 < x.ema50 /\ x.ema50 < x.ema200 -> "TRENDING_BEAR"
       [] OTHER -> "SIDEWAYS"

MarketStrength(f) ==
  LET x == Last(f)
      prev == f[Len(f) - 1]
      tail == IF Len(f) < AverageWindow THEN f ELSE Window(f, Len(f), AverageWindow)
      points == <<IF Regime(f) = "SIDEWAYS" THEN 0 ELSE 20,
                  IF x.adx >= 25 THEN 10 ELSE 0,
                  IF x.rvol >= 15 THEN 10 ELSE 0,
                  IF x.atr * Len(tail) > Total(tail, LAMBDA y : y.atr) THEN 10 ELSE 0,
                  IF x.o > prev.h \/ x.o < prev.l THEN 5 ELSE 0,
                  IF x.ema20 > f[Len(f) - SlopeBack + 1].ema20 THEN 5 ELSE 0>>
  IN Min({100, 50 + FoldLeft(+, 0, points)})

-----------------------------------------------------------------------------
(***************************************************************************)
(* Contraction.                                                            *)
(***************************************************************************)

\* width.rank(pct=True): twice the average rank of the last width.
WidthRank(f) ==
  LET w == Last(f).width
  IN 2 * Cardinality({i \in DOMAIN f : f[i].width < w})
       + Cardinality({i \in DOMAIN f : f[i].width = w}) + 1

\* calculate_price_squeeze; keeps the earlier value on a short frame.
SqueezeScore(f, before) ==
  LET deciles == {tenth \in 1..4 : 10 * WidthRank(f) <= 2 * tenth * Len(f)}
  IN IF Len(f) < SqueezeBars THEN before
     ELSE 10 * Cardinality(deciles) + (IF Last(f).ttm THEN 40 ELSE 0)

\* No range of the n candles before the last is smaller: NR4 and NR7.
Narrowest(f, n) ==
  /\ Len(f) > n
  /\ \A i \in (Len(f) - n)..(Len(f) - 1) : Spread(Last(f)) <= Spread(f[i])

\* update_volatility_patterns
ContractionMarks(f) ==
  LET x == Last(f)
      prev == f[Len(f) - 1]
      tail == Window(f, Len(f), AverageWindow)
  IN {m \in {"NR4", "NR7", "INSIDE_BAR", "ATR_CONTRACTION", "VOLUME_DRYUP"} :
        CASE m = "NR4" -> Narrowest(f, 3)
          [] m = "NR7" -> Narrowest(f, 6)
          [] m = "INSIDE_BAR" -> x.h < prev.h /\ x.l > prev.l
          [] m = "ATR_CONTRACTION" ->
               10 * AverageWindow * x.atr < 8 * Total(tail, LAMBDA y : y.atr)
          [] m = "VOLUME_DRYUP" -> x.rvol < 7}

\* detect_vcp: the ranges of windows a step apart, each a part of its high.
Contractions(f) ==
  LET ends == {i \in (VcpWindow + 1)..Len(f) : (i - VcpWindow - 1) % VcpStep = 0}
  IN [k \in 1..Cardinality(ends) |->
        LET w == Window(f, VcpWindow + 1 + (k - 1) * VcpStep, VcpWindow)
        IN [gap |-> Highest(w) - Lowest(w), base |-> Highest(w)]]

Contracting(f) ==
  LET q == Contractions(f)
      n == Len(q)
  IN /\ Len(f) >= VcpBars
     /\ n >= 4
     /\ \A k \in (n - 3)..(n - 1) : q[k].gap * q[k + 1].base > q[k + 1].gap * q[k].base

-----------------------------------------------------------------------------
(***************************************************************************)
(* Zones.                                                                  *)
(***************************************************************************)

\* detect_base and detect_impulse_candle
IsBase(f, i) ==
  /\ i >= AverageWindow
  /\ \A j \in (i - 2)..i :
       AverageWindow * Spread(f[j]) < Total(Window(f, i, AverageWindow), Spread)

IsImpulse(f, i) ==
  /\ i >= AverageWindow
  /\ AverageWindow * Body(f[i]) >= 2 * Total(Window(f, i, AverageWindow), Body)

Zone(x, i) == [low |-> x.l, high |-> x.h, index |-> i]

\* detect_demand_supply: a base left by an impulse, upward or not.
ZoneIndices(f) == {i \in (ZoneFirst + 1)..(Len(f) - 3) : IsBase(f, i) /\ IsImpulse(f, i + 1)}

DemandZones(f) == {Zone(f[i], i) : i \in {j \in ZoneIndices(f) : f[j + 1].c > f[j - 1].c}}
SupplyZones(f) == {Zone(f[i], i) : i \in {j \in ZoneIndices(f) : f[j + 1].c <= f[j - 1].c}}

\* Mutant: only a candle that closes in the zone tests it.
TestedByClose(f, z) == \E j \in (z.index + 1)..Len(f) : f[j].c <= z.high

\* classify_fresh_zones: any later candle that reaches into a zone tests it.
Tested(f, z) == \E j \in (z.index + 1)..Len(f) : f[j].l <= z.high

FreshDemand(f) == {z \in DemandZones(f) : ~Tested(f, z)}
FreshSupply(f) ==
  {z \in SupplyZones(f) : \A j \in (z.index + 1)..Len(f) : f[j].h < z.low}

\* detect_order_blocks: the last opposite candle before two that leave it.
OrderBlocks(f, bullish) ==
  {Zone(f[i], i) : i \in {j \in (BlockFirst + 1)..(Len(f) - 3) :
     LET x == f[j]  y == f[j + 1]  z == f[j + 2]
     IN IF bullish THEN x.c < x.o /\ y.c > y.o /\ z.c > z.o /\ z.c > x.h
        ELSE x.c > x.o /\ y.c < y.o /\ z.c < z.o /\ z.c < x.l}}

\* detect_fair_value_gaps, of 0.3 percent at least.  Whether a later candle has
\* filled the gap is not asked.
BullishGaps(f) ==
  {[low |-> f[i - 2].h, high |-> f[i].l, index |-> i] :
     i \in {j \in 3..Len(f) : /\ f[j].l > f[j - 2].h
                              /\ 1000 * (f[j].l - f[j - 2].h) >= 3 * f[j - 2].h}}

BearishGaps(f) ==
  {[low |-> f[i].h, high |-> f[i - 2].l, index |-> i] :
     i \in {j \in 3..Len(f) : /\ f[j].h < f[j - 2].l
                              /\ 1000 * (f[j - 2].l - f[j].h) >= 3 * f[j - 2].l}}

\* min(zones, key=distance of the price to the upper edge): the first of the
\* nearest.
Nearest(zones, price) ==
  LET far(z) == IF z.high < price THEN price - z.high ELSE z.high - price
      best == {z \in zones : \A y \in zones : far(z) <= far(y)}
  IN CHOOSE z \in best : \A y \in best : z.index <= y.index

-----------------------------------------------------------------------------
(***************************************************************************)
(* Breakouts.                                                              *)
(***************************************************************************)

\* The highest high of the candles before i.
Resistance(f, i) == Highest(SubSeq(f, i - BreakoutLookback, i - 1))

\* detect_breakout
BreakoutLevel(f) == Above(Resistance(f, Len(f)), 2)

MayBreakOut(f) == Len(f) >= BreakoutLookback + 5

BreaksOut(f) == Last(f).c >= BreakoutLevel(f)

\* detect_false_breakout: a breakout of the last days that fell back.
FailedBreakout(f) ==
  /\ Len(f) >= BreakoutLookback + FailWindow + 5
  /\ \E i \in Max({BreakoutLookback + 2, Len(f) - FailWindow - 4})..Len(f) :
       /\ 1000 * f[i].c >= 1002 * Resistance(f, i)
       /\ \E j \in (i + 1)..Min({Len(f), i + FailWindow}) : f[j].c < Resistance(f, i)

\* A breakout candle that closes in its lowest third on little volume.
Exhausted(f) ==
  LET x == Last(f)
  IN Spread(x) > 0 /\ 10 * (x.c - x.l) <= 3 * Spread(x) /\ x.rvol < 12

=============================================================================
