----------------------------- MODULE Discovery -----------------------------
(***************************************************************************)
(* The discovery funnel: which symbols of the downloaded universe are      *)
(* eligible, how they are ranked, which of them get the expensive          *)
(* strategies, and which strategies each of them gets.                     *)
(*                                                                         *)
(* A frame is what the last candles of a symbol offer to these tests.      *)
(* Prices are whole numbers, relative volume and average range are in      *)
(* tenths, the percentile of the band width in hundredths; a distance in   *)
(* percent is compared by cross-multiplication, never divided.             *)
(***************************************************************************)
EXTENDS Integers, FiniteSets, Sequences, SequencesExt

CONSTANTS
  MinPrice, MaxPrice, MinVolume,   \* the user's filters
  FocusLimit,                      \* focus_limit_for_mode; 0: the whole universe
  MinOpportunity                   \* discovery_min_opportunity_score

ASSUME FocusAssumption == FocusLimit \in Nat /\ MinOpportunity \in Int

MinBars     == 50
MinTurnover == 1000000

\* EligibilityAudit's reasons, in the order of the tests; "" is no reason.
Ineligible(f) ==
  LET tests == << <<"NO_HISTORY", f.bars = 0>>,
                  <<"INSUFFICIENT_CANDLES", f.bars < MinBars>>,
                  <<"MINIMUM_PRICE", f.close < MinPrice>>,
                  <<"MAXIMUM_PRICE", f.close > MaxPrice>>,
                  <<"MINIMUM_AVERAGE_VOLUME", f.volume < MinVolume>>,
                  <<"LOW_TURNOVER", f.close * f.volume < MinTurnover>>,
                  <<"STALE_OR_MISSING_DATA", f.missing>> >>
      failed == SelectSeq(tests, LAMBDA test : test[2])
  IN IF failed = <<>> THEN "" ELSE failed[1][1]

Eligible(frames) == {s \in DOMAIN frames : Ineligible(frames[s]) = ""}

\* gap is at most tenths / 10 percent of base.
Within(gap, base, tenths) == 1000 * gap <= tenths * base

AbsDiff(a, b) == IF a < b THEN b - a ELSE a - b

\* compute_opportunity_features
Features(f) ==
  [resistance |-> [gap |-> f.resistance - f.close, base |-> f.close],
   support    |-> [gap |-> f.close - f.support, base |-> f.close],
   high52     |-> [gap |-> f.high52 - f.close, base |-> f.high52],
   vwap       |-> [gap |-> AbsDiff(f.close, f.vwap), base |-> f.close],
   atr        |-> [gap |-> f.atr, base |-> 10 * f.close],
   rvol |-> f.rvol, adx |-> f.adx, compression |-> f.compression,
   aligned |-> f.close > f.ema20 /\ f.ema20 > f.ema50,
   bullish |-> f.macd > f.signal]

Near(feature, tenths) == Within(feature.gap, feature.base, tenths)

Points(holds, n) == IF holds THEN n ELSE 0

\* The first of two thresholds that holds gives the points.
Tier(high, n, low, k) == IF high THEN n ELSE Points(low, k)

\* compute_opportunity_score: the five parts add up to 101, hence the cap.
OpportunityScore(f) ==
  LET x == Features(f)
      proximity == Tier(Near(x.resistance, 20), 18, Near(x.resistance, 50), 10)
                 + Tier(Near(x.high52, 30), 12, Near(x.high52, 80), 6)
                 + Points(Near(x.support, 30), 8)
      participation == IF x.rvol >= 15 THEN 15
                       ELSE Tier(x.rvol >= 12, 10, x.rvol >= 10, 4)
      momentum == Tier(x.adx >= 25, 10, x.adx >= 20, 6)
                + Points(x.aligned, 10) + Points(x.bullish, 6)
      volatility == Tier(x.compression <= 25, 12, x.compression <= 40, 6)
                  + Points(Near(x.atr, 40) /\ 1000 * x.atr.gap >= 10 * x.atr.base, 4)
      atVwap == Tier(Near(x.vwap, 15), 6, Near(x.vwap, 30), 3)
      total == proximity + participation + momentum + volatility + atVwap
  IN IF total > 100 THEN 100 ELSE total

\* rank_eligible: sorted by score, symbols of equal score in any order.
Rankings(frames, symbols) ==
  {r \in SetToSeqs(symbols) :
     \A i, j \in DOMAIN r :
       i < j => OpportunityScore(frames[r[i]]) >= OpportunityScore(frames[r[j]])}

\* What a comprehension keeps of a list: the members of q in T, in their order.
Kept(q, T) ==
  LET kept[n \in 0..Len(q)] ==
        IF n = 0 THEN <<>>
        ELSE IF q[n] \in T THEN Append(kept[n - 1], q[n]) ELSE kept[n - 1]
  IN kept[Len(q)]

\* Mutant: mandatory symbols count against the limit before they are taken.
FocusCapped(frames, ranking, mandatory, limit, least) ==
  IF limit = 0 THEN ToSet(ranking)
  ELSE {ranking[i] : i \in {j \in DOMAIN ranking : j <= limit}}

\* build_focus_universe: the mandatory symbols whatever their score, then the
\* best of the rest up to the limit, which is tested after a symbol was added:
\* one of them gets in when the mandatory ones have used the limit up.
Focus(frames, ranking, mandatory, limit, least) ==
  LET wanted == ToSet(ranking) \cap mandatory
      rest   == Kept(ranking, {s \in ToSet(ranking) \ mandatory :
                                 OpportunityScore(frames[s]) >= least})
      room   == IF limit = 0 THEN Len(rest)
                ELSE IF limit - Cardinality(wanted) < 1 THEN 1
                ELSE limit - Cardinality(wanted)
  IN wanted \cup {rest[i] : i \in {j \in DOMAIN rest : j <= room}}

\* STRATEGY_GATES: what a frame must show before a strategy is run on it; a
\* strategy without a gate always runs.
ShouldRun(strategy, f) ==
  LET x == Features(f)
  IN CASE strategy = "BREAKOUT" -> Near(x.resistance, 80) \/ x.rvol >= 11
       [] strategy = "VCP" -> x.compression <= 45 \/ Near(x.high52, 120)
       [] strategy = "PRICE SQUEEZE" -> x.compression <= 50
       [] strategy = "DEMAND & SUPPLY" -> Near(x.support, 80) \/ Near(x.resistance, 80)
       [] strategy = "ORDER BLOCK" -> Near(x.support, 100) \/ x.aligned
       [] strategy = "FVG" -> Near(x.vwap, 50) \/ x.bullish
       [] OTHER -> TRUE

=============================================================================
