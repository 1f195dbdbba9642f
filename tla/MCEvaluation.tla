---------------------------- MODULE MCEvaluation ----------------------------
(***************************************************************************)
(* Instance of Evaluation for TLC: ten candles around 100 rupees, with a   *)
(* base, an impulse out of it and two rising swings, followed by days that *)
(* break out, on volume or without, plunge through the base, or trade      *)
(* split and without a move.                                               *)
(***************************************************************************)
EXTENDS Evaluation

\* A candle in an orderly uptrend; its volume is in tenths of the average.
Bar(o, h, l, c, rvol) ==
  [o |-> o, h |-> h, l |-> l, c |-> c, rvol |-> rvol, avgvol |-> 10,
   ema20 |-> c - 150, ema50 |-> c - 300, ema100 |-> c - 500, ema200 |-> c - 900,
   rsi |-> 60, macd |-> 2, signal |-> 1, atr |-> 150, adx |-> 26, width |-> h - l,
   ttm |-> h - l < 100, vwap |-> c - 20]

MCHistory ==
  <<Bar(10800, 10860, 10700, 10850, 10), Bar(10850, 10900, 10080, 10120, 14),
    Bar(10120, 10180, 10100, 10170, 9), Bar(10170, 10190, 10120, 10140, 8),
    Bar(10140, 10200, 10110, 10170, 8), Bar(10230, 10640, 10220, 10620, 22),
    Bar(10620, 10700, 10500, 10540, 14), Bar(10540, 10580, 10350, 10400, 9),
    Bar(10480, 10780, 10470, 10760, 13), Bar(10700, 10720, 10600, 10650, 10)>>

\* Breaks out on volume; breaks out and closes low without volume; plunges
\* through the base.
Rise   == Bar(10700, 11000, 10680, 10980, 20)
Fade   == [Bar(10900, 11400, 10850, 10900, 9) EXCEPT !.macd = 0]
Plunge == [Bar(10500, 10520, 10000, 10050, 25) EXCEPT
             !.macd = 0, !.ema20 = 10750, !.ema50 = 10800, !.ema100 = 10850,
             !.ema200 = 10900, !.rsi = 35, !.atr = 600]

\* A day without a move, after a split of fifty for one that the provider has not
\* adjusted: a tenth of a percent of its price is less than a paisa.
Penny == [Bar(200, 200, 200, 200, 9) EXCEPT
            !.ema20 = 210, !.ema50 = 214, !.ema100 = 212, !.ema200 = 208, !.vwap = 200,
            !.atr = 10]

MCCandles == {Rise, Fade, Plunge, Penny}

Silence == [active |-> FALSE, sentiment |-> 0, relevant |-> FALSE, results |-> FALSE,
            outlook |-> "NONE", veto |-> FALSE]

\* A strong sector and all time frames up, earnings far away and no news.
Fair == [sector |-> SectorStrength(Rise), index |-> <<-200>>, hour |-> "UPTREND", quarter |-> "UPTREND",
         notice |-> [days |-> 99, headlines |-> 0], news |-> Silence, weights |-> DefaultWeights,
         report |-> [count |-> 40, wins |-> 60, return |-> 3, drawdown |-> 4]]

\* A weak one whose index is missing, before earnings, with bad news, under a
\* profile that weighs them twice.
Foul == [sector |-> SectorStrength(Plunge), index |-> <<>>, hour |-> "UNKNOWN", quarter |-> "DOWNTREND",
         notice |-> [days |-> 3, headlines |-> 4],
         news |-> [Silence EXCEPT !.active = TRUE, !.sentiment = -1, !.relevant = TRUE],
         weights |-> [structure |-> 20, participation |-> 25, momentum |-> 15,
                      market_sector |-> 10, historical |-> 10, news |-> 20],
         report |-> [count |-> 0, wins |-> 0, return |-> 0, drawdown |-> 0]]

MCDays == {Fair, Foul}

=============================================================================
