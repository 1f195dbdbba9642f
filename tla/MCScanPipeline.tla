--------------------------- MODULE MCScanPipeline ---------------------------
(***************************************************************************)
(* Instance of ScanPipeline for TLC: three symbols of one sector, one of   *)
(* which may be held from an earlier session, and one of an unknown        *)
(* sector, and a capital of which two positions pass the cap of a sector.  *)
(***************************************************************************)
EXTENDS ScanPipeline, TLC

CONSTANTS A, B, C, D, Steel, NoSector

\* A frame near resistance, with volume, trend and compression; calm.
Strong ==
  [bars |-> 250, close |-> 100, volume |-> 200000, missing |-> FALSE,
   resistance |-> 101, support |-> 98, high52 |-> 102, vwap |-> 99,
   ema20 |-> 97, ema50 |-> 95, ema200 |-> 90, rsi |-> 60, macd |-> 2, signal |-> 1,
   rvol |-> 16, adx |-> 26, compression |-> 20, atr |-> 20]

\* The same, where no fair value gap is looked for.
Plain == [Strong EXCEPT !.vwap = 90, !.macd = 0]

\* With a range of six percent, which reduces the position.
Nervous == [Plain EXCEPT !.atr = 60]

\* Far from everything: eligible, and hardly worth the strategies.
Dull ==
  [Strong EXCEPT !.resistance = 120, !.support = 80, !.high52 = 140, !.vwap = 110,
     !.ema20 = 105, !.rvol = 9, !.adx = 10, !.compression = 90, !.macd = 0, !.atr = 50]

\* Too few candles.
Fresh == [Strong EXCEPT !.bars = 20]

\* Two of one sector that may both be bought; one of it, reduced, with one of
\* an unknown sector and a dull one between them in the focus list.
MCMarkets == {<<>>, A :> Strong @@ B :> Plain @@ C :> Fresh,
              A :> Nervous @@ C :> Strong @@ D :> Dull}

MCIdeas == {[strategy |-> "BREAKOUT", conf |-> 80, rr |-> 30, entry |-> 100, stop |-> 98],
            [strategy |-> "FVG", conf |-> 75, rr |-> 25, entry |-> 90, stop |-> 88]}

MCSectorOf == (A :> Steel) @@ (B :> Steel) @@ (C :> NoSector) @@ (D :> Steel)

\* Nothing, or a position of the first sector, which one of the downloads does not
\* bring, so that its sector may stay unknown.
MCRestored == {<<>>, D :> [qty |-> 2, entry |-> 100, scan |-> Earlier]}

=============================================================================
