------------------------------- MODULE Brains -------------------------------
(***************************************************************************)
(* What the strategist, the risk manager and the portfolio manager decide  *)
(* about the candidates of one scan.                                       *)
(*                                                                         *)
(* A candidate is a record: its symbol, strategy, confidence, reward to    *)
(* risk (in tenths), entry and stop, and as it advances its score, expected*)
(* value, verdict, position size (qty) and state.  Money is in whole units.*)
(***************************************************************************)
EXTENDS Discovery, FiniteSetsExt

CONSTANTS
  Symbols,
  SectorOf,          \* [Symbols -> sectors]; STOCK_SECTOR_MAP
  Unknown,           \* a symbol whose sector could not be found
  Capital,           \* st.session_state.paper_capital, which nothing changes
  RiskAmount,        \* RISK_PER_TRADE percent of it
  MaxPerTradePct,    \* MAX_CAPITAL_PER_TRADE
  MaxSectorPct,      \* MAX_SECTOR_EXPOSURE_PCT
  MaxPositions,      \* CONFIG["MAX_OPEN_POSITIONS"]
  MinAvgVolume, MinAvgTurnover   \* CONFIG

ASSUME SymbolsAssumption == IsFiniteSet(Symbols) /\ Symbols \subseteq DOMAIN SectorOf
ASSUME MoneyAssumption ==
  {Capital, RiskAmount, MaxPerTradePct, MaxSectorPct, MaxPositions} \subseteq Nat

MinRewardRisk == 25   \* MIN_RR, in tenths
FastThreshold == 70   \* minimum_fast_ai_score

NoVerdict == "NOT_EVALUATED"
Approvals == {"APPROVED", "APPROVED_REDUCED_SIZE"}
Verdicts  == Approvals \cup {"VETOED", NoVerdict}

\* _is_risk_approved
Approved(c) == c.verdict \in Approvals

CapOfSector == (MaxSectorPct * Capital) \div 100

\* Mutant: the verdict does not reach the size.
PositionSizeUnreduced(c) ==
  IF c.entry <= c.stop THEN c.qty
  ELSE Min({RiskAmount \div (c.entry - c.stop),
            ((MaxPerTradePct * Capital) \div 100) \div c.entry})

\* calculate_position_size: by risk, capped by capital, reduced by the verdict
\* to 65 percent but not to nothing; without a positive risk it stays as it was.
PositionSize(c) ==
  LET risk    == c.entry - c.stop
      byRisk  == RiskAmount \div risk
      byMoney == ((MaxPerTradePct * Capital) \div 100) \div c.entry
      full    == Min({byRisk, byMoney})
  IN IF risk <= 0 THEN c.qty
     ELSE IF c.verdict = "APPROVED_REDUCED_SIZE" /\ full > 0
     THEN Max({1, (65 * full) \div 100})
     ELSE full

Cost(c) == c.qty * c.entry

\* The sector on a symbol's stock object, which only an evaluation of the symbol
\* in this session puts there.
SectorSeen(s, known) == IF s \in known THEN SectorOf[s] ELSE Unknown

\* build_portfolio_state: what the open positions cost, by sector; one whose stock
\* object has no sector is counted as unknown.
Exposure(positions, known, sector) ==
  SumFunctionOnSet([s \in DOMAIN positions |-> positions[s].qty * positions[s].entry],
                   {s \in DOMAIN positions : SectorSeen(s, known) = sector})

Sectors == {SectorOf[s] : s \in Symbols}

\* evaluate: every test that fails vetoes.  On the fast path there is no regime
\* context, so the macro test and the tightened floor do not apply.
Vetoes(c, f, positions, known, earningsNear) ==
  LET sector == SectorSeen(c.symbol, known)
  IN {v \in {"EXPOSURE", "CORRELATION", "LIQUIDITY", "VOLATILITY",
             "RISK_REWARD", "EVENT"} :
        CASE v = "EXPOSURE" -> Cardinality(DOMAIN positions) >= MaxPositions
          [] v = "CORRELATION" -> /\ sector # Unknown
                                  /\ Exposure(positions, known, sector) + Cost(c) > CapOfSector
          [] v = "LIQUIDITY" -> \/ f.volume < MinAvgVolume
                                \/ f.volume * f.close < MinAvgTurnover
                                \/ 10 * c.qty > f.volume
          [] v = "VOLATILITY" -> 100 * f.atr > 80 * f.close \/ f.rvol > 40
          [] v = "RISK_REWARD" -> c.rr < MinRewardRisk
          [] v = "EVENT" -> earningsNear}

\* apply_volatility_risk_hint: a range of 5 to 8 percent, f.atr being in tenths.
\* At 8 percent a candidate is neither vetoed nor reduced.
Elevated(f) == 100 * f.atr >= 50 * f.close /\ 100 * f.atr < 80 * f.close

\* What may befall a candidate between the two: nothing, earnings ahead, a veto
\* of the news manager, an exception in the risk manager.
Omens == {"none", "earnings", "news", "error"}

\* build_ai_consensus, after the gate: exception, risk, hint, news.
Verdict(c, f, positions, known, omen) ==
  IF omen \in {"error", "news"} \/ Vetoes(c, f, positions, known, omen = "earnings") # {}
  THEN "VETOED"
  ELSE IF Elevated(f) THEN "APPROVED_REDUCED_SIZE" ELSE "APPROVED"

\* The strategist's choice among the candidates of one symbol.
Best(cs) ==
  {c \in cs : \A d \in cs : \/ c.conf > d.conf
                            \/ c.conf = d.conf /\ c.rr >= d.rr}

\* build_ai_consensus for one symbol: the gate, then risk.  A candidate that
\* the gate stops has no verdict.
Decided(c, f, positions, known, score, omen) ==
  IF score < FastThreshold
  THEN [c EXCEPT !.score = score, !.state = "AI_REJECTED"]
  ELSE LET v == Verdict(c, f, positions, known, omen)
       IN [c EXCEPT !.score = score, !.verdict = v,
             !.state = CASE v = "VETOED" -> "VETOED"
                         [] v = "APPROVED_REDUCED_SIZE" -> "READY"
                         [] OTHER -> c.state]

\* final_list.sort: approved before the others, then by score.
FinalOrders(cs) ==
  {q \in SetToSeqs(cs) :
     \A i, j \in DOMAIN q : i < j =>
       \/ Approved(q[i]) /\ ~Approved(q[j])
       \/ Approved(q[i]) = Approved(q[j]) /\ q[i].score >= q[j].score}

\* allocate ranks by expected value (0 on the fast path), score, confidence.
FundingOrders(cs) ==
  {q \in SetToSeqs(cs) :
     \A i, j \in DOMAIN q : i < j =>
       \/ q[i].score > q[j].score
       \/ q[i].score = q[j].score /\ q[i].conf >= q[j].conf}

NoCapital(c) == [c EXCEPT !.qty = 0, !.state = "APPROVED_NO_CAPITAL"]

\* The allocation of one candidate: its size, trimmed under the cap of its
\* sector before it is given up.
Sized(c, run) ==
  LET full   == PositionSize(c)
      sector == SectorOf[c.symbol]
      room   == Max({0, CapOfSector - run.sector[sector]}) \div c.entry
      fits   == sector = Unknown \/ run.sector[sector] + full * c.entry <= CapOfSector
  IN IF run.slots = 0 \/ full * c.entry > run.cash THEN 0
     ELSE IF fits THEN full ELSE Min({full, room})

\* Mutant: what was allocated in this scan is not added to the sector.
FundedBySectorOf(c, run) ==
  LET final == [c EXCEPT !.qty = Sized(c, run), !.state = "ALLOCATED"]
  IN IF final.qty <= 0
     THEN [run EXCEPT !.out = Append(run.out, NoCapital(c))]
     ELSE [slots |-> run.slots - 1, cash |-> run.cash - Cost(final),
           sector |-> run.sector, out |-> Append(run.out, final)]

\* allocate, one candidate of its loop.
Funded(c, run) ==
  LET final == [c EXCEPT !.qty = Sized(c, run), !.state = "ALLOCATED"]
      sector == SectorOf[c.symbol]
  IN IF final.qty <= 0
     THEN [run EXCEPT !.out = Append(run.out, NoCapital(c))]
     ELSE [slots |-> run.slots - 1, cash |-> run.cash - Cost(final),
           sector |-> [run.sector EXCEPT ![sector] = run.sector[sector] + Cost(final)],
           out |-> Append(run.out, final)]

\* The whole capital is there again at every scan: what the open positions hold
\* is not subtracted from it.
Allocation(order, positions, known) ==
  LET run[n \in 0..Len(order)] ==
        IF n = 0
        THEN [slots |-> Max({0, MaxPositions - Cardinality(DOMAIN positions)}),
              cash |-> Capital,
              sector |-> [x \in Sectors |-> Exposure(positions, known, x)],
              out |-> <<>>]
        ELSE Funded(order[n], run[n - 1])
  IN run[Len(order)].out

=============================================================================
