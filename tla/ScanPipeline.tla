--------------------------- MODULE ScanPipeline ---------------------------
(***************************************************************************)
(* One session's scans: download, discovery, consensus, risk, allocation   *)
(* and entry of execute_scan_pipeline, the rows they leave in the          *)
(* Experience Memory, and the closing of positions with its review.        *)
(*                                                                         *)
(* PipelineManager runs the stages in order and stops at the first that    *)
(* raises.  Fills, exits and checkpoints are those of PaperTrading; here a *)
(* position is what it cost and which decision it came from.  A session    *)
(* begins with the positions of the file, but not with the stock objects   *)
(* that know their sectors.  The lists of a scan are forgotten as soon as  *)
(* no later stage reads them.                                              *)
(***************************************************************************)
EXTENDS Brains

CONSTANTS
  Markets,     \* what a download may bring: functions from symbols to frames
  Ideas,       \* what strategies may find: strategy, confidence, reward, levels
  Scores,      \* what compute_trade_score_v2 may return
  Watchlist,   \* symbols the user wants evaluated in any case
  Restored,    \* the positions a file may hold when the session begins
  MaxScans,    \* bound: scans
  MaxFaults    \* bound: stages that raise and database writes that are lost

ASSUME MarketsAssumption == \A frames \in Markets : DOMAIN frames \subseteq Symbols
ASSUME IdeasAssumption ==
  Ideas \subseteq [strategy : STRING, conf : Int, rr : Int, entry : Nat \ {0}, stop : Int]
ASSUME ScoresAssumption == Scores \subseteq Int

\* The scan of every decision that an earlier session made.
Earlier == 0

ASSUME RestoredAssumption ==
  \A held \in Restored : /\ DOMAIN held \subseteq Symbols
                         /\ held \in [DOMAIN held -> [qty : Nat, entry : Nat, scan : {Earlier}]]

VARIABLES
  market,      \* st.session_state.market_data
  stage,       \* the next stage of the pipeline; idle: none is running
  known,       \* the symbols whose stock object has its sector
  focus,       \* the symbols the last discovery evaluated
  candidates,  \* trade_candidates
  final,       \* final_trade_list
  queue,       \* selected_portfolio, what the paper stage has yet to look at
  waiting,     \* waiting_entry, its symbols
  positions,   \* paper_positions: quantity bought, entry, scan of the decision
  decisions,   \* experience_memory, by scan and symbol; its results and reviews
               \* are counted from the start of the session
  scans, faults

deskVars == <<positions, waiting, decisions>>
listVars == <<focus, candidates, final, queue>>
vars == <<market, stage, known, listVars, deskVars, scans, faults>>

Stages == {"idle", "observe", "screen", "consensus", "portfolio", "paper"}

Outcomes == {"PENDING", "NO_TRADE", "OPEN", "CLOSED"}

\* restore_trading_state_once: the file may be older than the memory, so that a
\* restored position may have been closed and reviewed already.
Init ==
  /\ market = <<>>
  /\ stage = "idle"
  /\ known = {}
  /\ focus = {}
  /\ candidates = {}
  /\ final = <<>>
  /\ queue = <<>>
  /\ waiting = {}
  /\ positions \in Restored
  /\ \E ids \in SUBSET {<<Earlier, s>> : s \in DOMAIN positions} :
       decisions \in [ids -> [outcome : {"PENDING", "CLOSED"}, results : {0}, reviews : {0}]]
  /\ scans = 0
  /\ faults = 0

-----------------------------------------------------------------------------
(***************************************************************************)
(* Before a scan.                                                          *)
(***************************************************************************)

\* run_alphaquant: with nothing downloaded no scan is requested.
Download(frames) ==
  /\ stage = "idle"
  /\ scans < MaxScans
  /\ market' = frames
  /\ stage' = IF DOMAIN frames = {} THEN "idle" ELSE "observe"
  /\ scans' = IF DOMAIN frames = {} THEN scans ELSE scans + 1
  /\ UNCHANGED <<known, listVars, deskVars, faults>>

-----------------------------------------------------------------------------
(***************************************************************************)
(* The stages.                                                             *)
(***************************************************************************)

\* initialize_stage
Observe ==
  /\ stage = "observe"
  /\ stage' = "screen"
  /\ focus' = {}
  /\ candidates' = {}
  /\ final' = <<>>
  /\ queue' = <<>>
  /\ UNCHANGED <<market, known, deskVars, scans, faults>>

\* mandatory_symbols; the candidates were just cleared, and nothing ever sets
\* hot_universe.
Mandatory == Watchlist \cup waiting \cup DOMAIN positions

\* A candidate as a strategy leaves it, sized when its symbol's evaluation went
\* on to the end.  Whether validate_trade_candidate called it READY or
\* WATCHLIST is of no consequence to the stages after it.
Candidate(s, idea, evaluated) ==
  LET c == [symbol |-> s, strategy |-> idea.strategy, conf |-> idea.conf,
            rr |-> idea.rr, entry |-> idea.entry, stop |-> idea.stop,
            score |-> 0, verdict |-> NoVerdict, qty |-> 0, state |-> "SCREENED"]
  IN IF evaluated THEN [c EXCEPT !.qty = PositionSize(c)] ELSE c

\* The symbols that discovery may choose to evaluate.
FocusChoices ==
  {Focus(market, ranking, Mandatory, FocusLimit, MinOpportunity) :
     ranking \in Rankings(market, Eligible(market))}

\* scan_stage: every symbol is given its sector before its strategies are run.
\* What an evaluation that raises has found stays among the candidates.
Screen ==
  /\ stage = "screen"
  /\ focus' \in FocusChoices
  /\ known' = known \cup focus'
  /\ \E found \in [focus' -> SUBSET Ideas], whole \in [focus' -> BOOLEAN] :
       /\ \A s \in focus' : \A idea \in found[s] : ShouldRun(idea.strategy, market[s])
       /\ \A s \in focus' : found[s] = {} => whole[s]
       /\ candidates' = UNION {{Candidate(s, idea, whole[s]) : idea \in found[s]} :
                                 s \in focus'}
  /\ stage' = "consensus"
  /\ UNCHANGED <<market, final, queue, deskVars, scans, faults>>

CandidateSymbols == {c.symbol : c \in candidates}

\* A table in which some rows were replaced or added.
Over(rows, table) ==
  [id \in DOMAIN rows \cup DOMAIN table |->
     IF id \in DOMAIN rows THEN rows[id] ELSE table[id]]

\* The rows of the memory that a stage writes, but for the lost ones.
Written(rows, lost) == Over([id \in DOMAIN rows \ lost |-> rows[id]], decisions)

MayLose(lost) == faults' = faults + Cardinality(lost) /\ faults' <= MaxFaults

\* record_decision, of what the gate let through.
Recorded(decided) ==
  [id \in {<<scans, c.symbol>> : c \in {d \in decided : d.verdict # NoVerdict}} |->
     [outcome |-> IF \E c \in decided : c.symbol = id[2] /\ c.verdict = "VETOED"
                  THEN "NO_TRADE" ELSE "PENDING",
      results |-> 0, reviews |-> 0]]

\* consensus_stage: the portfolio is looked at once, before the loop.
Consensus ==
  /\ stage = "consensus"
  /\ \E score \in [CandidateSymbols -> Scores], omen \in [CandidateSymbols -> Omens],
        best \in {f \in [CandidateSymbols -> candidates] : \A s \in CandidateSymbols :
                    f[s] \in Best({c \in candidates : c.symbol = s})} :
       LET decided == {Decided(best[s], market[s], positions, known, score[s], omen[s]) :
                         s \in CandidateSymbols}
       IN \E order \in FinalOrders(decided), lost \in SUBSET DOMAIN Recorded(decided) :
            /\ \A s \in CandidateSymbols : score[s] < FastThreshold => omen[s] = "none"
            /\ final' = order
            /\ MayLose(lost)
            /\ decisions' = Written(Recorded(decided), lost)
  /\ candidates' = {}
  /\ focus' = {}
  /\ stage' = "portfolio"
  /\ UNCHANGED <<market, known, queue, positions, waiting, scans>>

\* update_allocation, of the approved candidates that have a row.
Settled(approved) ==
  [id \in {<<scans, c.symbol>> : c \in approved} \cap DOMAIN decisions |->
     [decisions[id] EXCEPT !.outcome =
        IF \E c \in approved : c.symbol = id[2] /\ c.state = "ALLOCATED"
        THEN "PENDING" ELSE "NO_TRADE"]]

\* Mutant: every candidate with a size is selected.
SelectedBySize(list) == Kept(list, {c \in ToSet(list) : Approved(c) /\ c.qty > 0})

Selected(list) ==
  Kept(list, {c \in ToSet(list) : Approved(c) /\ c.state = "ALLOCATED"})

\* portfolio_stage: an exception in the allocation is swallowed, and what was
\* not reached keeps its state.
Portfolio ==
  /\ stage = "portfolio"
  /\ \E order \in FundingOrders({c \in ToSet(final) : Approved(c)}) :
     \E k \in 0..Len(order) :
       LET done == Allocation(SubSeq(order, 1, k), positions, known)
           list == [i \in DOMAIN final |->
                      IF \E j \in DOMAIN done : done[j].symbol = final[i].symbol
                      THEN CHOOSE c \in ToSet(done) : c.symbol = final[i].symbol
                      ELSE final[i]]
           rows == Settled({c \in ToSet(list) : Approved(c)})
       IN \E lost \in SUBSET DOMAIN rows :
            /\ final' = list
            /\ queue' = Selected(list)
            /\ decisions' = Written(rows, lost)
            /\ faults' = faults + Cardinality(lost) + (IF k < Len(order) THEN 1 ELSE 0)
            /\ faults' <= MaxFaults
  /\ stage' = "paper"
  /\ UNCHANGED <<market, known, focus, candidates, positions, waiting, scans>>

\* entry_trigger_status on the cached candle; the candidate is of this scan, so
\* that it has not expired.
Triggered(c, f) ==
  /\ f.close >= c.entry
  /\ f.close >= f.vwap
  /\ f.rvol >= 10
  /\ c.score >= 70

\* paper_stage, one candidate: created when triggered, in market hours, unless
\* the symbol is held; a refused or untriggered one waits.
Enter(marketOpen, filled) ==
  /\ stage = "paper"
  /\ queue # <<>>
  /\ LET c == Head(queue)
     IN /\ filled => /\ marketOpen
                     /\ Triggered(c, market[c.symbol])
                     /\ c.symbol \notin DOMAIN positions
        /\ IF filled
           THEN /\ positions' = Over([s \in {c.symbol} |-> [qty |-> c.qty,
                                        entry |-> c.entry, scan |-> scans]], positions)
                /\ waiting' = waiting \ {c.symbol}
           ELSE /\ waiting' = waiting \cup {c.symbol}
                /\ UNCHANGED positions
  /\ queue' = Tail(queue)
  /\ UNCHANGED <<market, stage, known, focus, candidates, final, decisions, scans, faults>>

\* The pipeline ends or stops; the next one clears its lists before it uses them.
Stopped ==
  /\ stage' = "idle"
  /\ market' = <<>>
  /\ focus' = {}
  /\ candidates' = {}
  /\ final' = <<>>
  /\ queue' = <<>>

\* The rest of the stages only monitor and report.
Finish ==
  /\ stage = "paper"
  /\ queue = <<>>
  /\ Stopped
  /\ UNCHANGED <<known, deskVars, scans, faults>>

\* The symbols that a stage has given their sectors when it raises.
Reached == IF stage = "screen" THEN UNION {SUBSET chosen : chosen \in FocusChoices} ELSE {{}}

\* A stage raises: the pipeline stops where it is.
StageFails ==
  /\ stage # "idle"
  /\ faults < MaxFaults
  /\ faults' = faults + 1
  /\ \E some \in Reached : known' = known \cup some
  /\ Stopped
  /\ UNCHANGED <<deskVars, scans>>

\* review_closed_trade: outcome and review are two transactions, each of which
\* may be lost; without the row there is no review.
Reviewed(id, lost) ==
  [id2 \in {id} \cap DOMAIN decisions |->
     [outcome |-> IF "review" \in lost THEN decisions[id].outcome ELSE "CLOSED",
      results |-> decisions[id].results + (IF "outcome" \in lost THEN 0 ELSE 1),
      reviews |-> decisions[id].reviews + (IF "review" \in lost THEN 0 ELSE 1)]]

\* Between the scans the monitor sells out a position.  Partial exits leave its
\* quantity, by which exposure is measured, as it was bought.
Exit(s) ==
  /\ stage = "idle"
  /\ positions' = [t \in DOMAIN positions \ {s} |-> positions[t]]
  /\ \E lost \in SUBSET {"outcome", "review"} :
       /\ MayLose(lost)
       /\ decisions' = Over(Reviewed(<<positions[s].scan, s>>, lost), decisions)
  /\ UNCHANGED <<market, stage, known, listVars, waiting, scans>>

Next ==
  \/ \E frames \in Markets : Download(frames)
  \/ Observe
  \/ Screen
  \/ Consensus
  \/ Portfolio
  \/ \E marketOpen, filled \in BOOLEAN : Enter(marketOpen, filled)
  \/ Finish
  \/ StageFails
  \/ \E s \in DOMAIN positions : Exit(s)

Spec == Init /\ [][Next]_vars

-----------------------------------------------------------------------------
(***************************************************************************)
(* Properties.                                                             *)
(***************************************************************************)

\* However many scans, failures and exits lie before it, and whatever the session
\* restored, a purchase leaves the positions within their slots, costs at most its
\* share of the capital, and keeps the positions of its sector together within the
\* sector's cap, as far as this session knows whose sector is which.
LimitsKept ==
  [][\A s \in DOMAIN positions' \ DOMAIN positions :
       /\ s \in known
       /\ Cardinality(DOMAIN positions') <= MaxPositions
       /\ 100 * positions'[s].qty * positions'[s].entry <= MaxPerTradePct * Capital
       /\ SectorOf[s] # Unknown =>
            100 * Exposure(positions', known, SectorOf[s]) <= MaxSectorPct * Capital]_vars

\* The memory agrees with the desk, whatever of the allocation raised and
\* whichever of the writes were lost: the decision behind a held position has no
\* result and no review yet and, when this session made it, is neither NO_TRADE nor closed; and
\* within the session no decision is reviewed or given a result twice.
MemoryAgrees ==
  /\ \A s \in DOMAIN positions :
       LET id == <<positions[s].scan, s>>
       IN id \in DOMAIN decisions =>
            /\ decisions[id].results = 0 /\ decisions[id].reviews = 0
            /\ id[1] # Earlier => decisions[id].outcome \notin {"NO_TRADE", "CLOSED"}
  /\ \A id \in DOMAIN decisions :
       /\ decisions[id].results <= 1 /\ decisions[id].reviews <= 1
       /\ decisions[id].reviews = 1 => decisions[id].outcome = "CLOSED"
       /\ id[1] # Earlier /\ decisions[id].outcome = "CLOSED" => decisions[id].reviews = 1

\* Every eligible symbol that is held, awaited or watched is evaluated, however
\* many there are; the others are the best ranked, within the limit but for one.
FocusKeepsPromises ==
  stage = "consensus" =>
    LET must == Mandatory \cap Eligible(market)
        rest == Eligible(market) \ must
    IN /\ must \subseteq focus
       /\ focus \subseteq Eligible(market)
       /\ FocusLimit > 0 => Cardinality(focus) <= Max({FocusLimit, Cardinality(must) + 1})
       /\ \A s \in focus \cap rest, t \in rest \ focus :
            OpportunityScore(market[s]) >= OpportunityScore(market[t])

\* A candidate of elevated volatility is never bought at the full size of its
\* risk: the verdict of one stage reaches the sizing of another.
ReducedBuysLess ==
  [][\A s \in DOMAIN positions' \ DOMAIN positions :
       Elevated(market[s]) =>
         \E c \in ToSet(final) :
           /\ c.symbol = s
           /\ LET full == PositionSize([c EXCEPT !.verdict = "APPROVED"])
              IN positions'[s].qty <= Max({1, (65 * full) \div 100})]_vars

=============================================================================
