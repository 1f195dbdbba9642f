# AlphaQuant: TLA+ models, checks and proofs

AlphaQuant is a Streamlit application that scans NSE symbols, ranks candidates
and trades them on paper. Its core is one file, `src/appemergentquant_v3_1.py`
(13 287 lines, called AQ below); the packages around it hold the brokers, feeds,
history, discovery, the decision "brains" and guarded live execution.

This directory holds TLA+ models of the parts where order, failure and
concurrency matter, the TLC configurations that check small instances, and
proofs that TLAPS checks for every value of the constants. `PROJECT.json` lists
components, runs, mutants, hazards and theorems, and maps each definition to
the lines it models. The decision path (discovery, strategies, signals, scoring,
consensus, allocation) is there too, as operators translated from the code and
run over many scans: what goes wrong in it is what one scan leaves for the next.

Check one run with `tlc -config X.cfg M` and one proof module with `tlapm M.tla`.

## 1. Inventory

### Threads, sessions and stores

Streamlit runs a script from the top for every interaction of a browser tab.
Each tab is a *session*: a thread of its own with its own `st.session_state`.
An interaction abandons the script that is running, at the next place where it
asks for `st.session_state`, and starts it over: between any two of these places
what the script does is one step for its own session, and nothing after the place
where it was abandoned is done. Across sessions are shared:

| shared | kind | guarded by |
|---|---|---|
| `AlphaQuantCoreRuntime` | one object per process, a daemon worker, `runtime_state.json` | its lock |
| `data/paper_state.json` | the paper account of every session | nothing; written to `.tmp`, then renamed |
| Experience Memory | PostgreSQL database (`DATABASE_URL`) | one transaction per call |
| `UpstoxV3FeedManager`, `MarketState`, `AuthoritativeBrokerState` | one object each per process | a lock each; two of them written one after the other are two steps |
| prepared frames (`data/indicator_cache`) | a frame with its indicators, by symbol, date of the last candle and number of rows | nothing |
| structure, alignment and earnings caches | files under `data/`, by symbol; the structure by date | nothing |
| workspace preferences | `workspace.json`, filtered by `DEFAULTS`, read and written whole | nothing |
| history cache | a pickled frame per symbol, shared with the tools | a lock of the process; temporary file, then renamed |

### Components

| component | state | operations | hard behaviour | what makes it correct |
|---|---|---|---|---|
| Paper position and trade management (AQ 7099-7700) | quantity, remainder, stop, targets hit, break-even, status, profit | partial exits, stop, targets 1-3, trailing stop, quick refresh, monitor loop, archive | scripts abandoned between position, ledger, archive and removal; two paths move the stop; integer parts of a quantity; a price of 0 | money conserved and no share sold twice; settled is final; the stop only rises |
| Atomic paper fill (AQ 13060-13120) | `paper_broker` ledger: cash, holdings, orders | `create_atomic_paper_trade` | retry, checkpoint that raises, script abandoned after the debit, run ids | one trade per idempotency key; reported is durable |
| Account checkpoint (AQ 7404-7470) | `paper_state.json`, its `.tmp` | persist, restore | several sessions through one temporary path; crash between open, write, rename | file readable; file never goes back |
| Account validation, capital, reset (AQ 12216-12249, 12979-13038) | the same ledger | validation life cycle, capital save, reset | double credit, reset not persisted | money conserved over account operations |
| Core runtime (AQ 128-236) | status, run id, recovery file, worker | start, stop, publish, load, worker | two tabs; failed write; restart; late publication | a start is acknowledged; STOPPED sticks; faithful snapshot |
| Main script and buttons (AQ 12791-, 13210-13287) | `autonomous_active`, `alphaquant_run_pending` | RUN, STOP, pipeline, rerun, reload | interrupted scripts; state copied from the core one way | a requested run is begun; STOP reaches everyone |
| Autonomous loop and scan pipeline (AQ `execute_scan_pipeline`, `PipelineManager`) | stage, candidates, final list, selected, waiting | observe, scan, consensus, portfolio, paper, monitor; the rest reports | a stage that raises stops the pipeline where it is; an allocation that raises is swallowed | limits over many scans and restarts, a memory that agrees with the desk |
| Discovery and universe (`src/discovery/`) | focus list, structure cache | eligibility, features, score, ranking, focus list, gates, evaluation | bounded list with mandatory symbols; prepared frame and structure cached by date | nothing promised is dropped; the structure is that of the candles evaluated |
| Strategies and indicators (AQ 5000-9600) | `stock` object: market, patterns, indicators, score, candidates | seven strategies with detectors, two batches of signal engines, validation | dictionaries that are only updated: marks of earlier scans | tradable levels, the same trades on a rescan, zones used up once |
| Scoring (`scoring_engine_v2.py`, `scoring_profiles.py`) | none | six components, confluence, gate, weights | sums of clamped sums in several scales | monotone in news |
| Consensus, risk and allocation (`os_brains/`, AQ 5700-6100) | candidate status and size, capital left | build_ai_consensus, evaluate, size, allocate | capital of open positions ignored; sectors forgotten by a restart; stale statuses; three sizings | slots, share and sector cap; a reduced verdict buys less |
| Experience Memory, Reviewer | decision, outcome, review rows | record_decision, update_allocation, record_outcome, record_review | separate transactions lost one by one | one outcome per trade, of the realized profit; no NO_TRADE that is held |
| Market state and feeds (`src/market/`) | stream, token, source of the quotes | start, callbacks, replay, publish | late callbacks, reconnect, a delayed download that overtakes the feed | one stream; a session's download overtakes live quotes once |
| Broker state and connections (`src/broker/`, AQ) | profile, secret, health, source | save, test, apply, edit, disconnect | steps of a form between which callbacks arrive | the state after the form is what the test found |
| Guarded live execution (`src/execution/`) | preferences, recorded orders | gate, precheck, execute | repeated order, dry run, settings that are not kept | recorded orders and what the preferences keep |
| History | cached frames, checkpoint, provider attempts | repair, merge, atomic write, resumable bootstrap | retries over providers whose stamps differ, answers that repeat held days, invalid frames, two tools on one cache, crash between cache and checkpoint | candles are kept; what is recorded ready is on disk; a run ends |
| Candles, live engine | bucket, cumulative volume, cache | push, tick | late ticks, volume baseline | buckets in order |
| News | items, claims, budget | refresh, claim | worker beside claims | one alert per claim |
| Observer, historian, analog engine | SQL rows, vectors | features, nearest neighbours | numbers | - |
| Workspace, UI, headless, tools, tests | preferences | load, save, rendering | - | - |

Interactions: a RUN button (through `core.start`, or directly) sets
`alphaquant_run_pending`; the next script run of the tab executes the pipeline;
its paper stage calls `create_atomic_paper_trade`, which saves the account before
it reports; its monitor stage calls `monitor_open_positions`; at the end
`main()` saves the account and publishes to the core. Between pipelines
`quick_refresh_open_positions` runs on ticks. Before the paper stage the scan
narrows the universe to a focus list, runs every strategy on each symbol's stock
object, and lets the brains score, judge, size and fund the candidates; each
decision leaves a row in the memory that later stages and the Reviewer update.
Quotes reach `MarketState` from the process-wide feed or from the download of a
session's ticker strip, and the live gate reads it together with the broker state
and the preferences. A closing writes the outcome to
Experience Memory at once, but reaches the account file only with the next save.

## 2. What is modelled

| module | what | extends |
|---|---|---|
| `PaperPosition` | operators: what each method does to one position and its ledger | |
| `PaperTrading` | one session: fills, ticks, monitor loop, checkpoints, restarts | `PaperPosition` |
| `PaperLedger` | abstract specification: an account that buys, sells, saves and recovers whole | |
| `PaperStateFile` | several sessions saving to and restoring from one file | |
| `CoreRuntime` | the control plane, its worker and file, and the tabs' scripts and buttons | |
| `HistoryRepair` | the history cache, the bootstrap tool with its pool and checkpoint, and the validation tool | |
| `MarketFeeds` | the feed and its callbacks, the two stores of quotes, the connection form, the ticker strips | |
| `LiveExecution` | preferences, live form, gate and adapter over the feeds | `MarketFeeds` |
| `Discovery` | operators: eligibility, opportunity score, ranking, focus list, strategy gates | |
| `Brains` | operators: consensus, risk verdict, sizing, allocation | `Discovery` |
| `ScanPipeline` | one session's scans stage by stage, positions, decision rows | `Brains` |
| `Patterns` | operators: swings, structure, zones, blocks, gaps, breakouts, contractions | |
| `Strategies` | operators: the registered strategies on a stock object | `Patterns`, `Discovery` |
| `Signals` | operators: both batches of signal engines, validation of candidates | `Strategies` |
| `Scoring` | operators: Scoring V2 and profile weights | `Signals` |
| `Evaluation` | one symbol over candles, scans, caches and restarts | `Scoring` |
| `MCPaperTrading`, `MCPaperStateFile`, `MCCoreRuntime`, `MCHistoryRepair`, `MCMarketFeeds`, `MCScanPipeline`, `MCEvaluation` | instances for TLC | each of the above |
| `PaperTradingProofs`, `PaperStateFileProofs`, `CoreRuntimeProofs`, `HistoryRepairProofs`, `MarketFeedsProofs`, `ScanPipelineProofs`, `EvaluationProofs`, `SumLemmas` | theorems | each of the above |
| `SumLemmas` | lemmas: induction over a finite set, sums over one | - |

### PaperPosition and PaperTrading

A *deal* is what one call can change: the position, the ledger's cash, realized
profit and holding of that symbol, and the outcomes written. Each method is an
operator on deals in the order of the code: `CheckExits` is stop first, else
targets 1, 2, 3; `ManagePosition` adds the trailing stop unless the stop was hit.
A deal also counts how many more times the script may ask for `st.session_state`
(`left`): the engine asks before a final exit, and `_sync_paper_broker_on_exit`
(AQ 7379) before it touches the ledger, when the position has changed already. The
time after the last one the deal is dropped, and nothing that follows happens.
Three consequences of the code that the model keeps: `close_partial` leaves the
status OPEN when nothing remains (a quantity of 1 is sold out at target 1 and the
position stays until the stop or target 3); `move_stop` also runs on a position
that target 3 has just closed; `total_pnl()` at a close still holds the
unrealized profit `update_price` computed before the exit.

`PaperTrading` keeps two accounts, `session` and `saved`. `Fill` changes the
session, saves and reports; `FillUnsaved` is the same with a save that raises, and
`FillAbandoned` one that ends at AQ 13100, where order, debit and ledger shares are
recorded and the position is not. `QuickRefresh` is one turn of the tick loop and
`QuickRefreshAbandoned` one that ends at an exit, or between closing, archiving and
removing (AQ 7475, 11099-11101). `StartMonitor`, `MonitorVisit`, `MonitorSkip` and
`EndMonitor` are the loop of `monitor_open_positions`, whose removals come after the
loop; `MonitorVisitAbandoned` and `MonitorAborted` leave it inside a turn, between
turns, or between two removals (AQ 7475, 7641-7643, 7663-7668). A script may be
abandoned at any of these places; `MaxAborts` only bounds how often. `Restart` brings
the saved account back as a whole, since `restore_trading_state_once` is the first
thing `main()` does and no script gets past it unfinished; outcomes are in a database
and survive. Prices are whole ticks, 0 included: nothing between the quote and the
exit excludes it, and the ledger skips an exit at 0 that the position makes. `run` is
the core's run id, which only enters the idempotency key here.

So the ledger may hold shares that no position will sell: `Stray` counts them, a
purchase of the same symbol writes over them, and `writtenOff`, which is no state of
the code, remembers what they had cost. An account where neither happened is
`Aligned`. `CashConserved` and `SharesCovered` hold for every account;
`ProfitMatchesTrades`, and that every order has its trade, for the aligned ones,
because a profit is missed together with the shares it was made on. That the code
keeps the ledger aligned is what its docstrings say (AQ 7376, 13061) and what
`paper_ledger_aligned` refutes.

Abstracted: the save is one step (`PaperStateFile` opens it up); the trailing
level is any of a set, as EMA and ATR come from the candles; `max_profit`,
`max_drawdown` and the position's own history list are not read back.
`int(qty * 0.35)` is taken as (35 qty) div 100, which the doubles equal below 180.

### PaperStateFile

A session's ledger is reduced to what became of each candidate (none, open,
closed). `Open`, `Write`, `Replace` are the three system calls of
`persist_trading_state`; a path names an inode, and a handle follows its inode,
so that a second session that opens the same `.tmp` empties what the first one is
writing. `Write` may leave a torn text when two handles write to one inode.
`WriteFails` and `ReplaceFails` are the exceptions, `Crash` the death of the
process, `Leave` a session that ends. Histories: `alone` (no session ever started
beside another), `overlap` (two saves were once under way together), `reported`.

### CoreRuntime

`core` is the status and run id, `file` the recovery file, `worker` the thread.
Each tab's script is a phase; `LoadPage` is the head of `main()`, which arms the
tab from the core's status and takes the pending request; `Interact` is the
rerun that abandons a script. Both pairs of buttons are modelled: the market
page's (`MarketRun`, `MarketStop`) and the dashboard's (`ProductRun`,
`ProductRunRefused`, `ProductStop`). Each write of the file may fail, with the
change already made in memory, and with what the caller does about the exception:
the worker ends, a button's page is finished without a rerun, `main()` ends.

In this commit `dispatch_application` does not route to the dashboard
(`render_terminal_dashboard`), so `core.start` is only reached from code that is
there and not linked. `Controls` selects which buttons a page shows: the run about
safety and liveness has both pairs, the two violations only those of the market
page, which is the one a user reaches. With them the core stays STOPPED, as RUN does
not call `start` and `publish` keeps STOPPED: a restart has nothing to restore, and
a tab that was monitoring comes back idle. That falls short of the docstring at
AQ 162 (`core_restart`).

That two tabs which press RUN at once are not granted the same run is in the model
as `start` is in the code, a test and a change under one lock; it has no property,
because ids are handed out fresh and nothing short of dropping the lock breaks it.

### HistoryRepair

A frame gives a candle for each stamp of its naive UTC index: none, good, or bad
(refused by `validate_ohlcv`). A trading day has two stamps: Upstox's midnight of
India becomes 18:30 of the day before (`history_service.py:61,67`), Yahoo's midnight
stays; so a file filled by both has two rows for one day, and the last row may say a
day less than it holds. `Begin`, `FetchFails`, `FetchSucceeds` and `FetchRaises` are
one `HistoryService.repair` in the pool: the reading, each attempt, and the merge
with the replacement of the file. `left` counts the providers of the chain and
`attempt` the retries; an answer is any candles of one provider's stamps up to today,
those that are held included, or a failure of either kind. What range was asked for is
left out, since the code compares no answer with it. `Merges` is the merge: where both have a stamp, either candle may stay,
because the index is sorted before `keep="last"` chooses, by a sort that is not
stable. `StartRun`, `Collect`, `CollectRaises`,
`Interrupt`, `Finish` and `Crash` are the coordinator of
`bootstrap_nse_history.py`; an exception or Ctrl-C leaves the `with` block, which
waits for every submitted repair ("draining"). `LoadBegin`, `LoadStores` and
`LoadEnds` are `load_incremental_history` as the validation tool calls it, in
another process: its rule for a fresh cache differs and it does not validate.
`misled` marks a writer whose reading failed or was overtaken by the other tool;
`doubtful` remembers the symbols such a writer stored.
`HistoryKept` says that no stamp loses its candle; that an answer may replace the
candle of a stamp is how the code merges.

Abstracted: of the statuses only HISTORY_READY is told apart, as the code decides
by nothing else; backoff and the rate limiter only take time; the selection of
symbols is fixed. A failed reading at `StartRun` would only add work that `Begin`
finds done.

### MarketFeeds and LiveExecution

`feed` is where the stream of `UpstoxV3FeedManager` is: none, dead (`_streamer`
set, `connect()` raised), opening, open, closed (it reconnects), or the replay of
a fixture. `Edit`, `Submit`, `TestEnds`, `TestRaises`, `ApplyStarts`, `ApplyEnds`
and `Disconnect` are the connection form; its handler is one script but not one
step, because the feed's callbacks run on their own thread: `ApplyEnds` reads a
feed that may have opened after `ApplyStarts`. `OnMessage` publishes to
`MarketState` only. `RefreshBegins`, `RefreshPublishes`, `RefreshAbandoned` and
`RefreshFails` are a strip's download with seconds in between, which may overtake a
feed that went live meanwhile, or be abandoned before or after it published; a
session downloads once and then keeps its quotes (`terminal`). `OvertakenOnce` says
that this is what bounds the damage: each session replaces live quotes at most once.
What a quote says is abstracted to where it came from.

`LiveExecution` adds the preferences, of which `WorkspaceManager.save` keeps only
those with a default: of what the live form saves that is the mode alone.
`GatePasses`, `Precheck` and `Execute` are the readiness gate and the adapter.
`Locked` is a constant, so that the theorems also speak of an unlocked adapter.
The gate asks for `live_mode_enabled`, which is not among the keys that are kept, so
it can never open. The interface says otherwise: "All limits below are required
before LIVE CASH GUARDED can be enabled" (AQ 12869), "Configure all required live
limits before enabling" (AQ 12892), "Live cash settings saved" (AQ 12907), and so does
`tools/run_alphaquant_live_readiness_report.py:223`. No property states the shut
gate, as it only repeats which keys the preferences keep (`LiveTypeOK`), and no run
states the promise.

### Discovery, Brains and ScanPipeline

A frame is reduced to what eligibility, features and gates read of its last
candles; percentages are compared by cross-multiplication. `Screen` takes any
findings of strategies that the gates allow on the focus list, `Consensus` any
score and any omen (news veto, volatility) and keeps the best candidate per
symbol; from there verdict, sizes, funding order, sector room and the selection
are the code's. Where the code sorts on a key the model cannot see, every order
that respects the visible keys is taken (`Rankings`, `FinalOrders`,
`FundingOrders`). `Portfolio` allocates the first k candidates and leaves the
rest as they were: the exception that `portfolio_stage` swallows. Each write to
the memory may be lost, as `_safe` does. `StageFails` is any stage that raises.
`Exit` is the monitor between scans selling out a position, with the two
transactions of the review; a partial exit leaves the quantity by which exposure
is measured, so it is not a step here. Percentages of the portfolio are exact
where `portfolio_weight` rounds to hundredths.

A session may begin with positions restored from the file (`Restored`), bought under
decisions of an earlier session (`Earlier`). The sector of a held position is read
from its stock object (`risk_manager.py:57-58`), which a restart does not restore:
`known` holds the symbols whose stock has its sector in this session, because a scan
evaluated them (`SectorSeen`), and the others count as UNKNOWN, which no cap bounds.
`LimitsKept` is therefore a property of purchases and of the sectors the session
knows; counted with the true sectors, the cap of 40 percent is exceeded by a purchase
beside a restored position of the same sector that the scan did not evaluate, because
its symbol was not downloaded, is not eligible, or came after the one that raised. No
document of the repository excludes that: it is a hazard and not a finding.

A stage that raises leaves nothing of its own in the model but sectors. A script
abandoned half way through the rows that the consensus or the allocation writes would
leave some rows of that scan in the memory; no position refers to them, and this is
not modelled.

Prices, ledger and checkpoint of the positions are `PaperTrading`'s.

### Patterns, Strategies, Signals, Scoring and Evaluation

A candle is a record of prices and of that day's indicators, which pandas_ta
computes and the instance gives. Lookbacks (20, 50, 200 candles) are constants,
so that a dozen candles reach every detector. The `stock` object's dictionaries
are functions whose keys may be missing or left over from an earlier scan, and
each strategy is an operator on the whole evaluation, with its marks, its score
and its candidate, in the order of the registry (`Registry`, `AllRun`): a
strategy that reads a mark before the one that writes it sees the mark of the
scan before. `Signals` runs after a candidate exists and ends in
`WithValidated`; `Scoring` is the confidence of the best candidate.
`Evaluation` makes scans of it: candles arrive (`NewDay`), the last one moves
(`Revise`), caches expire, the process restarts.

Numbers are scaled integers named in each module (tenths of relative volume,
hundredths of a point); integer division rounds where the code has doubles.

`prepared` is the indicator cache (`prepare_indicators`, `core/history.py:198-208`,
called for every downloaded symbol before the first is evaluated): a frame whose last
candle has the date of the stored one and which has as many rows is taken from the
disk. A candle that moves within its day is therefore evaluated as it was at the first
scan of the day, in any session and also after a restart. That this frozen candle is
the one its cached structure belongs to, which is keyed by the date alone, is
`StructureOfCandle`; the mutant without the indicator cache breaks it.
`RescanSameLevels` compares two scans of a day also when the candle moved in between
and also when one of them found nothing (`NothingFound`). Scans that leave the symbol
out of their focus (`Unfocused`) prepare the frame and evaluate nothing.

`prepare_indicators` adds six columns (EMA20/50/200, RSI, ATR, average volume), and a
frame with EMA20 counts as complete in `discovery/pipeline.py:139`, while
`score_trend` (AQ 2698) reads EMA100: a downloaded frame without it raises KeyError in
the first evaluation, outside of its `try`, and the screen stage fails.
`ScanPipeline` has that failing stage. `Evaluation` models the frames for which the
strategies do run, those that carry all of `calculate_indicators`, as the validation
tools prepare them.
Other tools that store a history of another length under the same key are left out.

Three things in the code that the models keep and that a reader may not expect.
`HIGH52` is missing in a frame shorter than its window, and `BB_WIDTH` is never
there when the features are computed, so that compression counts as 0.5. The
trade quality sums every key of the score dictionary, whatever its scale. On a candle
whose high is below 5 rupees the tenth of a percent that PRICE SQUEEZE adds rounds
away, so that entry, stop and target may coincide: `LevelsSound` is strict above
that and not strict below. The funnel asks for 20 rupees by default, of the *downloaded*
candle; the price range is a preference and may start at 0, and the prepared candle may
be an older one.

## 3. The runs

Bounds are constants named in the modules (`MaxRuns`, `MaxRestarts`,
`MaxAborts`, `MaxFills`, `MaxCrashes`, `MaxFaults`) and appear only in guards.

| run | bounds | shows |
|---|---|---|
| `paper` | 2 symbols with a candidate each, discovery mode (quantities 4 and 2 after halving), prices 0 and 5 around an entry of 2, a trailing level of 5, 1 more run id, 1 restart, 1 abandoned script, 2 orders; 847 k states | `CashConserved`, `SharesCovered`, `ProfitMatchesTrades`, `OneTradePerOrder`, `ConfirmedFillsDurable`, `BreakEvenProtects` in memory and file, `StopRatchet`, `SettledIsFinal`; `LedgerPromise`: refinement of `PaperLedger` |
| `file_safety` | 2 sessions, 1 candidate, 2 crashes, 2 failed writes; 234 k states | `FileReadable` and `SaveInstalls` while saves do not overlap; `ReportedKept`, `ReportedOnce`, `FileNeverGoesBack` while one session is there at a time |
| `core` | 2 tabs, both pairs of buttons, 2 runs, 2 failed writes, 2 crashes; 283 k states | `SnapshotFaithful`, `StopSticks`, `StartAcknowledged`, `RequestTaken` |
| `history_bootstrap` | 2 symbols, a pool of 1, 2 days of 2 stamps, 2 required rows, 2 providers with 1 retry, 2 bootstrap runs, 1 load, 1 failure or crash; 680 k states | `HistoryKept`, `ReadyIsDurable`, `RunEnds` |
| `feeds` | 2 sessions, 2 tokens, 1 order, adapter locked, with and without replay; 174 k states | `OneStream`, `OvertakenOnce`, and what the preferences keep (`LiveTypeOK`) |
| `scan` | 4 symbols (3 of one sector, 1 of them held from an earlier session or not), 3 downloads (one empty), 2 strategies, 2 scores, 2 scans, 1 fault, 2 slots, focus limit 2, capital 1000; 693 k states | `LimitsKept`, `MemoryAgrees`, `FocusKeepsPromises`, `ReducedBuysLess` |
| `strategies` | 10 candles and 2 more of 4 shapes, 2 surroundings, 1 moved candle, scaled lookbacks; 73 k states | `LevelsSound`, `BadNewsNeverHelps`, `StructureOfCandle`, `ZonesUsedUp`, `RescanSameLevels` |
| `paper_reviewed_once` | 2 symbols, prices 1, 4, 5, 1 restart, reviews answered | violated: a closing that was not saved is reviewed again after a restart |
| `paper_outcome_pnl` | the same | violated: the outcome counts the last leg twice |
| `paper_ledger_aligned` | the same, 1 abandoned script, no price of 0 | violated: a fill abandoned at AQ 13100 leaves shares without a position |
| `core_restart` | 2 tabs, the market page, 1 crash | violated: an engine that was monitoring comes back idle after a restart |
| `core_stop_tabs` | 2 tabs, the market page | violated: STOP in one tab leaves the other armed |

Why the bounds are enough for the questions. Two symbols are needed so that a
monitor loop has visited one and not the other when it is abandoned, and so that what
it leaves behind meets a later pass beside an open position; one abandoned script is
one place of all of them, and what it leaves (a stray lot, a closed position, a missed
profit) stays for every later step. The quantity 4 leaves a remainder (1, then 1, then
2) at targets 1 and 2, the quantity 2 ends at target 3; the price 5 reaches all targets
there are and, once the trailing level is 5, the stop, and 0 is the exit the ledger
skips. A second run id makes a key come back under another id. Review answers are FALSE
in `paper`, for an outcome changes nothing else, and TRUE in the two runs about
outcomes, whose quantities are not halved (8, and 1, which is sold out at target 1).
Any number of aborts, prices and symbols is the theorems' part. Two sessions and two
failed writes give every overlap of two saves, and a third inode is never missing
(`Free` is not empty: at most the file, the temporary and one orphan are named). Two
crashes leave a temporary file behind and meet it again. Two tabs race for one start,
and the run after it needs a second id.
`CHECK_DEADLOCK FALSE` is used where every bound can be spent and no position is
left (`PaperTrading`), where all scans are over and nothing is held (`ScanPipeline`),
and where all runs are over (`HistoryRepair`).
Two days with a freshness of 0 make a cache stale again after it was ready; their four
stamps give an answer that repeats a held stamp and one that adds to it, from either
provider and from either tool; two runs let the second trust the checkpoint of the
first. One failure at a time is enough for `RunEnds`; for the safety properties
the theorems cover any number.

Two strips in `feeds` let one download overtake the feed while the other waits,
two tokens let a second connection meet the first one's stream. In `scan` the caps
are scaled (25 % a trade, 35 % a sector, `MAX_OPEN_POSITIONS` 2) so that two
symbols of one sector reach the sector's cap before the slots are full; the third of
that sector may be held from before, and is in one of the two downloads only, so that
its sector is unknown in a scan of the other; the fourth, of unknown sector, is outside
the cap. Two scans let the second find what the first bought or awaited; one fault is
one lost write or one stage. The limits are
not about a size of capital: they are compared by cross-multiplication. In
`strategies` the history holds a base, an impulse and two rising swings, and the
two more days break out on volume, without, plunge through the base, or trade flat at
2 rupees after a split, in every order: each of the six strategies that make candidates
leaves some, and zones are tested, broken and missed.

Symmetry is used in `file_safety` only, whose properties are safety properties.

### Fairness

`FairSpec` assumes weak fairness of `WorkerBeat` (a daemon thread that wakes
every two seconds; the lock is never held across a wait) and of each tab's
`Script` as a whole (Streamlit runs a script to its end unless it is
interrupted). Nothing is assumed of users, crashes, or the outcome of a pipeline.
`RequestTaken` needs no fairness of a particular branch: the pending request is
taken by `LoadPage`, the only script step of phase "main". Writes may fail in this
run, and nothing catches an exception of `_persist` in the worker: with one the thread
may be gone for the life of the process and a start stays unacknowledged, short of
AQ 132, by which the core "owns the long-lived heartbeat". `StartAcknowledged` says so
much: acknowledged, or the worker is gone.

In `HistoryRepair` the pool's threads, the requests (each has a timeout) and the
coordinator are weakly fair; how a request ends, crashes, the clock and the other
tool are free.

No liveness is stated of the feeds: when live quotes come back depends on the exchange
and on the broker's library, which the code does not control.

### Findings

Each is a run that fails on purpose; PROJECT.json quotes the line it contradicts.

1. `paper_reviewed_once` - the review is written at once, the closing later.
2. `paper_outcome_pnl` - `reviewer.py:115` uses `total_pnl()` after the sale.
3. `paper_ledger_aligned` - the fill asks for `st.session_state` between its ledger
   and its position, and exits between their position and the ledger.
4. `core_restart` - the market page's RUN never tells the core.
5. `core_stop_tabs` - tabs copy the core's status up, never STOPPED back.

Two sessions that save at once through one temporary path (AQ 7417) can install a
file another one has just emptied, and can fill and report one candidate under one
key, as the key is looked up in the session only. The docstrings at AQ 7405
("Atomically checkpoint") and AQ 13061 ("exactly once") promise more. These two
divergences have no run of their own: `file_safety` states what holds until saves
overlap (`FileReadable`, `SaveInstalls`) and with one session at a time
(`ReportedOnce`), and `PaperStateFile` without those conditions shows both.

Other places where text promises more than the code does, without a run: the live
form, whose settings are not kept (section 2, MarketFeeds and LiveExecution); the
comment at `core/history.py:199`, by which the cache key is the last *completed*
candle, where the code takes `frame.index[-1]`, which may still form; and
`core/history.py:177`, by which `prepare_indicators` computes what production requires.

## 4. The proofs

Assumptions are those named in the modules: types of the constants and that
marker values differ from proper ones. No bound on the number of symbols,
candidates, sessions, tabs, prices or of steps.

* `PaperTradingProofs` begins with `PaperPosition`: a deal before and after each
  method is related by one relation, `Step` (same trade, money conserved, the lot less
  by what was sold at one price or not at all, stop protected, settled final); every
  method satisfies it, finished or dropped at any of its accesses, and it is
  transitive, so `CheckExits` and `ManagePosition` do.
  Of `PaperTrading`, `Safe` is inductive: `TypeOK`, both accounts are *sound* (every
  position protects its entry after target 1 and is *covered*: the ledger has the
  shares it still has to sell, at its entry), the loop visits only symbols that are
  there and removes only closed and archived positions, and
  `confirmed \subseteq saved.orders \subseteq session.orders`; the last is what a
  restart needs. From it follow `TypeOK`, `SharesCovered`, `ConfirmedFillsDurable`,
  `BreakEvenProtects`, `StopRatchet` and `SettledIsFinal`, and
  `EngineImplementsLedger`: each step is one purchase, one or no sale, a save, a
  recovery or a stutter of `PaperLedger`. At one price a position may book target 1,
  target 2 and the rest: they are one sale of the abstract ledger, as they have one
  price; an abandoned call is the sale of what it had booked by then.
  Nothing is assumed of the prices, nor of where or how often scripts are abandoned.
  `Accounted` adds what the money needs: cash, cost of the ledger's shares and of those
  it forgot balance with capital and profit; each known trade has an order and each
  order at most one trade; a trade told about in the archive is told about as it ended;
  and, while the account is aligned, its profit is the trades' and every order has its
  trade. An account that has missed something is never aligned again: shares whose sale
  or position was missed stay in the ledger or, written over, in `writtenOff`, as a lot
  never has a cost of 0. From it, `CashConserved`, `ProfitMatchesTrades` and `OneTradePerOrder`, whose sums run
  over any finite set of symbols or of trades.
* `SumLemmas` gives the last three their sums. The library states induction with an
  operator as parameter, which the provers cannot instantiate; here it is stated
  over sets. A set that holds 0 and every successor of its members holds `Nat`
  (`NatSetInduction`), and a family that holds {} and is closed under adding an
  element holds every finite set (`SubsetInduction`). From the second, the
  recursive function behind `SumFunctionOnSet` exists, and with it come the
  equations the proofs cite: remove or add an element, change one value, all
  zero, monotone.
* `PaperStateFileProofs`. `Inv` adds to `TypeOK` and `FileReadable`, as long as no
  saves overlapped: a saving session is loaded, the file and the temporary path
  name different inodes (or a handle would write into the file), at most one
  session saves and its handle is the temporary one. `Sole` adds, with one session
  at a time, that the session knows what the file knows (`Known`) and that a fill
  under way was not reported.
* `CoreRuntimeProofs`. `Inv` is `TypeOK` and `SnapshotFaithful`, inductive together:
  each change of the core is followed by its write, which succeeds or leaves `dirty`.
  `StopSticks` follows from it for a crash, where the file is what comes back.

* `HistoryRepairProofs`. A merge keeps every stamp of both frames (`MergeKeeps`),
  whichever candle it keeps. `Inv` adds to `TypeOK` that a writer that is not misled
  still has what the file holds (`KnowsFile`), and that whatever is held for ready, in
  the checkpoint, in the coordinator's memory or in a returned repair, has its rows in
  the file (`RowsBehindRecords`). `HistoryKept` follows from the first two facts; the
  last is kept because the stamps of a file only grow.

* `MarketFeedsProofs`. `LiveTypeOK` is inductive and carries what the preferences keep.
  `OneStream` needs `FeedFitsProcess` beside it: a process that replays never opens a
  socket, and one that does not never replays, or a start could turn one into the
  other. `OvertakenOnce` needs `DownloadsOnce`: a session that has its quotes has no
  download under way, so that the step that replaces live quotes is always the first
  publication of its session.

* `ScanPipelineProofs`, for any finite set of symbols, any frames, ideas, sectors,
  capital and restored positions. `LimitsKept` is a property of the purchases, and what
  an entry buys was sized two stages earlier, by an allocation that saw the positions
  of that moment. `Affordable` says what the queue carries between them: were all of it
  bought, the slots, shares and sectors it touches would still be within their limits,
  and every candidate of elevated volatility in it is already reduced. Positions
  restored past a limit stay past it and are no bar: nothing that touches that limit is
  then queued. It is established by the allocation, whose loop keeps `Round` (what was
  bought so far is paid from the slots and counted in its sector, which stays under its
  cap), and each entry or refusal takes one candidate off the bill. The sector of
  whatever is queued is known (`Handed`), and no sector becomes known between the
  allocation and the entry. `MemoryAgrees` needs `Handed` and `Dated` beside it: a
  queued or approved candidate's own row, if it was not lost, is pending; there is one
  candidate per symbol; and the rows of a scan do not exist before its consensus, so
  that a row about to be overwritten is never the one behind a held position. The
  types and these form `Inv`. `FocusKeepsPromises` is then a fact of one step,
  `FocusFacts`, about `Focus` for any ranking; `ReducedBuysLess` follows from
  `Affordable`. The loops are recursive functions: `LoopExists` shows that such a
  function exists, `LoopStays` carries a fact through its rounds, and `KeptFacts` is
  what a comprehension over a list keeps.

* `EvaluationProofs`, for any candles, lookbacks, profiles and days. Two definitions
  say what the strategies do: `Found(f, marked)`, the set of strategies that leave a
  candidate of frame f, and `Level(s, f)`, its entry and stop. Besides the frame only
  one bit of what the stock object has kept matters, `marked`: the VCP mark, which is
  set and never taken back. `Progress` says that, after the strategies in `done`, the
  candidates are those of `Found` in `done` at their levels; each strategy's lemma
  (`SqueezeRun` ... `GapRun`) takes it one strategy further, `AllRunFacts` chains them
  in the order of the registry, and the engines and the validation, `Advanced`, leave
  it alone. The patterns a strategy reads from the stock object are harmless because of
  `Aged`: they are only there when the frame is long enough for the strategy to write
  them anew, and frames only grow. `EvaluationInv` carries this over the caches: the
  VCP mark in the structure cache is also in the stock object while a result stands, and
  the structure stored for a day has the trend of the frame prepared on that day, which
  is the one that stays on the disk (`PreparedFacts`), however the last candle moves.
  From it, `RescanSameLevels` and `StructureOfCandle`; with `LevelsOrdered` (strategy
  by strategy, stop below entry), `LevelsSound`. `BadNewsNeverHelps` needs that the
  confidence is monotone in each component (`ConfidenceMonotone`), which goes through
  the rounding of `Reweighted` and a sum over the components. `ZonesUsedUp` is a fact
  of two frames: later ones keep every candle, and a low only falls.
  Of a candle only the types, low at most high, and a positive range average are
  assumed. That entry and stop differ needs a tenth of a percent of the high to be
  half a paisa at least, hence the 5 rupees in `LevelsSound`.

Only model-checked: the three liveness properties (`StartAcknowledged`,
`RequestTaken`, `RunEnds`). Liveness and ENABLED are out of the
prover's reach; so is what a recursive definition computes for every input, where no
induction over sets can stand in for it. Every invariant and action property of a
passing run is a theorem.

## 5. The plan

Done: paper trading and its file, the core, history, feeds and live execution, the
scan pipeline, and the evaluation of a symbol. In order of worth, what is left:

1. Theorems about operators that no property names yet: `PositionSize` and `Sized` on
   their own, the ranking of `Discovery`.
2. `PaperAccount` - capital change and reset over the ledger of `PaperTrading`, once
   a page routes to them.
3. The writes of a stage of the scan one by one, so that a script abandoned inside it
   leaves some of its rows.
4. `Candles` and `News` - buckets and volume baseline; claims of the alert worker.
5. The store of scoring profiles (draft, activate, fall back).

## 6. Not modelled

* No caller or no route in this commit: `discovery/warmup.py` (which would store a
  structure without market and patterns under the key the scan reads), `FeedWorker`,
  `BrokerQuoteWorker`, `mark_open` of the memory, the liquidity sweep strategy
  (not in the registry), the legacy `PaperBroker` and its engines, the pages with the
  capital and reset buttons, the Scoring V1 branch under the default settings.
* Numbers without control: indicators (pandas_ta), the observer's features, setup
  vectors, the analog engine and the backfill. The models take any of their answers
  from a small set.
* Values of quotes and their ages, the tiers of subscription and several broker
  profiles: `MarketFeeds` keeps the origin of quotes and one profile. The label of
  a strip is rendering; it can name another source than the one its prices came
  from, since a session keeps downloaded quotes while the broker state moves on.
* News refresh and alert claims, live candles, the paper validation self-test behind
  Developer Mode (AQ 12979-13038, which closes its position through `close_trade` and
  then credits the ledger once more): threads or buttons beside the path of a trade; see
  the plan.
* Rendering, forms and charts keep no state of interest beyond the buttons; headless
  wrappers, tools and tests drive the components above.

Hazards without a property are listed in PROJECT.json with the reason: the age of
quotes at an entry, a bad candle written by the validation tool, and the frames that
come without the columns the strategies read. Two others are covered only in part, as
their notes say: sectors that a restart forgets, and two tools on one history file.
