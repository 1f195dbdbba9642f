--------------------------- MODULE HistoryRepair ---------------------------
(***************************************************************************)
(* The cache of daily candles, one file per symbol, and the two programs   *)
(* that fill it: the resumable bootstrap, whose pool of workers runs       *)
(* HistoryService.repair and whose coordinator writes a checkpoint, and    *)
(* load_incremental_history, which the validation tool calls in a process  *)
(* of its own.  Both read a file, ask a provider, merge the answer and     *)
(* replace the file; their locks are those of one process.                 *)
(*                                                                         *)
(* A frame gives for each stamp of the naive UTC index its candle: none, a *)
(* good one, or a bad one that validate_ohlcv refuses.  Upstox stamps the  *)
(* midnight of India, which the conversion to UTC moves to 18:30 of the    *)
(* day before; Yahoo stamps the midnight of the day: the two stamps of a   *)
(* trading day differ.  A file that is missing and one that does not load  *)
(* are both the empty frame.  The range a provider is asked for is left    *)
(* out, since no answer is compared with it: an answer holds candles of    *)
(* any days so far, also of stamps the cache holds.  Of the statuses of a  *)
(* record only HISTORY_READY is told apart, as in the code's decisions.    *)
(***************************************************************************)
EXTENDS Integers, FiniteSets

CONSTANTS
  Symbols,     \* the symbols a run selects from the instrument master
  MaxDay,      \* bound: days
  Required,    \* REQUIRED_ROWS
  Freshness,   \* MAX_FRESHNESS_DAYS
  Retries,     \* retries of a provider after its first attempt
  Providers,   \* length of the longest chain of providers
  Workers,     \* size of the bootstrap's pool
  MaxRuns,     \* bound: bootstrap runs
  MaxLoads,    \* bound: calls of load_incremental_history
  MaxFaults    \* bound: failed reads, writes and checkpoints, interrupts, crashes

ASSUME SizesAssumption ==
  /\ MaxDay \in Nat \ {0} /\ Workers \in Nat \ {0}
  /\ {Required, Freshness, Retries, Providers} \subseteq Nat
ASSUME LimitsAssumption == {MaxRuns, MaxLoads, MaxFaults} \subseteq Nat

VARIABLES
  today,       \* the current UTC day
  cache,       \* per symbol, the frame in its file
  checkpoint,  \* the symbols whose row in the checkpoint file is ready
  tool,        \* the bootstrap's coordinator
  job,         \* per symbol, its repair in the pool
  load,        \* per symbol, a load_incremental_history under way
  doubtful,    \* history: symbols written by a writer that had not read the file
  runs, loads, faults   \* counters (bounds only)

counters == <<runs, loads, faults>>
vars == <<today, cache, checkpoint, tool, job, load, doubtful, counters>>

\* Day d of Upstox is stamped 2 * d - 1, day d of Yahoo 2 * d.
Stamps == 1 .. 2 * MaxDay
TradingDay(t) == (t + 1) \div 2
UtcDay(t) == t \div 2

Candles == {"none", "good", "bad"}
Frames == [Stamps -> Candles]

Empty == [t \in Stamps |-> "none"]
Held(f) == {t \in Stamps : f[t] # "none"}
HasBad(f) == \E t \in Stamps : f[t] = "bad"

\* cache_readiness is HISTORY_READY: valid, long enough and fresh.
Ready(f) ==
  /\ ~HasBad(f)
  /\ Held(f) # {} /\ Cardinality(Held(f)) >= Required
  /\ \E t \in Held(f) : today - UtcDay(t) <= Freshness

\* Mutant: the answer replaces the file.
MergesFreshOnly(f, g) == {g}

\* The cached candles with those of an answer.  One of two candles with a stamp
\* is kept: either, because the index is sorted before the last is chosen, by a
\* sort that is not stable.
Merges(f, g) ==
  {[t \in Stamps |-> IF g[t] = "none" \/ t \in kept THEN f[t] ELSE g[t]] :
     kept \in SUBSET (Held(f) \cap Held(g))}

Upstox == {t \in Stamps : t % 2 = 1}
Yahoo == Stamps \ Upstox

\* The frames of at least one candle, with the stamps of one provider.
Answers(providers, candles) ==
  {g \in [Stamps -> candles \cup {"none"}] :
     Held(g) # {} /\ \E style \in providers : Held(g) \subseteq style}

\* The valid answers repair may get, and those of load_incremental_history.
RepairAnswers == Answers({Upstox, Yahoo}, {"good"})
LoadAnswers == Answers({Yahoo}, {"good", "bad"})

\* The stamps of the days so far, which an answer is made of.
Past == {t \in Stamps : TradingDay(t) <= today}

\* The frames a reading f may become with one of the answers.
Updates(f, answers) ==
  UNION {Merges(f, g) : g \in {a \in answers : Held(a) \subseteq Past}}

NoJob == [step |-> "none", cached |-> Empty, left |-> 0, attempt |-> 0,
          misled |-> FALSE, ready |-> FALSE]
NoLoad == [step |-> "none", cached |-> Empty, misled |-> FALSE]
Idle == [phase |-> "idle", providers |-> 0, completed |-> {}]

Init ==
  /\ today = 1
  /\ cache = [s \in Symbols |-> Empty]
  /\ checkpoint = {}
  /\ tool = Idle
  /\ job = [s \in Symbols |-> NoJob]
  /\ load = [s \in Symbols |-> NoLoad]
  /\ doubtful = {}
  /\ runs = 0 /\ loads = 0 /\ faults = 0

-----------------------------------------------------------------------------
(***************************************************************************)
(* Files.                                                                  *)
(***************************************************************************)

Fault == faults < MaxFaults /\ faults' = faults + 1

\* read_cache: an error of the file system reads as an empty frame.
Reads(s, f) ==
  \/ f = cache[s] /\ UNCHANGED faults
  \/ f = Empty /\ cache[s] # Empty /\ Fault

\* _atomic_pickle: the file is replaced at once; a writer that read something
\* else than the file holds makes the symbol doubtful.
Replaces(s, f, misled) ==
  /\ cache' = [cache EXCEPT ![s] = f]
  /\ doubtful' = IF misled THEN doubtful \cup {s} ELSE doubtful

Overtaken(w, s) == [w EXCEPT ![s].misled = (w[s].step = "fetch" \/ w[s].misled)]

-----------------------------------------------------------------------------
(***************************************************************************)
(* The bootstrap's coordinator.                                            *)
(***************************************************************************)

\* Only rows that are ready in the checkpoint and in the cache are skipped.
\* The chain is cut by --provider, and by a missing or a refused token.
StartRun(resume, chain) ==
  /\ tool.phase = "idle" /\ runs < MaxRuns
  /\ runs' = runs + 1
  /\ LET completed == IF resume THEN checkpoint ELSE {}
         work == Symbols \ {s \in completed : Ready(cache[s])}
     IN /\ tool' = [phase |-> "running", providers |-> chain, completed |-> completed]
        /\ job' = [s \in Symbols |-> IF s \in work THEN [NoJob EXCEPT !.step = "queued"]
                                                   ELSE NoJob]
  /\ UNCHANGED <<today, cache, checkpoint, load, doubtful, loads, faults>>

\* atomic_json: the new checkpoint replaces the old one, or the write is
\* deferred and the old one stays until the next repair returns.
SaveCheckpoint ==
  \/ checkpoint' = tool'.completed /\ UNCHANGED faults
  \/ Fault /\ UNCHANGED checkpoint

\* A repair that returned is recorded, and the checkpoint written.
Collect(s) ==
  /\ tool.phase = "running" /\ job[s].step = "returned"
  /\ tool' = [tool EXCEPT !.completed = IF job[s].ready THEN tool.completed \cup {s}
                                                      ELSE tool.completed \ {s}]
  /\ job' = [job EXCEPT ![s] = NoJob]
  /\ SaveCheckpoint
  /\ UNCHANGED <<today, cache, load, doubtful, runs, loads>>

\* future.result() raises, or the checkpoint's temporary file cannot be
\* written: leaving the pool waits for every repair, the queued ones included.
CollectRaises(s) ==
  /\ tool.phase = "running"
  /\ \/ job[s].step = "raised" /\ UNCHANGED faults
     \/ job[s].step = "returned" /\ Fault
  /\ tool' = [tool EXCEPT !.phase = "draining"]
  /\ UNCHANGED <<today, cache, checkpoint, job, load, doubtful, runs, loads>>

\* Ctrl-C: as an exception, with the pool drained before the message.
Interrupt ==
  /\ tool.phase = "running" /\ Fault
  /\ tool' = [tool EXCEPT !.phase = "draining"]
  /\ UNCHANGED <<today, cache, checkpoint, job, load, doubtful, runs, loads>>

Finish ==
  /\ \/ tool.phase = "running" /\ \A s \in Symbols : job[s].step = "none"
     \/ tool.phase = "draining" /\ \A s \in Symbols : job[s].step \notin {"queued", "fetch"}
  /\ tool' = Idle
  /\ job' = [s \in Symbols |-> NoJob]
  /\ UNCHANGED <<today, cache, checkpoint, load, doubtful, counters>>

\* The process is killed: files stay, also a temporary one nobody reads.
Crash ==
  /\ tool.phase # "idle" /\ Fault
  /\ tool' = Idle
  /\ job' = [s \in Symbols |-> NoJob]
  /\ UNCHANGED <<today, cache, checkpoint, load, doubtful, runs, loads>>

-----------------------------------------------------------------------------
(***************************************************************************)
(* HistoryService.repair in the pool.                                      *)
(***************************************************************************)

Returned(ready) ==
  [step |-> "returned", cached |-> Empty, left |-> 0, attempt |-> 0,
   misled |-> FALSE, ready |-> ready]

Busy == {s \in Symbols : job[s].step = "fetch"}

\* The cache is read: it is ready, or providers are asked, if there are any.
\* A symbol the master marks as delisted is answered without either.
Begin(s) ==
  /\ job[s].step = "queued" /\ Cardinality(Busy) < Workers
  /\ \/ \E f \in {cache[s], Empty} :
          /\ Reads(s, f)
          /\ job' = [job EXCEPT ![s] =
               IF Ready(f) THEN Returned(TRUE)
               ELSE IF tool.providers = 0 THEN Returned(FALSE)
               ELSE [step |-> "fetch", cached |-> f, left |-> tool.providers,
                     attempt |-> 0, misled |-> (f # cache[s]), ready |-> FALSE]]
     \/ /\ job' = [job EXCEPT ![s] = Returned(FALSE)]
        /\ UNCHANGED faults
  /\ UNCHANGED <<today, cache, checkpoint, tool, load, doubtful, runs, loads>>

\* Mutant: a provider that failed is tried again.
NextProviderAgain(j) == [j EXCEPT !.attempt = 0]

\* The next provider of the chain, or the end of it.
NextProvider(j) ==
  IF j.left > 1 THEN [j EXCEPT !.left = j.left - 1, !.attempt = 0]
                ELSE Returned(FALSE)

\* Mutant: the retries are not limited.
RetriedUnlimited(j) == [j EXCEPT !.attempt = j.attempt + 1]

\* After a rate limit, a timeout or an error of the provider.
Retried(j) ==
  IF j.attempt < Retries THEN [j EXCEPT !.attempt = j.attempt + 1] ELSE NextProvider(j)

\* One attempt fails.  Refused credentials, an unknown symbol, no data, or a
\* frame that does not validate by itself or with the cached one, are final.
FetchFails(s) ==
  /\ job[s].step = "fetch"
  /\ \E j \in {Retried(job[s]), NextProvider(job[s])} : job' = [job EXCEPT ![s] = j]
  /\ UNCHANGED <<today, cache, checkpoint, tool, load, doubtful, counters>>

\* The valid frames that a valid answer gives with the cached one.
Valid(f) ==
  {h \in Updates(f, RepairAnswers) : ~HasBad(h)}

\* Mutant: the file is left for later.
FetchReturnsUnsaved(s) ==
  /\ job[s].step = "fetch"
  /\ \E h \in Valid(job[s].cached) : job' = [job EXCEPT ![s] = Returned(Ready(h))]
  /\ UNCHANGED <<today, cache, checkpoint, tool, load, doubtful, counters>>

\* A valid answer that merges into a valid frame: the file, then the record.
FetchSucceeds(s) ==
  /\ job[s].step = "fetch"
  /\ \E h \in Valid(job[s].cached) :
       /\ Replaces(s, h, job[s].misled)
       /\ job' = [job EXCEPT ![s] = Returned(Ready(h))]
  /\ load' = Overtaken(load, s)
  /\ UNCHANGED <<today, checkpoint, tool, counters>>

\* The file cannot be written: nothing catches it in the worker.
FetchRaises(s) ==
  /\ job[s].step = "fetch" /\ Valid(job[s].cached) # {}
  /\ Fault
  /\ job' = [job EXCEPT ![s] = [NoJob EXCEPT !.step = "raised"]]
  /\ UNCHANGED <<today, cache, checkpoint, tool, load, doubtful, runs, loads>>

-----------------------------------------------------------------------------
(***************************************************************************)
(* load_incremental_history in another process.                            *)
(***************************************************************************)

\* A cache that reaches the previous day is returned as it is.
LoadBegin(s) ==
  /\ load[s].step = "none" /\ loads < MaxLoads
  /\ loads' = loads + 1
  /\ \E f \in {cache[s], Empty} :
       /\ Reads(s, f)
       /\ \A t \in Held(f) : UtcDay(t) < today - 1
       /\ load' = [load EXCEPT ![s] = [step |-> "fetch", cached |-> f,
                                       misled |-> (f # cache[s])]]
  /\ UNCHANGED <<today, cache, checkpoint, tool, job, doubtful, runs>>

\* The answer, of Yahoo alone, is normalized, and written without validation.
LoadStores(s) ==
  /\ load[s].step = "fetch"
  /\ \E h \in Updates(load[s].cached, LoadAnswers) : Replaces(s, h, load[s].misled)
  /\ load' = [load EXCEPT ![s] = NoLoad]
  /\ job' = Overtaken(job, s)
  /\ UNCHANGED <<today, checkpoint, tool, counters>>

\* No data, an error, a failed write or the end of the process: nothing is written.
LoadEnds(s) ==
  /\ load[s].step = "fetch"
  /\ load' = [load EXCEPT ![s] = NoLoad]
  /\ UNCHANGED <<today, cache, checkpoint, tool, job, doubtful, counters>>

NextDay ==
  /\ today < MaxDay
  /\ today' = today + 1
  /\ UNCHANGED <<cache, checkpoint, tool, job, load, doubtful, counters>>

-----------------------------------------------------------------------------
Fetch(s) == FetchFails(s) \/ FetchSucceeds(s) \/ FetchRaises(s)

Start ==
  \E resume \in BOOLEAN, chain \in 0 .. Providers : StartRun(resume, chain)

Next ==
  \/ Start \/ Interrupt \/ Finish \/ Crash \/ NextDay
  \/ \E s \in Symbols : Begin(s) \/ Fetch(s) \/ Collect(s) \/ CollectRaises(s)
  \/ \E s \in Symbols : LoadBegin(s) \/ LoadStores(s) \/ LoadEnds(s)

Spec == Init /\ [][Next]_vars

\* The pool's threads and the coordinator run on, and every request of a
\* provider ends by its timeout, in any way.
Fairness ==
  /\ WF_vars(Finish)
  /\ \A s \in Symbols : /\ WF_vars(Begin(s))
                        /\ WF_vars(Fetch(s))
                        /\ WF_vars(Collect(s) \/ CollectRaises(s))

FairSpec == Spec /\ Fairness

-----------------------------------------------------------------------------
(***************************************************************************)
(* Properties.                                                             *)
(***************************************************************************)

Jobs == [step: {"none", "queued", "fetch", "returned", "raised"}, cached: Frames,
         left: 0 .. Providers, attempt: 0 .. Retries,
         misled: BOOLEAN, ready: BOOLEAN]
Loads == [step: {"none", "fetch"}, cached: Frames, misled: BOOLEAN]

\* Every variable has its type; in particular the attempts at one provider and
\* the providers left stay within repair's two loops.
TypeOK ==
  /\ today \in 1 .. MaxDay
  /\ cache \in [Symbols -> Frames]
  /\ checkpoint \in SUBSET Symbols
  /\ tool \in [phase: {"idle", "running", "draining"}, providers: 0 .. Providers,
               completed: SUBSET Symbols]
  /\ job \in [Symbols -> Jobs]
  /\ load \in [Symbols -> Loads]
  /\ doubtful \in SUBSET Symbols
  /\ runs \in 0 .. MaxRuns /\ loads \in 0 .. MaxLoads
  /\ faults \in 0 .. MaxFaults

\* "Preserve valid LKG even when repair fails": whatever fails, retries, dies or
\* is interrupted, and whatever days an answer repeats, no stamp of the cache
\* loses its candle, unless it was written by a writer whose read had failed or
\* was overtaken by the other tool.
HistoryKept ==
  [][\A s \in Symbols :
       s \notin doubtful' => Held(cache[s]) \subseteq Held(cache'[s])]_vars

\* "Only durable ready results are complete": a symbol that the checkpoint
\* reports ready has the required rows on disk, on the same condition, whatever
\* the other tool has stored since.
ReadyIsDurable ==
  \A s \in checkpoint \ doubtful : Cardinality(Held(cache[s])) >= Required

\* A bootstrap run ends, however the providers answer and the checkpoint fails.
RunEnds == (tool.phase # "idle") ~> (tool.phase = "idle")

=============================================================================
