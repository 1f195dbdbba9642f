------------------------ MODULE HistoryRepairProofs ------------------------
(***************************************************************************)
(* Theorems about the history cache for any number of symbols, days,       *)
(* providers, retries, runs and failures.                                  *)
(***************************************************************************)
EXTENDS HistoryRepair, FiniteSetTheorems, TLAPS

-----------------------------------------------------------------------------
(***************************************************************************)
(* Frames.                                                                 *)
(***************************************************************************)

LEMMA EmptyFrame == Empty \in Frames /\ Held(Empty) = {} /\ ~Ready(Empty)
BY DEF Empty, Frames, Candles, Held, Ready

\* A merge is a frame, and holds a candle for every stamp that was held.
LEMMA MergeKeeps ==
  ASSUME NEW f \in Frames, NEW g \in Frames, NEW h \in Merges(f, g)
  PROVE  h \in Frames /\ Held(f) \subseteq Held(h)
<1>1. PICK kept \in SUBSET (Held(f) \cap Held(g)) :
        h = [t \in Stamps |-> IF g[t] = "none" \/ t \in kept THEN f[t] ELSE g[t]]
  BY DEF Merges
<1>2. \A t \in Stamps : f[t] \in Candles /\ g[t] \in Candles
  BY DEF Frames
<1>3. h \in Frames
  BY <1>1, <1>2 DEF Frames
<1>4. \A t \in Held(f) : t \in Stamps /\ h[t] # "none"
  BY <1>1 DEF Held
<1>5. QED
  BY <1>3, <1>4 DEF Held

\* The answers of both tools are frames.
LEMMA AnswerFrames == RepairAnswers \subseteq Frames /\ LoadAnswers \subseteq Frames
BY DEF RepairAnswers, LoadAnswers, Answers, Frames, Candles

\* What a reading becomes with an answer is a frame that holds what was read.
LEMMA UpdateKeeps ==
  ASSUME NEW f \in Frames, NEW h \in Updates(f, RepairAnswers) \cup Updates(f, LoadAnswers)
  PROVE  h \in Frames /\ Held(f) \subseteq Held(h)
<1>1. PICK g \in RepairAnswers \cup LoadAnswers : h \in Merges(f, g)
  BY DEF Updates
<1>2. g \in Frames
  BY AnswerFrames
<1>3. QED
  BY <1>1, <1>2, MergeKeeps

LEMMA ValidUpdates ==
  ASSUME NEW f, NEW h \in Valid(f)
  PROVE  h \in Updates(f, RepairAnswers)
BY DEF Valid

LEMMA HeldIsFinite ==
  ASSUME NEW f
  PROVE  IsFiniteSet(Held(f)) /\ Cardinality(Held(f)) \in Nat
<1>1. IsFiniteSet(Stamps)
  BY FS_Interval, SizesAssumption DEF Stamps
<1>2. Held(f) \subseteq Stamps
  BY DEF Held
<1>3. IsFiniteSet(Held(f))
  BY <1>1, <1>2, FS_Subset
<1>4. QED
  BY <1>3, FS_CardinalityType

\* A frame that holds what another holds has at least as many rows.
LEMMA HeldGrows ==
  ASSUME NEW f, NEW h, Held(f) \subseteq Held(h)
  PROVE  Cardinality(Held(f)) <= Cardinality(Held(h))
BY HeldIsFinite, FS_Subset

-----------------------------------------------------------------------------
(***************************************************************************)
(* Types.                                                                  *)
(***************************************************************************)

LEMMA NoJobTypes ==
  /\ NoJob \in Jobs /\ NoLoad \in Loads
  /\ [NoJob EXCEPT !.step = "queued"] \in Jobs
  /\ [NoJob EXCEPT !.step = "raised"] \in Jobs
  /\ \A ready \in BOOLEAN : Returned(ready) \in Jobs
<1>1. 0 \in 0 .. Providers /\ 0 \in 0 .. Retries
  BY SizesAssumption
<1>2. NoJob \in Jobs
  BY <1>1, EmptyFrame DEF NoJob, Jobs
<1>3. NoLoad \in Loads
  BY EmptyFrame DEF NoLoad, Loads
<1>4. \A step \in {"queued", "raised"} : [NoJob EXCEPT !.step = step] \in Jobs
  BY <1>2 DEF Jobs
<1>5. ASSUME NEW ready \in BOOLEAN PROVE Returned(ready) \in Jobs
  BY <1>1, EmptyFrame DEF Returned, Jobs
<1>6. QED
  BY <1>2, <1>3, <1>4, <1>5

LEMMA FailureTypes ==
  ASSUME NEW j \in Jobs
  PROVE  NextProvider(j) \in Jobs /\ Retried(j) \in Jobs
<1>1. /\ j.left \in 0 .. Providers /\ j.attempt \in 0 .. Retries
      /\ Providers \in Nat /\ Retries \in Nat
  BY SizesAssumption DEF Jobs
<1>2. NextProvider(j) \in Jobs
  <2>1. CASE j.left > 1
    <3>1. j.left - 1 \in 0 .. Providers /\ 0 \in 0 .. Retries
      BY <1>1, <2>1
    <3>2. [j EXCEPT !.left = j.left - 1, !.attempt = 0] \in Jobs
      BY <3>1 DEF Jobs
    <3>3. QED
      BY <2>1, <3>2 DEF NextProvider
  <2>2. CASE ~(j.left > 1)
    BY <2>2, NoJobTypes DEF NextProvider
  <2>3. QED
    BY <2>1, <2>2
<1>3. ASSUME j.attempt < Retries PROVE [j EXCEPT !.attempt = j.attempt + 1] \in Jobs
  <2>1. j.attempt + 1 \in 0 .. Retries
    BY <1>1, <1>3
  <2>2. QED
    BY <2>1 DEF Jobs
<1>4. QED
  BY <1>2, <1>3 DEF Retried

LEMMA FaultTypes ==
  ASSUME faults \in 0 .. MaxFaults, Fault
  PROVE  faults' \in 0 .. MaxFaults
BY LimitsAssumption DEF Fault

LEMMA OvertakenTypes ==
  ASSUME NEW s \in Symbols
  PROVE  /\ job \in [Symbols -> Jobs] => Overtaken(job, s) \in [Symbols -> Jobs]
         /\ load \in [Symbols -> Loads] => Overtaken(load, s) \in [Symbols -> Loads]
<1>1. ASSUME job \in [Symbols -> Jobs] PROVE Overtaken(job, s) \in [Symbols -> Jobs]
  <2>1. (job[s].step = "fetch" \/ job[s].misled) \in BOOLEAN
    OBVIOUS
  <2>2. [job[s] EXCEPT !.misled = (job[s].step = "fetch" \/ job[s].misled)] \in Jobs
    BY <1>1, <2>1 DEF Jobs
  <2>3. QED
    BY <1>1, <2>2 DEF Overtaken
<1>2. ASSUME load \in [Symbols -> Loads] PROVE Overtaken(load, s) \in [Symbols -> Loads]
  <2>1. (load[s].step = "fetch" \/ load[s].misled) \in BOOLEAN
    OBVIOUS
  <2>2. [load[s] EXCEPT !.misled = (load[s].step = "fetch" \/ load[s].misled)] \in Loads
    BY <1>2, <2>1 DEF Loads
  <2>3. QED
    BY <1>2, <2>2 DEF Overtaken
<1>3. QED
  BY <1>1, <1>2

LEMMA TypeInit == Init => TypeOK
BY EmptyFrame, NoJobTypes, SizesAssumption, LimitsAssumption DEF Init, TypeOK, Idle

LEMMA ReadTypes ==
  ASSUME TypeOK, NEW s \in Symbols, NEW f \in {cache[s], Empty}, Reads(s, f)
  PROVE  f \in Frames /\ Ready(f) \in BOOLEAN /\ faults' \in 0 .. MaxFaults
<1>1. f \in Frames
  BY EmptyFrame DEF TypeOK
<1>2. faults' \in 0 .. MaxFaults
  BY FaultTypes DEF TypeOK, Reads
<1>3. QED
  BY <1>1, <1>2 DEF Ready

\* What a step of the pool does to a job, and a load to a cache, is well typed.
LEMMA BeginTypes ==
  ASSUME TypeOK, NEW s \in Symbols, Begin(s)
  PROVE  job' \in [Symbols -> Jobs] /\ faults' \in 0 .. MaxFaults
<1>1. job \in [Symbols -> Jobs] /\ faults \in 0 .. MaxFaults /\ tool.providers \in 0 .. Providers
  BY DEF TypeOK
<1>2. ASSUME NEW f \in {cache[s], Empty}, Reads(s, f)
      PROVE  [step |-> "fetch", cached |-> f, left |-> tool.providers,
              attempt |-> 0, misled |-> (f # cache[s]), ready |-> FALSE] \in Jobs
  <2>1. f \in Frames
    BY <1>2, ReadTypes
  <2>2. 0 \in 0 .. Retries
    BY SizesAssumption
  <2>3. QED
    BY <1>1, <2>1, <2>2 DEF Jobs
<1>3. \E j \in Jobs : job' = [job EXCEPT ![s] = j]
  <2>1. CASE job' = [job EXCEPT ![s] = Returned(FALSE)]
    BY <2>1, NoJobTypes
  <2>2. CASE job' # [job EXCEPT ![s] = Returned(FALSE)]
    <3>1. PICK f \in {cache[s], Empty} :
            /\ Reads(s, f)
            /\ job' = [job EXCEPT ![s] =
                 IF Ready(f) THEN Returned(TRUE)
                 ELSE IF tool.providers = 0 THEN Returned(FALSE)
                 ELSE [step |-> "fetch", cached |-> f, left |-> tool.providers, attempt |-> 0,
                       misled |-> (f # cache[s]), ready |-> FALSE]]
      BY <2>2 DEF Begin
    <3>2. QED
      BY <1>2, <3>1, NoJobTypes
  <2>3. QED
    BY <2>1, <2>2
<1>4. faults' \in 0 .. MaxFaults
  BY <1>1, ReadTypes DEF Begin
<1>5. QED
  BY <1>1, <1>3, <1>4

LEMMA LoadBeginTypes ==
  ASSUME TypeOK, NEW s \in Symbols, LoadBegin(s)
  PROVE  /\ load' \in [Symbols -> Loads] /\ faults' \in 0 .. MaxFaults
         /\ loads' \in 0 .. MaxLoads
<1>1. load \in [Symbols -> Loads] /\ loads \in 0 .. MaxLoads
  BY DEF TypeOK
<1>2. PICK f \in {cache[s], Empty} :
        /\ Reads(s, f)
        /\ load' = [load EXCEPT ![s] = [step |-> "fetch", cached |-> f, misled |-> (f # cache[s])]]
  BY DEF LoadBegin
<1>3. f \in Frames /\ faults' \in 0 .. MaxFaults
  BY <1>2, ReadTypes
<1>4. [step |-> "fetch", cached |-> f, misled |-> (f # cache[s])] \in Loads
  BY <1>3 DEF Loads
<1>5. loads' \in 0 .. MaxLoads
  BY <1>1, LimitsAssumption DEF LoadBegin
<1>6. QED
  BY <1>1, <1>2, <1>3, <1>4, <1>5

LEMMA FetchSucceedsTypes ==
  ASSUME TypeOK, NEW s \in Symbols, FetchSucceeds(s)
  PROVE  /\ cache' \in [Symbols -> Frames] /\ doubtful' \in SUBSET Symbols
         /\ job' \in [Symbols -> Jobs] /\ load' \in [Symbols -> Loads]
<1>1. /\ job \in [Symbols -> Jobs] /\ load \in [Symbols -> Loads]
      /\ cache \in [Symbols -> Frames] /\ doubtful \in SUBSET Symbols
  BY DEF TypeOK
<1>2. PICK h \in Valid(job[s].cached) :
        /\ Replaces(s, h, job[s].misled)
        /\ job' = [job EXCEPT ![s] = Returned(Ready(h))]
  BY DEF FetchSucceeds
<1>3. job[s].cached \in Frames
  BY <1>1 DEF Jobs
<1>4. h \in Frames
  BY <1>2, <1>3, ValidUpdates, UpdateKeeps
<1>5. cache' \in [Symbols -> Frames] /\ doubtful' \in SUBSET Symbols
  BY <1>1, <1>2, <1>4 DEF Replaces
<1>6. Returned(Ready(h)) \in Jobs
  BY NoJobTypes DEF Ready
<1>7. load' \in [Symbols -> Loads]
  BY <1>1, OvertakenTypes DEF FetchSucceeds
<1>8. QED
  BY <1>1, <1>2, <1>5, <1>6, <1>7

LEMMA LoadStoresTypes ==
  ASSUME TypeOK, NEW s \in Symbols, LoadStores(s)
  PROVE  /\ cache' \in [Symbols -> Frames] /\ doubtful' \in SUBSET Symbols
         /\ job' \in [Symbols -> Jobs] /\ load' \in [Symbols -> Loads]
<1>1. /\ job \in [Symbols -> Jobs] /\ load \in [Symbols -> Loads]
      /\ cache \in [Symbols -> Frames] /\ doubtful \in SUBSET Symbols
  BY DEF TypeOK
<1>2. PICK h \in Updates(load[s].cached, LoadAnswers) : Replaces(s, h, load[s].misled)
  BY DEF LoadStores
<1>3. load[s].cached \in Frames
  BY <1>1 DEF Loads
<1>4. h \in Frames
  BY <1>2, <1>3, UpdateKeeps
<1>5. cache' \in [Symbols -> Frames] /\ doubtful' \in SUBSET Symbols
  BY <1>1, <1>2, <1>4 DEF Replaces
<1>6. job' \in [Symbols -> Jobs] /\ load' \in [Symbols -> Loads]
  BY <1>1, OvertakenTypes, NoJobTypes DEF LoadStores
<1>7. QED
  BY <1>5, <1>6

LEMMA TypeNext == TypeOK /\ [Next]_vars => TypeOK'
<1> SUFFICES ASSUME TypeOK, [Next]_vars PROVE TypeOK'
  OBVIOUS
<1>1. ASSUME NEW resume \in BOOLEAN, NEW chain \in 0 .. Providers, StartRun(resume, chain)
      PROVE  TypeOK'
  <2>1. runs' \in 0 .. MaxRuns
    BY <1>1, LimitsAssumption DEF TypeOK, StartRun
  <2>2. tool' \in [phase: {"idle", "running", "draining"}, providers: 0 .. Providers,
                   completed: SUBSET Symbols]
    BY <1>1 DEF TypeOK, StartRun
  <2>3. job' \in [Symbols -> Jobs]
    BY <1>1, NoJobTypes DEF StartRun
  <2>4. QED
    BY <1>1, <2>1, <2>2, <2>3 DEF TypeOK, StartRun
<1>2. ASSUME NEW s \in Symbols, Collect(s) PROVE TypeOK'
  <2>1. tool' \in [phase: {"idle", "running", "draining"}, providers: 0 .. Providers,
                   completed: SUBSET Symbols]
    <3>1. (IF job[s].ready THEN tool.completed \cup {s} ELSE tool.completed \ {s})
            \in SUBSET Symbols
      BY DEF TypeOK
    <3>2. QED
      BY <1>2, <3>1 DEF TypeOK, Collect
  <2>2. checkpoint' \in SUBSET Symbols /\ faults' \in 0 .. MaxFaults
    BY <1>2, <2>1, FaultTypes DEF TypeOK, Collect, SaveCheckpoint
  <2>3. job' \in [Symbols -> Jobs]
    BY <1>2, NoJobTypes DEF TypeOK, Collect
  <2>4. QED
    BY <1>2, <2>1, <2>2, <2>3 DEF TypeOK, Collect
<1>3. ASSUME NEW s \in Symbols, CollectRaises(s) PROVE TypeOK'
  <2>1. faults' \in 0 .. MaxFaults
    BY <1>3, FaultTypes DEF TypeOK, CollectRaises
  <2>2. QED
    BY <1>3, <2>1 DEF TypeOK, CollectRaises
<1>4. CASE Interrupt
  <2>1. faults' \in 0 .. MaxFaults
    BY <1>4, FaultTypes DEF TypeOK, Interrupt
  <2>2. QED
    BY <1>4, <2>1 DEF TypeOK, Interrupt
<1>5. CASE Finish
  BY <1>5, NoJobTypes, SizesAssumption DEF TypeOK, Finish, Idle, counters
<1>6. CASE Crash
  <2>1. faults' \in 0 .. MaxFaults
    BY <1>6, FaultTypes DEF TypeOK, Crash
  <2>2. QED
    BY <1>6, <2>1, NoJobTypes, SizesAssumption DEF TypeOK, Crash, Idle
<1>7. ASSUME NEW s \in Symbols, Begin(s) PROVE TypeOK'
  BY <1>7, BeginTypes DEF TypeOK, Begin
<1>8. ASSUME NEW s \in Symbols, FetchFails(s) PROVE TypeOK'
  <2>1. job' \in [Symbols -> Jobs]
    BY <1>8, FailureTypes DEF TypeOK, FetchFails
  <2>2. QED
    BY <1>8, <2>1 DEF TypeOK, FetchFails, counters
<1>9. ASSUME NEW s \in Symbols, FetchSucceeds(s) PROVE TypeOK'
  BY <1>9, FetchSucceedsTypes DEF TypeOK, FetchSucceeds, counters
<1>10. ASSUME NEW s \in Symbols, FetchRaises(s) PROVE TypeOK'
  <2>1. faults' \in 0 .. MaxFaults /\ job' \in [Symbols -> Jobs]
    BY <1>10, FaultTypes, NoJobTypes DEF TypeOK, FetchRaises
  <2>2. QED
    BY <1>10, <2>1 DEF TypeOK, FetchRaises
<1>11. ASSUME NEW s \in Symbols, LoadBegin(s) PROVE TypeOK'
  BY <1>11, LoadBeginTypes DEF TypeOK, LoadBegin
<1>12. ASSUME NEW s \in Symbols, LoadStores(s) PROVE TypeOK'
  BY <1>12, LoadStoresTypes DEF TypeOK, LoadStores, counters
<1>13. ASSUME NEW s \in Symbols, LoadEnds(s) PROVE TypeOK'
  BY <1>13, NoJobTypes DEF TypeOK, LoadEnds, counters
<1>14. CASE NextDay
  <2>1. today' \in 1 .. MaxDay
    BY <1>14, SizesAssumption DEF TypeOK, NextDay
  <2>2. QED
    BY <1>14, <2>1 DEF TypeOK, NextDay, counters
<1>15. CASE UNCHANGED vars
  BY <1>15 DEF TypeOK, vars, counters
<1>16. QED
  BY <1>1, <1>2, <1>3, <1>4, <1>5, <1>6, <1>7, <1>8, <1>9, <1>10, <1>11, <1>12, <1>13,
     <1>14, <1>15 DEF Next, Start, Fetch

\* Type correctness of the bootstrap, its cache and the other tool: repair's two
\* loops never count beyond the retries and the providers they were given.
THEOREM TypeCorrect == Spec => []TypeOK
<1>1. QED
  BY TypeInit, TypeNext, PTL DEF Spec

-----------------------------------------------------------------------------
(***************************************************************************)
(* What the writers know, and what the records are worth.                  *)
(***************************************************************************)

\* A writer that is not misled still has what the file holds.
KnowsFile ==
  \A s \in Symbols :
    /\ (job[s].step = "fetch" /\ ~job[s].misled) => job[s].cached = cache[s]
    /\ (load[s].step = "fetch" /\ ~load[s].misled) => load[s].cached = cache[s]

\* A symbol is held for ready: in the checkpoint, in the coordinator's memory,
\* or by a repair that has returned.
HeldReady(s) ==
  s \in checkpoint \/ s \in tool.completed \/ (job[s].step = "returned" /\ job[s].ready)

RowsBehindRecords ==
  \A s \in Symbols : (HeldReady(s) /\ s \notin doubtful) =>
    Cardinality(Held(cache[s])) >= Required

Inv == TypeOK /\ KnowsFile /\ RowsBehindRecords

LEMMA InvInit == Init => Inv
<1> SUFFICES ASSUME Init PROVE Inv
  OBVIOUS
<1>1. KnowsFile
  BY DEF Init, KnowsFile, NoJob, NoLoad
<1>2. RowsBehindRecords
  BY DEF Init, RowsBehindRecords, HeldReady, NoJob, Idle
<1>3. QED
  BY <1>1, <1>2, TypeInit DEF Inv

Asking(s, f) ==
  [step |-> "fetch", cached |-> f, left |-> tool.providers,
   attempt |-> 0, misled |-> (f # cache[s]), ready |-> FALSE]

\* How a repair begins: it returns, or it asks for what its reading misses.
LEMMA BeginCases ==
  ASSUME TypeOK, NEW s \in Symbols, Begin(s)
  PROVE  \E j : /\ job' = [job EXCEPT ![s] = j]
                /\ \/ j = Returned(FALSE)
                   \/ Ready(cache[s]) /\ j = Returned(TRUE)
                   \/ \E f \in {cache[s], Empty} : j = Asking(s, f)
<1>1. CASE job' = [job EXCEPT ![s] = Returned(FALSE)]
  BY <1>1
<1>2. CASE job' # [job EXCEPT ![s] = Returned(FALSE)]
  <2>1. PICK f \in {cache[s], Empty} :
          /\ Reads(s, f)
          /\ job' = [job EXCEPT ![s] =
               IF Ready(f) THEN Returned(TRUE)
               ELSE IF tool.providers = 0 THEN Returned(FALSE)
               ELSE Asking(s, f)]
    BY <1>2 DEF Begin, Asking
  <2>2. Ready(f) => f = cache[s]
    BY EmptyFrame
  <2>3. CASE Ready(f)
    BY <2>1, <2>2, <2>3
  <2>4. CASE ~Ready(f)
    BY <1>2, <2>1, <2>4
  <2>5. QED
    BY <2>3, <2>4
<1>3. QED
  BY <1>1, <1>2

\* A replacement by a writer that knows the file keeps what the file holds.
LEMMA ReplaceKeeps ==
  ASSUME TypeOK, NEW s \in Symbols, NEW w \in Jobs \cup Loads,
         NEW h \in Updates(w.cached, RepairAnswers) \cup Updates(w.cached, LoadAnswers),
         ~w.misled => w.cached = cache[s], Replaces(s, h, w.misled)
  PROVE  /\ doubtful \subseteq doubtful'
         /\ \A x \in Symbols : x \notin doubtful' => Held(cache[x]) \subseteq Held(cache'[x])
<1>1. w.cached \in Frames
  BY DEF Jobs, Loads
<1>2. Held(w.cached) \subseteq Held(h)
  BY <1>1, UpdateKeeps
<1>3. cache' = [cache EXCEPT ![s] = h] /\ cache \in [Symbols -> Frames]
  BY DEF Replaces, TypeOK
<1>4. doubtful \subseteq doubtful' /\ (w.misled => s \in doubtful')
  BY DEF Replaces
<1>5. ASSUME NEW x \in Symbols, x \notin doubtful'
      PROVE  Held(cache[x]) \subseteq Held(cache'[x])
  <2>1. CASE x = s
    <3>1. w.cached = cache[s] /\ cache'[s] = h
      BY <1>3, <1>4, <1>5, <2>1
    <3>2. QED
      BY <1>2, <2>1, <3>1
  <2>2. CASE x # s
    <3>1. cache'[x] = cache[x]
      BY <1>3, <2>2
    <3>2. QED
      BY <3>1
  <2>3. QED
    BY <2>1, <2>2
<1>6. QED
  BY <1>4, <1>5

LEMMA KeptStep ==
  ASSUME TypeOK, KnowsFile, [Next]_vars
  PROVE  /\ doubtful \subseteq doubtful'
         /\ \A x \in Symbols : x \notin doubtful' => Held(cache[x]) \subseteq Held(cache'[x])
<1>1. ASSUME NEW s \in Symbols, FetchSucceeds(s)
      PROVE  /\ doubtful \subseteq doubtful'
             /\ \A x \in Symbols :
                  x \notin doubtful' => Held(cache[x]) \subseteq Held(cache'[x])
  <2>1. PICK h \in Valid(job[s].cached) : Replaces(s, h, job[s].misled)
    BY <1>1 DEF FetchSucceeds
  <2>2. job[s] \in Jobs /\ h \in Updates(job[s].cached, RepairAnswers)
    BY <2>1, ValidUpdates DEF TypeOK
  <2>3. ~job[s].misled => job[s].cached = cache[s]
    BY <1>1 DEF KnowsFile, FetchSucceeds
  <2>4. QED
    BY <2>1, <2>2, <2>3, ReplaceKeeps
<1>2. ASSUME NEW s \in Symbols, LoadStores(s)
      PROVE  /\ doubtful \subseteq doubtful'
             /\ \A x \in Symbols :
                  x \notin doubtful' => Held(cache[x]) \subseteq Held(cache'[x])
  <2>1. PICK h \in Updates(load[s].cached, LoadAnswers) : Replaces(s, h, load[s].misled)
    BY <1>2 DEF LoadStores
  <2>2. load[s] \in Loads
    BY DEF TypeOK
  <2>3. ~load[s].misled => load[s].cached = cache[s]
    BY <1>2 DEF KnowsFile, LoadStores
  <2>4. QED
    BY <2>1, <2>2, <2>3, ReplaceKeeps
<1>3. (\A s \in Symbols : ~FetchSucceeds(s) /\ ~LoadStores(s))
        => UNCHANGED <<cache, doubtful>>
  BY DEF Next, Start, StartRun, Interrupt, Finish, Crash, NextDay, Begin, Fetch, FetchFails,
         FetchRaises, Collect, CollectRaises, LoadBegin, LoadEnds, vars
<1>4. QED
  BY <1>1, <1>2, <1>3

LEMMA KnowsStep ==
  ASSUME TypeOK, KnowsFile, [Next]_vars
  PROVE  KnowsFile'
<1>1. /\ job \in [Symbols -> Jobs] /\ load \in [Symbols -> Loads]
      /\ cache \in [Symbols -> Frames]
  BY DEF TypeOK
<1>2. CASE Start
  BY <1>2 DEF Start, StartRun, KnowsFile, NoJob
<1>3. CASE Finish \/ Crash
  BY <1>3 DEF Finish, Crash, KnowsFile, NoJob
<1>4. ASSUME NEW s \in Symbols, Begin(s) PROVE KnowsFile'
  <2>1. PICK j : /\ job' = [job EXCEPT ![s] = j]
                 /\ \/ j = Returned(FALSE)
                    \/ j = Returned(TRUE)
                    \/ \E f \in {cache[s], Empty} : j = Asking(s, f)
    BY <1>4, BeginCases
  <2>2. (j.step = "fetch" /\ ~j.misled) => j.cached = cache[s]
    <3>1. CASE j = Returned(FALSE) \/ j = Returned(TRUE)
      BY <3>1 DEF Returned
    <3>2. ASSUME NEW f, j = Asking(s, f)
          PROVE  (j.step = "fetch" /\ ~j.misled) => j.cached = cache[s]
      BY <3>2 DEF Asking
    <3>3. QED
      BY <2>1, <3>1, <3>2
  <2>3. QED
    BY <1>1, <1>4, <2>1, <2>2 DEF KnowsFile, Begin
<1>5. ASSUME NEW s \in Symbols, FetchFails(s) PROVE KnowsFile'
  <2>1. PICK j \in {Retried(job[s]), NextProvider(job[s])} : job' = [job EXCEPT ![s] = j]
    BY <1>5 DEF FetchFails
  <2>2. (j.misled = job[s].misled /\ j.cached = job[s].cached) \/ j = Returned(FALSE)
    BY <1>1, <2>1 DEF Retried, NextProvider, Jobs
  <2>3. (j.step = "fetch" /\ ~j.misled) => j.cached = cache[s]
    BY <1>5, <2>2 DEF KnowsFile, Returned, FetchFails
  <2>4. QED
    BY <1>1, <1>5, <2>1, <2>3 DEF KnowsFile, FetchFails
<1>6. ASSUME NEW s \in Symbols, FetchSucceeds(s) PROVE KnowsFile'
  <2>1. job'[s].step = "returned"
    BY <1>1, <1>6 DEF FetchSucceeds, Returned
  <2>2. \A x \in Symbols \ {s} : job'[x] = job[x] /\ cache'[x] = cache[x] /\ load'[x] = load[x]
    BY <1>1, <1>6 DEF FetchSucceeds, Replaces, Overtaken
  <2>3. load'[s].step = "fetch" => load'[s].misled
    BY <1>1, <1>6 DEF FetchSucceeds, Overtaken, Loads
  <2>4. QED
    BY <2>1, <2>2, <2>3 DEF KnowsFile
<1>7. ASSUME NEW s \in Symbols, FetchRaises(s) \/ Collect(s) PROVE KnowsFile'
  BY <1>1, <1>7 DEF FetchRaises, Collect, KnowsFile, NoJob
<1>8. ASSUME NEW s \in Symbols, LoadBegin(s) PROVE KnowsFile'
  <2>1. PICK f \in {cache[s], Empty} :
          load' = [load EXCEPT ![s] = [step |-> "fetch", cached |-> f, misled |-> (f # cache[s])]]
    BY <1>8 DEF LoadBegin
  <2>2. ~load'[s].misled => load'[s].cached = cache[s]
    BY <1>1, <2>1
  <2>3. \A x \in Symbols \ {s} : load'[x] = load[x]
    BY <1>1, <2>1
  <2>4. UNCHANGED <<job, cache>>
    BY <1>8 DEF LoadBegin
  <2>5. QED
    BY <2>2, <2>3, <2>4 DEF KnowsFile
<1>9. ASSUME NEW s \in Symbols, LoadStores(s) PROVE KnowsFile'
  <2>1. load'[s].step = "none"
    BY <1>1, <1>9 DEF LoadStores, NoLoad
  <2>2. \A x \in Symbols \ {s} : job'[x] = job[x] /\ cache'[x] = cache[x] /\ load'[x] = load[x]
    BY <1>1, <1>9 DEF LoadStores, Replaces, Overtaken
  <2>3. job'[s].step = "fetch" => job'[s].misled
    BY <1>1, <1>9 DEF LoadStores, Overtaken, Jobs
  <2>4. QED
    BY <2>1, <2>2, <2>3 DEF KnowsFile
<1>10. ASSUME NEW s \in Symbols, LoadEnds(s) PROVE KnowsFile'
  BY <1>1, <1>10 DEF LoadEnds, KnowsFile, NoLoad
<1>11. CASE Interrupt \/ NextDay \/ \E s \in Symbols : CollectRaises(s)
  BY <1>11 DEF Interrupt, NextDay, CollectRaises, KnowsFile
<1>12. CASE UNCHANGED vars
  BY <1>12 DEF vars, KnowsFile
<1>13. QED
  BY <1>2, <1>3, <1>4, <1>5, <1>6, <1>7, <1>8, <1>9, <1>10, <1>11, <1>12 DEF Next, Fetch

\* A symbol newly held for ready has its rows in the file.
LEMMA NewlyReady ==
  ASSUME TypeOK, [Next]_vars, NEW x \in Symbols, ~HeldReady(x), HeldReady(x)'
  PROVE  Cardinality(Held(cache'[x])) >= Required
<1>1. /\ job \in [Symbols -> Jobs] /\ cache \in [Symbols -> Frames]
      /\ tool \in [phase: {"idle", "running", "draining"}, providers: 0 .. Providers,
                   completed: SUBSET Symbols]
  BY DEF TypeOK
<1>2. CASE Begin(x)
  <2>1. PICK j : /\ job' = [job EXCEPT ![x] = j]
                 /\ \/ j = Returned(FALSE)
                    \/ Ready(cache[x]) /\ j = Returned(TRUE)
                    \/ \E f \in {cache[x], Empty} : j = Asking(x, f)
    BY <1>2, BeginCases
  <2>2. j.step = "returned" /\ j.ready
    BY <1>1, <1>2, <2>1 DEF HeldReady, Begin
  <2>3. Ready(cache[x])
    BY <2>1, <2>2 DEF Returned, Asking
  <2>4. cache' = cache
    BY <1>2 DEF Begin
  <2>5. QED
    BY <2>3, <2>4 DEF Ready
<1>3. CASE FetchSucceeds(x)
  <2>1. PICK h \in Valid(job[x].cached) :
          /\ cache' = [cache EXCEPT ![x] = h]
          /\ job' = [job EXCEPT ![x] = Returned(Ready(h))]
    BY <1>3 DEF FetchSucceeds, Replaces
  <2>2. Ready(h)
    BY <1>1, <1>3, <2>1 DEF HeldReady, FetchSucceeds, Returned
  <2>3. cache'[x] = h
    BY <1>1, <2>1
  <2>4. QED
    BY <2>2, <2>3 DEF Ready
<1>4. CASE ~Begin(x) /\ ~FetchSucceeds(x)
  <2>1. CASE Start
    BY <2>1 DEF Start, StartRun, HeldReady, NoJob
  <2>2. CASE Finish \/ Crash
    BY <2>2 DEF Finish, Crash, HeldReady, NoJob, Idle
  <2>3. ASSUME NEW s \in Symbols, FetchFails(s) PROVE FALSE
    <3>1. PICK j \in {Retried(job[s]), NextProvider(job[s])} : job' = [job EXCEPT ![s] = j]
      BY <2>3 DEF FetchFails
    <3>2. job[s].step = "fetch" /\ job[s] \in Jobs
      BY <1>1, <2>3 DEF FetchFails
    <3>3. j.step = "fetch" \/ j = Returned(FALSE)
      BY <3>1, <3>2 DEF Retried, NextProvider, Jobs
    <3>4. j.step = "returned" => ~j.ready
      BY <3>3 DEF Returned
    <3>5. QED
      BY <1>1, <2>3, <3>1, <3>4 DEF HeldReady, FetchFails
  <2>4. ASSUME NEW s \in Symbols, s # x, Begin(s) \/ FetchSucceeds(s) PROVE FALSE
    BY <1>1, <2>4 DEF Begin, FetchSucceeds, HeldReady
  <2>5. ASSUME NEW s \in Symbols, FetchRaises(s) PROVE FALSE
    BY <1>1, <2>5 DEF FetchRaises, NoJob, HeldReady
  <2>6. ASSUME NEW s \in Symbols, Collect(s) PROVE FALSE
    BY <1>1, <2>6 DEF Collect, SaveCheckpoint, NoJob, HeldReady, TypeOK
  <2>7. ASSUME NEW s \in Symbols, LoadStores(s) PROVE FALSE
    BY <1>1, <2>7 DEF LoadStores, Overtaken, HeldReady, Jobs
  <2>8. ASSUME NEW s \in Symbols, LoadBegin(s) \/ LoadEnds(s) \/ CollectRaises(s) PROVE FALSE
    <3>1. UNCHANGED <<checkpoint, job>> /\ tool'.completed = tool.completed
      BY <1>1, <2>8 DEF LoadBegin, LoadEnds, CollectRaises
    <3>2. QED
      BY <3>1 DEF HeldReady
  <2>9. CASE Interrupt \/ NextDay \/ UNCHANGED vars
    <3>1. UNCHANGED <<checkpoint, job>> /\ tool'.completed = tool.completed
      BY <1>1, <2>9 DEF Interrupt, NextDay, vars
    <3>2. QED
      BY <3>1 DEF HeldReady
  <2>10. QED
    BY <1>4, <2>1, <2>2, <2>3, <2>4, <2>5, <2>6, <2>7, <2>8, <2>9 DEF Next, Fetch
<1>5. QED
  BY <1>2, <1>3, <1>4

LEMMA InvNext == Inv /\ [Next]_vars => Inv'
<1> SUFFICES ASSUME Inv, [Next]_vars PROVE Inv'
  OBVIOUS
<1>1. TypeOK /\ TypeOK' /\ KnowsFile'
  BY TypeNext, KnowsStep DEF Inv
<1>2. ASSUME NEW x \in Symbols, HeldReady(x)', x \notin doubtful'
      PROVE  Cardinality(Held(cache'[x])) >= Required
  <2>1. CASE HeldReady(x)
    <3>1. x \notin doubtful /\ Held(cache[x]) \subseteq Held(cache'[x])
      BY <1>2, KeptStep DEF Inv
    <3>2. Cardinality(Held(cache[x])) >= Required
      BY <2>1, <3>1 DEF Inv, RowsBehindRecords
    <3>3. Cardinality(Held(cache[x])) <= Cardinality(Held(cache'[x]))
      BY <3>1, HeldGrows
    <3>4. QED
      BY <3>2, <3>3, HeldIsFinite, SizesAssumption
  <2>2. CASE ~HeldReady(x)
    BY <1>1, <1>2, <2>2, NewlyReady
  <2>3. QED
    BY <2>1, <2>2
<1>3. QED
  BY <1>1, <1>2 DEF Inv, RowsBehindRecords

\* Whatever fails, is retried, interrupted or killed, for any number of runs and
\* whatever stamps the answers repeat, a writer that had read the file leaves a
\* candle at every stamp that held one.
THEOREM HistoryIsKept == Spec => HistoryKept
<1>1. Inv /\ [Next]_vars => [\A s \in Symbols :
          s \notin doubtful' => Held(cache[s]) \subseteq Held(cache'[s])]_vars
  BY KeptStep DEF Inv
<1>2. QED
  BY <1>1, InvInit, InvNext, PTL DEF Spec, HistoryKept

\* A symbol that the checkpoint reports ready has the required rows on disk.
THEOREM CheckpointIsDurable == Spec => []ReadyIsDurable
<1>1. Inv => ReadyIsDurable
  BY DEF Inv, TypeOK, RowsBehindRecords, HeldReady, ReadyIsDurable
<1>2. QED
  BY <1>1, InvInit, InvNext, PTL DEF Spec

=============================================================================
