------------------------- MODULE CoreRuntimeProofs -------------------------
(***************************************************************************)
(* Theorems about the control plane for any number of tabs, runs, failed   *)
(* writes and crashes.                                                     *)
(***************************************************************************)
EXTENDS CoreRuntime, TLAPS

TabStates == [Tabs -> [phase: Phases, armed: BOOLEAN, pending: BOOLEAN]]

Inv == TypeOK /\ SnapshotFaithful

LEMMA InvInit == Init => Inv
<1> SUFFICES ASSUME Init PROVE Inv
  OBVIOUS
<1>1. core \in Snapshots
  BY DEF Init, Snapshots, Statuses
<1>2. file \in Snapshots
  BY <1>1 DEF Init
<1>3. worker \in [alive: BOOLEAN, beat: BOOLEAN] /\ tab \in TabStates
  BY DEF Init, NewTab, TabStates, Phases
<1>4. issued \in 0 .. MaxRuns /\ faults \in 0 .. MaxFaults /\ crashes \in 0 .. MaxCrashes
  BY BoundsAssumption DEF Init
<1>5. halted \in SUBSET Tabs /\ {engaged, resume, dirty} \subseteq BOOLEAN
  BY DEF Init
<1>6. TypeOK
  BY <1>1, <1>2, <1>3, <1>4, <1>5 DEF TypeOK, TabStates
<1>7. SnapshotFaithful
  BY DEF Init, SnapshotFaithful
<1>8. QED
  BY <1>6, <1>7 DEF Inv

\* A write keeps or repairs the agreement of the file with the core.
LEMMA WriteFaithful ==
  ASSUME Written \/ WriteFailed
  PROVE  SnapshotFaithful'
BY DEF Written, WriteFailed, SnapshotFaithful

LEMMA WriteTypes ==
  ASSUME TypeOK, core' \in Snapshots', issued' \in Nat, issued <= issued', issued' <= MaxRuns,
         Written \/ WriteFailed
  PROVE  /\ file' \in Snapshots' /\ dirty' \in BOOLEAN
         /\ faults' \in 0 .. MaxFaults
<1>1. file' = core' \/ file' = file
  BY DEF Written, WriteFailed
<1>2. issued \in Nat
  BY BoundsAssumption DEF TypeOK
<1>3. file \in Snapshots'
  <2>1. file.run \in 0 .. issued'
    BY <1>2 DEF TypeOK, Snapshots
  <2>2. QED
    BY <2>1 DEF TypeOK, Snapshots
<1>4. dirty' \in BOOLEAN /\ faults' \in 0 .. MaxFaults
  <2>1. faults \in 0 .. MaxFaults /\ MaxFaults \in Nat
    BY BoundsAssumption DEF TypeOK
  <2>2. CASE Written
    BY <2>1, <2>2 DEF Written
  <2>3. CASE WriteFailed
    BY <2>1, <2>3 DEF WriteFailed
  <2>4. QED
    BY <2>2, <2>3
<1>5. QED
  BY <1>1, <1>3, <1>4

LEMMA TypeNext ==
  ASSUME TypeOK, [Next]_vars
  PROVE  TypeOK'
<1> USE BoundsAssumption
<1>1. CASE WorkerBeat
  <2>1. core' \in Snapshots'
    BY <1>1 DEF WorkerBeat, TypeOK, Snapshots, Statuses, BeatStatus
  <2>2. issued' = issued /\ issued \in Nat /\ issued <= MaxRuns
    BY <1>1 DEF WorkerBeat, TypeOK
  <2>3. Written \/ WriteFailed
    BY <1>1 DEF WorkerBeat
  <2>4. file' \in Snapshots' /\ dirty' \in BOOLEAN /\ faults' \in 0 .. MaxFaults
    BY <2>1, <2>2, <2>3, WriteTypes
  <2>5. worker' \in [alive: BOOLEAN, beat: BOOLEAN]
    BY <1>1 DEF WorkerBeat, TypeOK
  <2>6. QED
    BY <1>1, <2>1, <2>2, <2>4, <2>5 DEF WorkerBeat, TypeOK, hist
<1>2. ASSUME NEW x \in Tabs,
             \/ LoadPage(x) \/ PipelineSucceeds(x) \/ PipelineFails(x) \/ PublishSkipped(x)
             \/ Rendered(x) \/ Interact(x) \/ Reload(x) \/ MarketRun(x)
             \/ ProductRunRefused(x)
      PROVE  TypeOK'
  <2>1. /\ UNCHANGED <<core, file, worker, dirty, issued, crashes>>
        /\ Snapshots' = Snapshots
    BY <1>2 DEF LoadPage, PipelineSucceeds, PipelineFails, PublishSkipped, Rendered,
                Interact, Reload, MarketRun, ProductRunRefused, hist, Snapshots
  <2>2. tab' \in TabStates
    <3>1. tab \in TabStates
      BY DEF TypeOK, TabStates
    <3>2. CASE LoadPage(x)
      BY <3>1, <3>2 DEF LoadPage, TabStates, Phases
    <3>3. CASE PipelineSucceeds(x)
      BY <3>1, <3>3 DEF PipelineSucceeds, TabStates, Phases
    <3>4. CASE PipelineFails(x) \/ PublishSkipped(x) \/ Rendered(x) \/ Interact(x)
      BY <3>1, <3>4 DEF PipelineFails, PublishSkipped, Rendered, Interact, TabStates, Phases
    <3>5. CASE Reload(x)
      BY <3>1, <3>5 DEF Reload, NewTab, TabStates, Phases
    <3>6. CASE MarketRun(x)
      BY <3>1, <3>6 DEF MarketRun, TabStates, Phases
    <3>7. CASE ProductRunRefused(x)
      BY <3>1, <3>7 DEF ProductRunRefused, TabStates, Phases
    <3>8. QED
      BY <1>2, <3>2, <3>3, <3>4, <3>5, <3>6, <3>7
  <2>3. halted' \in SUBSET Tabs /\ {engaged', resume', dirty} \subseteq BOOLEAN
    BY <1>2 DEF LoadPage, PipelineSucceeds, PipelineFails, PublishSkipped, Rendered,
                Interact, Reload, MarketRun, ProductRunRefused, TypeOK, hist
  <2>4. faults' \in 0 .. MaxFaults
    BY <1>2 DEF LoadPage, PipelineSucceeds, PipelineFails, PublishSkipped, Rendered,
                Interact, Reload, MarketRun, ProductRunRefused, TypeOK
  <2>5. QED
    BY <2>1, <2>2, <2>3, <2>4 DEF TypeOK, TabStates
<1>3. ASSUME NEW x \in Tabs, Publish(x) \/ MarketStop(x) \/ ProductStop(x)
      PROVE  TypeOK'
  <2>1. issued' = issued /\ issued \in Nat /\ issued <= MaxRuns
    BY <1>3 DEF Publish, MarketStop, ProductStop, TypeOK
  <2>2. core' \in Snapshots'
    BY <1>3, <2>1 DEF Publish, MarketStop, ProductStop, TypeOK, Snapshots, Statuses, Published
  <2>3. Written \/ WriteFailed
    BY <1>3 DEF Publish, MarketStop, ProductStop
  <2>4. file' \in Snapshots' /\ dirty' \in BOOLEAN /\ faults' \in 0 .. MaxFaults
    BY <2>1, <2>2, <2>3, WriteTypes
  <2>5. tab' \in [Tabs -> [phase: Phases, armed: BOOLEAN, pending: BOOLEAN]]
    BY <1>3 DEF Publish, MarketStop, ProductStop, TypeOK, Phases
  <2>6. /\ halted' \in SUBSET Tabs /\ {engaged', resume'} \subseteq BOOLEAN
        /\ worker' = worker /\ crashes' = crashes
    BY <1>3 DEF Publish, MarketStop, ProductStop, StopHistory, TypeOK, hist
  <2>7. QED
    BY <2>1, <2>2, <2>4, <2>5, <2>6 DEF TypeOK
<1>4. ASSUME NEW x \in Tabs, ProductRun(x)
      PROVE  TypeOK'
  <2>1. issued' = issued + 1 /\ issued' \in Nat /\ issued <= issued' /\ issued' <= MaxRuns
    BY <1>4 DEF ProductRun, TypeOK
  <2>2. core' \in Snapshots'
    BY <1>4, <2>1 DEF ProductRun, Snapshots, Statuses
  <2>3. Written \/ WriteFailed
    BY <1>4 DEF ProductRun
  <2>4. file' \in Snapshots' /\ dirty' \in BOOLEAN /\ faults' \in 0 .. MaxFaults
    BY <2>1, <2>2, <2>3, WriteTypes
  <2>5. tab' \in [Tabs -> [phase: Phases, armed: BOOLEAN, pending: BOOLEAN]]
    BY <1>4 DEF ProductRun, TypeOK, Phases
  <2>6. halted' \in SUBSET Tabs
    BY <1>4 DEF ProductRun, TypeOK
  <2>7. QED
    BY <1>4, <2>1, <2>2, <2>4, <2>5, <2>6 DEF ProductRun, TypeOK
<1>5. CASE Crash
  <2>1. core' \in Snapshots' /\ Snapshots' = Snapshots
    BY <1>5 DEF Crash, TypeOK, Snapshots, Statuses, Loaded
  <2>2. tab' \in [Tabs -> [phase: Phases, armed: BOOLEAN, pending: BOOLEAN]]
    BY <1>5 DEF Crash, NewTab, Phases
  <2>3. crashes' \in 0 .. MaxCrashes
    <3>1. crashes' = crashes + 1 /\ crashes < MaxCrashes /\ crashes \in 0 .. MaxCrashes
      BY <1>5 DEF Crash, TypeOK
    <3>2. QED
      BY <3>1
  <2>4. worker' \in [alive: BOOLEAN, beat: BOOLEAN]
    <3>1. worker' = [worker EXCEPT !.alive = TRUE] /\ worker \in [alive: BOOLEAN, beat: BOOLEAN]
      BY <1>5 DEF Crash, TypeOK
    <3>2. QED
      BY <3>1
  <2>5. resume' \in BOOLEAN
    BY <1>5 DEF Crash, TypeOK
  <2>6. QED
    BY <1>5, <2>1, <2>2, <2>3, <2>4, <2>5 DEF Crash, TypeOK
<1>6. CASE UNCHANGED vars
  BY <1>6 DEF vars, hist, TypeOK, Snapshots
<1>7. QED
  BY <1>1, <1>2, <1>3, <1>4, <1>5, <1>6 DEF Next, Script, Buttons

\* Every step writes the file, keeps it beside an unchanged core, or is the
\* crash that loads it.
LEMMA FaithfulNext ==
  ASSUME SnapshotFaithful, [Next]_vars
  PROVE  SnapshotFaithful'
<1>1. CASE Written \/ WriteFailed
  BY <1>1, WriteFaithful
<1>2. CASE UNCHANGED <<core, file, dirty>>
  BY <1>2 DEF SnapshotFaithful
<1>3. CASE Crash
  <2>1. /\ file' = file
        /\ core' = [file EXCEPT !.status = Loaded(file.status)]
    BY <1>3 DEF Crash
  <2>2. QED
    BY <2>1 DEF SnapshotFaithful, Loaded
<1>4. Written \/ WriteFailed \/ UNCHANGED <<core, file, dirty>> \/ Crash
  BY DEF Next, Script, Buttons, WorkerBeat, LoadPage, PipelineSucceeds, PipelineFails,
         Publish, PublishSkipped, Rendered, Interact, Reload, MarketRun, ProductRun,
         ProductRunRefused, MarketStop, ProductStop, hist, vars
<1>5. QED
  BY <1>1, <1>2, <1>3, <1>4

LEMMA InvAlways == Spec => []Inv
<1>1. Inv /\ [Next]_vars => Inv'
  BY TypeNext, FaithfulNext DEF Inv
<1>2. QED
  BY InvInit, <1>1, PTL DEF Spec

\* The control plane's state is well formed: a run id is never above the ids
\* handed out, in the core and in the file.
THEOREM TypeCorrect == Spec => []TypeOK
<1>1. Inv => TypeOK
  BY DEF Inv
<1>2. QED
  BY <1>1, InvAlways, PTL

\* The recovery file agrees with the core unless its last write failed.
THEOREM SnapshotAlwaysFaithful == Spec => []SnapshotFaithful
<1>1. Inv => SnapshotFaithful
  BY DEF Inv
<1>2. QED
  BY <1>1, InvAlways, PTL

\* Nothing but a new run takes the core out of STOPPED.
THEOREM StoppedStaysStopped == Spec => StopSticks
<1> DEFINE Sticks == (core.status = "STOPPED" /\ core'.status # "STOPPED")
                       => core'.run # core.run \/ dirty
<1>1. Inv /\ [Next]_vars => [Sticks]_vars
  <2> SUFFICES ASSUME Inv, [Next]_vars PROVE Sticks
    OBVIOUS
  <2>1. core \in Snapshots /\ issued \in Nat
    BY BoundsAssumption DEF Inv, TypeOK
  <2>2. CASE WorkerBeat
    BY <2>2 DEF WorkerBeat
  <2>3. ASSUME NEW x \in Tabs, Publish(x)
        PROVE  Sticks
    BY <2>1, <2>3 DEF Publish, Published, Snapshots
  <2>4. ASSUME NEW x \in Tabs, ProductRun(x)
        PROVE  Sticks
    <3>1. core'.run = issued + 1
      BY <2>4 DEF ProductRun
    <3>2. core.run \in Nat /\ core.run <= issued
      BY <2>1 DEF Snapshots
    <3>3. QED
      BY <2>1, <3>1, <3>2
  <2>5. ASSUME NEW x \in Tabs, MarketStop(x) \/ ProductStop(x)
        PROVE  Sticks
    BY <2>1, <2>5 DEF MarketStop, ProductStop, Snapshots
  <2>6. CASE Crash
    <3>1. core' = [file EXCEPT !.status = Loaded(file.status)] /\ file \in Snapshots
      BY <2>6 DEF Crash, Inv, TypeOK
    <3>2. core'.status = Loaded(file.status)
      BY <3>1 DEF Snapshots
    <3>3. QED
      BY <3>2 DEF Inv, SnapshotFaithful, Loaded
  <2>7. CASE UNCHANGED core
    BY <2>7
  <2>8. \/ WorkerBeat \/ Crash \/ UNCHANGED core
        \/ \E x \in Tabs : \/ Publish(x) \/ ProductRun(x)
                           \/ MarketStop(x) \/ ProductStop(x)
    BY DEF Next, Script, Buttons, LoadPage, PipelineSucceeds, PipelineFails,
           PublishSkipped, Rendered, Interact, Reload, MarketRun,
           ProductRunRefused, vars
  <2>9. QED
    BY <2>2, <2>3, <2>4, <2>5, <2>6, <2>7, <2>8
<1>2. QED
  BY <1>1, InvAlways, PTL DEF Spec, StopSticks

=============================================================================
