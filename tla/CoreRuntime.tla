---------------------------- MODULE CoreRuntime ----------------------------
(***************************************************************************)
(* The process-wide control plane (AlphaQuantCoreRuntime) and the browser  *)
(* tabs that drive it.  Each tab is a Streamlit session whose script runs  *)
(* from the top on every interaction; the core is one object per process,  *)
(* guarded by a lock, with a daemon worker thread and a recovery file.     *)
(*                                                                         *)
(* A script run goes through the phases "main" (the start of main()),      *)
(* "pipeline" and "publish" (when a run was requested), "render" (the      *)
(* buttons are evaluated) and "page" (finished, waiting for the user).     *)
(*                                                                         *)
(* heartbeat(worker) only fills health fields and is left out, and so is   *)
(* the wake event: it shortens the worker's wait of two seconds.           *)
(***************************************************************************)
EXTENDS Naturals, FiniteSets

CONSTANTS
  Tabs,        \* browser tabs
  Controls,    \* RUN/STOP buttons a page shows: "market", "product" or both
  MaxRuns,     \* bound: run ids handed out
  MaxFaults,   \* bound: failed writes
  MaxCrashes   \* bound: crashes of the process

ASSUME ControlsAssumption == Controls \subseteq {"market", "product"}
ASSUME BoundsAssumption == MaxRuns \in Nat /\ MaxFaults \in Nat /\ MaxCrashes \in Nat

VARIABLES
  core,      \* state["status"] and state["run_id"]; run 0 stands for None
  file,      \* the same fields in runtime_state.json
  worker,    \* the thread: alive, and a bit that each heartbeat flips
  tab,       \* per tab: phase, autonomous_active, alphaquant_run_pending
  halted,    \* history: tabs where no run was requested since the last STOP
  engaged,   \* history: a run was published, and no STOP since it was requested
  resume,    \* history: engaged when the process crashed, no command since
  dirty,     \* history: the last write of the file failed
  issued,    \* run ids handed out so far
  faults,    \* failed writes so far (bound only)
  crashes    \* crashes so far (bound only)

hist == <<halted, engaged, resume>>
vars == <<core, file, worker, tab, hist, dirty, issued, faults, crashes>>

Statuses == {"STOPPED", "STARTING", "RUNNING", "MONITORING", "RESTORED"}
Phases == {"main", "pipeline", "publish", "render", "page"}

\* A page never loaded.
NewTab == [phase |-> "main", armed |-> FALSE, pending |-> FALSE]

Init ==
  /\ core = [status |-> "STOPPED", run |-> 0]
  /\ file = core
  /\ worker = [alive |-> TRUE, beat |-> FALSE]
  /\ tab = [x \in Tabs |-> NewTab]
  /\ halted = {}
  /\ engaged = FALSE
  /\ resume = FALSE
  /\ dirty = FALSE
  /\ issued = 0
  /\ faults = 0
  /\ crashes = 0

-----------------------------------------------------------------------------
(***************************************************************************)
(* The core.                                                               *)
(***************************************************************************)

\* _persist after the fields of core changed: the temporary file replaces the
\* old one, or the write raises and the old file stays.
Written ==
  /\ file' = core'
  /\ dirty' = FALSE
  /\ UNCHANGED faults

WriteFailed ==
  /\ faults < MaxFaults
  /\ faults' = faults + 1
  /\ dirty' = TRUE
  /\ UNCHANGED file

\* Mutant: the worker does not acknowledge a start.
BeatStatusIgnoringStart(s) == s

\* The worker moves a start along.
BeatStatus(s) == IF s = "STARTING" THEN "RUNNING" ELSE s

\* One turn of _worker with something to keep alive.  Nothing catches an
\* exception of _persist: it ends the thread.
WorkerBeat ==
  /\ worker.alive
  /\ core.status # "STOPPED"
  /\ core' = [core EXCEPT !.status = BeatStatus(@)]
  /\ \/ Written /\ worker' = [worker EXCEPT !.beat = ~@]
     \/ WriteFailed /\ worker' = [worker EXCEPT !.beat = ~@, !.alive = FALSE]
  /\ UNCHANGED <<tab, hist, issued, crashes>>

\* Mutant: a publication leaves a status that no other operation knows.
PublishedUnknown(s) == IF s = "STOPPED" THEN s ELSE "PUBLISHED"

\* Mutant: a publication arms the core whatever its status.
PublishedAlways(s) == "MONITORING"

\* publish: the status only moves when a run is on.
Published(s) == IF s \in {"STARTING", "RUNNING", "RESTORED"} THEN "MONITORING" ELSE s

\* _load: what an engine that was armed comes back as.
Loaded(s) == IF s \in {"STARTING", "RUNNING", "MONITORING"} THEN "RESTORED" ELSE s

\* start refuses while a run is on; a restored engine may be started.
MayStart(s) == s \notin {"STARTING", "RUNNING", "MONITORING"}

-----------------------------------------------------------------------------
(***************************************************************************)
(* A tab's script.                                                         *)
(***************************************************************************)

\* Mutant: the request is read and kept.
LoadPageKeepingRequest(x) ==
  /\ tab[x].phase = "main"
  /\ tab' = [tab EXCEPT ![x] =
               [phase |-> IF tab[x].pending THEN "pipeline" ELSE "render",
                armed |-> tab[x].armed \/ core.status \in {"RUNNING", "MONITORING", "RESTORED"},
                pending |-> tab[x].pending]]
  /\ UNCHANGED <<core, file, worker, hist, dirty, issued, faults, crashes>>

\* The head of main(): a live core arms the tab, and a requested run begins.
LoadPage(x) ==
  /\ tab[x].phase = "main"
  /\ tab' = [tab EXCEPT ![x] =
               [phase |-> IF tab[x].pending THEN "pipeline" ELSE "render",
                armed |-> tab[x].armed \/ core.status \in {"RUNNING", "MONITORING", "RESTORED"},
                pending |-> FALSE]]
  /\ UNCHANGED <<core, file, worker, hist, dirty, issued, faults, crashes>>

\* AlphaQuantOrchestrator.run returns: on success the tab is armed.
PipelineSucceeds(x) ==
  /\ tab[x].phase = "pipeline"
  /\ tab' = [tab EXCEPT ![x].phase = "publish", ![x].armed = TRUE]
  /\ resume' = FALSE
  /\ UNCHANGED <<core, file, worker, halted, engaged, dirty, issued, faults, crashes>>

PipelineFails(x) ==
  /\ tab[x].phase = "pipeline"
  /\ tab' = [tab EXCEPT ![x].phase = "render"]
  /\ UNCHANGED <<core, file, worker, hist, dirty, issued, faults, crashes>>

\* The user touches the page: Streamlit abandons the script where it next asks
\* for st.session_state and starts it over.
Interact(x) ==
  /\ tab[x].phase \in {"pipeline", "publish", "render", "page"}
  /\ tab' = [tab EXCEPT ![x].phase = "main"]
  /\ UNCHANGED <<core, file, worker, hist, dirty, issued, faults, crashes>>

\* core.publish after a successful run; when the write raises, main() ends.
Publish(x) ==
  /\ tab[x].phase = "publish"
  /\ core' = [core EXCEPT !.status = Published(@)]
  /\ \/ Written /\ tab' = [tab EXCEPT ![x].phase = "render"]
     \/ WriteFailed /\ tab' = [tab EXCEPT ![x].phase = "page"]
  /\ engaged' = (engaged \/ x \notin halted)
  /\ UNCHANGED <<worker, halted, resume, issued, crashes>>

\* persist_trading_state raises before core.publish is reached.
PublishSkipped(x) ==
  /\ tab[x].phase = "publish"
  /\ faults < MaxFaults
  /\ faults' = faults + 1
  /\ tab' = [tab EXCEPT ![x].phase = "page"]
  /\ UNCHANGED <<core, file, worker, hist, dirty, issued, crashes>>

\* No button was clicked.
Rendered(x) ==
  /\ tab[x].phase = "render"
  /\ tab' = [tab EXCEPT ![x].phase = "page"]
  /\ UNCHANGED <<core, file, worker, hist, dirty, issued, faults, crashes>>

-----------------------------------------------------------------------------
(***************************************************************************)
(* The buttons.  An exception of a button's handler is caught by           *)
(* dispatch_application: the page is finished without a rerun.             *)
(***************************************************************************)

\* RUN of the market page: requests a run and leaves the core alone.
MarketRun(x) ==
  /\ "market" \in Controls
  /\ tab[x].phase = "render" /\ ~tab[x].armed
  /\ tab' = [tab EXCEPT ![x].phase = "main", ![x].pending = TRUE]
  /\ halted' = halted \ {x}
  /\ UNCHANGED <<core, file, worker, engaged, resume, dirty, issued, faults, crashes>>

\* RUN of the dashboard, refused: a run is on.
ProductRunRefused(x) ==
  /\ "product" \in Controls
  /\ tab[x].phase = "render" /\ ~tab[x].armed
  /\ ~MayStart(core.status)
  /\ tab' = [tab EXCEPT ![x].phase = "main", ![x].pending = FALSE]
  /\ UNCHANGED <<core, file, worker, hist, dirty, issued, faults, crashes>>

\* RUN of the dashboard, granted: core.start hands out a new run id.  When the
\* write raises the core is STARTING all the same, and the tab requests nothing.
ProductRun(x) ==
  /\ "product" \in Controls
  /\ tab[x].phase = "render" /\ ~tab[x].armed
  /\ MayStart(core.status)
  /\ issued < MaxRuns
  /\ issued' = issued + 1
  /\ core' = [status |-> "STARTING", run |-> issued + 1]
  /\ \/ /\ Written
        /\ tab' = [tab EXCEPT ![x].phase = "main", ![x].pending = TRUE]
        /\ halted' = halted \ {x}
     \/ /\ WriteFailed
        /\ tab' = [tab EXCEPT ![x].phase = "page"]
        /\ UNCHANGED halted
  /\ UNCHANGED <<worker, engaged, resume, crashes>>

StopHistory ==
  /\ halted' = Tabs
  /\ engaged' = FALSE
  /\ resume' = FALSE

\* Mutant: the file is written before the status changes.
MarketStopUnsaved(x) ==
  /\ "market" \in Controls
  /\ tab[x].phase = "render" /\ tab[x].armed
  /\ core' = [core EXCEPT !.status = "STOPPED"]
  /\ tab' = [tab EXCEPT ![x].phase = "main", ![x].armed = FALSE]
  /\ StopHistory
  /\ UNCHANGED <<file, worker, dirty, issued, faults, crashes>>

\* STOP of the market page: first the tab, then the core.
MarketStop(x) ==
  /\ "market" \in Controls
  /\ tab[x].phase = "render" /\ tab[x].armed
  /\ core' = [core EXCEPT !.status = "STOPPED"]
  /\ \/ Written /\ tab' = [tab EXCEPT ![x].phase = "main", ![x].armed = FALSE]
     \/ WriteFailed /\ tab' = [tab EXCEPT ![x].phase = "page", ![x].armed = FALSE]
  /\ StopHistory
  /\ UNCHANGED <<worker, issued, crashes>>

\* STOP of the dashboard: first the core, then the tab, which a failed write
\* leaves armed.
ProductStop(x) ==
  /\ "product" \in Controls
  /\ tab[x].phase = "render" /\ tab[x].armed
  /\ core' = [core EXCEPT !.status = "STOPPED"]
  /\ \/ Written /\ tab' = [tab EXCEPT ![x].phase = "main", ![x].armed = FALSE]
     \/ WriteFailed /\ tab' = [tab EXCEPT ![x].phase = "page"]
  /\ StopHistory
  /\ UNCHANGED <<worker, issued, crashes>>

-----------------------------------------------------------------------------
\* The page is reloaded: a new session takes the place of the old one.
Reload(x) ==
  /\ tab[x].phase = "page"
  /\ tab' = [tab EXCEPT ![x] = NewTab]
  /\ UNCHANGED <<core, file, worker, hist, dirty, issued, faults, crashes>>

\* The process dies and starts again: the core is what the file says, with a
\* new worker, and the browsers reconnect to new sessions.
Crash ==
  /\ crashes < MaxCrashes
  /\ crashes' = crashes + 1
  /\ core' = [file EXCEPT !.status = Loaded(@)]
  /\ worker' = [worker EXCEPT !.alive = TRUE]
  /\ tab' = [x \in Tabs |-> NewTab]
  /\ halted' = {}
  /\ engaged' = FALSE
  /\ resume' = (engaged \/ resume)
  /\ dirty' = FALSE
  /\ UNCHANGED <<file, issued, faults>>

Script(x) ==
  \/ LoadPage(x) \/ PipelineSucceeds(x) \/ PipelineFails(x)
  \/ Publish(x) \/ PublishSkipped(x) \/ Rendered(x)

Buttons(x) ==
  \/ MarketRun(x) \/ ProductRunRefused(x) \/ ProductRun(x)
  \/ MarketStop(x) \/ ProductStop(x)

Next ==
  \/ WorkerBeat
  \/ \E x \in Tabs : Script(x) \/ Buttons(x) \/ Interact(x) \/ Reload(x)
  \/ Crash

Spec == Init /\ [][Next]_vars

\* The daemon thread and the scripts run on; users, crashes and the outcome of
\* a pipeline are free.
Fairness == WF_vars(WorkerBeat) /\ \A x \in Tabs : WF_vars(Script(x))

FairSpec == Spec /\ Fairness

-----------------------------------------------------------------------------
(***************************************************************************)
(* Properties.                                                             *)
(***************************************************************************)

Snapshots == [status: Statuses, run: 0 .. issued]

TypeOK ==
  /\ core \in Snapshots
  /\ file \in Snapshots
  /\ worker \in [alive: BOOLEAN, beat: BOOLEAN]
  /\ tab \in [Tabs -> [phase: Phases, armed: BOOLEAN, pending: BOOLEAN]]
  /\ halted \in SUBSET Tabs
  /\ {engaged, resume, dirty} \subseteq BOOLEAN
  /\ issued \in 0 .. MaxRuns
  /\ faults \in 0 .. MaxFaults
  /\ crashes \in 0 .. MaxCrashes

\* The recovery snapshot: but for a failed write, the file would bring back the
\* run id of the core and an armed engine exactly when the core is armed.
SnapshotFaithful ==
  ~dirty => /\ file.run = core.run
            /\ (file.status = "STOPPED") <=> (core.status = "STOPPED")

\* Nothing but a new run leaves STOPPED: no late publication, no worker and no
\* restart of the process does, unless the write of STOPPED failed.
StopSticks ==
  [][(core.status = "STOPPED" /\ core'.status # "STOPPED") =>
       core'.run # core.run \/ dirty]_vars

\* A granted start is acknowledged by the worker, a publication or a stop, unless
\* a failed write has ended the worker, which is then missing until a restart.
StartAcknowledged ==
  (core.status = "STARTING") ~> (core.status # "STARTING" \/ ~worker.alive)

\* A requested run is begun, once.
RequestTaken == \A x \in Tabs : tab[x].pending ~> ~tab[x].pending

\* "A process restart restores an armed engine": a tab that loads after a crash
\* resumes the monitoring that was on.  RUN of the market page, the page the
\* application opens with, leaves the core STOPPED: there is nothing to restore.
RestartRearms == \A x \in Tabs : (resume /\ tab[x].phase = "render") => tab[x].armed

\* "Process-wide control plane": STOP in one tab stops the others, at the
\* latest when their script runs again.
StopReachesTabs ==
  \A x \in Tabs : (x \in halted /\ tab[x].phase = "render") => ~tab[x].armed

=============================================================================
