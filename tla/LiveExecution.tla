--------------------------- MODULE LiveExecution ---------------------------
(***************************************************************************)
(* Guarded live execution over the feeds of MarketFeeds: the preferences   *)
(* the gate reads, the form that saves them, LiveReadinessGate and         *)
(* LiveExecutionAdapter with its repository of orders.                     *)
(***************************************************************************)
EXTENDS MarketFeeds

CONSTANTS
  Intents,   \* client order ids
  Locked     \* LiveExecutionAdapter.LOCKED

ASSUME LockedAssumption == Locked \in BOOLEAN

VARIABLES
  prefs,     \* WORKSPACE.preferences, the settings that matter here: their values
  placed     \* live_order_repository: the orders recorded as PRECHECK_PASSED

liveVars == <<vars, prefs, placed>>

\* The limits the live form asks for are saved and read together.
LiveSettings == {"live_mode_enabled", "live_limits"}

\* Of the settings the form saves, the ones WorkspaceManager.DEFAULTS lists.
Allowed == {"execution_mode"}

LiveInit ==
  /\ Init
  /\ prefs = [k \in {"execution_mode"} |-> "PAPER"]
  /\ placed = {}

\* Mutant: every change is kept.
SavedWhole(old, changes) ==
  [k \in DOMAIN old \cup DOMAIN changes |->
     IF k \in DOMAIN changes THEN changes[k] ELSE old[k]]

\* WorkspaceManager.save: only settings with a default are kept, in memory and
\* in workspace.json, so that loading the file again changes nothing.
Saved(old, changes) ==
  LET kept == DOMAIN changes \cap Allowed
  IN [k \in DOMAIN old \cup kept |-> IF k \in kept THEN changes[k] ELSE old[k]]

\* preferences.get(k, default)
Setting(k, default) == IF k \in DOMAIN prefs THEN prefs[k] ELSE default

\* SAVE LIVE CASH SETTINGS: refused when enabling without the confirmation or
\* without the limits; the mode leaves PAPER only by a confirmed enabling.
SaveLive(enable, confirm, limits) ==
  /\ enable => confirm /\ limits
  /\ prefs' = Saved(prefs,
       [k \in LiveSettings \cup {"execution_mode"} |->
          CASE k = "live_mode_enabled" -> enable
            [] k = "live_limits"       -> limits
            [] k = "execution_mode"    -> IF enable THEN "LIVE" ELSE prefs[k]])
  /\ UNCHANGED <<vars, placed>>

\* LiveReadinessGate.evaluate, with the scoring version at its default; the
\* limit on a first day's orders counts submitted ones, of which there are none.
GatePasses(i) ==
  /\ broker.auth
  /\ broker.up
  /\ market \in BrokerSources
  /\ Setting("live_limits", FALSE)
  /\ Setting("live_mode_enabled", FALSE)
  /\ i \notin placed

\* precheck: the lock, the gate, and the trade's verdict, entry and quote.
Precheck(i, fit) ==
  /\ ~Locked
  /\ Setting("live_mode_enabled", FALSE)
  /\ GatePasses(i)
  /\ fit

DryRun == Locked \/ Setting("live_dry_run_only", TRUE)

\* execute: in a dry run the order is recorded as PRECHECK_PASSED whatever the
\* precheck said; otherwise a refused order is not recorded, and an accepted one
\* is recorded before the submission, which is not implemented, raises.
Execute(i, fit) ==
  /\ ~DryRun => Precheck(i, fit)
  /\ placed' = placed \cup {i}
  /\ UNCHANGED <<vars, prefs>>

LiveNext ==
  \/ Next /\ UNCHANGED <<prefs, placed>>
  \/ \E enable, confirm, limits \in BOOLEAN : SaveLive(enable, confirm, limits)
  \/ \E i \in Intents, fit \in BOOLEAN : Execute(i, fit)

LiveSpec == LiveInit /\ [][LiveNext]_liveVars

-----------------------------------------------------------------------------
(***************************************************************************)
(* Properties.                                                             *)
(***************************************************************************)

\* Every variable has its type; in particular the preferences keep, of what the
\* live form asks to save, the mode alone.
LiveTypeOK ==
  /\ TypeOK
  /\ DOMAIN prefs = Allowed
  /\ prefs["execution_mode"] \in {"PAPER", "LIVE"}
  /\ placed \subseteq Intents

=============================================================================
