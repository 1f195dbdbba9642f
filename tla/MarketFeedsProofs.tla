------------------------- MODULE MarketFeedsProofs -------------------------
(***************************************************************************)
(* Theorems about MarketFeeds and LiveExecution, for any sessions, tokens  *)
(* and orders, and for a locked or an unlocked adapter.                    *)
(***************************************************************************)
EXTENDS LiveExecution, TLAPS

-----------------------------------------------------------------------------
(***************************************************************************)
(* Type correctness.                                                       *)
(***************************************************************************)

\* The form and its handler keep the types.
LEMMA FormTyped ==
  ASSUME TypeOK,
         NEW token \in Tokens \cup {NoToken}, NEW verdict \in Verdicts,
         \/ Edit \/ Submit(token) \/ TestEnds(verdict) \/ TestRaises
         \/ ApplyStarts \/ ApplyEnds \/ Disconnect
  PROVE  TypeOK'
<1>1. CASE Edit
  BY <1>1 DEF Edit, TypeOK, feedVars, stripVars
<1>2. CASE Submit(token)
  <2>1. form' \in Forms
    BY <1>2 DEF Submit, Forms, Verdicts
  <2>2. broker' \in Brokers
    BY <1>2 DEF Submit, TypeOK, Brokers, Health
  <2> QED
    BY <1>2, <2>1, <2>2 DEF Submit, TypeOK, feedVars, stripVars
<1>3. CASE TestEnds(verdict)
  <2>1. form' \in Forms
    BY <1>3 DEF TestEnds, TypeOK, Forms
  <2> QED
    BY <1>3, <2>1 DEF TestEnds, TypeOK, feedVars, stripVars
<1>4. CASE TestRaises
  <2>1. form' \in Forms
    BY <1>4 DEF TestRaises, NoForm, Forms, Verdicts
  <2> QED
    BY <1>4, <2>1 DEF TestRaises, TypeOK, feedVars, stripVars
<1>5. CASE ApplyStarts
  <2>1. form' \in Forms
    BY <1>5 DEF ApplyStarts, TypeOK, Forms
  <2>2. profile' \in Tokens \cup {NoToken} /\ secret' \in Tokens \cup {NoToken}
    BY <1>5 DEF ApplyStarts, TypeOK, Forms, Stored
  <2>3. feed' \in FeedStates /\ running' \in Tokens \cup {NoToken}
    BY <1>5 DEF ApplyStarts, TypeOK
  <2> QED
    BY <1>5, <2>1, <2>2, <2>3 DEF ApplyStarts, TypeOK, stripVars
<1>6. CASE ApplyEnds
  <2>1. form' \in Forms
    BY <1>6 DEF ApplyEnds, NoForm, Forms, Verdicts
  <2>2. broker' \in Brokers
    BY <1>6 DEF ApplyEnds, TypeOK, Brokers, Sources, Live, Snapshot, Delayed, Health
  <2>3. editing' \in BOOLEAN
    BY <1>6 DEF ApplyEnds, TypeOK
  <2> QED
    BY <1>6, <2>1, <2>2, <2>3 DEF ApplyEnds, TypeOK, feedVars, stripVars
<1>7. CASE Disconnect
  <2>1. broker' \in Brokers
    BY <1>7 DEF Disconnect, TypeOK, Brokers, Sources, Delayed, Health
  <2> QED
    BY <1>7, <2>1 DEF Disconnect, TypeOK, feedVars, userVars, stripVars
<1> QED
  BY <1>1, <1>2, <1>3, <1>4, <1>5, <1>6, <1>7

\* So do the callbacks of the feed.
LEMMA FeedTyped ==
  ASSUME TypeOK, OnOpen \/ OnClose \/ OnMessage \/ ReplayEnds
  PROVE  TypeOK'
<1>1. CASE OnOpen
  BY <1>1 DEF OnOpen, TypeOK, FeedStates, userVars, stripVars
<1>2. CASE OnClose
  BY <1>2 DEF OnClose, TypeOK, FeedStates, userVars, stripVars
<1>3. CASE OnMessage
  BY <1>3 DEF OnMessage, TypeOK, Sources, feedVars, userVars, stripVars
<1>4. CASE ReplayEnds
  BY <1>4 DEF ReplayEnds, TypeOK, FeedStates, Sources, userVars, stripVars
<1> QED
  BY <1>1, <1>2, <1>3, <1>4

\* And the refresh of a session's ticker strip.
LEMMA StripTyped ==
  ASSUME TypeOK, NEW s \in Sessions,
         \/ RefreshBegins(s) \/ RefreshPublishes(s)
         \/ RefreshAbandoned(s) \/ RefreshFails(s)
  PROVE  TypeOK'
<1>1. CASE RefreshBegins(s)
  BY <1>1 DEF RefreshBegins, TypeOK, feedVars, userVars
<1>2. CASE RefreshPublishes(s)
  <2>1. broker' \in Brokers
    BY <1>2 DEF RefreshPublishes, TypeOK, Brokers, Sources, Delayed, Health
  <2> QED
    BY <1>2, <2>1 DEF RefreshPublishes, TypeOK, Sources, feedVars, userVars
<1>3. CASE RefreshFails(s) \/ RefreshAbandoned(s)
  BY <1>3 DEF RefreshFails, RefreshAbandoned, TypeOK, feedVars, userVars
<1> QED
  BY <1>1, <1>2, <1>3

LEMMA TypeInductive ==
  ASSUME TypeOK, [Next]_vars
  PROVE  TypeOK'
<1>1. CASE UNCHANGED vars
  BY <1>1 DEF TypeOK, vars, feedVars, userVars, stripVars
<1>2. CASE Next
  <2>1. NoToken \in Tokens \cup {NoToken} /\ "refused" \in Verdicts
    BY DEF Verdicts
  <2> QED
    BY <1>2, <2>1, FormTyped, FeedTyped, StripTyped DEF Next
<1> QED
  BY <1>1, <1>2

\* Nor do the preferences and the orders change theirs: whatever the live form
\* asks to save, the store keeps the settings it has.
LEMMA LiveTypeInductive ==
  ASSUME LiveTypeOK, [LiveNext]_liveVars
  PROVE  LiveTypeOK'
<1>1. CASE UNCHANGED liveVars
  BY <1>1, TypeInductive DEF LiveTypeOK, liveVars
<1>2. CASE Next /\ UNCHANGED <<prefs, placed>>
  BY <1>2, TypeInductive DEF LiveTypeOK
<1>3. ASSUME NEW enable \in BOOLEAN, NEW confirm \in BOOLEAN, NEW limits \in BOOLEAN,
             SaveLive(enable, confirm, limits)
      PROVE  LiveTypeOK'
  <2> DEFINE changes == [k \in LiveSettings \cup {"execution_mode"} |->
                           CASE k = "live_mode_enabled" -> enable
                             [] k = "live_limits"       -> limits
                             [] k = "execution_mode"    -> IF enable THEN "LIVE"
                                                           ELSE prefs[k]]
  <2>1. prefs' = Saved(prefs, changes) /\ UNCHANGED <<vars, placed>>
    BY <1>3 DEF SaveLive
  <2>2. DOMAIN changes \cap Allowed = Allowed
    BY DEF Allowed
  <2>3. changes["execution_mode"] \in {"PAPER", "LIVE"}
    BY DEF LiveTypeOK, LiveSettings
  <2> HIDE DEF changes
  <2>4. prefs' = [k \in Allowed |-> changes[k]]
    BY <2>1, <2>2 DEF Saved, LiveTypeOK
  <2> QED
    BY <2>1, <2>3, <2>4, TypeInductive DEF LiveTypeOK, Allowed
<1>4. ASSUME NEW i \in Intents, NEW fit \in BOOLEAN, Execute(i, fit)
      PROVE  LiveTypeOK'
  BY <1>4, TypeInductive DEF Execute, LiveTypeOK
<1> QED
  BY <1>1, <1>2, <1>3, <1>4 DEF LiveNext

LEMMA LiveTypeInitial == LiveInit => LiveTypeOK
<1> SUFFICES ASSUME LiveInit PROVE LiveTypeOK
  OBVIOUS
<1>1. broker \in Brokers
  BY DEF LiveInit, Init, Brokers, Sources, Nothing, Health
<1>2. form \in Forms
  BY DEF LiveInit, Init, NoForm, Forms, Verdicts
<1>3. feed \in FeedStates /\ market \in Sources
  BY DEF LiveInit, Init, FeedStates, Sources
<1> QED
  BY <1>1, <1>2, <1>3 DEF LiveTypeOK, LiveInit, Init, TypeOK, Allowed

\* Feeds, form, strips, preferences and orders keep their types.
THEOREM TypeCorrect == LiveSpec => []LiveTypeOK
BY LiveTypeInitial, LiveTypeInductive, PTL DEF LiveSpec

-----------------------------------------------------------------------------
(***************************************************************************)
(* One stream.                                                             *)
(***************************************************************************)

Replayed == {"replaying", "replayed"}

\* A process that replays its fixture opens no socket, and the other way round.
FeedFitsProcess ==
  /\ replay => feed \in {"none"} \cup Replayed
  /\ ~replay => feed \notin Replayed

\* Who starts, opens or closes a stream does so in the mode of the process, and
\* a stream that is there stays, under its token.
LEMMA StreamSteps ==
  ASSUME TypeOK, FeedFitsProcess, [Next]_vars
  PROVE  /\ FeedFitsProcess'
         /\ feed \notin {"none"} \cup Replayed =>
              /\ feed' \notin {"none"} \cup Replayed
              /\ running' = running
              /\ (feed # "opening" => feed' # "opening")
<1> USE DEF FeedFitsProcess, Replayed
<1>1. CASE ApplyStarts
  <2>1. replay' = replay
    BY <1>1 DEF ApplyStarts
  <2>2. CASE form.verdict # "connected"
    BY <1>1, <2>1, <2>2 DEF ApplyStarts
  <2>3. CASE form.verdict = "connected"
    <3>1. Started(form.token, feed', running')
      BY <1>1, <2>3 DEF ApplyStarts
    <3> QED
      BY <2>1, <3>1 DEF Started, ReplayStarted, SocketStarted
  <2> QED
    BY <2>2, <2>3
<1>2. CASE OnOpen \/ OnClose \/ ReplayEnds
  BY <1>2 DEF OnOpen, OnClose, ReplayEnds
<1>3. CASE UNCHANGED feedVars
  BY <1>3 DEF feedVars
<1>4. Next => \/ ApplyStarts \/ OnOpen \/ OnClose \/ ReplayEnds
              \/ UNCHANGED feedVars
  BY DEF Next, Edit, Submit, TestEnds, TestRaises, ApplyEnds, Disconnect,
         OnMessage, RefreshBegins, RefreshPublishes, RefreshAbandoned, RefreshFails, vars
<1> QED
  BY <1>1, <1>2, <1>3, <1>4 DEF vars

\* The stream outlives every later connection: a failed one, one under another
\* token, and the disconnection of the broker.
THEOREM StreamIsUnique == LiveSpec => OneStream
<1>1. LiveInit => FeedFitsProcess
  BY DEF LiveInit, Init, FeedFitsProcess, Replayed
<1>2. ASSUME LiveTypeOK, [LiveNext]_liveVars PROVE [Next]_vars
  BY <1>2 DEF LiveNext, liveVars, SaveLive, Execute
<1>3. ASSUME LiveTypeOK, FeedFitsProcess, [LiveNext]_liveVars PROVE FeedFitsProcess'
  BY <1>2, <1>3, StreamSteps DEF LiveTypeOK
<1>4. ASSUME LiveTypeOK, FeedFitsProcess, [LiveNext]_liveVars
      PROVE  [feed \notin {"none", "replaying", "replayed"} =>
                /\ feed' \notin {"none", "replaying", "replayed"}
                /\ running' = running
                /\ (feed # "opening" => feed' # "opening")]_vars
  BY <1>2, <1>4, StreamSteps DEF LiveTypeOK, Replayed
<1> QED
  BY <1>1, <1>3, <1>4, TypeCorrect, PTL DEF LiveSpec, OneStream

-----------------------------------------------------------------------------
(***************************************************************************)
(* Downloads.                                                              *)
(***************************************************************************)

\* A session that holds quotes is not downloading any.
DownloadsOnce == download \cap terminal = {}

LEMMA DownloadSteps ==
  ASSUME DownloadsOnce, [Next]_vars
  PROVE  /\ DownloadsOnce'
         /\ terminal \subseteq terminal'
         /\ (market = Live /\ market' # Live) => terminal # terminal'
<1> USE DEF DownloadsOnce
<1>1. ASSUME NEW s \in Sessions, RefreshBegins(s)
      PROVE  DownloadsOnce' /\ UNCHANGED <<terminal, market>>
  BY <1>1 DEF RefreshBegins, MayDownload
<1>2. ASSUME NEW s \in Sessions, RefreshPublishes(s) \/ RefreshAbandoned(s)
      PROVE  DownloadsOnce' /\ terminal \subseteq terminal' /\ terminal # terminal'
  <2>1. s \in download /\ s \notin terminal
    BY <1>2 DEF RefreshPublishes, RefreshAbandoned
  <2>2. download' = download \ {s} /\ terminal' = terminal \cup {s}
    BY <1>2 DEF RefreshPublishes, RefreshAbandoned
  <2> QED
    BY <2>1, <2>2
<1>3. ASSUME NEW s \in Sessions, RefreshFails(s)
      PROVE  DownloadsOnce' /\ UNCHANGED <<terminal, market>>
  BY <1>3 DEF RefreshFails
<1>4. CASE OnMessage \/ ReplayEnds
  BY <1>4 DEF OnMessage, ReplayEnds, stripVars
<1>5. CASE UNCHANGED <<stripVars, market>>
  BY <1>5 DEF stripVars
<1>6. Next => \/ OnMessage \/ ReplayEnds \/ UNCHANGED <<stripVars, market>>
              \/ \E s \in Sessions : \/ RefreshBegins(s) \/ RefreshPublishes(s)
                                     \/ RefreshAbandoned(s) \/ RefreshFails(s)
  BY DEF Next, Edit, Submit, TestEnds, TestRaises, ApplyStarts, ApplyEnds, Disconnect,
         OnOpen, OnClose
<1> QED
  BY <1>1, <1>2, <1>3, <1>4, <1>5, <1>6 DEF vars

\* Each session publishes its delayed quotes over live ones at most once.
THEOREM FeedOvertakenOnce == LiveSpec => OvertakenOnce
<1>1. LiveInit => DownloadsOnce
  BY DEF LiveInit, Init, DownloadsOnce
<1>2. ASSUME [LiveNext]_liveVars PROVE [Next]_vars
  BY <1>2 DEF LiveNext, liveVars, SaveLive, Execute
<1>3. ASSUME DownloadsOnce, [LiveNext]_liveVars PROVE DownloadsOnce'
  BY <1>2, <1>3, DownloadSteps
<1>4. ASSUME DownloadsOnce, [LiveNext]_liveVars
      PROVE  [/\ terminal \subseteq terminal'
              /\ (market = Live /\ market' # Live) => terminal # terminal']_vars
  BY <1>2, <1>4, DownloadSteps
<1> QED
  BY <1>1, <1>3, <1>4, PTL DEF LiveSpec, OvertakenOnce

=============================================================================
