---------------------------- MODULE MarketFeeds ----------------------------
(***************************************************************************)
(* The quotes of the terminal: the process-wide Upstox feed, the two       *)
(* stores its quotes and the delayed download end up in (MarketState and   *)
(* AuthoritativeBrokerState), the form that connects the broker, and the   *)
(* ticker strip of each browser session that reads both stores.            *)
(*                                                                         *)
(* The feed is subscribed to the indices only, which are always quoted     *)
(* together: one quote stands for them all, and what is kept of it is      *)
(* where it came from.                                                     *)
(***************************************************************************)
EXTENDS Naturals

CONSTANTS
  Sessions,   \* browser sessions, each with its ticker strip
  Tokens,     \* access tokens the user can type
  NoToken     \* the field is left blank

ASSUME NoTokenAssumption == NoToken \notin Tokens

VARIABLES
  replay,    \* UPSTOX_USE_REPLAY is set in the environment of the process
  feed,      \* where UpstoxV3FeedManager's stream is
  running,   \* the token the stream was made with
  market,    \* MarketState.data_source, which is its quotes' source too
  broker,    \* AuthoritativeBrokerState
  form,      \* the connection form: where its handler is
  profile,   \* access_token of the saved profile
  secret,    \* access_token in the credential store
  editing,   \* broker_editing: the form is shown although a profile is saved
  download,  \* sessions whose refresh is downloading
  terminal   \* sessions that hold terminal_quotes, always downloaded ones

feedVars  == <<replay, feed, running>>
userVars  == <<form, profile, secret, editing>>
stripVars == <<download, terminal>>
vars == <<feedVars, market, broker, userVars, stripVars>>

Live     == "BROKER_LIVE"
Snapshot == "BROKER_SNAPSHOT"
Delayed  == "YFINANCE_INTRADAY_FALLBACK"
Nothing  == "UNAVAILABLE"

Sources == {Live, Snapshot, Delayed, Nothing}
BrokerSources == {Live, Snapshot}

\* none: _streamer is None.  dead: _streamer is set but connect() raised.
\* opening, open, closed: the WebSocket.  replaying, replayed: the fixture.
FeedStates == {"none", "dead", "opening", "open", "closed", "replaying", "replayed"}

\* _connected, which neither a dead stream nor the end of a replay sets.
Connected == feed \in {"open", "replaying", "replayed"}

\* health_status, as far as the labels tell its values apart.
Health == {"NOT_CONFIGURED", "AUTHENTICATING", "READY", "DEGRADED", "DISCONNECTED"}

Brokers == [auth: BOOLEAN, up: BOOLEAN, source: Sources, health: Health,
            quotes: BOOLEAN]   \* whether it holds quotes: only downloaded ones

\* What a connection test finds: everything, a login without quotes, nothing.
Verdicts == {"connected", "authenticated", "refused"}

Forms ==
  [at: {"idle", "testing", "starting", "applying"},
   token: Tokens \cup {NoToken}, verdict: Verdicts]

NoForm == [at |-> "idle", token |-> NoToken, verdict |-> "refused"]

Init ==
  /\ replay \in BOOLEAN
  /\ feed = "none"
  /\ running = NoToken
  /\ market = Nothing
  /\ broker = [auth |-> FALSE, up |-> FALSE, source |-> Nothing,
               health |-> "NOT_CONFIGURED", quotes |-> FALSE]
  /\ form = NoForm
  /\ profile = NoToken
  /\ secret = NoToken
  /\ editing = FALSE
  /\ download = {}
  /\ terminal = {}

-----------------------------------------------------------------------------
(***************************************************************************)
(* The connection form.                                                    *)
(***************************************************************************)

\* EDIT CONNECTION, shown for a saved profile.
Edit ==
  /\ form.at = "idle"
  /\ profile # NoToken
  /\ ~editing
  /\ editing' = TRUE
  /\ UNCHANGED <<feedVars, market, broker, form, profile, secret, stripVars>>

\* SAVE AND CONNECT: the broker state says AUTHENTICATING before the test.
Submit(token) ==
  /\ form.at = "idle"
  /\ profile = NoToken \/ editing
  /\ form' = [at |-> "testing", token |-> token, verdict |-> "refused"]
  /\ broker' = [broker EXCEPT !.health = "AUTHENTICATING"]
  /\ UNCHANGED <<feedVars, market, profile, secret, editing, stripVars>>

\* _safe_connection_test: a blank field fails at once, an expired token or a
\* profile request that fails is refused; the quote request decides between the
\* other two, and the remaining four requests change nothing.
TestEnds(verdict) ==
  /\ form.at = "testing"
  /\ form.token = NoToken => verdict = "refused"
  /\ form' = [at |-> "starting", token |-> form.token, verdict |-> verdict]
  /\ UNCHANGED <<feedVars, market, broker, profile, secret, editing, stripVars>>

\* An answer that is not JSON, or an unreadable store, leaves the handler by an
\* exception: nothing of the form is kept.
TestRaises ==
  /\ form.at = "testing"
  /\ form' = NoForm
  /\ UNCHANGED <<feedVars, market, broker, profile, secret, editing, stripVars>>

\* _start_replay: nothing happens while its thread is alive.
ReplayStarted(state, owner) == state = "replaying" /\ owner = running

\* _start_websocket: it may raise before _streamer is set, or in connect() after.
SocketStarted(token, state, owner) ==
  \/ state = "none" /\ owner = running
  \/ state \in {"dead", "opening"} /\ owner = token

\* Mutant: a start replaces the stream there is.
StartedAgain(token, state, owner) ==
  IF replay THEN ReplayStarted(state, owner) ELSE SocketStarted(token, state, owner)

\* UpstoxV3FeedManager.start: a stream is started only when there is none,
\* whatever became of the one there is.
Started(token, state, owner) ==
  IF replay THEN ReplayStarted(state, owner)
  ELSE IF feed # "none" THEN state = feed /\ owner = running
  ELSE SocketStarted(token, state, owner)

\* store_profile_secrets keeps the old secret when the field is blank.
Stored(token) == IF token = NoToken THEN secret ELSE token

\* _apply_connection_result, first half: the profile is saved in both stores,
\* and after a successful test the feed is started.
ApplyStarts ==
  /\ form.at = "starting"
  /\ form' = [form EXCEPT !.at = "applying"]
  /\ profile' = form.token
  /\ secret' = Stored(form.token)
  /\ IF form.verdict = "connected"
     THEN \E state \in FeedStates, owner \in Tokens \cup {NoToken} :
            /\ Started(form.token, state, owner)
            /\ feed' = state
            /\ running' = owner
     ELSE UNCHANGED <<feed, running>>
  /\ UNCHANGED <<replay, market, broker, editing, stripVars>>

\* Second half: the feed's health is read and the broker state overwritten.
\* The stream may have opened in between.  The form is left by a success, unless
\* the script is abandoned where it asks for the session's market data.
ApplyEnds ==
  /\ form.at = "applying"
  /\ LET ok == form.verdict = "connected"
     IN /\ broker' = [auth |-> form.verdict # "refused", up |-> ok,
                      source |-> IF ~ok THEN Delayed
                                 ELSE IF Connected THEN Live ELSE Snapshot,
                      health |-> IF ok THEN "READY" ELSE "DEGRADED",
                      quotes |-> broker.quotes]
        /\ editing' \in {~ok, editing}
  /\ form' = NoForm
  /\ UNCHANGED <<feedVars, market, profile, secret, stripVars>>

\* DISCONNECT: only the broker state hears of it; the feed goes on.
Disconnect ==
  /\ form.at = "idle"
  /\ profile # NoToken
  /\ ~editing
  /\ broker' = [auth |-> FALSE, up |-> FALSE, source |-> Delayed,
                health |-> "DISCONNECTED", quotes |-> broker.quotes]
  /\ UNCHANGED <<feedVars, market, userVars, stripVars>>

-----------------------------------------------------------------------------
(***************************************************************************)
(* The feed's callbacks, on its own thread.                                *)
(***************************************************************************)

\* The stream opens, or opens again after a close (auto_reconnect).
OnOpen ==
  /\ feed \in {"opening", "closed"}
  /\ feed' = "open"
  /\ UNCHANGED <<replay, running, market, broker, userVars, stripVars>>

OnClose ==
  /\ feed \in {"opening", "open"}
  /\ feed' = "closed"
  /\ UNCHANGED <<replay, running, market, broker, userVars, stripVars>>

\* A message with quotes is published to MarketState, and nowhere else.
OnMessage ==
  /\ feed \in {"open", "replaying"}
  /\ market' = Live
  /\ UNCHANGED <<feedVars, broker, userVars, stripVars>>

\* The last event of the fixture: the source is set with or without quotes.
ReplayEnds ==
  /\ feed = "replaying"
  /\ feed' = "replayed"
  /\ market' = Live
  /\ UNCHANGED <<replay, running, broker, userVars, stripVars>>

-----------------------------------------------------------------------------
(***************************************************************************)
(* The ticker strip, run every three seconds in each session.              *)
(***************************************************************************)

\* The broker state holds quotes and names the broker as their source.
SharedQuotes == broker.quotes /\ broker.source \in BrokerSources

\* Mutant: the quotes the session holds do not keep it from downloading.
MayDownloadAgain(s) == market \notin BrokerSources /\ ~SharedQuotes

\* refresh_terminal_quotes goes past its three early returns.
MayDownload(s) == market \notin BrokerSources /\ ~SharedQuotes /\ s \notin terminal

RefreshBegins(s) ==
  /\ s \notin download
  /\ MayDownload(s)
  /\ download' = download \cup {s}
  /\ UNCHANGED <<feedVars, market, broker, userVars, terminal>>

\* The download brings quotes.  The broker state is overwritten under its lock,
\* MarketState right after it: what the feed published meanwhile is replaced.
RefreshPublishes(s) ==
  /\ s \in download
  /\ download' = download \ {s}
  /\ terminal' = terminal \cup {s}
  /\ broker' = [auth |-> broker.auth, up |-> broker.up, source |-> Delayed,
                 health |-> IF broker.auth THEN "READY" ELSE broker.health,
                 quotes |-> TRUE]
  /\ market' = Delayed
  /\ UNCHANGED <<feedVars, userVars>>

\* The user touches the page: the script is abandoned where it next asks for
\* st.session_state, after the session's quotes and before they are published.
RefreshAbandoned(s) ==
  /\ s \in download
  /\ download' = download \ {s}
  /\ terminal' = terminal \cup {s}
  /\ UNCHANGED <<feedVars, market, broker, userVars>>

\* It brings none, or is abandoned before: the session tries again.
RefreshFails(s) ==
  /\ s \in download
  /\ download' = download \ {s}
  /\ UNCHANGED <<feedVars, market, broker, userVars, terminal>>

Next ==
  \/ Edit
  \/ \E token \in Tokens \cup {NoToken} : Submit(token)
  \/ \E verdict \in Verdicts : TestEnds(verdict)
  \/ TestRaises
  \/ ApplyStarts
  \/ ApplyEnds
  \/ Disconnect
  \/ OnOpen
  \/ OnClose
  \/ OnMessage
  \/ ReplayEnds
  \/ \E s \in Sessions : \/ RefreshBegins(s) \/ RefreshPublishes(s)
                         \/ RefreshAbandoned(s) \/ RefreshFails(s)

Spec == Init /\ [][Next]_vars

-----------------------------------------------------------------------------
(***************************************************************************)
(* Properties.                                                             *)
(***************************************************************************)

TypeOK ==
  /\ replay \in BOOLEAN
  /\ feed \in FeedStates
  /\ running \in Tokens \cup {NoToken}
  /\ market \in Sources
  /\ broker \in Brokers
  /\ form \in Forms
  /\ profile \in Tokens \cup {NoToken}
  /\ secret \in Tokens \cup {NoToken}
  /\ editing \in BOOLEAN
  /\ download \subseteq Sessions
  /\ terminal \subseteq Sessions

\* "One WebSocket worker for the entire process": once a stream exists, no later
\* connection, successful or not, drops it or makes another under a new token.
OneStream ==
  [][feed \notin {"none", "replaying", "replayed"} =>
       /\ feed' \notin {"none", "replaying", "replayed"}
       /\ running' = running
       /\ (feed # "opening" => feed' # "opening")]_vars

\* A download publishes what it began before the feed's quotes over them: a
\* session that has done so never begins another, so that each session, of any
\* number, overtakes the feed at most once and MarketState is left to the feed.
OvertakenOnce ==
  [][/\ terminal \subseteq terminal'
     /\ (market = Live /\ market' # Live) => terminal # terminal']_vars

=============================================================================
