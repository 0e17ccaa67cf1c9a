------------------------------ MODULE TrayService ------------------------------
(* The service coordinator of src/app.c: startup, the tracking toggle, sync    *)
(* runs, the daily CLI update and shutdown.  It composes the components by     *)
(* what their own modules show of them: the syncer as the pending and stopping *)
(* flags of CoalescingRunner, the watcher as the callback it owes for a change *)
(* (Watcher), and the flag update with its save as one step (Preferences).     *)
EXTENDS Naturals

CONSTANTS
    Main,               \* the main thread: app_init ... app_stop
    Callers,            \* the threads that call app_set_tracking_enabled
    Setups,             \* what may go wrong in a session, see TrayConstants
    MaxChanges,         \* bound on changes of the session files
    MaxToggles          \* bound on changes of the tracking preference

ASSUME TrayConstants ==
    /\ Main \in Callers
    \* tickerWorks: the ticker can be created; watchMayFail: watcher_start may
    \* find nothing it can watch; failures: bound on syncs that fail although the
    \* CLI is there
    /\ Setups \subseteq [tickerWorks : BOOLEAN, watchMayFail : BOOLEAN, failures : Nat]
    /\ MaxChanges \in Nat /\ MaxToggles \in Nat

VARIABLES
    setup,              \* what may go wrong in this session
    main,               \* the main thread's way through app.c
    pc,                 \* where each caller is in app_set_tracking_enabled
    tracking,           \* g_app.tracking
    cli,                \* version of the shared CLI: NoCli, Older, Bundled, Newer
    ticker,             \* the ticker thread runs
    watching,           \* the watcher watches the session directories
    owed,               \* the watcher owes a callback for a change
    pending, stopping,  \* the syncer's flags
    run,                \* the sync run in progress
    cliUpdate,          \* the thread of cli_update_main
    cliStop,            \* cli_update_stop is signaled
    unsent,             \* session data: all sent, read by the run, or not read yet
    scansWhileOff,      \* history: scans begun since tracking was turned off
    changes, failures, toggles

syncerVars == <<pending, stopping, run>>
watcherVars == <<watching, owed>>
updateVars == <<cliUpdate, cliStop>>
dataVars == <<setup, unsent, scansWhileOff, changes, failures>>
vars == <<main, pc, tracking, cli, ticker, syncerVars, watcherVars, updateVars, dataVars, toggles>>

\* Versions of the CLI relative to the one bundled with this build.
NoCli == 0
Older == 1
Bundled == 2
Newer == 3

Shutdown == {"stopUpdate", "joinUpdate", "stopWatcher", "stopSyncer", "joinSyncer", "done"}

\* app_init: both features on, the syncer running, nothing watched.
Init ==
    /\ setup \in Setups
    /\ main = "load"
    /\ pc = [c \in Callers |-> "ready"]
    /\ tracking = TRUE
    /\ cli \in {NoCli, Older, Bundled, Newer}
    /\ ticker = FALSE /\ watching = FALSE /\ owed = FALSE
    /\ pending = FALSE /\ stopping = FALSE /\ run = "idle"
    /\ cliUpdate = "none" /\ cliStop = FALSE
    /\ unsent = "yes"
    /\ scansWhileOff = 0
    /\ changes = 0 /\ failures = 0 /\ toggles = 0

-------------------------------------------------------------------------------
\* The session files and what triggers a sync

\* An assistant writes a session file.  Every change in a watched directory is
\* owed a callback.
Change ==
    /\ changes < MaxChanges /\ changes' = changes + 1
    /\ unsent' = "yes" /\ owed' = watching
    /\ UNCHANGED <<setup, main, pc, tracking, cli, ticker, watching, syncerVars,
                   updateVars, scansWhileOff, failures, toggles>>

Trigger == pending' = TRUE /\ UNCHANGED <<stopping, run>>
TriggerAlone ==
    Trigger /\ UNCHANGED <<main, pc, tracking, cli, ticker, updateVars, dataVars, toggles>>

\* watch_changed, for a change of a session file, a change of another file, or the
\* second of two callbacks for a burst.
WatchChanged == (watching \/ owed) /\ owed' = FALSE /\ TriggerAlone /\ UNCHANGED watching

\* ticker_main; a tick on a pending trigger changes nothing.
Tick == ticker /\ TriggerAlone /\ UNCHANGED watcherVars

\* app_set_api_key saved a new key, on the Settings thread, which may outlive
\* the message loop.
SyncNow == main \in {"ui"} \cup Shutdown /\ TriggerAlone /\ UNCHANGED watcherVars

-------------------------------------------------------------------------------
\* sync_run on the syncer's worker

RunGoes(from, to) ==
    /\ run = from /\ run' = to
    /\ UNCHANGED <<setup, main, pc, tracking, cli, ticker, watcherVars, stopping,
                   updateVars, changes, toggles>>

RunBegins ==
    /\ RunGoes("idle", "check")
    /\ pending /\ ~stopping /\ pending' = FALSE
    /\ UNCHANGED dataVars

\* A run that does not look at the tracking preference.
RunChecks_Always == RunGoes("check", "scan") /\ UNCHANGED <<pending, dataVars>>

RunChecks ==
    RunGoes("check", IF tracking THEN "scan" ELSE "idle") /\ UNCHANGED <<pending, dataVars>>

\* agent_sync starts the CLI, which reads the session directories.
RunScans ==
    /\ RunGoes("scan", "upload") /\ cli # NoCli
    /\ unsent' = IF unsent = "yes" THEN "read" ELSE unsent
    /\ scansWhileOff' = IF tracking THEN scansWhileOff ELSE scansWhileOff + 1
    /\ UNCHANGED <<pending, failures>>

\* There is no CLI to run; the error is ignored.
RunCannotLaunch ==
    RunGoes("scan", "idle") /\ cli = NoCli /\ UNCHANGED <<pending, dataVars>>

RunSucceeds ==
    /\ RunGoes("upload", "idle")
    /\ unsent' = IF unsent = "read" THEN "no" ELSE unsent
    /\ UNCHANGED <<pending, scansWhileOff, failures>>

\* Offline, refused or timed out: the data stays unsent and nothing retries.
RunFails ==
    /\ RunGoes("upload", "idle")
    /\ failures < setup.failures /\ failures' = failures + 1
    /\ unsent' = IF unsent = "read" THEN "yes" ELSE unsent
    /\ UNCHANGED <<pending, scansWhileOff>>

RunStep ==
    RunBegins \/ RunChecks \/ RunScans \/ RunCannotLaunch \/ RunSucceeds \/ RunFails
-------------------------------------------------------------------------------
\* app_start

MainGoes(from, to) ==
    /\ main = from /\ main' = to
    /\ UNCHANGED <<pc, dataVars, toggles>>

\* settings_load, which may leave the defaults.
StartLoads ==
    /\ MainGoes("load", "ticker")
    /\ tracking' \in BOOLEAN
    /\ UNCHANGED <<cli, ticker, watcherVars, syncerVars, updateVars>>

StartTicker ==
    /\ MainGoes("ticker", "monitor")
    /\ ticker' = setup.tickerWorks
    /\ UNCHANGED <<tracking, cli, watcherVars, syncerVars, updateVars>>

\* watcher_stop: no callback comes for a change seen before.
StopsWatching == watching' = FALSE /\ owed' = FALSE

\* watcher_start, which stops first.
StartsWatching ==
    /\ watching' \in {TRUE} \cup (IF setup.watchMayFail THEN {FALSE} ELSE {})
    /\ owed' = FALSE

\* app_restart_monitoring reads the preference and lets go of the lock ...
StartMonitoring ==
    /\ MainGoes("monitor", IF tracking THEN "watch" ELSE "bootstrap")
    /\ IF tracking THEN UNCHANGED watcherVars ELSE StopsWatching
    /\ UNCHANGED <<tracking, cli, ticker, syncerVars, updateVars>>

\* ... and then starts the watcher.
StartWatching ==
    /\ MainGoes("watch", "bootstrap") /\ StartsWatching
    /\ UNCHANGED <<tracking, cli, ticker, syncerVars, updateVars>>

BootstrapGoes(from, to) ==
    /\ MainGoes(from, to)
    /\ UNCHANGED <<tracking, ticker, watcherVars, syncerVars, cliUpdate, cliStop>>

\* agent_bootstrap: a dev build has no payload, another no version it can read.
BootstrapSkips == BootstrapGoes("bootstrap", "trigger") /\ UNCHANGED cli

\* An installed CLI is asked for its version (Seeding says what becomes of the
\* answer).  It may not answer; then, and when there is none, it is seeded.
BootstrapProbes ==
    /\ \/ cli >= Bundled /\ BootstrapGoes("bootstrap", "trigger")
       \/ BootstrapGoes("bootstrap", "seed")
    /\ UNCHANGED cli

\* The payload is inflated and written beside the CLI ...
BootstrapStages == BootstrapGoes("seed", "rename") /\ UNCHANGED cli

\* ... and renamed over it, unless a sync is running it.
BootstrapRenames ==
    BootstrapGoes("rename", "trigger") /\ run # "upload" /\ cli' = Bundled

\* Inflating, writing or renaming fails, silently.
BootstrapGivesUp ==
    \E from \in {"seed", "rename"} : BootstrapGoes(from, "trigger") /\ UNCHANGED cli

StartTriggers ==
    /\ MainGoes("trigger", "update") /\ Trigger
    /\ UNCHANGED <<tracking, cli, ticker, watcherVars, updateVars>>

\* The event or the thread of the CLI update loop may not be created.
StartCliUpdate ==
    /\ MainGoes("update", "ui")
    /\ cliUpdate' \in {"none", "updating"}
    /\ UNCHANGED <<tracking, cli, ticker, watcherVars, syncerVars, cliStop>>

StartStep ==
    \/ StartLoads \/ StartTicker \/ StartMonitoring \/ StartWatching
    \/ BootstrapSkips \/ BootstrapProbes \/ BootstrapStages \/ BootstrapRenames
    \/ BootstrapGivesUp \/ StartTriggers \/ StartCliUpdate

\* cli_update_main
CliUpdateGoes(from, to) ==
    /\ cliUpdate = from /\ cliUpdate' = to
    /\ UNCHANGED <<main, pc, tracking, ticker, watcherVars, syncerVars, cliStop,
                   dataVars, toggles>>

CliUpdateReturns ==
    /\ CliUpdateGoes("updating", "waiting")
    /\ cli' \in {cli} \cup (IF cli = NoCli THEN {} ELSE {Newer})

\* A day has passed.
CliUpdateAgain == CliUpdateGoes("waiting", "updating") /\ ~cliStop /\ UNCHANGED cli

CliUpdateExits == CliUpdateGoes("waiting", "exited") /\ cliStop /\ UNCHANGED cli

-------------------------------------------------------------------------------
\* app_set_tracking_enabled

CallerGoes(c, from, to) ==
    /\ pc[c] = from /\ pc' = [pc EXCEPT ![c] = to]
    /\ UNCHANGED <<setup, main, cli, ticker, updateVars, unsent, changes, failures>>

Toggles(c, on, to) ==
    /\ CallerGoes(c, "ready", to) /\ main = "ui"
    /\ toggles < MaxToggles /\ toggles' = toggles + 1
    /\ tracking # on /\ tracking' = on
    /\ UNCHANGED <<watcherVars, syncerVars>>

Enable(c) == Toggles(c, TRUE, "monitor") /\ scansWhileOff' = 0
Disable(c) == Toggles(c, FALSE, "unwatch") /\ UNCHANGED scansWhileOff

AfterToggle == UNCHANGED <<tracking, scansWhileOff, toggles>>

EnableMonitors(c) ==
    /\ CallerGoes(c, "monitor", IF tracking THEN "watch" ELSE "trigger") /\ AfterToggle
    /\ IF tracking THEN UNCHANGED watcherVars ELSE StopsWatching
    /\ UNCHANGED syncerVars

EnableWatches(c) ==
    /\ CallerGoes(c, "watch", "trigger") /\ AfterToggle
    /\ StartsWatching /\ UNCHANGED syncerVars

\* What was written while tracking was off waits for the next change.
EnableTriggers_Missing(c) ==
    /\ CallerGoes(c, "trigger", "ready") /\ AfterToggle
    /\ UNCHANGED <<watcherVars, syncerVars>>

EnableTriggers(c) ==
    /\ CallerGoes(c, "trigger", "ready") /\ AfterToggle
    /\ Trigger /\ UNCHANGED watcherVars

\* The watcher is closed but its debounce thread is not waited for.
DisableUnwatches_NoJoin(c) ==
    /\ CallerGoes(c, "unwatch", "ready") /\ AfterToggle
    /\ watching' = FALSE /\ UNCHANGED <<owed, syncerVars>>

DisableUnwatches(c) ==
    /\ CallerGoes(c, "unwatch", "ready") /\ AfterToggle
    /\ StopsWatching /\ UNCHANGED syncerVars

ToggleStep(c) ==
    EnableMonitors(c) \/ EnableWatches(c) \/ EnableTriggers(c) \/ DisableUnwatches(c)

-------------------------------------------------------------------------------
\* app_stop, once the message loop has ended; the main thread is in no toggle.

StopGoes(from, to) == MainGoes(from, to) /\ UNCHANGED <<tracking, cli, cliUpdate>>

Quit ==
    /\ StopGoes("ui", IF cliUpdate = "none" THEN "stopWatcher" ELSE "stopUpdate")
    /\ pc[Main] = "ready"
    /\ UNCHANGED <<ticker, watcherVars, syncerVars, cliStop>>

\* The update loop is not told to stop.
StopUpdate_Missing ==
    /\ StopGoes("stopUpdate", "joinUpdate")
    /\ UNCHANGED <<ticker, watcherVars, syncerVars, cliStop>>

StopUpdate ==
    /\ StopGoes("stopUpdate", "joinUpdate") /\ cliStop' = TRUE
    /\ UNCHANGED <<ticker, watcherVars, syncerVars>>

JoinUpdate ==
    /\ StopGoes("joinUpdate", "stopWatcher") /\ cliUpdate = "exited"
    /\ UNCHANGED <<ticker, watcherVars, syncerVars, cliStop>>

StopWatcher ==
    /\ StopGoes("stopWatcher", "stopSyncer") /\ StopsWatching
    /\ UNCHANGED <<ticker, syncerVars, cliStop>>

\* syncer_stop: the ticker is joined, then the stop flag goes up ...
StopSyncer ==
    /\ StopGoes("stopSyncer", "joinSyncer")
    /\ ticker' = FALSE /\ stopping' = TRUE
    /\ UNCHANGED <<watcherVars, pending, run, cliStop>>

\* The worker is not waited for.
JoinSyncer_NoWait ==
    /\ StopGoes("joinSyncer", "done")
    /\ UNCHANGED <<ticker, watcherVars, syncerVars, cliStop>>

\* ... and the worker is joined when the run in progress, if any, has ended.
JoinSyncer ==
    /\ StopGoes("joinSyncer", "done") /\ run = "idle"
    /\ UNCHANGED <<ticker, watcherVars, syncerVars, cliStop>>

StopStep == StopUpdate \/ JoinUpdate \/ StopWatcher \/ StopSyncer \/ JoinSyncer

-------------------------------------------------------------------------------
Next ==
    \/ Change \/ WatchChanged \/ Tick \/ SyncNow
    \/ RunStep \/ StartStep
    \/ CliUpdateReturns \/ CliUpdateAgain \/ CliUpdateExits
    \/ \E c \in Callers : Enable(c) \/ Disable(c) \/ ToggleStep(c)
    \/ Quit \/ StopStep

Safety == Init /\ [][Next]_vars

\* Threads run, the ticker ticks, syncs and updates end within their timeouts,
\* and the watcher keeps its promise (WatcherPromise).  Nothing
\* makes the user toggle, save a key or quit, or an assistant write.
Fairness ==
    /\ WF_vars(RunStep) /\ WF_vars(owed /\ WatchChanged) /\ WF_vars(Tick)
    /\ WF_vars(StartStep) /\ WF_vars(StopStep)
    /\ WF_vars(CliUpdateReturns) /\ WF_vars(CliUpdateExits)
    /\ \A c \in Callers : WF_vars(ToggleStep(c))

Spec == Safety /\ Fairness

-------------------------------------------------------------------------------
\* Properties

\* A callback is owed only by a watcher that watches, and between toggles the
\* directories are watched exactly while tracking is on; a watcher that could
\* not start may be missing (app.c:163-164).
WatchingFollowsTracking ==
    /\ owed => watching
    /\ main = "ui" /\ (\A c \in Callers : pc[c] = "ready") =>
           /\ watching => tracking
           /\ tracking /\ ~setup.watchMayFail => watching

\* Turning tracking off lets at most the run that had already checked the
\* preference read the session files; no later one does.
OneScanAfterDisable == scansWhileOff <= 1

\* When app_stop has returned no run, watch, tick or CLI update is left, and
\* none begins.
NothingLeftAfterStop ==
    main = "done" =>
        /\ run = "idle" /\ ~watching /\ ~owed /\ ~ticker
        /\ cliUpdate \in {"none", "exited"}

\* While tracking is on and the CLI is there, session data is sent in the end,
\* however the start, the toggles, the changes and the failures interleave.
EverythingSent ==
    unsent # "no" /\ tracking /\ cli # NoCli ~> unsent = "no" \/ ~tracking \/ main \in Shutdown

\* "Never downgrades" (agent_cli.h:64): no step puts an older CLI in the place of a
\* newer one.
NeverDowngrades == [][cli' >= cli]_vars

\* Quitting ends: app_stop waits for nothing that does not happen.
StopReturns == main \in Shutdown ~> main = "done"
===============================================================================
