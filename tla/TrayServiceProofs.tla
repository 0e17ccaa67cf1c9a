---------------------------- MODULE TrayServiceProofs ----------------------------
(* Proofs about TrayService, for any setups and bounds: of the scans, whichever   *)
(* threads toggle tracking; of the rest, with toggles from the tray menu only, as *)
(* in the program.                                                                *)
EXTENDS TrayService, TLAPS

Starting == {"load", "ticker", "monitor", "watch", "bootstrap", "seed", "rename", "trigger",
             "update"}

TrackingTypeOK == tracking \in BOOLEAN

\* Scans since tracking was turned off, with the one that has passed its check.
\* Nothing runs before the preference is loaded.
ScansBounded ==
    /\ scansWhileOff \in Nat
    /\ tracking => scansWhileOff = 0
    /\ ~tracking => scansWhileOff <= IF run = "scan" THEN 0 ELSE 1
    /\ main = "load" =>
           /\ run = "idle" /\ ~pending /\ ~ticker /\ ~owed /\ ~watching
           /\ scansWhileOff = 0 /\ \A c \in Callers : pc[c] = "ready"

\* The watcher on its way to where the preference wants it.
WatchSettled ==
    /\ watching => tracking
    /\ tracking /\ ~setup.watchMayFail => watching
WatcherFollows ==
    /\ pc \in [Callers -> {"ready", "monitor", "watch", "unwatch", "trigger"}]
    /\ pc[Main] # "ready" => main = "ui"
    /\ owed => watching
    /\ main \in {"load", "ticker", "monitor", "watch"} => ~watching
    /\ main = "watch" \/ pc[Main] \in {"monitor", "watch"} => tracking
    /\ pc[Main] = "unwatch" => ~tracking
    /\ /\ main \in {"bootstrap", "seed", "rename", "trigger", "update", "ui"}
       /\ pc[Main] \in {"ready", "trigger"}
       => WatchSettled

\* What app_stop has ended, step by step.
Stopped ==
    /\ main \in {"stopWatcher", "stopSyncer", "joinSyncer", "done"} =>
           cliUpdate \in {"none", "exited"}
    /\ main \in {"stopSyncer", "joinSyncer", "done"} => ~watching /\ ~owed
    /\ main \in {"joinSyncer", "done"} => ~ticker /\ stopping
    /\ main = "done" => run = "idle"

-------------------------------------------------------------------------------

\* The steps that neither start, stop, watch nor toggle.
Work ==
    \/ WatchChanged \/ Tick \/ SyncNow \/ RunStep
    \/ CliUpdateReturns \/ CliUpdateAgain \/ CliUpdateExits

\* What such a step leaves alone.
LEMMA WorkFrame ==
    ASSUME Work
    PROVE  /\ UNCHANGED <<setup, main, pc, tracking, ticker, watching, stopping>>
           /\ owed' = owed \/ owed' = FALSE
  BY DEF Work, WatchChanged, Tick, SyncNow, RunStep, CliUpdateReturns, CliUpdateAgain,
         CliUpdateExits, TriggerAlone, Trigger, RunBegins, RunChecks, RunScans, RunCannotLaunch,
         RunSucceeds, RunFails, RunGoes, CliUpdateGoes, watcherVars, syncerVars, dataVars

\* What the start leaves alone.
LEMMA StartFrame ==
    ASSUME StartStep
    PROVE  /\ UNCHANGED <<setup, pc, run, stopping, scansWhileOff>>
           /\ main \in Starting /\ main' \in Starting \cup {"ui"} /\ main' # "load"
           /\ main = "load" \/ UNCHANGED tracking
  BY DEF StartStep, StartLoads, StartTicker, StartMonitoring, StartWatching, BootstrapSkips,
         BootstrapProbes, BootstrapStages, BootstrapRenames, BootstrapGivesUp, StartTriggers,
         StartCliUpdate, MainGoes, BootstrapGoes, Trigger, syncerVars, dataVars, Starting

\* What app_stop leaves alone.
LEMMA StopFrame ==
    ASSUME Quit \/ StopStep
    PROVE  /\ UNCHANGED <<setup, pc, tracking, cliUpdate, run, scansWhileOff>>
           /\ main \in {"ui"} \cup Shutdown /\ main' \in Shutdown
  BY DEF Quit, StopStep, StopUpdate, JoinUpdate, StopWatcher, StopSyncer, JoinSyncer, StopGoes,
         MainGoes, syncerVars, dataVars, Shutdown

\* What app_set_tracking_enabled leaves alone.
LEMMA ToggleFrame ==
    ASSUME NEW c \in Callers, Enable(c) \/ Disable(c) \/ ToggleStep(c)
    PROVE  UNCHANGED <<setup, main, ticker, run, stopping, cliUpdate>>
  BY DEF Enable, Disable, ToggleStep, EnableMonitors, EnableWatches, EnableTriggers,
         DisableUnwatches, Toggles, CallerGoes, Trigger, syncerVars, updateVars

-------------------------------------------------------------------------------

\* The preference is on or off.
LEMMA TrackingTyped == Spec => []TrackingTypeOK
<1>1. Init => TrackingTypeOK
  BY DEF Init, TrackingTypeOK
<1>2. TrackingTypeOK /\ [Next]_vars => TrackingTypeOK'
  <2>. SUFFICES ASSUME TrackingTypeOK, [Next]_vars
                PROVE  tracking' = tracking \/ tracking' \in BOOLEAN
    BY DEF TrackingTypeOK
  <2>1. CASE Change \/ UNCHANGED vars
    BY <2>1 DEF Change, vars
  <2>2. CASE StartStep
    <3>1. CASE main = "load"
      BY <2>2, <3>1 DEF StartStep, StartLoads, StartTicker, StartMonitoring, StartWatching,
            BootstrapSkips, BootstrapProbes, BootstrapStages, BootstrapRenames,
            BootstrapGivesUp, StartTriggers, StartCliUpdate, MainGoes, BootstrapGoes
    <3>. QED
      BY <2>2, <3>1, StartFrame
  <2>3. ASSUME NEW c \in Callers, Enable(c) \/ Disable(c) \/ ToggleStep(c)
        PROVE  tracking' = tracking \/ tracking' \in BOOLEAN
    BY <2>3 DEF Enable, Disable, ToggleStep, EnableMonitors, EnableWatches, EnableTriggers,
                DisableUnwatches, Toggles, AfterToggle
  <2>. QED
    BY <2>1, <2>2, <2>3, WorkFrame, StopFrame DEF Next, Work
<1>. QED
  BY <1>1, <1>2, PTL DEF Spec, Safety

\* Turning tracking off lets at most the run that had already checked the
\* preference read the session files, whoever else toggles (app.c:26-33, 131-142).
THEOREM OneScanLeft == Spec => []OneScanAfterDisable
<1>1. Init => ScansBounded
  BY DEF Init, ScansBounded
<1>2. TrackingTypeOK /\ ScansBounded /\ [Next]_vars => ScansBounded'
  <2>. SUFFICES ASSUME TrackingTypeOK, ScansBounded, [Next]_vars
                PROVE  ScansBounded'
    OBVIOUS
  <2>. USE DEF ScansBounded
  <2>1. CASE Change
    BY <2>1 DEF Change, syncerVars
  <2>2. CASE WatchChanged \/ Tick \/ SyncNow
    BY <2>2 DEF WatchChanged, Tick, SyncNow, TriggerAlone, Trigger, watcherVars, dataVars,
                Shutdown
  <2>3. CASE RunBegins \/ RunChecks \/ RunCannotLaunch \/ RunSucceeds \/ RunFails
    BY <2>3 DEF RunBegins, RunChecks, RunCannotLaunch, RunSucceeds, RunFails, RunGoes,
                watcherVars, dataVars
  <2>4. CASE RunScans
    BY <2>4 DEF RunScans, RunGoes, watcherVars
  <2>5. CASE StartStep
    BY <2>5, StartFrame
  <2>6. CASE CliUpdateReturns \/ CliUpdateAgain \/ CliUpdateExits
    <3>1. UNCHANGED <<main, pc, tracking, ticker, watching, owed, pending, run, scansWhileOff>>
      BY <2>6 DEF CliUpdateReturns, CliUpdateAgain, CliUpdateExits, CliUpdateGoes, watcherVars,
                  syncerVars, dataVars
    <3>. QED
      BY <3>1
  <2>7. ASSUME NEW c \in Callers, Enable(c) \/ Disable(c)
        PROVE  ScansBounded'
    <3>1. main = "ui" /\ main' = "ui" /\ UNCHANGED run
      BY <2>7, ToggleFrame DEF Enable, Disable, Toggles
    <3>2. \/ tracking' = TRUE /\ scansWhileOff' = 0
          \/ ~tracking' /\ tracking # FALSE /\ scansWhileOff' = scansWhileOff
      BY <2>7 DEF Enable, Disable, Toggles
    <3>3. tracking # FALSE => tracking
      BY DEF TrackingTypeOK
    <3>4. CASE ~tracking' /\ tracking /\ scansWhileOff' = scansWhileOff
      <4>1. scansWhileOff' = 0
        BY <3>4
      <4>. QED
        BY <3>1, <3>4, <4>1
    <3>5. CASE tracking' = TRUE /\ scansWhileOff' = 0
      <4>1. tracking'
        BY <3>5
      <4>. QED
        BY <3>1, <3>5, <4>1
    <3>. QED
      BY <3>2, <3>3, <3>4, <3>5
  <2>8. ASSUME NEW c \in Callers, ToggleStep(c)
        PROVE  ScansBounded'
    <3>1. UNCHANGED <<main, tracking, scansWhileOff, run, ticker>> /\ pc[c] # "ready"
      BY <2>8, ToggleFrame DEF ToggleStep, EnableMonitors, EnableWatches, EnableTriggers,
                  DisableUnwatches, AfterToggle, CallerGoes
    <3>. QED
      BY <3>1
  <2>9. CASE Quit \/ StopStep
    BY <2>9, StopFrame DEF Shutdown
  <2>10. CASE UNCHANGED vars
    BY <2>10 DEF vars, syncerVars, watcherVars, dataVars
  <2>. QED
    BY <2>1, <2>2, <2>3, <2>4, <2>5, <2>6, <2>7, <2>8, <2>9, <2>10 DEF Next, RunStep
<1>3. ScansBounded => OneScanAfterDisable
  BY DEF ScansBounded, OneScanAfterDisable
<1>. QED
  BY <1>1, <1>2, <1>3, TrackingTyped, PTL DEF Spec, Safety

-------------------------------------------------------------------------------
\* What follows is about the program as it is, where only the tray menu, on the
\* main thread, toggles tracking.

\* Before app_start nothing is watched and nothing has to be.
LEMMA FollowsInit ==
    ASSUME Callers = {Main}, Init
    PROVE  WatcherFollows /\ Stopped
BY DEF Init, WatcherFollows, Stopped

\* The session is watched as the preference says, whatever step is taken.
LEMMA FollowsStep ==
    ASSUME Callers = {Main}, TrackingTypeOK, WatcherFollows, Stopped, [Next]_vars
    PROVE  WatcherFollows'
<1>. USE DEF WatcherFollows, WatchSettled
<1>1. CASE Work \/ UNCHANGED vars
  <2>1. /\ UNCHANGED <<setup, main, pc, tracking, watching>>
        /\ owed' = owed \/ owed' = FALSE
    BY <1>1, WorkFrame DEF vars, watcherVars, dataVars
  <2>. QED
    BY <2>1
<1>2. CASE Change
  BY <1>2 DEF Change
<1>3. CASE StartLoads \/ StartTicker
  BY <1>3 DEF StartLoads, StartTicker, MainGoes, watcherVars, dataVars
<1>4. CASE StartMonitoring
  BY <1>4 DEF StartMonitoring, StopsWatching, MainGoes, watcherVars, dataVars
<1>5. CASE StartWatching
  <2>1. /\ UNCHANGED <<setup, pc, tracking>> /\ owed' = FALSE
        /\ main = "watch" /\ main' = "bootstrap"
        /\ ~setup.watchMayFail => watching' = TRUE
    BY <1>5 DEF StartWatching, StartsWatching, MainGoes, dataVars
  <2>. QED
    BY <2>1
<1>6. CASE \/ BootstrapSkips \/ BootstrapProbes \/ BootstrapStages \/ BootstrapRenames
           \/ BootstrapGivesUp \/ StartTriggers \/ StartCliUpdate
  <2>1. /\ UNCHANGED <<setup, pc, tracking, watching, owed>>
        /\ {main, main'} \subseteq {"bootstrap", "seed", "rename", "trigger", "update", "ui"}
        /\ main # "ui"
    BY <1>6 DEF BootstrapSkips, BootstrapProbes, BootstrapStages, BootstrapRenames,
                BootstrapGivesUp, StartTriggers, StartCliUpdate, BootstrapGoes, MainGoes,
                watcherVars, dataVars
  <2>. QED
    BY <2>1
<1>7. CASE Enable(Main) \/ Disable(Main)
  <2>1. /\ UNCHANGED <<setup, main, watching, owed>> /\ main = "ui"
        /\ \/ pc' = [pc EXCEPT ![Main] = "monitor"] /\ tracking' = TRUE
           \/ pc' = [pc EXCEPT ![Main] = "unwatch"] /\ tracking' = FALSE
    BY <1>7 DEF Enable, Disable, Toggles, CallerGoes, watcherVars
  <2>. QED
    BY <2>1
<1>8. CASE EnableMonitors(Main)
  BY <1>8 DEF EnableMonitors, StopsWatching, CallerGoes, AfterToggle, watcherVars
<1>9. CASE EnableWatches(Main)
  BY <1>9 DEF EnableWatches, StartsWatching, CallerGoes, AfterToggle
<1>10. CASE EnableTriggers(Main) \/ DisableUnwatches(Main)
  BY <1>10 DEF EnableTriggers, DisableUnwatches, StopsWatching, CallerGoes, AfterToggle,
               watcherVars
<1>11. CASE Quit
  BY <1>11 DEF Quit, StopGoes, MainGoes, watcherVars, dataVars
<1>12. CASE StopStep
  <2>1. UNCHANGED <<setup, pc, tracking>> /\ {main, main'} \subseteq Shutdown
    BY <1>12, StopFrame
       DEF StopStep, StopUpdate, JoinUpdate, StopWatcher, StopSyncer, JoinSyncer, StopGoes,
           MainGoes, Shutdown
  <2>2. \/ UNCHANGED <<watching, owed>>
        \/ watching' = FALSE /\ owed' = FALSE
    BY <1>12 DEF StopStep, StopUpdate, JoinUpdate, StopWatcher, StopSyncer, JoinSyncer,
                 StopsWatching, watcherVars
  <2>. QED
    BY <2>1, <2>2 DEF Shutdown
<1>. QED
  BY <1>1, <1>2, <1>3, <1>4, <1>5, <1>6, <1>7, <1>8, <1>9, <1>10, <1>11, <1>12
     DEF Next, Work, StartStep, ToggleStep

\* What app_stop has ended does not come back.
LEMMA StoppedStep ==
    ASSUME Callers = {Main}, WatcherFollows, Stopped, [Next]_vars
    PROVE  Stopped'
<1>. USE DEF Stopped
<1>0. main # "ui" => pc[Main] = "ready"
  BY DEF WatcherFollows
<1>1. CASE WatchChanged \/ Tick \/ SyncNow \/ UNCHANGED vars
  BY <1>1 DEF WatchChanged, Tick, SyncNow, TriggerAlone, Trigger, vars, watcherVars, syncerVars,
              updateVars
<1>2. CASE RunStep
  <2>1. /\ UNCHANGED <<main, ticker, watching, owed, stopping, cliUpdate>>
        /\ run = "idle" => ~stopping
    BY <1>2 DEF RunStep, RunBegins, RunChecks, RunScans, RunCannotLaunch, RunSucceeds, RunFails,
                RunGoes, watcherVars, updateVars
  <2>. QED
    BY <2>1
<1>3. CASE CliUpdateReturns \/ CliUpdateAgain \/ CliUpdateExits
  <2>1. /\ UNCHANGED <<main, ticker, watching, owed, stopping, run>>
        /\ cliUpdate \notin {"none", "exited"}
    BY <1>3 DEF CliUpdateReturns, CliUpdateAgain, CliUpdateExits, CliUpdateGoes, watcherVars,
                syncerVars
  <2>. QED
    BY <2>1
<1>4. CASE Change
  BY <1>4 DEF Change, syncerVars, updateVars
<1>5. CASE StartStep
  BY <1>5, StartFrame DEF Starting
<1>6. ASSUME NEW c \in Callers, Enable(c) \/ Disable(c) \/ ToggleStep(c)
      PROVE  Stopped'
  <2>1. main = "ui"
    BY <1>0, <1>6 DEF Enable, Disable, Toggles, ToggleStep, EnableMonitors, EnableWatches,
                      EnableTriggers, DisableUnwatches, CallerGoes
  <2>. QED
    BY <1>6, <2>1, ToggleFrame
<1>7. CASE Quit
  BY <1>7 DEF Quit, StopGoes, MainGoes
<1>8. CASE StopUpdate \/ JoinUpdate \/ StopWatcher
  BY <1>8 DEF StopUpdate, JoinUpdate, StopWatcher, StopsWatching, StopGoes, MainGoes
<1>9. CASE StopSyncer \/ JoinSyncer
  BY <1>9 DEF StopSyncer, JoinSyncer, StopGoes, MainGoes, watcherVars, syncerVars
<1>. QED
  BY <1>1, <1>2, <1>3, <1>4, <1>5, <1>6, <1>7, <1>8, <1>9 DEF Next, StopStep

\* Both hold in every reachable state.
LEMMA FollowsInvariant ==
    ASSUME Callers = {Main}
    PROVE  Spec => [](WatcherFollows /\ Stopped)
<1>1. Init => WatcherFollows /\ Stopped
  BY FollowsInit
<1>2. TrackingTypeOK /\ (WatcherFollows /\ Stopped) /\ [Next]_vars
      => (WatcherFollows /\ Stopped)'
  BY FollowsStep, StoppedStep
<1>. QED
  BY <1>1, <1>2, TrackingTyped, PTL DEF Spec, Safety

\* Between toggles the directories are watched exactly while tracking is on, if
\* the watcher can start (app.c:163-164).
THEOREM WatcherFollowsTracking ==
    ASSUME Callers = {Main}
    PROVE  Spec => []WatchingFollowsTracking
<1>1. WatcherFollows => WatchingFollowsTracking
  BY DEF WatcherFollows, WatchSettled, WatchingFollowsTracking
<1>. QED
  BY <1>1, FollowsInvariant, PTL

\* When app_stop has returned no run, watch, tick or CLI update is left, and
\* none begins (app.c:92-110).
THEOREM NothingLeft ==
    ASSUME Callers = {Main}
    PROVE  Spec => []NothingLeftAfterStop
<1>1. Stopped => NothingLeftAfterStop
  BY DEF Stopped, NothingLeftAfterStop
<1>. QED
  BY <1>1, FollowsInvariant, PTL
===============================================================================
