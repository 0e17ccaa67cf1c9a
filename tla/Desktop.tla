-------------------------------- MODULE Desktop --------------------------------
(* What the program keeps in the user's desktop: the entry that starts it at     *)
(* login (src/launch.c, the check box of the Settings dialog) and its icon in    *)
(* the taskbar (src/ui/tray.c and the window of src/ui/ui.c), over sessions that *)
(* start from different places while Explorer restarts and the theme changes.    *)
EXTENDS Integers

CONSTANTS
    Paths,              \* where the executable may be started from
    NoPath,
    MaxStarts,          \* bound on the starts of the program
    MaxClicks,          \* bound on the clicks on the check box
    MaxEvents           \* bound on what Explorer and the theme do

NoEntry == "none"
TooLong == "too long"

ASSUME DesktopConstants ==
    /\ Paths \cap {NoPath, NoEntry, TooLong} = {}
    /\ MaxStarts \in Nat /\ MaxClicks \in Nat /\ MaxEvents \in Nat

VARIABLES
    session,            \* where the main thread is
    looping,            \* ui_run has reached its message loop
    self,               \* the path this process was started from
    entry,              \* the value in the Run key: a path, none, or one too long to read
    box,                \* the "Launch at login" box, or that the dialog is closed
    wanted,             \* history: the entry as the user last had it set
    registryFailed,     \* history: a write of the registry failed in this session
    taskbar,            \* Explorer's taskbar is there
    theme,              \* the taskbar's theme, in the registry: "dark" or "light"
    known,              \* the theme g_ui.taskbar_light says
    shown,              \* the icon in the taskbar
    current,            \* g_current_icon: its theme
    icons,              \* icons created and not destroyed
    inbox,              \* messages to the hidden window
    faults,             \* history: what failed calls of the shell have spoiled
    starts, clicks, events

launchVars == <<self, entry, box, wanted, registryFailed>>
shellVars == <<taskbar, theme, shown>>
iconVars == <<known, current, icons>>
vars == <<session, looping, launchVars, shellVars, iconVars, inbox, faults,
          starts, clicks, events>>

NoMessages == [taskbarCreated |-> 0, settingChange |-> 0]
NoIcon == [there |-> FALSE]
Icon(glyph, clickable) ==
    [there |-> TRUE, glyph |-> glyph, clickable |-> clickable]

\* The entry is what an earlier session, from anywhere, has left.
Init ==
    /\ session = "down" /\ looping = FALSE /\ self = NoPath
    /\ entry \in Paths \cup {NoEntry, TooLong} /\ wanted = (entry # NoEntry)
    /\ box = "closed" /\ registryFailed = FALSE
    /\ taskbar = TRUE /\ theme = "dark" /\ shown = NoIcon
    /\ known = "dark" /\ current = "none" /\ icons = 0
    /\ inbox = NoMessages
    /\ faults = {}
    /\ starts = 0 /\ clicks = 0 /\ events = 0

SessionGoes(from, to) ==
    /\ session = from /\ session' = to
    /\ UNCHANGED <<box, clicks, events, taskbar, theme>>

-------------------------------------------------------------------------------
\* wWinMain and launch_reconcile

Start(path) ==
    /\ SessionGoes("down", "reconcile")
    /\ starts < MaxStarts /\ starts' = starts + 1
    /\ self' = path /\ registryFailed' = FALSE
    /\ faults' = {} /\ inbox' = NoMessages
    /\ UNCHANGED <<looping, entry, wanted, shown, iconVars>>

\* read_value: none is not enabled, nor is one that does not fit its buffer.
Readable == entry \in Paths

\* A second start repoints the entry before it finds the running instance.
TurnedAway_Reconciling(path) ==
    /\ session # "down"
    /\ entry' = IF Readable THEN path ELSE entry
    /\ UNCHANGED <<session, looping, self, box, wanted, registryFailed, shellVars,
                   iconVars, inbox, faults, starts, clicks, events>>

\* A second start, from wherever, ends before it reconciles.
TurnedAway(path) == session # "down" /\ path # self /\ UNCHANGED vars

ReconcileGoes ==
    /\ SessionGoes("reconcile", "theme")
    /\ UNCHANGED <<looping, self, wanted, shown, iconVars, inbox, faults, starts>>

Reconcile ==
    /\ ReconcileGoes
    /\ entry' = IF Readable THEN self ELSE entry
    /\ UNCHANGED registryFailed

ReconcileFails ==
    /\ ReconcileGoes /\ Readable /\ entry # self
    /\ registryFailed' = TRUE /\ UNCHANGED entry

-------------------------------------------------------------------------------
\* The check box, on the Settings thread

DialogGoes ==
    UNCHANGED <<session, looping, self, shellVars, iconVars, inbox, faults, starts, events>>

BoxOfEntry == IF Readable THEN "checked" ELSE "unchecked"

OpenDialog ==
    /\ looping /\ box = "closed" /\ box' = BoxOfEntry
    /\ DialogGoes /\ UNCHANGED <<entry, wanted, registryFailed, clicks>>

CloseDialog ==
    /\ box # "closed" /\ box' = "closed"
    /\ DialogGoes /\ UNCHANGED <<entry, wanted, registryFailed, clicks>>

Click ==
    /\ box # "closed"
    /\ box' = IF box = "checked" THEN "unchecked" ELSE "checked"
    /\ clicks < MaxClicks /\ clicks' = clicks + 1
    /\ DialogGoes

SetEnabled ==
    /\ Click
    /\ wanted' = (box' = "checked")
    /\ entry' = IF wanted' THEN self ELSE NoEntry
    /\ UNCHANGED registryFailed

\* The user is told, and the box stays as it was clicked.
SetEnabledFails == Click /\ registryFailed' = TRUE /\ UNCHANGED <<entry, wanted>>

-------------------------------------------------------------------------------
\* Explorer and the theme.  A message reaches the window if it exists.

HasWindow == session \in {"add", "version", "loop", "remove"}
Posted(kind) == IF HasWindow THEN [inbox EXCEPT ![kind] = @ + 1] ELSE inbox

Happens ==
    /\ events < MaxEvents /\ events' = events + 1
    /\ UNCHANGED <<session, looping, launchVars, iconVars, starts, clicks>>

\* Windows then sends WM_SETTINGCHANGE.  Nothing tells a process that has read
\* the theme and has no window yet.
ThemeChanges ==
    /\ Happens /\ theme' = IF theme = "dark" THEN "light" ELSE "dark"
    /\ inbox' = Posted("settingChange")
    /\ faults' = IF session = "window" THEN faults \cup {"theme"} ELSE faults
    /\ UNCHANGED <<taskbar, shown>>

ExplorerEnds ==
    /\ Happens /\ taskbar /\ taskbar' = FALSE /\ shown' = NoIcon
    /\ UNCHANGED <<theme, inbox, faults>>

ExplorerStarts ==
    /\ ~taskbar /\ taskbar' = TRUE
    /\ inbox' = Posted("taskbarCreated")
    /\ UNCHANGED <<session, looping, launchVars, iconVars, starts, clicks, events,
                   theme, shown, faults>>

\* The taskbar announces itself again, with the icons it has, when the scale of
\* the display changes.
TaskbarRescaled ==
    /\ Happens /\ taskbar
    /\ inbox' = Posted("taskbarCreated")
    /\ UNCHANGED <<shellVars, faults>>

-------------------------------------------------------------------------------
\* ui_run, tray_add, tray_refresh_icon and tray_remove

UiGoes(from, to) ==
    SessionGoes(from, to) /\ UNCHANGED <<self, entry, wanted, registryFailed, starts>>

ReadTheme ==
    /\ UiGoes("theme", "window") /\ known' = theme
    /\ UNCHANGED <<looping, shown, current, icons, inbox, faults>>

CreateWindow ==
    /\ UiGoes("window", "add")
    /\ UNCHANGED <<looping, shown, iconVars, inbox, faults>>

\* NIM_ADD takes one icon of a window; the old one is destroyed.
AddIcon ==
    /\ UiGoes("add", "version") /\ taskbar /\ ~shown.there
    /\ shown' = Icon(known, FALSE) /\ current' = known
    /\ icons' = icons + 1 - (IF current = "none" THEN 0 ELSE 1)
    /\ faults' = IF looping THEN {} ELSE faults
    /\ UNCHANGED <<looping, known, inbox>>

\* There is no taskbar, or it has the icon, or it does not answer: the new icon
\* is destroyed.  The start gives up and the program ends.
AddFails ==
    /\ UiGoes("add", IF looping THEN "loop" ELSE "down")
    /\ faults' = faults \cup (IF shown.there THEN {"theme"} ELSE {"icon"})
    /\ UNCHANGED <<looping, shown, iconVars, inbox>>

VersionGoes ==
    UiGoes("version", "loop") /\ looping' = TRUE /\ UNCHANGED <<iconVars, inbox>>

\* Sets the version when the program starts only.
SetVersion_OnlyAtStart ==
    /\ VersionGoes
    /\ shown' = IF shown.there /\ ~looping THEN [shown EXCEPT !.clickable = TRUE] ELSE shown
    /\ UNCHANGED faults

\* NIM_SETVERSION; the icon may have gone with Explorer since it was added.
SetVersion ==
    /\ VersionGoes
    /\ shown' = IF shown.there THEN [shown EXCEPT !.clickable = TRUE] ELSE shown
    /\ UNCHANGED faults

\* Its result is ignored.
SetVersionFails ==
    VersionGoes /\ faults' = faults \cup {"clicks"} /\ UNCHANGED shown

Handles(kind, to) ==
    /\ UiGoes("loop", to) /\ UNCHANGED looping
    /\ inbox[kind] > 0 /\ inbox' = [inbox EXCEPT ![kind] = @ - 1]
    /\ known' = theme

TaskbarCreated ==
    Handles("taskbarCreated", "add") /\ UNCHANGED <<shown, current, icons, faults>>

ThemeIsKnown ==
    /\ Handles("settingChange", "loop") /\ theme = known
    /\ UNCHANGED <<shown, current, icons, faults>>

\* The new icon takes the place of the old one, which is destroyed.
RefreshIcon ==
    /\ Handles("settingChange", "loop") /\ theme # known /\ shown.there
    /\ shown' = [shown EXCEPT !.glyph = theme] /\ current' = theme
    /\ faults' = faults \ {"theme"}
    /\ UNCHANGED icons

\* The icon is not there, or the taskbar does not answer.
RefreshFails ==
    /\ Handles("settingChange", "loop") /\ theme # known
    /\ faults' = IF shown.there THEN faults \cup {"theme"} ELSE faults
    /\ UNCHANGED <<shown, current, icons>>

\* Quit in the menu, or a restart after an install.
Quit ==
    UiGoes("loop", "remove") /\ UNCHANGED <<looping, shown, iconVars, inbox, faults>>

\* tray_remove, app_stop and the end of the process, an open dialog included.
RemoveIcon ==
    /\ session = "remove" /\ session' = "down" /\ looping' = FALSE
    /\ shown' = NoIcon /\ current' = "none" /\ icons' = icons - 1
    /\ box' = "closed"
    /\ UNCHANGED <<self, entry, wanted, registryFailed, taskbar, theme, known,
                   inbox, faults, starts, clicks, events>>

UiStep ==
    \/ ReadTheme \/ CreateWindow \/ AddIcon \/ AddFails \/ SetVersion \/ SetVersionFails
    \/ TaskbarCreated \/ ThemeIsKnown \/ RefreshIcon \/ RefreshFails

-------------------------------------------------------------------------------
\* No more starts.
AtRest == session = "down" /\ UNCHANGED vars

Next ==
    \/ \E path \in Paths : Start(path) \/ TurnedAway(path)
    \/ Reconcile \/ ReconcileFails
    \/ OpenDialog \/ CloseDialog \/ SetEnabled \/ SetEnabledFails
    \/ ThemeChanges \/ ExplorerEnds \/ ExplorerStarts \/ TaskbarRescaled
    \/ UiStep \/ Quit \/ RemoveIcon
    \/ AtRest

Spec == Init /\ [][Next]_vars

-------------------------------------------------------------------------------
\* Properties

\* The program starts at login exactly if the user has last asked for it, from
\* where the running instance is, and the box says so (launch.h:13): a start
\* never enables it, and a copy that is turned away does not take the entry over.
\* A write of the registry that failed in this session, and an entry too long to
\* be read, are excepted.
EntryFollowsUser ==
    /\ wanted <=> entry # NoEntry
    /\ ~registryFailed =>
           /\ Readable /\ session \notin {"down", "reconcile"} => entry = self
           /\ box \in {"closed", BoxOfEntry}

\* With all its messages handled the program has its icon in the taskbar, in the
\* taskbar's theme and with clickable balloons, except for what a failed call of
\* the shell has left (tray.c:5-7, ui.c:152); it keeps one icon however often
\* Explorer restarts, and none is left behind.
IconServesUser ==
    /\ session = "loop" /\ taskbar /\ inbox = NoMessages =>
           /\ "icon" \in faults \/ shown.there
           /\ shown.there => "clicks" \in faults \/ shown.clickable
           /\ shown.there => "theme" \in faults \/ shown.glyph = theme
    /\ icons = IF current = "none" THEN 0 ELSE 1
    /\ session = "down" => ~shown.there /\ icons = 0
===============================================================================
