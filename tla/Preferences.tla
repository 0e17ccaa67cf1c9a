------------------------------ MODULE Preferences ------------------------------
(* The two preferences of app.c and the file settings.c keeps them in.  The    *)
(* tray menu (main thread) toggles tracking, the Settings dialog (its own      *)
(* thread) toggles automatic updates; both save under the exclusive lock.  The *)
(* process may die at any step and be started again.                           *)
EXTENDS Naturals

CONSTANTS
    Menu, Dialog,       \* the two threads that change a preference
    NoThread,           \* nobody holds the lock
    ReadMayFail,        \* the settings file may be unreadable at startup
    MaxToggles,         \* bound on the changes of preferences
    MaxEnds             \* bound on the ends of the process

Setters == {Menu, Dialog}
Flags == {"tracking_disabled", "automatic_updates_disabled"}

\* The flag each thread changes.
FlagOf(t) == IF t = Menu THEN "tracking_disabled" ELSE "automatic_updates_disabled"

ASSUME PreferencesConstants ==
    /\ Menu # Dialog /\ NoThread \notin Setters
    /\ ReadMayFail \in BOOLEAN /\ MaxToggles \in Nat /\ MaxEnds \in Nat

VARIABLES
    session,            \* not running, running on the file's flags or on the defaults
    disabled,           \* the flags off in memory: ~tracking, ~auto_updates
    file,               \* windows-settings.json; a missing file reads as {}
    temp,               \* the temporary file of a save
    lock,               \* holder of g_app.lock
    setter,             \* where each setter is
    chosen,             \* history: the flags off by the user's latest choices
    toggles, ends       \* history: counters for the bounds

preferencesVars == <<session, disabled, file, temp, lock, setter, chosen, toggles, ends>>
counted == <<toggles, ends>>

\* What a file holds: nothing, the beginning of a save, or a whole save.
Empty == [state |-> "empty", fields |-> {}]
Whole(fields) == [state |-> "whole", fields |-> fields]

\* The file is what an earlier session saved.
PreferencesInit ==
    /\ session = "down"
    /\ chosen \in SUBSET Flags /\ file = Whole(chosen)
    /\ disabled = {}
    /\ temp = Empty
    /\ lock = NoThread
    /\ setter = [t \in Setters |-> "idle"]
    /\ toggles = 0 /\ ends = 0

Up == session # "down"

-------------------------------------------------------------------------------
\* app_init and app_start: both features on, then the file, if it can be read.

Starts(how, flags) ==
    /\ session = "down" /\ session' = how
    /\ disabled' = flags
    /\ UNCHANGED <<file, temp, lock, setter, chosen, counted>>

Load == Starts("loaded", file.fields)

\* The file cannot be opened or read: the defaults stay in memory.
LoadFails == ReadMayFail /\ Starts("defaults", {})

-------------------------------------------------------------------------------
\* app_set_tracking_enabled and app_set_automatic_updates_enabled, up to the
\* release of the lock

Moves(t, from, to) ==
    /\ setter[t] = from /\ setter' = [setter EXCEPT ![t] = to]
    /\ UNCHANGED <<session, ends>>

Call(t) ==
    /\ Up /\ Moves(t, "idle", "lock")
    /\ toggles < MaxToggles /\ toggles' = toggles + 1
    /\ UNCHANGED <<disabled, file, temp, lock, chosen>>

Toggled(flags, t) ==
    IF FlagOf(t) \in flags THEN flags \ {FlagOf(t)} ELSE flags \cup {FlagOf(t)}

Changes(t) ==
    /\ Moves(t, "lock", "create")
    /\ disabled' = Toggled(disabled, t)
    /\ chosen' = (chosen \ {FlagOf(t)}) \cup (disabled' \cap {FlagOf(t)})
    /\ UNCHANGED <<file, temp, toggles>>

\* The flag is changed and saved without taking the lock.
ChangeFlag_Unlocked(t) == Changes(t) /\ UNCHANGED lock

ChangeFlag(t) == Changes(t) /\ lock = NoThread /\ lock' = t

\* settings_save touches the files only.
Saves(t, from, to) == Moves(t, from, to) /\ UNCHANGED <<disabled, lock, chosen, toggles>>

\* The temporary file is truncated if a dead process left it.
CreateTemp(t) ==
    /\ Saves(t, "create", "write")
    /\ temp' = [state |-> "cut off", fields |-> {}]
    /\ UNCHANGED file

\* A save that re-reads the file and changes only its own flag in it.
WriteTemp_Reloading(t) ==
    /\ Saves(t, "write", "rename")
    /\ temp' = Whole((file.fields \ {FlagOf(t)}) \cup (disabled \cap {FlagOf(t)}))
    /\ UNCHANGED file

\* Both flags are written as they are in memory.
WriteTemp(t) ==
    /\ Saves(t, "write", "rename")
    /\ temp' = Whole(disabled)
    /\ UNCHANGED file

\* MoveFileEx replaces the settings file in one step.
Rename(t) ==
    /\ Saves(t, "rename", "unlock")
    /\ file' = temp /\ temp' = Empty

\* The temporary file cannot be created, written or renamed: it is deleted, and
\* the result of settings_save is ignored.
SaveFails(t) ==
    /\ \E from \in {"create", "write", "rename"} : Saves(t, from, "unlock")
    /\ temp' = IF setter[t] = "create" THEN temp ELSE Empty
    /\ UNCHANGED file

Unlock(t) ==
    /\ Moves(t, "unlock", "idle") /\ lock' = NoThread
    /\ UNCHANGED <<disabled, file, temp, chosen, toggles>>

SaveStep(t) == CreateTemp(t) \/ WriteTemp(t) \/ Rename(t) \/ SaveFails(t) \/ Unlock(t)

-------------------------------------------------------------------------------
\* The process ends, at any step; what the user sees next is what the file says.
End ==
    /\ Up /\ session' = "down"
    /\ ends < MaxEnds /\ ends' = ends + 1
    /\ disabled' = {} /\ lock' = NoThread
    /\ setter' = [t \in Setters |-> "idle"]
    /\ chosen' = file.fields
    /\ UNCHANGED <<file, temp, toggles>>

\* No more changes of preferences.
PreferencesAtRest ==
    /\ Up
    /\ \A t \in Setters : setter[t] = "idle"
    /\ UNCHANGED preferencesVars

PreferencesNext ==
    \/ Load \/ LoadFails \/ End \/ PreferencesAtRest
    \/ \E t \in Setters : Call(t) \/ ChangeFlag(t) \/ SaveStep(t)

PreferencesSpec == PreferencesInit /\ [][PreferencesNext]_preferencesVars

-------------------------------------------------------------------------------
\* Properties

\* A flag being changed is seen by readers, who take the shared lock, only when
\* the save has ended: it counts from the moment its outcome is decided.
Seen ==
    IF lock # NoThread /\ setter[lock] \in {"create", "write", "rename"}
    THEN Toggled(disabled, lock) ELSE disabled

\* The lock, the temporary file and the rename implement the atomic store of
\* PreferenceStore: memory and file change together unless the save fails, no
\* change of one flag comes between those of the other, and whatever step the
\* process dies at, the file is a whole save, the last one that completed
\* (settings.h:5-6, app.c:121-123).
Store ==
    INSTANCE PreferenceStore
        WITH up <- Up, off <- Seen,
             stored <- IF file.state = "whole" THEN file.fields ELSE {file.state}
ImplementsStore == Store!Spec

\* A save stores the user's latest choice of both flags: it never undoes a
\* choice of the flag not being toggled (app.c:119-122).
NoChoiceClobbered == [][file' # file => file'.fields = chosen]_preferencesVars

\* It is so in every session that could read the file at startup.
NoChoiceClobberedOnceRead ==
    [][file' # file /\ session = "loaded" => file'.fields = chosen]_preferencesVars
===============================================================================
