------------------------------ MODULE SelfUpdate ------------------------------
(* The life of the program's processes around a self-update: main.c,          *)
(* instance.c, app_update.c and the install thread of ui/updater.c.  The      *)
(* running executable renames itself aside, the verified download takes its   *)
(* path, and a restart hands over to it.  A process may be started by the     *)
(* user, quit, or die at any step.  Files are modelled as Windows treats the  *)
(* image of a running process: it can be renamed, not deleted or replaced.    *)
EXTENDS Integers, FiniteSets

CONSTANTS
    Procs,              \* processes that may exist
    Latest,             \* the newest build; the one installed at first is 0
    DigestPublished,    \* the server publishes a digest with the update
    MaxLaunches,        \* bound on processes started by the user
    MaxInstalls,        \* bound on installs begun
    MaxCrashes          \* bound on processes that die

ASSUME SelfUpdateConstants ==
    /\ IsFiniteSet(Procs)
    /\ Latest \in Nat /\ DigestPublished \in BOOLEAN
    /\ MaxLaunches \in Nat /\ MaxInstalls \in Nat /\ MaxCrashes \in Nat

\* What a file holds: a build, an incomplete or altered download, or no file.
Builds == 0..Latest
Spoiled == -1
NoFile == -2

\* Where a process is; in "run" its message loop runs, in "stopping" app_stop.
ProcPCs == {"down", "cleanup", "acquire", "reject", "run", "stopping", "handover"}
\* Where its install thread is; "offered" shows the restart choice.
InstallPCs == {"none", "delete", "stage", "download", "verify", "moveOut", "moveIn",
               "rollback", "unstage", "offered"}

VARIABLES
    exe,                \* the file at the executable's path
    old,                \* the file at the path with the .old suffix
    staged,             \* each process's download next to the executable
    pc, install,
    build,              \* the build a process executes
    image,              \* where the file it executes from is now
    offer,              \* the build its install thread downloads
    restart,            \* restart_requested
    mutex,              \* the processes with a handle on the instance mutex
    parent,             \* history: the build whose restart started a process
    launches, installs, crashes

files == <<exe, old, staged>>
procVars == <<pc, build, image, restart, mutex, parent>>
counters == <<launches, installs, crashes>>
vars == <<files, procVars, install, offer, counters>>

TypeOK ==
    /\ exe \in Builds \cup {Spoiled, NoFile} /\ old \in Builds \cup {Spoiled, NoFile}
    /\ staged \in [Procs -> Builds \cup {Spoiled, NoFile}]
    /\ pc \in [Procs -> ProcPCs] /\ install \in [Procs -> InstallPCs]
    /\ build \in [Procs -> Builds] /\ image \in [Procs -> {"none", "exe", "old"}]
    /\ offer \in [Procs -> Builds]
    /\ restart \in [Procs -> BOOLEAN]
    /\ mutex \subseteq Procs /\ parent \in [Procs -> Builds \cup {NoFile}]
    /\ launches \in 0..MaxLaunches /\ installs \in 0..MaxInstalls
    /\ crashes \in 0..MaxCrashes
    \* a living process executes a file that is there, and only it can install
    /\ \A p \in Procs :
        /\ pc[p] = "down" <=> image[p] = "none"
        /\ image[p] = "exe" => exe = build[p]
        /\ image[p] = "old" => old = build[p]
        /\ install[p] # "none" \/ restart[p] => pc[p] \in {"run", "stopping", "handover"}

Init ==
    /\ exe = 0 /\ old = NoFile
    /\ staged = [p \in Procs |-> NoFile]
    /\ pc = [p \in Procs |-> "down"] /\ install = [p \in Procs |-> "none"]
    /\ build = [p \in Procs |-> 0] /\ image = [p \in Procs |-> "none"]
    /\ offer = [p \in Procs |-> 0]
    /\ restart = [p \in Procs |-> FALSE]
    /\ mutex = {} /\ parent = [p \in Procs |-> NoFile]
    /\ launches = 0 /\ installs = 0 /\ crashes = 0

Alive(p) == pc[p] # "down"
InUse(place) == \E p \in Procs : Alive(p) /\ image[p] = place

-------------------------------------------------------------------------------
\* Starting and ending a process

\* A new process executes the file at the executable's path.
Started(p) ==
    /\ exe \in Builds
    /\ build' = [build EXCEPT ![p] = exe]
    /\ image' = [image EXCEPT ![p] = "exe"]

\* The process is gone: its handles are closed, its threads ended, its files
\* stay as they are.
Ended(p) ==
    /\ pc' = [pc EXCEPT ![p] = "down"]
    /\ install' = [install EXCEPT ![p] = "none"]
    /\ image' = [image EXCEPT ![p] = "none"]
    /\ restart' = [restart EXCEPT ![p] = FALSE]
    /\ mutex' = mutex \ {p}

Goes(p, from, to) == pc[p] = from /\ pc' = [pc EXCEPT ![p] = to]

\* Steps that leave the files, the images and the install threads alone.
OnlyProcess == UNCHANGED <<files, install, build, image, offer, parent, counters>>

\* The user, or autostart, starts the program.
Launch(p) ==
    /\ launches < MaxLaunches /\ launches' = launches + 1
    /\ Goes(p, "down", "cleanup") /\ Started(p)
    /\ parent' = [parent EXCEPT ![p] = NoFile]
    /\ UNCHANGED <<files, install, offer, restart, mutex, installs, crashes>>

\* DeleteFile(old) fails while a process executes from it.
DeletesOld == old' = IF InUse("old") THEN old ELSE NoFile

\* app_update_cleanup_leftovers, before the instance guard.
CleanupLeftovers(p) ==
    /\ Goes(p, "cleanup", "acquire") /\ DeletesOld
    /\ UNCHANGED <<exe, staged, install, build, image, offer, restart, mutex, parent, counters>>

\* A handle on an existing mutex is taken for the lock.
InstanceAcquire_Always(p) ==
    /\ Goes(p, "acquire", "run") /\ mutex' = mutex \cup {p}
    /\ OnlyProcess /\ UNCHANGED restart

\* CreateMutex opens the mutex whether or not it exists already.
InstanceAcquire(p) ==
    /\ Goes(p, "acquire", IF mutex = {} THEN "run" ELSE "reject")
    /\ mutex' = mutex \cup {p}
    /\ OnlyProcess /\ UNCHANGED restart

\* A process ends by itself; what it leaves behind stays.
EndsFrom(p, from) ==
    /\ pc[p] = from /\ Ended(p)
    /\ UNCHANGED <<files, build, offer, parent, counters>>

\* INSTANCE_ALREADY_RUNNING: the handle is closed and the process returns.
InstanceRejected(p) == EndsFrom(p, "reject")

\* The message loop ends and app_stop runs; an install goes on meanwhile.
Quit(p) == Goes(p, "run", "stopping") /\ OnlyProcess /\ UNCHANGED <<restart, mutex>>

\* Without a restart request the process ends, its install thread with it.
Exit(p) == EndsFrom(p, "stopping") /\ ~restart[p]

\* The child is started before the instance mutex is released.
InstanceRelease_AfterRelaunch(p) ==
    Goes(p, "stopping", "handover") /\ restart[p] /\ OnlyProcess /\ UNCHANGED <<restart, mutex>>

\* With one, the instance mutex is released first ...
InstanceRelease(p) ==
    /\ Goes(p, "stopping", "handover") /\ restart[p]
    /\ mutex' = mutex \ {p}
    /\ OnlyProcess /\ UNCHANGED restart

\* ... and then app_update_relaunch starts the new build.
Relaunch(p) ==
    /\ pc[p] = "handover" /\ restart[p]
    /\ \E q \in Procs \ {p} :
        /\ Goes(q, "down", "cleanup") /\ Started(q)
        /\ parent' = [parent EXCEPT ![q] = build[p]]
    /\ restart' = [restart EXCEPT ![p] = FALSE]
    /\ UNCHANGED <<files, install, offer, mutex, counters>>

\* The relaunch was done, or CreateProcess failed: the process ends.
HandoverExit(p) == EndsFrom(p, "handover")

Crash(p) ==
    /\ Alive(p) /\ Ended(p)
    /\ crashes < MaxCrashes /\ crashes' = crashes + 1
    /\ UNCHANGED <<files, build, offer, parent, launches, installs>>

-------------------------------------------------------------------------------
\* install_main and app_update_install, on a thread of the running instance

\* The user accepts an update that is newer than the build running; one install
\* at a time.
InstallBegins(p) ==
    /\ pc[p] = "run" /\ install[p] = "none"
    /\ installs < MaxInstalls /\ installs' = installs + 1
    /\ \E b \in Builds : b > build[p] /\ offer' = [offer EXCEPT ![p] = b]
    /\ install' = [install EXCEPT ![p] = "delete"]
    /\ UNCHANGED <<files, procVars, launches, crashes>>

InstallGoes(p, from, to) ==
    /\ install[p] = from /\ install' = [install EXCEPT ![p] = to]
    /\ UNCHANGED <<pc, build, mutex, parent, offer, counters>>

\* Steps that neither rename an executable nor request a restart.
Quietly == UNCHANGED <<image, restart>>
StagedIs(p, content) == staged' = [staged EXCEPT ![p] = content] /\ UNCHANGED <<exe, old>>

InstallDeletesOld(p) ==
    InstallGoes(p, "delete", "stage") /\ DeletesOld /\ Quietly /\ UNCHANGED <<exe, staged>>

\* The staging file is created, or cannot be.
InstallStages(p) ==
    /\ \/ InstallGoes(p, "stage", "download") /\ StagedIs(p, Spoiled)
       \/ InstallGoes(p, "stage", "none") /\ UNCHANGED files
    /\ Quietly

\* The download succeeds or not, as Download says.  Without a published digest
\* and size, what is staged may be altered or short all the same.
InstallDownloads(p) ==
    /\ \/ /\ InstallGoes(p, "download", "verify")
          /\ StagedIs(p, offer[p]) \/ StagedIs(p, Spoiled)
       \/ InstallGoes(p, "download", "unstage") /\ UNCHANGED files
    /\ Quietly

\* The digest is computed but its result is not looked at.
InstallVerifies_Ignoring(p) ==
    InstallGoes(p, "verify", "moveOut") /\ Quietly /\ UNCHANGED files

\* The digest decides, when the server has published one.
InstallVerifies(p) ==
    /\ InstallGoes(p, "verify",
           IF DigestPublished /\ staged[p] # offer[p] THEN "unstage" ELSE "moveOut")
    /\ Quietly /\ UNCHANGED files

\* The processes that execute a renamed file go on executing it.
Moved(from, to) == image' = [p \in Procs |-> IF image[p] = from THEN to ELSE image[p]]

\* update_swap_files: the executable is renamed to .old, over a leftover that
\* nobody executes.
InstallMovesOut(p) ==
    /\ InstallGoes(p, "moveOut", "moveIn")
    /\ exe # NoFile /\ ~InUse("old")
    /\ old' = exe /\ exe' = NoFile /\ Moved("exe", "old")
    /\ UNCHANGED <<staged, restart>>

\* The rename fails, always when an earlier install of this process left .old
\* in use: the function returns and the download stays on disk.
InstallCannotMoveOut(p) == InstallGoes(p, "moveOut", "none") /\ Quietly /\ UNCHANGED files

InstallMovesIn(p) ==
    /\ InstallGoes(p, "moveIn", "offered")
    /\ exe = NoFile /\ exe' = staged[p]
    /\ staged' = [staged EXCEPT ![p] = NoFile]
    /\ Quietly /\ UNCHANGED old

\* A failed swap goes on as a successful one does, the old copy deleted.
InstallCannotMoveIn_Discarding(p) ==
    InstallGoes(p, "moveIn", "unstage") /\ old' = NoFile /\ Quietly /\ UNCHANGED <<exe, staged>>

InstallCannotMoveIn(p) == InstallGoes(p, "moveIn", "rollback") /\ Quietly /\ UNCHANGED files

RollBack(p, to) ==
    /\ InstallGoes(p, "rollback", to)
    /\ exe = NoFile /\ old # NoFile
    /\ exe' = old /\ old' = NoFile /\ Moved("old", "exe")
    /\ UNCHANGED <<staged, restart>>

\* A swap that was rolled back is reported as done.
InstallRollsBack_AsDone(p) == RollBack(p, "offered")

InstallRollsBack(p) == RollBack(p, "unstage")

\* The result of the rollback's rename is not looked at.
InstallCannotRollBack(p) == InstallGoes(p, "rollback", "unstage") /\ Quietly /\ UNCHANGED files

InstallUnstages(p) == InstallGoes(p, "unstage", "none") /\ StagedIs(p, NoFile) /\ Quietly

\* "Restart now" requests the restart and closes the window (see Quit); "Later"
\* leaves the new build for the next start.
InstallOffersRestart(p) ==
    /\ InstallGoes(p, "offered", "none")
    /\ restart' \in {restart, [restart EXCEPT ![p] = TRUE]}
    /\ UNCHANGED <<files, image>>

InstallStep(p) ==
    \/ InstallDeletesOld(p) \/ InstallStages(p) \/ InstallDownloads(p)
    \/ InstallVerifies(p) \/ InstallMovesOut(p) \/ InstallCannotMoveOut(p)
    \/ InstallMovesIn(p) \/ InstallCannotMoveIn(p) \/ InstallRollsBack(p)
    \/ InstallCannotRollBack(p) \/ InstallUnstages(p) \/ InstallOffersRestart(p)

ProcStep(p) ==
    \/ CleanupLeftovers(p) \/ InstanceAcquire(p) \/ InstanceRejected(p)
    \/ Exit(p) \/ InstanceRelease(p) \/ Relaunch(p) \/ HandoverExit(p)

\* Nobody runs the program any more, or it runs undisturbed.
AtRest ==
    /\ \A p \in Procs : pc[p] \in {"down", "run"} /\ install[p] = "none"
    /\ UNCHANGED vars

Next ==
    \/ \E p \in Procs :
        \/ Launch(p) \/ Quit(p) \/ Crash(p) \/ ProcStep(p)
        \/ InstallBegins(p) \/ InstallStep(p)
    \/ AtRest

Spec == Init /\ [][Next]_vars

-------------------------------------------------------------------------------
\* Properties

\* Whoever dies, quits, cleans up or installs at whatever step, a whole build is
\* at the executable's path or at .old.
BuildNeverLost == exe \in Builds \/ old \in Builds

\* What takes the executable's path is a build whose digest was checked.
OnlyVerifiedInstalled == exe # Spoiled /\ old # Spoiled

\* The executable's path is empty only while a swap is being made or undone
\* (app_update.c:158).
ExePathNeverEmpty ==
    exe = NoFile => \E p \in Procs : install[p] \in {"moveIn", "rollback"}

\* The instance guard lets one process run.
AtMostOneInstance ==
    \A p, q \in Procs :
        {pc[p], pc[q]} \subseteq {"run", "stopping"} => p = q

\* A process started by a restart executes a newer build than the one that
\* started it.
RestartUpgrades ==
    \A p \in Procs : Alive(p) /\ parent[p] # NoFile => build[p] > parent[p]

\* A process is not turned away by what is left of a parent that hands over:
\* another process has the mutex (main.c:49).
NotTurnedAwayByParent ==
    [][\A p \in Procs : pc[p] = "acquire" /\ pc'[p] = "reject" =>
           \E q \in mutex : pc[q] # "handover"]_vars
===============================================================================
