---------------------------- MODULE SelfUpdateProofs ----------------------------
(* Proofs about SelfUpdate, for any processes, builds and bounds, and whether    *)
(* or not the server publishes digests.                                          *)
EXTENDS SelfUpdate, TLAPS

Contents == Builds \cup {Spoiled, NoFile}

\* What the files hold, and where each process is.
FilesTypeOK ==
    /\ exe \in Contents /\ old \in Contents
    /\ staged \in [Procs -> Contents]
    /\ offer \in [Procs -> Builds] /\ install \in [Procs -> InstallPCs]
ProcsTypeOK ==
    /\ pc \in [Procs -> ProcPCs] /\ mutex \subseteq Procs
    /\ build \in [Procs -> Builds] /\ parent \in [Procs -> Builds \cup {NoFile}]
    /\ image \in [Procs -> {"none", "exe", "old"}]
RestartTypeOK == restart \in [Procs -> BOOLEAN]
CountersTypeOK ==
    /\ launches \in 0..MaxLaunches /\ installs \in 0..MaxInstalls
    /\ crashes \in 0..MaxCrashes

\* A process that runs executes a file that is there, and only it can install.
ImagesThere ==
    \A p \in Procs :
        /\ pc[p] = "down" <=> image[p] = "none"
        /\ image[p] = "exe" => exe = build[p]
        /\ image[p] = "old" => old = build[p]
OnlyRunningInstall ==
    \A p \in Procs :
        install[p] # "none" \/ restart[p] => pc[p] \in {"run", "stopping", "handover"}

\* The instance mutex is open in exactly the processes that may run or have
\* still to be turned away.
MutexHeld ==
    \A p \in Procs : p \in mutex <=> pc[p] \in {"reject", "run", "stopping"}

\* What an install has staged, and for which build.
Staging ==
    \A p \in Procs :
        /\ install[p] # "none" => offer[p] > build[p]
        /\ install[p] \in {"verify", "moveOut", "moveIn"} => staged[p] \in {Spoiled, offer[p]}
        /\ DigestPublished /\ install[p] \in {"moveOut", "moveIn"} => staged[p] = offer[p]

\* One process at a time swaps the executable, and executes from .old meanwhile
\* and as long as it may still hand over to the build it has installed.
Swapping(p) == install[p] \in {"moveIn", "rollback"}
Upgraded(p) == image[p] = "old" /\ (exe = Spoiled \/ exe > build[p])
OneSwap ==
    /\ \A p \in Procs : Swapping(p) => image[p] = "old"
    /\ \A p, q \in Procs : Swapping(p) /\ Swapping(q) => p = q
    /\ \A p \in Procs : install[p] = "offered" \/ restart[p] => Upgraded(p)

-------------------------------------------------------------------------------

\* The steps that start or end a process, or move it on.
LifeStep(p) ==
    \/ Launch(p) \/ Quit(p) \/ Crash(p) \/ InstanceAcquire(p) \/ InstanceRejected(p)
    \/ Exit(p) \/ InstanceRelease(p) \/ Relaunch(p) \/ HandoverExit(p)

\* Type correctness, as far as the steps need it.
Typed == FilesTypeOK /\ ProcsTypeOK /\ RestartTypeOK

\* Every step keeps the files and the installs of their types.
LEMMA FilesTyped ==
    ASSUME Typed, [Next]_vars
    PROVE  FilesTypeOK'
<1>0. FilesTypeOK /\ build \in [Procs -> Builds]
  BY DEF Typed, ProcsTypeOK
<1>1. CASE UNCHANGED vars \/ AtRest
  BY <1>0, <1>1 DEF AtRest, vars, files, FilesTypeOK
<1>2. ASSUME NEW p \in Procs, LifeStep(p)
      PROVE  FilesTypeOK'
  <2>1. UNCHANGED <<files, offer>> /\ install' \in {install, [install EXCEPT ![p] = "none"]}
    BY <1>2 DEF LifeStep, Launch, Quit, Crash, InstanceAcquire, InstanceRejected, Exit,
                InstanceRelease, Relaunch, HandoverExit, EndsFrom, Ended, OnlyProcess, files
  <2>. QED
    BY <1>0, <2>1 DEF files, FilesTypeOK, InstallPCs
<1>3. ASSUME NEW p \in Procs, CleanupLeftovers(p)
      PROVE  FilesTypeOK'
  BY <1>0, <1>3 DEF CleanupLeftovers, DeletesOld, FilesTypeOK, Contents
<1>4. ASSUME NEW p \in Procs, InstallBegins(p)
      PROVE  FilesTypeOK'
  BY <1>0, <1>4 DEF InstallBegins, files, FilesTypeOK, InstallPCs
<1>5. ASSUME NEW p \in Procs, InstallStep(p)
      PROVE  FilesTypeOK'
  <2>1. PICK to \in InstallPCs : install' = [install EXCEPT ![p] = to]
    BY <1>5 DEF InstallStep, InstallDeletesOld, InstallStages, InstallDownloads, InstallVerifies,
                InstallMovesOut, InstallCannotMoveOut, InstallMovesIn, InstallCannotMoveIn,
                InstallRollsBack, RollBack, InstallCannotRollBack, InstallUnstages,
                InstallOffersRestart, InstallGoes, InstallPCs
  <2>2. /\ exe' \in Contents /\ old' \in Contents /\ offer' = offer
        /\ staged' = staged \/ \E content \in Contents : staged' = [staged EXCEPT ![p] = content]
    BY <1>0, <1>5
       DEF InstallStep, InstallDeletesOld, InstallStages, InstallDownloads, InstallVerifies,
           InstallMovesOut, InstallCannotMoveOut, InstallMovesIn, InstallCannotMoveIn,
           InstallRollsBack, RollBack, InstallCannotRollBack, InstallUnstages,
           InstallOffersRestart, InstallGoes, StagedIs, DeletesOld, files, FilesTypeOK, Contents
  <2>. QED
    BY <1>0, <2>1, <2>2 DEF FilesTypeOK
<1>. QED
  BY <1>1, <1>2, <1>3, <1>4, <1>5 DEF Next, ProcStep, LifeStep

\* Every step keeps the processes of their types.
LEMMA ProcsTyped ==
    ASSUME Typed, [Next]_vars
    PROVE  ProcsTypeOK'
<1>0. ProcsTypeOK
  BY DEF Typed
<1>1. CASE UNCHANGED vars \/ AtRest
  BY <1>0, <1>1 DEF AtRest, vars, procVars, ProcsTypeOK
<1>2. ASSUME NEW p \in Procs,
             \/ CleanupLeftovers(p) \/ Quit(p) \/ InstanceAcquire(p) \/ InstanceRelease(p)
      PROVE  ProcsTypeOK'
  BY <1>0, <1>2 DEF CleanupLeftovers, Quit, InstanceAcquire, InstanceRelease, Goes,
                    OnlyProcess, ProcsTypeOK, ProcPCs
<1>3. ASSUME NEW p \in Procs, Crash(p) \/ InstanceRejected(p) \/ Exit(p) \/ HandoverExit(p)
      PROVE  ProcsTypeOK'
  BY <1>0, <1>3 DEF Crash, InstanceRejected, Exit, HandoverExit, EndsFrom, Ended,
                    ProcsTypeOK, ProcPCs
<1>4. ASSUME NEW p \in Procs, Launch(p)
      PROVE  ProcsTypeOK'
  BY <1>0, <1>4 DEF Launch, Started, Goes, ProcsTypeOK, ProcPCs
<1>5. ASSUME NEW p \in Procs, Relaunch(p)
      PROVE  ProcsTypeOK'
  BY <1>0, <1>5 DEF Relaunch, Started, Goes, ProcsTypeOK, ProcPCs
<1>6. ASSUME NEW p \in Procs, InstallBegins(p)
      PROVE  ProcsTypeOK'
  BY <1>0, <1>6 DEF InstallBegins, procVars, ProcsTypeOK
<1>7. ASSUME NEW p \in Procs, InstallStep(p)
      PROVE  ProcsTypeOK'
  <2>1. UNCHANGED <<pc, build, mutex, parent>>
    BY <1>7 DEF InstallStep, InstallDeletesOld, InstallStages, InstallDownloads, InstallVerifies,
                InstallMovesOut, InstallCannotMoveOut, InstallMovesIn, InstallCannotMoveIn,
                InstallRollsBack, RollBack, InstallCannotRollBack, InstallUnstages,
                InstallOffersRestart, InstallGoes
  <2>2. image' = image \/ Moved("exe", "old") \/ Moved("old", "exe")
    BY <1>7 DEF InstallStep, InstallDeletesOld, InstallStages, InstallDownloads, InstallVerifies,
                InstallMovesOut, InstallCannotMoveOut, InstallMovesIn, InstallCannotMoveIn,
                InstallRollsBack, RollBack, InstallCannotRollBack, InstallUnstages,
                InstallOffersRestart, Quietly
  <2>. QED
    BY <1>0, <2>1, <2>2 DEF Moved, ProcsTypeOK
<1>. QED
  BY <1>1, <1>2, <1>3, <1>4, <1>5, <1>6, <1>7 DEF Next, ProcStep


\* What a step of install_main may do to its process and to the others.
LEMMA InstallStepFrame ==
    ASSUME NEW p \in Procs, InstallStep(p)
    PROVE  /\ UNCHANGED <<pc, build, mutex, parent, offer, counters>>
           /\ install[p] # "none"
           /\ \E to \in InstallPCs : install' = [install EXCEPT ![p] = to]
           /\ \/ restart' = restart
              \/ InstallOffersRestart(p) /\ restart' = [restart EXCEPT ![p] = TRUE]
  BY DEF InstallStep, InstallDeletesOld, InstallStages, InstallDownloads, InstallVerifies,
         InstallMovesOut, InstallCannotMoveOut, InstallMovesIn, InstallCannotMoveIn,
         InstallRollsBack, RollBack, InstallCannotRollBack, InstallUnstages,
         InstallOffersRestart, InstallGoes, InstallPCs, Quietly

\* Every step keeps within the bounds.
LEMMA CountersTyped ==
    ASSUME CountersTypeOK, [Next]_vars
    PROVE  CountersTypeOK'
<1>1. CASE UNCHANGED counters
  BY <1>1 DEF counters, CountersTypeOK
<1>2. ASSUME NEW p \in Procs, Launch(p)
      PROVE  CountersTypeOK'
  BY <1>2, SelfUpdateConstants DEF Launch, CountersTypeOK
<1>3. ASSUME NEW p \in Procs, Crash(p)
      PROVE  CountersTypeOK'
  BY <1>3, SelfUpdateConstants DEF Crash, CountersTypeOK
<1>4. ASSUME NEW p \in Procs, InstallBegins(p)
      PROVE  CountersTypeOK'
  BY <1>4, SelfUpdateConstants DEF InstallBegins, CountersTypeOK
<1>5. CASE \/ UNCHANGED vars \/ AtRest
           \/ \E p \in Procs :
                  \/ Quit(p) \/ InstanceAcquire(p) \/ InstanceRejected(p) \/ Exit(p)
                  \/ InstanceRelease(p) \/ Relaunch(p) \/ HandoverExit(p)
                  \/ CleanupLeftovers(p) \/ InstallStep(p)
  BY <1>1, <1>5, InstallStepFrame
     DEF vars, AtRest, Quit, InstanceAcquire, InstanceRejected, Exit, InstanceRelease, Relaunch,
         HandoverExit, CleanupLeftovers, EndsFrom, OnlyProcess, counters
<1>. QED
  BY <1>2, <1>3, <1>4, <1>5 DEF Next, ProcStep

\* Every step keeps the restart requests Boolean.
LEMMA RestartTyped ==
    ASSUME Typed, [Next]_vars
    PROVE  RestartTypeOK'
<1>0. RestartTypeOK
  BY DEF Typed
<1>1. \/ restart' = restart
      \/ \E p \in Procs, requested \in BOOLEAN : restart' = [restart EXCEPT ![p] = requested]
  <2>1. CASE UNCHANGED vars \/ AtRest
    BY <2>1 DEF AtRest, vars, procVars
  <2>2. ASSUME NEW p \in Procs, LifeStep(p) \/ CleanupLeftovers(p) \/ InstallBegins(p)
        PROVE  \/ restart' = restart
               \/ \E requested \in BOOLEAN : restart' = [restart EXCEPT ![p] = requested]
    BY <2>2 DEF LifeStep, Launch, Quit, Crash, InstanceAcquire, InstanceRejected, Exit,
                InstanceRelease, Relaunch, HandoverExit, EndsFrom, Ended, CleanupLeftovers,
                InstallBegins, procVars
  <2>. QED
    BY <2>1, <2>2, InstallStepFrame DEF Next, ProcStep, LifeStep
<1>. QED
  BY <1>0, <1>1 DEF RestartTypeOK

Running == ImagesThere /\ OnlyRunningInstall

\* Every step leaves each process the file it executes.  A file is deleted or
\* replaced only when no process executes it.
LEMMA RunningStep ==
    ASSUME Typed, Running, [Next]_vars
    PROVE  Running'
<1>. USE DEF Typed, FilesTypeOK, ProcsTypeOK, RestartTypeOK, Running, ImagesThere,
             OnlyRunningInstall
<1>1. CASE UNCHANGED vars \/ AtRest
  BY <1>1 DEF AtRest, vars, files, procVars
<1>2. ASSUME NEW p \in Procs, Launch(p)
      PROVE  Running'
  BY <1>2 DEF Launch, Started, Goes, files
<1>3. ASSUME NEW p \in Procs, Relaunch(p)
      PROVE  Running'
  BY <1>3 DEF Relaunch, Started, Goes, files
<1>4. ASSUME NEW p \in Procs, Crash(p) \/ InstanceRejected(p) \/ Exit(p) \/ HandoverExit(p)
      PROVE  Running'
  <2>. USE <1>4 DEF Crash, InstanceRejected, Exit, HandoverExit, EndsFrom, Ended, files
  <2>1. ImagesThere'
    OBVIOUS
  <2>2. OnlyRunningInstall'
    OBVIOUS
  <2>. QED
    BY <2>1, <2>2
<1>5. ASSUME NEW p \in Procs, Quit(p) \/ InstanceAcquire(p) \/ InstanceRelease(p)
      PROVE  Running'
  BY <1>5 DEF Quit, InstanceAcquire, InstanceRelease, Goes, OnlyProcess, files
<1>6. ASSUME NEW p \in Procs, CleanupLeftovers(p)
      PROVE  Running'
  BY <1>6 DEF CleanupLeftovers, DeletesOld, InUse, Alive, Goes
<1>7. ASSUME NEW p \in Procs, InstallBegins(p)
      PROVE  Running'
  BY <1>7 DEF InstallBegins, files, procVars
<1>8. ASSUME NEW p \in Procs, InstallStep(p)
      PROVE  Running'
  <2>1. OnlyRunningInstall'
    <3>1. /\ UNCHANGED pc /\ install[p] # "none"
          /\ \E to \in InstallPCs : install' = [install EXCEPT ![p] = to]
          /\ restart' = restart \/ restart' = [restart EXCEPT ![p] = TRUE]
      BY <1>8, InstallStepFrame
    <3>. QED
      BY <3>1
  <2>2. CASE InstallMovesOut(p)
    BY <2>1, <2>2 DEF InstallMovesOut, InstallGoes, Moved, InUse, Alive
  <2>3. CASE InstallMovesIn(p)
    BY <2>1, <2>3 DEF InstallMovesIn, InstallGoes, Quietly, Builds, NoFile
  <2>4. CASE InstallRollsBack(p)
    BY <2>1, <2>4 DEF InstallRollsBack, RollBack, InstallGoes, Moved, Builds, NoFile
  <2>5. CASE InstallDeletesOld(p)
    BY <2>1, <2>5 DEF InstallDeletesOld, DeletesOld, InUse, Alive, InstallGoes, Quietly
  <2>6. CASE ~(\/ InstallMovesOut(p) \/ InstallMovesIn(p)
               \/ InstallRollsBack(p) \/ InstallDeletesOld(p))
    <3>1. UNCHANGED <<exe, old, pc, build, image>>
      BY <1>8, <2>6 DEF InstallStep, InstallStages, InstallDownloads, InstallVerifies,
                  InstallCannotMoveOut, InstallCannotMoveIn, InstallCannotRollBack, InstallUnstages,
                  InstallOffersRestart, InstallGoes, Quietly, StagedIs, files
    <3>. QED
      BY <2>1, <3>1
  <2>. QED
    BY <2>2, <2>3, <2>4, <2>5, <2>6
<1>. QED
  BY <1>1, <1>2, <1>3, <1>4, <1>5, <1>6, <1>7, <1>8 DEF Next, ProcStep

\* Every step opens and closes the mutex as the process comes and goes.
LEMMA MutexStep ==
    ASSUME Typed, Running, MutexHeld, [Next]_vars
    PROVE  MutexHeld'
<1>. USE DEF Typed, ProcsTypeOK, MutexHeld
<1>1. CASE UNCHANGED <<pc, mutex>>
  BY <1>1
<1>3. CASE UNCHANGED vars \/ AtRest \/ \E p \in Procs : InstallBegins(p) \/ InstallStep(p)
  BY <1>1, <1>3, InstallStepFrame DEF AtRest, vars, procVars, InstallBegins
<1>2. ASSUME NEW p \in Procs, LifeStep(p) \/ CleanupLeftovers(p)
      PROVE  MutexHeld'
  <2>1. CASE Launch(p)
    BY <2>1 DEF Launch, Goes
  <2>2. CASE Relaunch(p)
    BY <2>2 DEF Relaunch, Goes
  <2>3. CASE Crash(p) \/ InstanceRejected(p) \/ Exit(p) \/ HandoverExit(p)
    BY <2>3 DEF Crash, InstanceRejected, Exit, HandoverExit, EndsFrom, Ended
  <2>4. CASE Quit(p) \/ InstanceAcquire(p) \/ InstanceRelease(p) \/ CleanupLeftovers(p)
    BY <2>4 DEF Quit, InstanceAcquire, InstanceRelease, CleanupLeftovers, Goes
  <2>. QED
    BY <1>2, <2>1, <2>2, <2>3, <2>4 DEF LifeStep
<1>. QED
  BY <1>2, <1>3 DEF Next, ProcStep, LifeStep

\* Every step leaves what an install has staged as the server sent it.
LEMMA StagingStep ==
    ASSUME Typed, Running, Staging, [Next]_vars
    PROVE  Staging'
<1>. USE DEF Typed, FilesTypeOK, ProcsTypeOK, Staging
<1>1. CASE UNCHANGED vars \/ AtRest
  BY <1>1 DEF AtRest, vars, files, procVars
<1>2. ASSUME NEW p \in Procs, LifeStep(p) \/ CleanupLeftovers(p)
      PROVE  Staging'
  <2>1. /\ UNCHANGED <<staged, offer>>
        /\ install' \in {install, [install EXCEPT ![p] = "none"]}
    BY <1>2 DEF LifeStep, Launch, Quit, Crash, InstanceAcquire, InstanceRejected, Exit,
                InstanceRelease, Relaunch, HandoverExit, EndsFrom, Ended, OnlyProcess,
                CleanupLeftovers, files
  <2>2. ASSUME NEW q \in Procs
        PROVE  build'[q] = build[q] \/ install'[q] = "none"
    BY <1>2 DEF LifeStep, Launch, Quit, Crash, InstanceAcquire, InstanceRejected, Exit,
                InstanceRelease, Relaunch, HandoverExit, EndsFrom, Ended, OnlyProcess,
                CleanupLeftovers, Started, Goes, Running, OnlyRunningInstall
  <2>. QED
    BY <2>1, <2>2
<1>3. ASSUME NEW p \in Procs, InstallBegins(p)
      PROVE  Staging'
  BY <1>3 DEF InstallBegins, files, procVars
<1>4. ASSUME NEW p \in Procs, InstallStep(p)
      PROVE  Staging'
  <2>0. UNCHANGED <<build, offer>> /\ install[p] # "none"
    BY <1>4, InstallStepFrame
  <2>1. CASE InstallDownloads(p) \/ InstallVerifies(p) \/ InstallMovesOut(p)
    BY <2>0, <2>1 DEF InstallDownloads, InstallVerifies, InstallMovesOut, InstallGoes, StagedIs,
                      files
  <2>2. CASE ~(InstallDownloads(p) \/ InstallVerifies(p) \/ InstallMovesOut(p))
    <3>1. /\ \E to \in InstallPCs \ {"verify", "moveOut", "moveIn"} : 
                 install' = [install EXCEPT ![p] = to]
          /\ staged' = staged \/ \E content \in Contents : staged' = [staged EXCEPT ![p] = content]
      BY <1>4, <2>2
         DEF InstallStep, InstallDeletesOld, InstallStages, InstallCannotMoveOut, InstallMovesIn,
             InstallCannotMoveIn, InstallRollsBack, RollBack, InstallCannotRollBack,
             InstallUnstages, InstallOffersRestart, InstallGoes, InstallPCs, StagedIs, files,
             Contents
    <3>. QED
      BY <2>0, <3>1
  <2>. QED
    BY <2>1, <2>2
<1>. QED
  BY <1>1, <1>2, <1>3, <1>4 DEF Next, ProcStep, LifeStep

\* Every step leaves at most one process amid a swap: to rename the executable
\* nobody may execute from .old, and who has renamed it does.
LEMMA SwapStep ==
    ASSUME Typed, Running, Staging, OneSwap, [Next]_vars
    PROVE  OneSwap'
<1>. USE DEF Typed, FilesTypeOK, ProcsTypeOK, RestartTypeOK, Running, ImagesThere,
             OnlyRunningInstall, OneSwap, Swapping, Upgraded
<1>1. CASE UNCHANGED vars \/ AtRest
  BY <1>1 DEF AtRest, vars, files, procVars
<1>2. ASSUME NEW p \in Procs, LifeStep(p)
      PROVE  OneSwap'
  <2>1. /\ UNCHANGED exe
        /\ \A q \in Procs : install'[q] = install[q] \/ install'[q] = "none"
        /\ \A q \in Procs : restart'[q] => restart[q]
    BY <1>2 DEF LifeStep, Launch, Quit, Crash, InstanceAcquire, InstanceRejected, Exit,
                InstanceRelease, Relaunch, HandoverExit, EndsFrom, Ended, OnlyProcess, files
  <2>2. ASSUME NEW q \in Procs
        PROVE  \/ build'[q] = build[q] /\ image'[q] = image[q]
               \/ install'[q] = "none" /\ ~restart'[q]
    BY <1>2 DEF LifeStep, Launch, Quit, Crash, InstanceAcquire, InstanceRejected, Exit,
                InstanceRelease, Relaunch, HandoverExit, EndsFrom, Ended, OnlyProcess,
                Started, Goes
  <2>. QED
    BY <2>1, <2>2
<1>3. ASSUME NEW p \in Procs, CleanupLeftovers(p)
      PROVE  OneSwap'
  BY <1>3 DEF CleanupLeftovers
<1>4. ASSUME NEW p \in Procs, InstallBegins(p)
      PROVE  OneSwap'
  BY <1>4 DEF InstallBegins, files, procVars
<1>5. ASSUME NEW p \in Procs, InstallStep(p)
      PROVE  OneSwap'
  <2>0. UNCHANGED <<pc, build>> /\ install[p] # "none" /\ pc[p] # "down"
    BY <1>5, InstallStepFrame
  <2>1. CASE InstallMovesOut(p)
    <3>1. /\ \A q \in Procs : image[q] # "old"
          /\ image[p] = "exe" /\ Moved("exe", "old") /\ UNCHANGED restart
          /\ install' = [install EXCEPT ![p] = "moveIn"]
      BY <2>0, <2>1 DEF InstallMovesOut, InUse, Alive, InstallGoes
    <3>. QED
      BY <3>1 DEF Moved
  <2>2. CASE InstallMovesIn(p)
    <3>1. /\ UNCHANGED <<image, restart>> /\ exe = NoFile /\ exe' = staged[p]
          /\ install[p] = "moveIn" /\ install' = [install EXCEPT ![p] = "offered"]
      BY <2>2 DEF InstallMovesIn, InstallGoes, Quietly
    <3>2. \A q \in Procs : ~Upgraded(q)
      BY <3>1 DEF Builds, Spoiled, NoFile
    <3>3. Upgraded(p)'
      BY <2>0, <3>1 DEF Staging
    <3>. QED
      BY <3>1, <3>2, <3>3
  <2>3. CASE InstallRollsBack(p)
    <3>1. /\ exe = NoFile /\ Moved("old", "exe") /\ UNCHANGED restart
          /\ install[p] = "rollback" /\ install' = [install EXCEPT ![p] = "unstage"]
      BY <2>3 DEF InstallRollsBack, RollBack, InstallGoes
    <3>2. \A q \in Procs : ~Upgraded(q)
      BY <3>1 DEF Builds, Spoiled, NoFile
    <3>. QED
      BY <3>1, <3>2
  <2>4. CASE ~(InstallMovesOut(p) \/ InstallMovesIn(p) \/ InstallRollsBack(p))
    <3>1. UNCHANGED <<exe, image>>
      BY <1>5, <2>4 DEF InstallStep, InstallDeletesOld, InstallStages, InstallDownloads,
                  InstallVerifies, InstallCannotMoveOut, InstallCannotMoveIn,
                  InstallCannotRollBack, InstallUnstages, InstallOffersRestart, InstallGoes,
                  Quietly, StagedIs, files
    <3>2. PICK to \in InstallPCs \ {"offered"} :
              /\ install' = [install EXCEPT ![p] = to]
              /\ to \in {"moveIn", "rollback"} => Swapping(p)
      BY <1>5, <2>4 DEF InstallStep, InstallDeletesOld, InstallStages, InstallDownloads,
                  InstallVerifies, InstallCannotMoveOut, InstallCannotMoveIn,
                  InstallCannotRollBack, InstallUnstages, InstallOffersRestart, InstallGoes,
                  InstallPCs
    <3>3. \A q \in Procs : restart'[q] => restart[q] \/ (q = p /\ install[p] = "offered")
      BY <1>5, InstallStepFrame DEF InstallOffersRestart, InstallGoes
    <3>. QED
      BY <2>0, <3>1, <3>2, <3>3
  <2>. QED
    BY <2>1, <2>2, <2>3, <2>4
<1>. QED
  BY <1>1, <1>2, <1>3, <1>4, <1>5 DEF Next, ProcStep, LifeStep

-------------------------------------------------------------------------------

\* The inductive invariant.
IInv == Typed /\ CountersTypeOK /\ Running /\ MutexHeld /\ Staging /\ OneSwap

\* It holds in every reachable state.
LEMMA ImagesInvariant == Spec => []IInv
<1>1. Init => IInv
  <2>. SUFFICES ASSUME Init PROVE IInv
    OBVIOUS
  <2>. USE SelfUpdateConstants DEF Init
  <2>1. FilesTypeOK /\ ProcsTypeOK
    BY DEF FilesTypeOK, ProcsTypeOK, Contents, Builds, InstallPCs, ProcPCs
  <2>5. CountersTypeOK
    BY DEF CountersTypeOK
  <2>2. RestartTypeOK
    BY DEF RestartTypeOK
  <2>3. Running
    BY DEF Running, ImagesThere, OnlyRunningInstall
  <2>4. MutexHeld /\ Staging /\ OneSwap
    BY DEF MutexHeld, Staging, OneSwap, Swapping
  <2>. QED
    BY <2>1, <2>2, <2>3, <2>4, <2>5 DEF IInv, Typed
<1>2. IInv /\ [Next]_vars => IInv'
  BY FilesTyped, ProcsTyped, RestartTyped, CountersTyped, RunningStep, MutexStep,
     StagingStep, SwapStep
     DEF IInv, Typed
<1>. QED
  BY <1>1, <1>2, PTL DEF Spec

\* Type correctness; a living process executes a file that is there.
THEOREM SelfUpdateTypeOK == Spec => []TypeOK
<1>1. IInv => TypeOK
  <2>. SUFFICES ASSUME IInv PROVE TypeOK
    OBVIOUS
  <2>1. FilesTypeOK /\ ProcsTypeOK /\ RestartTypeOK /\ CountersTypeOK /\ Running
    BY DEF IInv, Typed
  <2>. QED
    BY <2>1 DEF TypeOK, FilesTypeOK, ProcsTypeOK, RestartTypeOK, CountersTypeOK, Contents,
                Running, ImagesThere, OnlyRunningInstall
<1>. QED
  BY <1>1, ImagesInvariant, PTL

\* Whoever dies, quits, cleans up or installs at whatever step, a whole build is
\* at the executable's path or at .old (app_update.c:150-165).
THEOREM BuildSurvives == Spec => []BuildNeverLost
<1>1. Init => BuildNeverLost
  BY SelfUpdateConstants DEF Init, BuildNeverLost, Builds
<1>2. IInv /\ BuildNeverLost /\ [Next]_vars => BuildNeverLost'
  <2>. SUFFICES ASSUME IInv, BuildNeverLost, [Next]_vars
                PROVE  BuildNeverLost'
    OBVIOUS
  <2>0. \A p \in Procs : Alive(p) =>
            \/ image[p] = "exe" /\ exe \in Builds
            \/ image[p] = "old" /\ old \in Builds
    BY DEF IInv, Typed, ProcsTypeOK, Running, ImagesThere, Alive
  <2>1. CASE UNCHANGED vars \/ AtRest
    BY <2>1 DEF AtRest, vars, files, BuildNeverLost
  <2>2. ASSUME NEW p \in Procs, LifeStep(p) \/ InstallBegins(p)
        PROVE  BuildNeverLost'
    BY <2>2 DEF LifeStep, Launch, Quit, Crash, InstanceAcquire, InstanceRejected, Exit,
                InstanceRelease, Relaunch, HandoverExit, EndsFrom, OnlyProcess, InstallBegins,
                files, BuildNeverLost
  <2>3. ASSUME NEW p \in Procs, CleanupLeftovers(p)
        PROVE  BuildNeverLost'
    BY <2>0, <2>3 DEF CleanupLeftovers, Goes, DeletesOld, InUse, Alive, BuildNeverLost
  <2>4. ASSUME NEW p \in Procs, InstallStep(p)
        PROVE  BuildNeverLost'
    <3>1. Alive(p)
      BY <2>4, InstallStepFrame DEF IInv, Running, OnlyRunningInstall, Alive
    <3>2. CASE InstallDeletesOld(p)
      BY <2>0, <3>1, <3>2 DEF InstallDeletesOld, DeletesOld, InUse, Alive, BuildNeverLost
    <3>3. CASE InstallMovesOut(p)
      BY <2>0, <3>1, <3>3 DEF InstallMovesOut, InUse, Alive, BuildNeverLost
    <3>4. CASE InstallMovesIn(p)
      BY <3>4 DEF InstallMovesIn, NoFile, Builds, BuildNeverLost
    <3>5. CASE InstallRollsBack(p)
      BY <3>5 DEF InstallRollsBack, RollBack, NoFile, Builds, BuildNeverLost
    <3>6. CASE UNCHANGED <<exe, old>>
      BY <3>6 DEF BuildNeverLost
    <3>. QED
      BY <2>4, <3>2, <3>3, <3>4, <3>5, <3>6
         DEF InstallStep, InstallStages, InstallDownloads, InstallVerifies, InstallCannotMoveOut,
             InstallCannotMoveIn, InstallCannotRollBack, InstallUnstages, InstallOffersRestart,
             StagedIs, files
  <2>. QED
    BY <2>1, <2>2, <2>3, <2>4 DEF Next, ProcStep, LifeStep
<1>. QED
  BY <1>1, <1>2, ImagesInvariant, PTL DEF Spec

\* The instance guard lets one process run (instance.c:5-17).
THEOREM OneInstance == Spec => []AtMostOneInstance
<1>1. Init => AtMostOneInstance
  BY DEF Init, AtMostOneInstance
<1>2. IInv /\ AtMostOneInstance /\ [Next]_vars => AtMostOneInstance'
  <2>. SUFFICES ASSUME IInv, AtMostOneInstance, [Next]_vars
                PROVE  AtMostOneInstance'
    OBVIOUS
  <2>0. pc \in [Procs -> ProcPCs] /\ MutexHeld
    BY DEF IInv, Typed, ProcsTypeOK
  <2>. DEFINE running(p) == pc[p] \in {"run", "stopping"}
  <2>1. ASSUME NEW p \in Procs, InstanceAcquire(p)
        PROVE  AtMostOneInstance'
    BY <2>0, <2>1 DEF InstanceAcquire, Goes, MutexHeld, AtMostOneInstance
  <2>2. CASE \A p \in Procs : running(p)' => running(p)
    BY <2>2 DEF AtMostOneInstance
  <2>3. CASE \A p \in Procs : ~InstanceAcquire(p)
    <3>1. CASE UNCHANGED vars \/ AtRest
      BY <2>2, <3>1 DEF AtRest, vars, procVars
    <3>2. ASSUME NEW p \in Procs, LifeStep(p) \/ CleanupLeftovers(p) \/ InstallBegins(p)
          PROVE  AtMostOneInstance'
      BY <2>0, <2>2, <2>3, <3>2
         DEF LifeStep, Launch, Quit, Crash, InstanceRejected, Exit, InstanceRelease, Relaunch,
             HandoverExit, EndsFrom, Ended, Goes, CleanupLeftovers, InstallBegins, procVars
    <3>. QED
      BY <2>2, <3>1, <3>2, InstallStepFrame DEF Next, ProcStep, LifeStep
  <2>. QED
    BY <2>1, <2>3
<1>. QED
  BY <1>1, <1>2, ImagesInvariant, PTL DEF Spec

\* A process started by a restart executes a newer build than the one that
\* started it (app_update.c:257-271).
THEOREM RestartsUpgrade == Spec => []RestartUpgrades
<1>1. Init => RestartUpgrades
  BY DEF Init, RestartUpgrades, Alive
<1>2. IInv /\ RestartUpgrades /\ [Next]_vars => RestartUpgrades'
  <2>. SUFFICES ASSUME IInv, RestartUpgrades, [Next]_vars
                PROVE  RestartUpgrades'
    OBVIOUS
  <2>. USE DEF RestartUpgrades, Alive
  <2>0. ProcsTypeOK
    BY DEF IInv, Typed
  <2>1. CASE UNCHANGED vars \/ AtRest
    BY <2>1 DEF AtRest, vars, procVars
  <2>2. ASSUME NEW p \in Procs, Relaunch(p)
        PROVE  RestartUpgrades'
    <3>1. exe \in Builds /\ exe > build[p]
      BY <2>2 DEF Relaunch, Started, IInv, OneSwap, Upgraded, Builds, Spoiled
    <3>. QED
      BY <2>0, <2>2, <3>1 DEF ProcsTypeOK, Relaunch, Started, Goes
  <2>3. ASSUME NEW p \in Procs, Launch(p)
        PROVE  RestartUpgrades'
    BY <2>0, <2>3 DEF ProcsTypeOK, Launch, Started, Goes
  <2>4. ASSUME NEW p \in Procs,
               \/ CleanupLeftovers(p) \/ InstallBegins(p) \/ Quit(p) \/ Crash(p)
               \/ InstanceAcquire(p) \/ InstanceRejected(p) \/ Exit(p) \/ InstanceRelease(p)
               \/ HandoverExit(p)
        PROVE  RestartUpgrades'
    BY <2>0, <2>4
       DEF ProcsTypeOK, Quit, Crash, InstanceAcquire, InstanceRejected, Exit, InstanceRelease,
           HandoverExit, EndsFrom, Ended, Goes, OnlyProcess, CleanupLeftovers, InstallBegins,
           procVars
  <2>. QED
    BY <2>1, <2>2, <2>3, <2>4, InstallStepFrame DEF Next, ProcStep
<1>. QED
  BY <1>1, <1>2, ImagesInvariant, PTL DEF Spec

\* When the server publishes digests, what takes the executable's path is a
\* build whose digest was checked (app_update.c:228-243).
THEOREM OnlyVerified ==
    ASSUME DigestPublished
    PROVE  Spec => []OnlyVerifiedInstalled
<1>1. Init => OnlyVerifiedInstalled
  BY DEF Init, OnlyVerifiedInstalled, Spoiled, NoFile
<1>2. IInv /\ OnlyVerifiedInstalled /\ [Next]_vars => OnlyVerifiedInstalled'
  <2>. SUFFICES ASSUME IInv, OnlyVerifiedInstalled, [Next]_vars
                PROVE  OnlyVerifiedInstalled'
    OBVIOUS
  <2>. USE DEF OnlyVerifiedInstalled
  <2>1. CASE UNCHANGED vars \/ AtRest
    BY <2>1 DEF AtRest, vars, files
  <2>2. ASSUME NEW p \in Procs, LifeStep(p) \/ InstallBegins(p)
        PROVE  OnlyVerifiedInstalled'
    BY <2>2 DEF LifeStep, Launch, Quit, Crash, InstanceAcquire, InstanceRejected, Exit,
                InstanceRelease, Relaunch, HandoverExit, EndsFrom, OnlyProcess, InstallBegins,
                files
  <2>3. ASSUME NEW p \in Procs, CleanupLeftovers(p)
        PROVE  OnlyVerifiedInstalled'
    BY <2>3 DEF CleanupLeftovers, DeletesOld, NoFile, Spoiled
  <2>4. ASSUME NEW p \in Procs, InstallStep(p)
        PROVE  OnlyVerifiedInstalled'
    <3>1. CASE InstallMovesIn(p)
      <4>1. exe' = offer[p] /\ offer[p] \in Builds /\ UNCHANGED old
        BY <3>1 DEF InstallMovesIn, InstallGoes, IInv, Staging, Typed, FilesTypeOK
      <4>. QED
        BY <4>1 DEF Builds, Spoiled
    <3>2. CASE ~InstallMovesIn(p)
      <4>1. exe' \in {exe, old, NoFile} /\ old' \in {exe, old, NoFile}
        BY <2>4, <3>2
           DEF InstallStep, InstallDeletesOld, DeletesOld, InstallMovesOut, InstallRollsBack,
               RollBack, InstallStages, InstallDownloads, InstallVerifies, InstallCannotMoveOut,
               InstallCannotMoveIn, InstallCannotRollBack, InstallUnstages,
               InstallOffersRestart, StagedIs, files
      <4>. QED
        BY <4>1 DEF NoFile, Spoiled
    <3>. QED
      BY <3>1, <3>2
  <2>. QED
    BY <2>1, <2>2, <2>3, <2>4 DEF Next, ProcStep, LifeStep
<1>. QED
  BY <1>1, <1>2, ImagesInvariant, PTL DEF Spec

\* A process is not turned away by what is left of a parent that hands over
\* (main.c:49).
THEOREM ParentLetsGo == Spec => NotTurnedAwayByParent
<1>1. IInv /\ [Next]_vars =>
          [\A p \in Procs : pc[p] = "acquire" /\ pc'[p] = "reject" =>
               \E q \in mutex : pc[q] # "handover"]_vars
  <2>. SUFFICES ASSUME IInv, [Next]_vars,
                       NEW p \in Procs, pc[p] = "acquire", pc'[p] = "reject"
                PROVE  \E q \in mutex : pc[q] # "handover"
    OBVIOUS
  <2>0. ProcsTypeOK /\ MutexHeld
    BY DEF IInv, Typed
  <2>1. InstanceAcquire(p)
    <3>1. CASE UNCHANGED vars \/ AtRest
      BY <3>1 DEF AtRest, vars, procVars
    <3>2. ASSUME NEW q \in Procs, LifeStep(q) \/ CleanupLeftovers(q) \/ InstallBegins(q)
          PROVE  InstanceAcquire(p)
      BY <2>0, <3>2
         DEF ProcsTypeOK, LifeStep, Launch, Quit, Crash, InstanceAcquire, InstanceRejected, Exit,
             InstanceRelease, Relaunch, HandoverExit, EndsFrom, Ended, Goes, CleanupLeftovers,
             InstallBegins, procVars
    <3>. QED
      BY <3>1, <3>2, InstallStepFrame DEF Next, ProcStep, LifeStep
  <2>. QED
    BY <2>0, <2>1 DEF ProcsTypeOK, InstanceAcquire, Goes, MutexHeld
<1>. QED
  BY <1>1, ImagesInvariant, PTL DEF Spec, NotTurnedAwayByParent
===============================================================================
