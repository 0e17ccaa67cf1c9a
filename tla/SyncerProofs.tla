----------------------------- MODULE SyncerProofs -----------------------------
(* The safety properties of Syncer.tla for any set of calling threads and any *)
(* number of triggers, and the safety part of the promise of syncer.h.        *)
EXTENDS Syncer, TLAPS

\* No thread but the owner is past its start before syncer_start has returned,
\* and the storage lives from then on.
Lifecycle ==
    /\ storage = "null" <=> pc[Owner] \in {"start", "failed"}
    /\ storage = "null" => /\ pc[Worker] = "none"
                           /\ pc[Ticker] = "none"
                           /\ \A c \in Callers : pc[c] = "idle"
    /\ pc[Owner] = "startTicker" => pc[Ticker] = "none"

\* How far syncer_stop has come decides the stop flag and which threads live.
StopProgress ==
    /\ stopping <=> pc[Owner] \in {"wakeStop", "joinWorker", "stopped"}
    /\ pc[Owner] \in {"lockStop", "setStop", "wakeStop", "joinWorker", "stopped"}
         => pc[Ticker] \in {"none", "exited"}
    /\ pc[Owner] = "stopped" => pc[Worker] = "exited"

\* The inductive invariant: the checked invariants do not rule out that a thread
\* runs before the storage exists, or that the stop flag is up too early.
IInv ==
    /\ TypeOK
    /\ Lifecycle
    /\ StopProgress
    /\ PendingIffUnserved
    /\ NoLostWakeup
    /\ LockOnlyInCriticalSections

\* Every state of the runner is well typed, and the inductive invariant holds.
THEOREM SyncerInvariant == Safety => []IInv
<1>. USE ThreadsDistinct, MaxTriggersNat DEF Threads, Triggerers
<1>1. Init => IInv
  <2>. SUFFICES ASSUME Init PROVE IInv
    OBVIOUS
  <2>1. /\ \A c \in Callers : pc[c] = "idle"
        /\ pc[Owner] = "start" /\ pc[Worker] = "none" /\ pc[Ticker] = "none"
    BY DEF Init
  <2>2. TypeOK
    <3>1. pc \in [Threads -> {"idle", "start", "none"}]
      BY Zenon DEF Init
    <3>2. pc \in [Threads -> TriggerPCs \cup WorkerPCs \cup OwnerPCs]
      BY <3>1 DEF TriggerPCs, WorkerPCs, OwnerPCs
    <3>3. requested \in Nat /\ served \in 0..requested
      BY DEF Init
    <3>4. /\ storage \in {"null", "live"} /\ lock \in Threads \cup {NoThread}
          /\ pending \in BOOLEAN /\ stopping \in BOOLEAN /\ tickerStop \in BOOLEAN
      BY DEF Init
    <3>5. /\ \A c \in Callers : pc[c] \in TriggerPCs
          /\ pc[Ticker] \in TriggerPCs \cup {"none", "exited"}
          /\ pc[Worker] \in WorkerPCs /\ pc[Owner] \in OwnerPCs
      BY <2>1 DEF TriggerPCs, WorkerPCs, OwnerPCs
    <3>. QED
      BY <3>2, <3>3, <3>4, <3>5 DEF TypeOK
  <2>3. LockOnlyInCriticalSections
    BY <2>1 DEF Init, LockOnlyInCriticalSections
  <2>. QED
    BY <2>1, <2>2, <2>3 DEF Init, IInv, Lifecycle, StopProgress,
       PendingIffUnserved, NoLostWakeup
<1>2. IInv /\ [Next]_vars => IInv'
  <2>. SUFFICES ASSUME IInv, [Next]_vars PROVE IInv'
    OBVIOUS
  <2>. USE DEF IInv, TypeOK, Lifecycle, StopProgress, PendingIffUnserved,
               NoLostWakeup, LockOnlyInCriticalSections, TriggerPCs, WorkerPCs, OwnerPCs
  <2>1. CASE WorkerAcquire
    BY <2>1 DEF WorkerAcquire, Acquire, Moves
  <2>2. CASE WorkerSleep
    <3>1. pc' = [pc EXCEPT ![Worker] = "asleep"] /\ lock = Worker /\ lock' = NoThread
      BY <2>2 DEF WorkerSleep, Release, Moves
    <3>2. LockOnlyInCriticalSections'
      BY <3>1
    <3>3. ~pending' /\ ~stopping' /\ NoLostWakeup'
      BY <2>2 DEF WorkerSleep
    <3>4. TypeOK' /\ Lifecycle' /\ StopProgress'
      BY <2>2, <3>1 DEF WorkerSleep
    <3>5. PendingIffUnserved'
      BY <2>2 DEF WorkerSleep
    <3>. HIDE DEF TypeOK, Lifecycle, StopProgress, PendingIffUnserved,
                  NoLostWakeup, LockOnlyInCriticalSections
    <3>. QED
      BY <3>2, <3>3, <3>4, <3>5
  <2>3. CASE WorkerTake
    <3>1. pc' = [pc EXCEPT ![Worker] = "run"] /\ lock = Worker /\ lock' = NoThread
      BY <2>3 DEF WorkerTake, Release, Moves
    <3>2. LockOnlyInCriticalSections'
      BY <3>1
    <3>3. PendingIffUnserved' /\ NoLostWakeup'
      BY <2>3, <3>1 DEF WorkerTake
    <3>4. Lifecycle' /\ StopProgress'
      BY <2>3, <3>1 DEF WorkerTake
    <3>5. served' \in 0..requested'
      BY <2>3 DEF WorkerTake
    <3>6. TypeOK'
      BY <2>3, <3>1, <3>5 DEF WorkerTake
    <3>. HIDE DEF TypeOK, Lifecycle, StopProgress, PendingIffUnserved,
                  NoLostWakeup, LockOnlyInCriticalSections
    <3>. QED
      BY <3>2, <3>3, <3>4, <3>6
  <2>4. CASE WorkerFinishRun
    BY <2>4 DEF WorkerFinishRun, Moves
  <2>5. CASE WorkerExit
    BY <2>5 DEF WorkerExit, Release, Moves
  <2>6. CASE WorkerSpuriousWake
    BY <2>6 DEF WorkerSpuriousWake, Moves
  <2>7. ASSUME NEW t \in Triggerers, TriggerCall(t)
       PROVE IInv'
    BY <2>7 DEF TriggerCall, Moves
  <2>8. ASSUME NEW t \in Triggerers, TriggerLock(t)
       PROVE IInv'
    BY <2>8 DEF TriggerLock, Acquire, Moves
  <2>9. ASSUME NEW t \in Triggerers, TriggerSet(t)
       PROVE IInv'
    BY <2>9 DEF TriggerSet, Release, Moves
  <2>10. ASSUME NEW t \in Triggerers, TriggerWake(t)
       PROVE IInv'
    BY <2>10 DEF TriggerWake, WakeThen
  <2>11. CASE TickerExit
    BY <2>11 DEF TickerExit, Moves
  <2>12. CASE StartFails
    BY <2>12 DEF StartFails, Moves
  <2>13. CASE StartSyncer
    BY <2>13 DEF StartSyncer
  <2>14. CASE StartTickerFails
    BY <2>14 DEF StartTickerFails, Moves
  <2>15. CASE StartTicker
    BY <2>15 DEF StartTicker
  <2>16. CASE StopTicker
    BY <2>16 DEF StopTicker, Moves
  <2>17. CASE StopJoinTicker
    BY <2>17 DEF StopJoinTicker, Moves
  <2>18. CASE StopLock
    BY <2>18 DEF StopLock, Acquire, Moves
  <2>19. CASE StopSet
    BY <2>19 DEF StopSet, Release, Moves
  <2>20. CASE StopWake
    BY <2>20 DEF StopWake, WakeThen
  <2>21. CASE StopJoinWorker
    BY <2>21 DEF StopJoinWorker, Moves
  <2>22. CASE UNCHANGED vars
    BY <2>22 DEF vars
  <2>. QED
    BY <2>1, <2>2, <2>3, <2>4, <2>5, <2>6, <2>7, <2>8, <2>9, <2>10, <2>11, <2>12, <2>13, <2>14,
       <2>15, <2>16, <2>17, <2>18, <2>19, <2>20, <2>21, <2>22
       DEF Next, WorkerStep, TriggerStep, StopStep, AtRest
<1>. QED
  BY <1>1, <1>2, PTL DEF Safety

-------------------------------------------------------------------------------
\* The state is always well typed.
THEOREM SyncerTypeOK == Safety => []TypeOK
<1>1. IInv => TypeOK
  BY DEF IInv
<1>. QED
  BY <1>1, SyncerInvariant, PTL

\* No trigger is lost and none is served twice (syncer.h:1).
THEOREM TriggersNeitherLostNorRepeated == Safety => []PendingIffUnserved
<1>1. IInv => PendingIffUnserved
  BY DEF IInv
<1>. QED
  BY <1>1, SyncerInvariant, PTL

\* The worker never sleeps through a trigger or a stop: waking it after the
\* lock is released is early enough.
THEOREM WorkerNeverSleepsOnWork == Safety => []NoLostWakeup
<1>1. IInv => NoLostWakeup
  BY DEF IInv
<1>. QED
  BY <1>1, SyncerInvariant, PTL

\* The lock is free during every run, join and sleep (syncer.h:26).
THEOREM LockIsShort == Safety => []LockOnlyInCriticalSections
<1>1. IInv => LockOnlyInCriticalSections
  BY DEF IInv
<1>. QED
  BY <1>1, SyncerInvariant, PTL

\* A late trigger never touches a storage that is gone (syncer.c:114-120).
THEOREM LateTriggersAreSafe == Safety => []StorageOutlivesTriggers
<1>1. IInv => StorageOutlivesTriggers
  <2>. SUFFICES ASSUME IInv, NEW t \in Threads,
                       lock = t \/ pc[t] \in {"lock", "set", "wake"}
                PROVE  storage = "live"
    BY DEF StorageOutlivesTriggers
  <2>1. pc[t] \in {"check", "set", "setStop", "lock", "wake"}
    BY DEF IInv, LockOnlyInCriticalSections
  <2>. QED
    BY <2>1 DEF IInv, TypeOK, Lifecycle, Threads, Triggerers
<1>. QED
  BY <1>1, SyncerInvariant, PTL

\* When syncer_stop returns, the worker and the ticker are gone.
THEOREM StopLeavesNoThread == Safety => []StopJoinsThreads
<1>1. IInv => StopJoinsThreads
  BY DEF IInv, StopProgress, StopJoinsThreads
<1>. QED
  BY <1>1, SyncerInvariant, PTL

\* No run begins after the stop flag is up, however many triggers are pending.
THEOREM NothingRunsAfterStop == Safety => NoRunAfterStop
<1>1. IInv /\ [Next]_vars => [stopping /\ pc[Worker] # "run" => pc'[Worker] # "run"]_vars
  <2>. SUFFICES ASSUME IInv, Next, stopping, pc[Worker] # "run"
                PROVE  pc'[Worker] # "run" \/ UNCHANGED vars
    BY DEF vars
  <2>. USE ThreadsDistinct DEF IInv, TypeOK, Threads, Triggerers
  <2>1. CASE WorkerStep
    BY <2>1 DEF WorkerStep, WorkerAcquire, WorkerSleep, WorkerTake,
                WorkerFinishRun, WorkerExit, Moves
  <2>2. CASE WorkerSpuriousWake \/ TickerExit
    BY <2>2 DEF WorkerSpuriousWake, TickerExit, Moves
  <2>3. ASSUME NEW t \in Triggerers, TriggerCall(t) \/ TriggerStep(t)
        PROVE  pc'[Worker] # "run"
    BY <2>3 DEF TriggerCall, TriggerStep, TriggerLock, TriggerSet, TriggerWake,
                Moves, WakeThen
  <2>4. CASE StartFails \/ StartSyncer \/ StartTickerFails \/ StartTicker
    BY <2>4 DEF StartFails, StartSyncer, StartTickerFails, StartTicker, Moves
  <2>5. CASE StopTicker \/ StopStep
    BY <2>5 DEF StopTicker, StopStep, StopJoinTicker, StopLock, StopSet,
                StopWake, StopJoinWorker, Moves, WakeThen
  <2>. QED
    BY <2>1, <2>2, <2>3, <2>4, <2>5 DEF Next, AtRest
<1>. QED
  BY <1>1, SyncerInvariant, PTL DEF Safety, NoRunAfterStop

\* Every behaviour of the threads, lock and wake-ups is one of the runner of
\* syncer.h: triggers coalesce into runs that start after them, one at a time.
THEOREM SyncerImplementsPromise == Safety => Promise!AbsSafety
<1>. USE ThreadsDistinct DEF Threads, Triggerers
<1>1. Init => Promise!AbsInit
  BY DEF Init, Promise!AbsInit
<1>2. IInv /\ [Next]_vars => [Promise!AbsNext]_Promise!absVars
  <2>. SUFFICES ASSUME IInv, [Next]_vars
                PROVE  Promise!AbsNext \/ UNCHANGED Promise!absVars
    OBVIOUS
  <2>. USE DEF IInv, TypeOK, Promise!absVars
  <2>1. CASE WorkerTake
    <3>1. Promise!Begin
      BY <2>1 DEF WorkerTake, Moves, Promise!Begin, PendingIffUnserved
    <3>. QED
      BY <3>1 DEF Promise!AbsNext
  <2>2. CASE WorkerFinishRun
    <3>1. Promise!Finish
      BY <2>2 DEF WorkerFinishRun, Moves, Promise!Finish
    <3>. QED
      BY <3>1 DEF Promise!AbsNext
  <2>3. CASE WorkerAcquire \/ WorkerSleep \/ WorkerExit \/ WorkerSpuriousWake
    BY <2>3 DEF WorkerAcquire, WorkerSleep, WorkerExit, WorkerSpuriousWake, Moves
  <2>4. ASSUME NEW t \in Triggerers, TriggerSet(t)
        PROVE  Promise!AbsNext \/ UNCHANGED Promise!absVars
    <3>1. Promise!Request
      BY <2>4 DEF TriggerSet, Moves, Promise!Request
    <3>. QED
      BY <3>1 DEF Promise!AbsNext
  <2>5. ASSUME NEW t \in Triggerers, TriggerCall(t) \/ TriggerLock(t) \/ TriggerWake(t)
        PROVE  UNCHANGED Promise!absVars
    BY <2>5 DEF TriggerCall, TriggerLock, TriggerWake, Moves, WakeThen
  <2>6. CASE TickerExit
    BY <2>6 DEF TickerExit, Moves
  <2>7. CASE StartFails \/ StartSyncer \/ StartTickerFails \/ StartTicker
    BY <2>7 DEF StartFails, StartSyncer, StartTickerFails, StartTicker, Moves,
                Lifecycle
  <2>8. CASE StopSet
    <3>1. Promise!Halt
      BY <2>8 DEF StopSet, Moves, Promise!Halt, StopProgress
    <3>. QED
      BY <3>1 DEF Promise!AbsNext
  <2>9. CASE StopTicker \/ StopJoinTicker \/ StopLock \/ StopWake \/ StopJoinWorker
    BY <2>9 DEF StopTicker, StopJoinTicker, StopLock, StopWake, StopJoinWorker,
                Moves, WakeThen
  <2>10. CASE UNCHANGED vars
    BY <2>10 DEF vars
  <2>. QED
    BY <2>1, <2>2, <2>3, <2>4, <2>5, <2>6, <2>7, <2>8, <2>9, <2>10
       DEF Next, WorkerStep, TriggerStep, StopStep, AtRest
<1>. QED
  BY <1>1, <1>2, SyncerInvariant, PTL DEF Safety, Promise!AbsSafety
===============================================================================
