-------------------------------- MODULE Syncer --------------------------------
(* The background sync runner of src/syncer.c: one worker thread that sleeps  *)
(* on a condition variable, a periodic ticker thread, and any thread of the   *)
(* process calling syncer_trigger.  Every acquire, release, wake, join and    *)
(* assignment under the lock is a step of its own where another thread can    *)
(* run in between.                                                            *)
EXTENDS Naturals

CONSTANTS
    Callers,            \* threads that call syncer_trigger (UI, watcher, save-key)
    Ticker,             \* the thread of ticker_main
    Worker,             \* the thread of worker_main
    Owner,              \* the main thread: syncer_start ... syncer_stop
    NoThread,           \* nobody holds the lock
    MaxTriggers         \* bound: no call begins once this many have been made

Triggerers == Callers \cup {Ticker}
Threads == Triggerers \cup {Worker, Owner}

ASSUME ThreadsDistinct ==
    /\ Ticker \notin Callers /\ Worker \notin Callers /\ Owner \notin Callers
    /\ Ticker # Worker /\ Ticker # Owner /\ Worker # Owner
    /\ NoThread \notin Threads

ASSUME MaxTriggersNat == MaxTriggers \in Nat

VARIABLES
    pc,                 \* where each thread is
    storage,            \* lock_storage: "null", or "live" once malloc'd
    lock,               \* holder of the SRW lock
    pending,            \* Syncer.pending
    stopping,           \* Syncer.stopping
    tickerStop,         \* the manual-reset event ticker_stop is signaled
    requested,          \* history: stores of pending = true so far
    served              \* history: requested when the last run was taken

vars == <<pc, storage, lock, pending, stopping, tickerStop, requested, served>>

TriggerPCs == {"idle", "lock", "set", "wake"}
WorkerPCs == {"none", "acquire", "check", "asleep", "run", "exited"}
OwnerPCs == {"start", "startTicker", "serving", "joinTicker", "lockStop",
             "setStop", "wakeStop", "joinWorker", "stopped", "failed"}

TypeOK ==
    /\ pc \in [Threads -> TriggerPCs \cup WorkerPCs \cup OwnerPCs]
    /\ \A c \in Callers : pc[c] \in TriggerPCs
    /\ pc[Ticker] \in TriggerPCs \cup {"none", "exited"}
    /\ pc[Worker] \in WorkerPCs
    /\ pc[Owner] \in OwnerPCs
    /\ storage \in {"null", "live"}
    /\ lock \in Threads \cup {NoThread}
    /\ pending \in BOOLEAN /\ stopping \in BOOLEAN /\ tickerStop \in BOOLEAN
    /\ requested \in Nat /\ served \in 0..requested

\* syncer_start has zeroed the struct; no thread but the owner exists yet.
Init ==
    /\ pc = [t \in Threads |-> IF t \in Callers THEN "idle"
                               ELSE IF t = Owner THEN "start" ELSE "none"]
    /\ storage = "null" /\ lock = NoThread
    /\ pending = FALSE /\ stopping = FALSE /\ tickerStop = FALSE
    /\ requested = 0 /\ served = 0

Moves(t, from, to) == pc[t] = from /\ pc' = [pc EXCEPT ![t] = to]

\* AcquireSRWLockExclusive: blocks while another thread holds the lock.
Acquire(t) == lock = NoThread /\ lock' = t
Release == lock' = NoThread

\* WakeConditionVariable: the only thread that ever sleeps on the condition
\* variable is the worker; a wake with nobody asleep is not remembered.
WakeThen(t, label) ==
    pc' = [pc EXCEPT ![t] = label,
                     ![Worker] = IF @ = "asleep" THEN "acquire" ELSE @]

-------------------------------------------------------------------------------
\* worker_main

WorkerAcquire ==
    /\ Moves(Worker, "acquire", "check")
    /\ Acquire(Worker)
    /\ UNCHANGED <<storage, pending, stopping, tickerStop, requested, served>>

\* SleepConditionVariableSRW releases the lock and sleeps in one step.
WorkerSleep ==
    /\ Moves(Worker, "check", "asleep")
    /\ ~pending /\ ~stopping
    /\ Release
    /\ UNCHANGED <<storage, pending, stopping, tickerStop, requested, served>>

\* Condition variables may wake without a wake call.
WorkerSpuriousWake ==
    /\ Moves(Worker, "asleep", "acquire")
    /\ UNCHANGED <<storage, lock, pending, stopping, tickerStop, requested, served>>

\* A pending trigger is taken even when the owner has asked for the stop.
WorkerTake_PendingFirst ==
    /\ Moves(Worker, "check", "run")
    /\ pending
    /\ pending' = FALSE /\ served' = requested
    /\ Release
    /\ UNCHANGED <<storage, stopping, tickerStop, requested>>

\* pending is cleared before the lock is released and the run begins.
WorkerTake ==
    /\ Moves(Worker, "check", "run")
    /\ pending /\ ~stopping
    /\ pending' = FALSE /\ served' = requested
    /\ Release
    /\ UNCHANGED <<storage, stopping, tickerStop, requested>>

\* pending is cleared when the run ends, not when it begins.
WorkerFinishRun_ClearsPending ==
    /\ Moves(Worker, "run", "acquire")
    /\ pending' = FALSE
    /\ UNCHANGED <<storage, lock, stopping, tickerStop, requested, served>>

\* s->run returns; the worker goes back for the lock.
WorkerFinishRun ==
    /\ Moves(Worker, "run", "acquire")
    /\ UNCHANGED <<storage, lock, pending, stopping, tickerStop, requested, served>>

WorkerExit ==
    /\ Moves(Worker, "check", "exited")
    /\ stopping
    /\ Release
    /\ UNCHANGED <<storage, pending, stopping, tickerStop, requested, served>>

WorkerStep ==
    \/ WorkerAcquire \/ WorkerSleep \/ WorkerTake \/ WorkerFinishRun \/ WorkerExit

-------------------------------------------------------------------------------
\* syncer_trigger, called by any thread once syncer_start has returned, also
\* after syncer_stop; and ticker_main, which calls it on every timeout.

\* The early return on a NULL lock_storage changes nothing.  The ticker calls
\* when its wait on ticker_stop times out, which it cannot once that is set.
TriggerCall(t) ==
    /\ Moves(t, "idle", "lock")
    /\ storage = "live"
    /\ pc[Owner] # "startTicker"
    /\ t = Ticker => ~tickerStop
    /\ requested < MaxTriggers
    /\ UNCHANGED <<storage, lock, pending, stopping, tickerStop, requested, served>>

TriggerLock(t) ==
    /\ Moves(t, "lock", "set")
    /\ Acquire(t)
    /\ UNCHANGED <<storage, pending, stopping, tickerStop, requested, served>>

\* pending = true, then the lock is released.
TriggerSet(t) ==
    /\ Moves(t, "set", "wake")
    /\ pending' = TRUE /\ requested' = requested + 1
    /\ Release
    /\ UNCHANGED <<storage, stopping, tickerStop, served>>

\* The wake-up comes after the release, so anything may happen in between.
TriggerWake(t) ==
    /\ pc[t] = "wake"
    /\ WakeThen(t, "idle")
    /\ UNCHANGED <<storage, lock, pending, stopping, tickerStop, requested, served>>

TriggerStep(t) == TriggerLock(t) \/ TriggerSet(t) \/ TriggerWake(t)

TickerExit ==
    /\ Moves(Ticker, "idle", "exited")
    /\ tickerStop
    /\ UNCHANGED <<storage, lock, pending, stopping, tickerStop, requested, served>>

-------------------------------------------------------------------------------
\* The owner: syncer_start, syncer_start_ticker, syncer_stop.

\* The allocation or the worker's CreateThread fails; the storage is freed and
\* its pointer reset, and the program ends (main.c:38).
StartFails ==
    /\ Moves(Owner, "start", "failed")
    /\ UNCHANGED <<storage, lock, pending, stopping, tickerStop, requested, served>>

StartSyncer ==
    /\ pc[Owner] = "start"
    /\ storage' = "live"
    /\ pc' = [pc EXCEPT ![Owner] = "startTicker", ![Worker] = "acquire"]
    /\ UNCHANGED <<lock, pending, stopping, tickerStop, requested, served>>

\* The event or the thread cannot be created: the program goes on without.
StartTickerFails ==
    /\ Moves(Owner, "startTicker", "serving")
    /\ UNCHANGED <<storage, lock, pending, stopping, tickerStop, requested, served>>

StartTicker ==
    /\ pc[Owner] = "startTicker"
    /\ pc' = [pc EXCEPT ![Owner] = "serving", ![Ticker] = "idle"]
    /\ UNCHANGED <<storage, lock, pending, stopping, tickerStop, requested, served>>

\* syncer_stop begins: the ticker, if there is one, is told to stop.
StopTicker ==
    /\ Moves(Owner, "serving", IF pc[Ticker] # "none" THEN "joinTicker" ELSE "lockStop")
    /\ tickerStop' = (pc[Ticker] # "none")
    /\ UNCHANGED <<storage, lock, pending, stopping, requested, served>>

StopJoinTicker ==
    /\ Moves(Owner, "joinTicker", "lockStop")
    /\ pc[Ticker] = "exited"
    /\ UNCHANGED <<storage, lock, pending, stopping, tickerStop, requested, served>>

StopLock ==
    /\ Moves(Owner, "lockStop", "setStop")
    /\ Acquire(Owner)
    /\ UNCHANGED <<storage, pending, stopping, tickerStop, requested, served>>

StopSet ==
    /\ Moves(Owner, "setStop", "wakeStop")
    /\ stopping' = TRUE
    /\ Release
    /\ UNCHANGED <<storage, pending, tickerStop, requested, served>>

\* The stop relies on the worker noticing by itself.
StopWake_Missing ==
    /\ Moves(Owner, "wakeStop", "joinWorker")
    /\ UNCHANGED <<storage, lock, pending, stopping, tickerStop, requested, served>>

StopWake ==
    /\ pc[Owner] = "wakeStop"
    /\ WakeThen(Owner, "joinWorker")
    /\ UNCHANGED <<storage, lock, pending, stopping, tickerStop, requested, served>>

\* The tidy version that frees lock_storage once the worker has been joined.
StopJoinWorker_Freeing ==
    /\ Moves(Owner, "joinWorker", "stopped")
    /\ pc[Worker] = "exited"
    /\ storage' = "freed"
    /\ UNCHANGED <<lock, pending, stopping, tickerStop, requested, served>>

\* syncer_stop returns; the storage deliberately stays allocated.
StopJoinWorker ==
    /\ Moves(Owner, "joinWorker", "stopped")
    /\ pc[Worker] = "exited"
    /\ UNCHANGED <<storage, lock, pending, stopping, tickerStop, requested, served>>

StopStep ==
    StopJoinTicker \/ StopLock \/ StopSet \/ StopWake \/ StopJoinWorker

-------------------------------------------------------------------------------
\* The runner has come to rest: only further triggers could change anything.
AtRest ==
    /\ pc[Owner] \in {"stopped", "failed"}
    /\ \A c \in Callers : pc[c] = "idle"
    /\ UNCHANGED vars

Next ==
    \/ WorkerStep \/ WorkerSpuriousWake
    \/ \E t \in Triggerers : TriggerCall(t) \/ TriggerStep(t)
    \/ TickerExit
    \/ StartFails \/ StartSyncer \/ StartTickerFails \/ StartTicker
    \/ StopTicker \/ StopStep
    \/ AtRest

Safety == Init /\ [][Next]_vars

\* A thread that can run does run, and a thread waiting for the lock gets it if
\* it is released again and again.  A run ends: agent_sync is bounded by its
\* timeout.  Nothing makes a caller trigger, the owner stop, or the sleeping
\* worker wake by itself.
Fairness ==
    /\ WF_vars(WorkerSleep \/ WorkerTake \/ WorkerFinishRun \/ WorkerExit)
    /\ SF_vars(WorkerAcquire)
    /\ \A t \in Triggerers : /\ SF_vars(TriggerLock(t))
                             /\ WF_vars(TriggerSet(t) \/ TriggerWake(t))
    /\ WF_vars(TickerExit)
    /\ SF_vars(StopLock)
    /\ WF_vars(StopJoinTicker \/ StopSet \/ StopWake \/ StopJoinWorker)

Spec == Safety /\ Fairness

-------------------------------------------------------------------------------
\* Properties

\* The one flag says exactly whether a trigger is still owed a run: no trigger
\* is lost, not even one that arrives while a run executes, and no run is owed
\* to triggers already covered.
PendingIffUnserved == pending <=> served < requested

\* A worker that sleeps with work to do, or with a stop to obey, has a wake-up
\* on its way: checking the flags and going to sleep never misses a signal.
NoLostWakeup ==
    pc[Worker] = "asleep" /\ (pending \/ stopping) =>
        pc[Owner] = "wakeStop" \/ \E t \in Triggerers : pc[t] = "wake"

\* The lock is only ever held inside the short critical sections, so a trigger
\* never waits for a sync run, a join or a sleeping worker (syncer.h:26).
LockOnlyInCriticalSections ==
    \A t \in Threads : lock = t <=> pc[t] \in {"check", "set", "setStop"}

\* A thread inside syncer_trigger never uses a storage that is gone, however
\* late its call is (syncer.c:114-120).
StorageOutlivesTriggers ==
    \A t \in Threads :
        lock = t \/ pc[t] \in {"lock", "set", "wake"} => storage = "live"

\* When syncer_stop returns both threads it started are gone.
StopJoinsThreads ==
    pc[Owner] = "stopped" => pc[Worker] = "exited" /\ pc[Ticker] \in {"none", "exited"}

\* No run begins once the stop flag is up, whatever is pending.
NoRunAfterStop ==
    [][stopping /\ pc[Worker] # "run" => pc'[Worker] # "run"]_vars

\* Every call returns: a trigger whatever the worker is doing (syncer.h:26), and
\* syncer_stop with both threads joined.
CallsReturn ==
    /\ \A c \in Callers : pc[c] # "idle" ~> pc[c] = "idle"
    /\ pc[Owner] = "joinTicker" ~> pc[Owner] = "stopped"

\* The runner implements the promise of syncer.h.
Promise == INSTANCE CoalescingRunner WITH
    running <- pc[Worker] = "run",
    halted <- stopping

ImplementsPromise == Promise!AbsSpec
===============================================================================
