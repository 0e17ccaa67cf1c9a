-------------------------------- MODULE Watcher --------------------------------
(* The directory watcher of src/watcher.c: a watch thread over the overlapped  *)
(* reads of up to MaxRoots directories, a debounce thread, and the main thread *)
(* that starts, restarts and stops them.  The kernel's side of                 *)
(* ReadDirectoryChangesW, CancelIoEx and events is modelled as watcher.c uses  *)
(* it.                                                                         *)
EXTENDS Naturals, Sequences

CONSTANTS
    Paths,              \* directories of the file system
    PathLists,          \* the lists watcher_start may be given
    MaxRoots,           \* MAX_ROOTS
    MaxChanges,         \* bound on the changes that happen to the directories
    MaxCalls            \* bound on the calls of watcher_start and watcher_stop

NoPath == "no path"

\* The lists name no directory twice (data_dirs.c:291-303).
ASSUME WatcherConstants ==
    /\ NoPath \notin Paths
    /\ PathLists \subseteq Seq(Paths)
    /\ \A list \in PathLists : \A i, j \in DOMAIN list : list[i] = list[j] => i = j
    /\ MaxRoots \in Nat \ {0} /\ MaxChanges \in Nat /\ MaxCalls \in Nat

Slots == 1..MaxRoots

VARIABLES
    exists,             \* the directories that exist now
    roots,              \* Watcher.roots, with the state of each root's read
    rootCount,          \* Watcher.root_count
    stopEvent,          \* Watcher.stop_event: "null", "reset" or "set"
    changedEvent,       \* Watcher.changed_event, which resets when a wait takes it
    watch,              \* the watch thread
    current,            \* the root the watch thread is handling
    debounce,           \* the debounce thread
    owner,              \* the thread in watcher_start or watcher_stop
    resume,             \* where the owner goes when watcher_stop returns
    list,               \* the paths watcher_start was given
    next,               \* index of the owner's loop over list or roots
    owed, unanswered,   \* history: as in WatcherPromise
    changes, calls      \* history: counters for the bounds

kernelVars == <<exists, changes>>
rootVars == <<roots, rootCount>>
eventVars == <<stopEvent, changedEvent>>
threadVars == <<watch, current, debounce>>
ownerVars == <<owner, resume, list, next, calls>>
promiseVars == <<owed, unanswered>>
vars == <<kernelVars, rootVars, eventVars, threadVars, ownerVars, promiseVars>>

\* gone: the open directory was deleted; io: the overlapped read; event: the
\* root's manual-reset event; buffered: changes the kernel keeps for the next
\* read while none is outstanding.
Root == [path : Paths \cup {NoPath}, gone : BOOLEAN, event : BOOLEAN,
         io : {"none", "pending", "canceling", "done"}, buffered : BOOLEAN]
Closed == [path |-> NoPath, gone |-> FALSE, event |-> FALSE, io |-> "none",
           buffered |-> FALSE]

Events == {"null", "reset", "set"}
StopPCs == {"signal", "joinWatch", "joinDebounce", "cancel", "await", "closeEvents"}
OwnerPCs == {"idle", "events", "open", "threads"} \cup StopPCs

TypeOK ==
    /\ exists \subseteq Paths
    /\ roots \in [Slots -> Root]
    /\ rootCount \in 0..MaxRoots
    /\ stopEvent \in Events /\ changedEvent \in Events
    /\ watch \in {"none", "wait", "signal", "reset", "reissue", "exited"}
    /\ current \in 0..MaxRoots
    /\ debounce \in {"none", "wait", "burst", "callback", "exited"}
    /\ owner \in OwnerPCs
    /\ resume \in {"idle", "events"}
    /\ list \in PathLists \cup {<<>>}
    /\ next \in Nat
    /\ owed \subseteq Paths /\ unanswered \in 0..MaxChanges
    /\ changes \in 0..MaxChanges /\ calls \in 0..MaxCalls

\* watcher_create: a zeroed struct.
Init ==
    /\ exists = Paths
    /\ roots = [k \in Slots |-> Closed]
    /\ rootCount = 0
    /\ stopEvent = "null" /\ changedEvent = "null"
    /\ watch = "none" /\ current = 0 /\ debounce = "none"
    /\ owner = "idle" /\ resume = "idle" /\ list = <<>> /\ next = 1
    /\ owed = {} /\ unanswered = 0
    /\ changes = 0 /\ calls = 0

-------------------------------------------------------------------------------
\* The kernel

Complete(root) == [root EXCEPT !.io = "done", !.event = TRUE]

\* What a change in its directory does to an open root: it completes the read
\* that is outstanding, and is kept for the next read when there is none.
Notify(root) ==
    IF root.io = "pending" THEN Complete(root) ELSE [root EXCEPT !.buffered = TRUE]

\* A root whose changes reach the watcher: open, its directory still there, and
\* not given up after a failed read.
Watched(root) == root.path # NoPath /\ ~root.gone /\ root.io # "none"

\* The watcher owes a callback for a change in a root it watches, unless it has
\* been told to stop.
Owes(path) ==
    stopEvent = "reset" /\ \E k \in Slots : roots[k].path = path /\ Watched(roots[k])

\* One more change happens in the directory, or to it.
Happens(path) ==
    /\ changes < MaxChanges /\ changes' = changes + 1
    /\ UNCHANGED <<rootCount, eventVars, threadVars, ownerVars>>

\* The roots open on the directory take it in; "vanishes": it is the directory
\* itself that goes.
Seen(path, vanishes) ==
    /\ path \in exists
    /\ roots' = [k \in Slots |-> IF roots[k].path = path /\ ~roots[k].gone
                                 THEN [Notify(roots[k]) EXCEPT !.gone = vanishes]
                                 ELSE roots[k]]
    /\ IF Owes(path)
       THEN owed' = owed \cup {path} /\ unanswered' = unanswered + 1
       ELSE UNCHANGED promiseVars

\* A file in the directory is created, written, renamed or deleted.
Change(path) == Happens(path) /\ Seen(path, FALSE) /\ UNCHANGED exists

\* The directory itself is deleted or unmounted: its handle stays open but
\* further reads on it fail.
Vanish(path) ==
    /\ Happens(path) /\ Seen(path, TRUE)
    /\ exists' = exists \ {path}

\* A directory of that name is created again; old handles do not see it.
Reappear(path) ==
    /\ Happens(path) /\ path \notin exists
    /\ exists' = exists \cup {path}
    /\ UNCHANGED <<roots, promiseVars>>

\* A cancelled read completes some time after CancelIoEx has returned.
CancelCompletes(k) ==
    /\ roots[k].io = "canceling"
    /\ roots' = [roots EXCEPT ![k] = Complete(@)]
    /\ UNCHANGED <<kernelVars, rootCount, eventVars, threadVars, ownerVars, promiseVars>>

\* issue_read succeeds: the read completes at once with what the kernel kept, or
\* stays outstanding.  It fails when the directory is gone, and may fail anyway.
Reissued(root) ==
    IF root.buffered
    THEN [Complete(root) EXCEPT !.buffered = FALSE]
    ELSE [root EXCEPT !.io = "pending", !.event = FALSE]

-------------------------------------------------------------------------------
\* watch_main

Signaled(k) == k <= rootCount /\ roots[k].event

WatchGoes(from, to) ==
    /\ watch = from /\ watch' = to
    /\ UNCHANGED <<kernelVars, rootCount, stopEvent, debounce, ownerVars>>

\* WaitForMultipleObjects returns the first signaled handle; the stop event
\* comes first.
WatchStops ==
    /\ WatchGoes("wait", "exited") /\ stopEvent = "set"
    /\ UNCHANGED <<roots, changedEvent, current, promiseVars>>

WatchWakes ==
    /\ WatchGoes("wait", "signal") /\ stopEvent # "set"
    /\ \E k \in Slots :
        /\ Signaled(k) /\ \A j \in Slots : Signaled(j) => k <= j
        /\ current' = k
    /\ UNCHANGED <<roots, changedEvent, promiseVars>>

WatchSignals ==
    /\ WatchGoes("signal", "reset")
    /\ changedEvent' = "set"
    /\ UNCHANGED <<roots, current, promiseVars>>

\* The next read is issued first and the event reset after it, which may undo
\* the completion of that read.
WatchResets_AfterReissue ==
    /\ WatchGoes("reset", "wait")
    /\ roots' = [roots EXCEPT ![current] =
                    [(IF @.gone THEN [@ EXCEPT !.io = "none"] ELSE Reissued(@))
                        EXCEPT !.event = FALSE]]
    /\ UNCHANGED <<changedEvent, current, promiseVars>>

WatchResets ==
    /\ WatchGoes("reset", "reissue")
    /\ roots' = [roots EXCEPT ![current].event = FALSE]
    /\ UNCHANGED <<changedEvent, current, promiseVars>>

WatchReissues ==
    /\ WatchGoes("reissue", "wait") /\ ~roots[current].gone
    /\ roots' = [roots EXCEPT ![current] = Reissued(@)]
    /\ UNCHANGED <<changedEvent, current, promiseVars>>

\* The read cannot be issued: the root is given up, and what happened in it
\* since its last completion is left to the periodic sync.
WatchGivesUp ==
    /\ WatchGoes("reissue", "wait")
    /\ roots' = [roots EXCEPT ![current].io = "none", ![current].event = FALSE]
    /\ owed' = owed \ {roots[current].path}
    /\ UNCHANGED <<changedEvent, current, unanswered>>

WatchStep ==
    WatchStops \/ WatchWakes \/ WatchSignals \/ WatchResets \/ WatchReissues \/ WatchGivesUp

-------------------------------------------------------------------------------
\* debounce_main

DebounceGoes(from, to) ==
    /\ debounce \in from /\ debounce' = to
    /\ UNCHANGED <<kernelVars, rootVars, stopEvent, watch, current, ownerVars>>

\* In either wait the stop event ends the thread.
DebounceStops ==
    /\ DebounceGoes({"wait", "burst"}, "exited") /\ stopEvent = "set"
    /\ UNCHANGED <<changedEvent, promiseVars>>

\* The first event opens a burst, each further one extends it; the auto-reset
\* event is consumed by the wait.
DebounceAbsorbs ==
    /\ DebounceGoes({"wait", "burst"}, "burst") /\ stopEvent # "set"
    /\ changedEvent = "set" /\ changedEvent' = "reset"
    /\ UNCHANGED promiseVars

\* debounce_ms pass without an event: on_change is called.
DebounceFires ==
    /\ DebounceGoes({"burst"}, "callback") /\ changedEvent # "set" /\ stopEvent # "set"
    /\ owed' = {} /\ unanswered' = unanswered - 1
    /\ UNCHANGED changedEvent

\* The event is a manual-reset one that is cleared after the callback.
DebounceReturns_Clearing ==
    DebounceGoes({"callback"}, "wait") /\ changedEvent' = "reset" /\ UNCHANGED promiseVars

DebounceReturns == DebounceGoes({"callback"}, "wait") /\ UNCHANGED <<changedEvent, promiseVars>>

DebounceStep == DebounceStops \/ DebounceAbsorbs \/ DebounceFires \/ DebounceReturns

-------------------------------------------------------------------------------
\* watcher_start and watcher_stop, called from one thread

Call(how) ==
    /\ owner = "idle" /\ owner' = "signal"
    /\ calls < MaxCalls /\ calls' = calls + 1
    /\ resume' = how
    /\ UNCHANGED <<kernelVars, rootVars, eventVars, threadVars, next, promiseVars>>

CallStart(paths) == Call("events") /\ list' = paths
CallStop == Call("idle") /\ UNCHANGED list

OwnerGoes(from, to) ==
    /\ owner = from /\ owner' = to
    /\ UNCHANGED <<kernelVars, current, list, calls>>

StopGoes(from, to) == OwnerGoes(from, to) /\ UNCHANGED resume

\* The event is set after the joins.
StopSignals_TooLate ==
    /\ StopGoes("signal", "joinWatch")
    /\ owed' = {} /\ unanswered' = 0
    /\ UNCHANGED <<rootVars, eventVars, watch, debounce, next>>

StopSignals ==
    /\ StopGoes("signal", "joinWatch")
    /\ stopEvent' = IF stopEvent = "null" THEN "null" ELSE "set"
    /\ owed' = {} /\ unanswered' = 0
    /\ UNCHANGED <<rootVars, changedEvent, watch, debounce, next>>

StopJoinsWatch ==
    /\ StopGoes("joinWatch", "joinDebounce")
    /\ watch \in {"none", "exited"} /\ watch' = "none"
    /\ UNCHANGED <<rootVars, eventVars, debounce, next, promiseVars>>

StopJoinsDebounce ==
    /\ StopGoes("joinDebounce", "cancel")
    /\ debounce \in {"none", "exited"} /\ debounce' = "none"
    /\ next' = 1
    /\ UNCHANGED <<rootVars, eventVars, watch, promiseVars>>

\* CancelIoEx finds a read to cancel, or none because it has completed or was
\* never issued; GetOverlappedResult waits only in the first case.
StopCancels ==
    /\ StopGoes("cancel", "await") /\ next <= rootCount
    /\ roots' = [roots EXCEPT ![next].io = IF @ = "pending" THEN "canceling" ELSE @]
    /\ UNCHANGED <<rootCount, eventVars, watch, debounce, next, promiseVars>>

CloseRoot(closed) ==
    /\ StopGoes("await", "cancel")
    /\ roots' = [roots EXCEPT ![next] = closed]
    /\ next' = next + 1
    /\ UNCHANGED <<rootCount, eventVars, watch, debounce, promiseVars>>

\* The cancelled read is not waited for.
StopClosesRoot_NoWait ==
    CloseRoot([Closed EXCEPT !.io = IF roots[next].io = "canceling"
                                    THEN "canceling" ELSE "none"])

StopClosesRoot == CloseRoot(Closed) /\ roots[next].io # "canceling"

StopForgetsRoots ==
    /\ StopGoes("cancel", "closeEvents") /\ next > rootCount
    /\ rootCount' = 0
    /\ UNCHANGED <<roots, eventVars, watch, debounce, next, promiseVars>>

\* watcher_stop returns, to its caller or into watcher_start, which returns when
\* it has no paths.
StopClosesEvents ==
    /\ StopGoes("closeEvents", IF list = <<>> THEN "idle" ELSE resume)
    /\ changedEvent' = "null" /\ stopEvent' = "null"
    /\ UNCHANGED <<rootVars, watch, debounce, next, promiseVars>>

StopStep ==
    \/ StopSignals \/ StopJoinsWatch \/ StopJoinsDebounce \/ StopCancels
    \/ StopClosesRoot \/ StopForgetsRoots \/ StopClosesEvents

\* Any failure of watcher_start stops what was started and returns.
StartGoes(from, failed, to) ==
    /\ OwnerGoes(from, IF failed THEN "signal" ELSE to)
    /\ resume' = IF failed THEN "idle" ELSE resume

\* Either event may not be created.
StartCreatesEvents ==
    /\ stopEvent' \in {"null", "reset"} /\ changedEvent' \in {"null", "reset"}
    /\ StartGoes("events", "null" \in {stopEvent', changedEvent'}, "open")
    /\ next' = 1
    /\ UNCHANGED <<rootVars, watch, debounce, promiseVars>>

StartOpensRoot ==
    /\ StartGoes("open", FALSE, "open")
    /\ next <= Len(list) /\ rootCount < MaxRoots /\ list[next] \in exists
    /\ roots' = [roots EXCEPT ![rootCount + 1] = Reissued([Closed EXCEPT !.path = list[next]])]
    /\ rootCount' = rootCount + 1
    /\ next' = next + 1
    /\ UNCHANGED <<eventVars, watch, debounce, promiseVars>>

\* The directory is not there, or its handle, event or first read fails.
StartSkipsRoot ==
    /\ StartGoes("open", FALSE, "open")
    /\ next <= Len(list) /\ rootCount < MaxRoots
    /\ next' = next + 1
    /\ UNCHANGED <<rootVars, eventVars, watch, debounce, promiseVars>>

StartHasRoots ==
    /\ next > Len(list) \/ rootCount = MaxRoots
    /\ StartGoes("open", rootCount = 0, "threads")
    /\ UNCHANGED <<rootVars, eventVars, watch, debounce, next, promiseVars>>

\* Either thread may not be created.
StartCreatesThreads ==
    /\ watch' \in {"none", "wait"} /\ debounce' \in {"none", "wait"}
    /\ StartGoes("threads", "none" \in {watch', debounce'}, "idle")
    /\ UNCHANGED <<rootVars, eventVars, next, promiseVars>>

StartStep ==
    \/ StartCreatesEvents \/ StartOpensRoot \/ StartSkipsRoot
    \/ StartHasRoots \/ StartCreatesThreads

-------------------------------------------------------------------------------
\* Every thread waits: nothing more need happen.
AtRest ==
    /\ owner = "idle"
    /\ watch \in {"none", "wait"} /\ debounce \in {"none", "wait"}
    /\ UNCHANGED vars

Next ==
    \/ \E path \in Paths : Change(path) \/ Vanish(path) \/ Reappear(path)
    \/ \E k \in Slots : CancelCompletes(k)
    \/ WatchStep \/ DebounceStep
    \/ CallStop \/ \E paths \in PathLists : CallStart(paths)
    \/ StopStep \/ StartStep
    \/ AtRest

Safety == Init /\ [][Next]_vars

\* Threads that can run do run, the kernel completes a cancelled read, and the
\* callback, a trigger of the syncer, returns.  Nothing makes a directory change
\* or the main thread call.
Fairness ==
    /\ WF_vars(WatchStep)
    /\ WF_vars(DebounceStep)
    /\ WF_vars(StopStep)
    /\ WF_vars(StartStep)
    /\ \A k \in Slots : WF_vars(CancelCompletes(k))

Spec == Safety /\ Fairness

-------------------------------------------------------------------------------
\* Properties

\* The read on a root has completed and its event says so, or the watch thread
\* is about to find out by reissuing it.
ReadAnswered(k) ==
    \/ Signaled(k)
    \/ watch \in {"signal", "reset", "reissue"} /\ current = k

\* No root goes deaf: a root the watcher holds has a read outstanding, or a
\* completion that the watch thread still gets to see.
NoRootGoesDeaf ==
    \A k \in 1..rootCount : roots[k].io = "done" => ReadAnswered(k)

\* Nothing is used after it is given up: the kernel has no read outstanding into
\* the memory of a root that is not in use, which the next start may reuse
\* (watcher.c:165-167), and the events and roots the threads wait on are open as
\* long as the threads live.
NothingFreedIsUsed ==
    /\ \A k \in Slots :
           roots[k].path = NoPath => roots[k].io \notin {"pending", "canceling"}
    /\ stopEvent = "null" \/ changedEvent = "null" =>
           watch \in {"none", "exited"} /\ debounce \in {"none", "exited"}
    /\ watch \notin {"none", "exited"} =>
           rootCount > 0 /\ \A k \in 1..rootCount : roots[k].path # NoPath

\* The threads, the events and the kernel implement the promise of WatcherPromise:
\* every change in a watched directory is followed by a callback unless the
\* watcher is stopped or gives the directory up, no callback comes without a
\* change or is decided after the stop was signaled, callbacks do not overlap,
\* and none runs into the next start (watcher.h:3-4).
Promise ==
    INSTANCE WatcherPromise
        WITH on <- stopEvent = "reset", calling <- debounce = "callback"
ImplementsPromise == Promise!Spec

\* watcher_start and watcher_stop return.
CallsReturn == owner # "idle" ~> owner = "idle"
===============================================================================
