------------------------------ MODULE WatcherProofs ------------------------------
(* Proofs about Watcher, for any directories, lists of them and bounds.           *)
EXTENDS Watcher, FiniteSetTheorems, TLAPS

RootsTypeOK == roots \in [Slots -> Root] /\ rootCount \in 0..MaxRoots
ThreadsTypeOK ==
    /\ stopEvent \in Events /\ changedEvent \in Events
    /\ watch \in {"none", "wait", "signal", "reset", "reissue", "exited"}
    /\ current \in 0..MaxRoots
    /\ debounce \in {"none", "wait", "burst", "callback", "exited"}
OwnerTypeOK ==
    /\ owner \in OwnerPCs /\ resume \in {"idle", "events"}
    /\ list \in PathLists \cup {<<>>} /\ next \in Nat
HistoryTypeOK ==
    /\ exists \subseteq Paths /\ owed \subseteq Paths
    /\ unanswered \in Nat /\ changes \in 0..MaxChanges /\ calls \in 0..MaxCalls
    /\ unanswered <= changes
Typed == RootsTypeOK /\ ThreadsTypeOK /\ OwnerTypeOK /\ HistoryTypeOK

\* The owner waits for a thread before it takes away what the thread uses.
Threads ==
    /\ stopEvent = "null" \/ changedEvent = "null" =>
           watch \in {"none", "exited"} /\ debounce \in {"none", "exited"}
    /\ owner \notin {"idle", "signal", "joinWatch"} => watch = "none"
    /\ owner \notin {"idle", "signal", "joinWatch", "joinDebounce"} => debounce = "none"
    /\ owner \in {"joinWatch", "joinDebounce", "cancel", "await", "closeEvents"} =>
           stopEvent # "reset"
    /\ owner = "events" => stopEvent = "null"
    /\ owner \in {"open", "threads"} => stopEvent = "reset" /\ changedEvent = "reset"

\* The roots in use are the first rootCount, and the watch thread handles one of
\* them.
Roots ==
    /\ owner \in {"closeEvents", "events"} => rootCount = 0
    /\ owner \in {"open", "cancel", "await"} => next > 0
    /\ owner = "await" => next <= rootCount
    /\ owner = "threads" => rootCount > 0
    /\ watch \notin {"none", "exited"} => rootCount > 0
    /\ watch \in {"signal", "reset", "reissue"} => current \in 1..rootCount
    /\ \A k \in Slots :
        IF k > rootCount \/ (owner \in {"cancel", "await"} /\ k < next)
        THEN roots[k] = Closed ELSE roots[k].path # NoPath

\* A root's event says that its read has completed, and a read is cancelled only
\* as its root is closed.
Reads ==
    /\ \A k \in Slots : roots[k].event => roots[k].io = "done"
    /\ \A k \in Slots : roots[k].io = "canceling" => owner = "await" /\ k = next
    /\ watch \in {"signal", "reset", "reissue"} => roots[current].io = "done"

\* No two roots are open on one directory.
OneRootEach ==
    /\ \A j, k \in 1..rootCount : roots[j].path = roots[k].path /\ roots[j].path # NoPath => j = k
    /\ owner = "open" =>
           \A k \in 1..rootCount : \E i \in DOMAIN list : i < next /\ roots[k].path = list[i]

\* Every callback to come is paid for by a change: the completed reads that the
\* watch thread has not passed on, the changes the kernel keeps for the next
\* read, the changed event and the burst are together no more than the changes
\* without a callback.
Unheard ==
    {k \in Slots : roots[k].io = "done" /\ ~(watch \in {"reset", "reissue"} /\ current = k)}
Kept == {k \in Slots : roots[k].io # "none" /\ roots[k].buffered}
OneIf(condition) == IF condition THEN 1 ELSE 0
CallbacksToCome ==
    Cardinality(Unheard) + Cardinality(Kept)
        + OneIf(changedEvent = "set") + OneIf(debounce = "burst")
Paid ==
    IF stopEvent = "reset" THEN CallbacksToCome <= unanswered
    ELSE owed = {} /\ unanswered = 0

-------------------------------------------------------------------------------

\* What becomes of a root whose read completes, ...
LEMMA CompleteRoot ==
    ASSUME NEW root \in Root
    PROVE  /\ Complete(root) \in Root
           /\ Complete(root).path = root.path /\ Complete(root).gone = root.gone
           /\ Complete(root).io = "done" /\ Complete(root).event
           /\ Complete(root).buffered = root.buffered
BY DEF Complete, Root

\* ... or is issued again.
LEMMA ReissuedRoot ==
    ASSUME NEW root \in Root
    PROVE  /\ Reissued(root) \in Root
           /\ Reissued(root).path = root.path /\ Reissued(root).gone = root.gone
           /\ Reissued(root).io = IF root.buffered THEN "done" ELSE "pending"
           /\ Reissued(root).event <=> root.buffered
           /\ ~Reissued(root).buffered
BY DEF Reissued, Complete, Root

\* What a change, or the end of its directory, does to a root.
LEMMA NotifiedRoot ==
    ASSUME NEW root \in Root, NEW vanishes \in BOOLEAN,
           NEW new, new = [Notify(root) EXCEPT !.gone = vanishes]
    PROVE  /\ new \in Root
           /\ new.path = root.path /\ new.gone = vanishes
           /\ IF root.io = "pending"
              THEN new.io = "done" /\ new.event /\ new.buffered = root.buffered
              ELSE new.io = root.io /\ new.event = root.event /\ new.buffered
BY DEF Notify, Complete, Root

\* A closed root is a root.
LEMMA ClosedRoot == Closed \in Root
BY DEF Closed, Root

\* A change happens in a directory, or to it.
Changes(path) == Change(path) \/ Vanish(path)

\* What it does to the roots.
LEMMA SeenRoots ==
    ASSUME RootsTypeOK, NEW path \in Paths, Changes(path)
    PROVE  /\ roots' \in [Slots -> Root]
           /\ \A k \in Slots :
               IF roots[k].path = path /\ ~roots[k].gone
               THEN /\ roots'[k].path = path
                    /\ IF roots[k].io = "pending"
                       THEN /\ roots'[k].io = "done" /\ roots'[k].event
                            /\ roots'[k].buffered = roots[k].buffered
                       ELSE /\ roots'[k].io = roots[k].io /\ roots'[k].event = roots[k].event
                            /\ roots'[k].buffered
               ELSE roots'[k] = roots[k]
<1>1. PICK vanishes \in BOOLEAN : Seen(path, vanishes)
  BY DEF Changes, Change, Vanish
<1>2. roots' = [k \in Slots |-> IF roots[k].path = path /\ ~roots[k].gone
                                THEN [Notify(roots[k]) EXCEPT !.gone = vanishes]
                                ELSE roots[k]]
  BY <1>1 DEF Seen
<1>3. ASSUME NEW k \in Slots
      PROVE  /\ roots'[k] \in Root
             /\ IF roots[k].path = path /\ ~roots[k].gone
               THEN /\ roots'[k].path = path
                    /\ IF roots[k].io = "pending"
                       THEN /\ roots'[k].io = "done" /\ roots'[k].event
                            /\ roots'[k].buffered = roots[k].buffered
                       ELSE /\ roots'[k].io = roots[k].io /\ roots'[k].event = roots[k].event
                            /\ roots'[k].buffered
               ELSE roots'[k] = roots[k]
  <2>1. roots[k] \in Root
    BY DEF RootsTypeOK
  <2>2. CASE roots[k].path = path /\ ~roots[k].gone
    <3>. DEFINE old == roots[k]
                new == [Notify(old) EXCEPT !.gone = vanishes]
    <3>1. roots'[k] = new
      BY <1>2, <2>2
    <3>2. /\ new \in Root
          /\ new.path = old.path
          /\ IF old.io = "pending" THEN new.io = "done" /\ new.event /\ new.buffered = old.buffered
             ELSE new.io = old.io /\ new.event = old.event /\ new.buffered
      <4>. HIDE DEF old, new
      <4>. QED
        BY <2>1, NotifiedRoot DEF old, new
    <3>. HIDE DEF new
    <3>. QED
      BY <2>2, <3>1, <3>2
  <2>3. CASE ~(roots[k].path = path /\ ~roots[k].gone)
    BY <1>2, <2>1, <2>3
  <2>. QED
    BY <2>2, <2>3
<1>4. roots' \in [Slots -> Root]
  BY <1>2, <1>3
<1>. QED
  BY <1>3, <1>4

\* What it leaves alone, and what the watcher then owes.
LEMMA ChangesFrame ==
    ASSUME NEW path \in Paths, Changes(path)
    PROVE  /\ UNCHANGED <<rootCount, eventVars, threadVars, ownerVars>>
           /\ changes < MaxChanges /\ changes' = changes + 1 /\ exists' \subseteq exists
           /\ IF Owes(path)
              THEN owed' = owed \cup {path} /\ unanswered' = unanswered + 1
              ELSE UNCHANGED promiseVars
BY DEF Changes, Change, Vanish, Happens, Seen

\* In every other step one root changes, or none.
OneRoot(k) ==
    k \in Slots /\ roots' \in [Slots -> Root] /\ \A j \in Slots \ {k} : roots'[j] = roots[j]

\* An assignment to one root is such a change.
LEMMA OneRootSet ==
    ASSUME RootsTypeOK, NEW k \in Slots, NEW root \in Root, roots' = [roots EXCEPT ![k] = root]
    PROVE  OneRoot(k) /\ roots'[k] = root
BY DEF RootsTypeOK, OneRoot

\* The cancelled read completes.
LEMMA CancelCompletesRoot ==
    ASSUME Typed, NEW k \in Slots, CancelCompletes(k)
    PROVE  /\ OneRoot(k) /\ roots[k].io = "canceling"
           /\ roots'[k].path = roots[k].path /\ roots'[k].io = "done" /\ roots'[k].event
           /\ UNCHANGED <<kernelVars, rootCount, eventVars, threadVars, ownerVars, promiseVars>>
<1>1. roots' = [roots EXCEPT ![k] = Complete(roots[k])] /\ roots[k] \in Root
  BY DEF CancelCompletes, Typed, RootsTypeOK
<1>. QED
  BY <1>1, CompleteRoot, OneRootSet DEF Typed, CancelCompletes

\* The watch thread handles a root in use.
LEMMA CurrentRoot ==
    ASSUME Typed, Roots, watch \in {"signal", "reset", "reissue"}
    PROVE  current \in 1..rootCount /\ current \in Slots /\ roots[current] \in Root
BY WatcherConstants DEF Typed, RootsTypeOK, Roots, Slots

\* It resets the event of the root, ...
LEMMA WatchResetsRoot ==
    ASSUME Typed, Roots, WatchResets
    PROVE  /\ OneRoot(current)
           /\ roots'[current].path = roots[current].path
           /\ roots'[current].io = roots[current].io /\ ~roots'[current].event
           /\ roots'[current].buffered = roots[current].buffered
<1>1. current \in Slots /\ roots[current] \in Root
  BY CurrentRoot DEF WatchResets, WatchGoes
<1>. DEFINE root == [roots[current] EXCEPT !.event = FALSE]
<1>2. /\ root \in Root /\ root.path = roots[current].path /\ root.io = roots[current].io
      /\ ~root.event /\ root.buffered = roots[current].buffered
  BY <1>1 DEF Root
<1>3. roots' = [roots EXCEPT ![current] = root]
  BY <1>1 DEF WatchResets
<1>. HIDE DEF root
<1>. QED
  BY <1>1, <1>2, <1>3, OneRootSet DEF Typed

\* ... issues its read again, ...
LEMMA WatchReissuesRoot ==
    ASSUME Typed, Roots, WatchReissues
    PROVE  /\ OneRoot(current)
           /\ roots'[current].path = roots[current].path
           /\ roots'[current].io = IF roots[current].buffered THEN "done" ELSE "pending"
           /\ roots'[current].event <=> roots[current].buffered
           /\ ~roots'[current].buffered
<1>1. current \in Slots /\ roots[current] \in Root
  BY CurrentRoot DEF WatchReissues, WatchGoes
<1>2. roots' = [roots EXCEPT ![current] = Reissued(roots[current])]
  BY DEF WatchReissues
<1>. DEFINE root == Reissued(roots[current])
<1>3. /\ root \in Root /\ root.path = roots[current].path
      /\ root.io = IF roots[current].buffered THEN "done" ELSE "pending"
      /\ root.event <=> roots[current].buffered
      /\ ~root.buffered
  BY <1>1, ReissuedRoot
<1>. HIDE DEF root
<1>4. OneRoot(current) /\ roots'[current] = root
  BY <1>1, <1>2, <1>3, OneRootSet DEF Typed, root
<1>. QED
  BY <1>3, <1>4

\* ... or gives it up.
LEMMA WatchGivesUpRoot ==
    ASSUME Typed, Roots, WatchGivesUp
    PROVE  /\ OneRoot(current)
           /\ roots'[current].path = roots[current].path
           /\ roots'[current].io = "none" /\ ~roots'[current].event
<1>1. current \in Slots /\ roots[current] \in Root
  BY CurrentRoot DEF WatchGivesUp, WatchGoes
<1>. DEFINE root == [roots[current] EXCEPT !.io = "none", !.event = FALSE]
<1>2. /\ root \in Root /\ root.path = roots[current].path /\ root.io = "none" /\ ~root.event
  BY <1>1 DEF Root
<1>3. roots' = [roots EXCEPT ![current] = root]
  BY <1>1 DEF WatchGivesUp, Typed, RootsTypeOK
<1>. HIDE DEF root
<1>. QED
  BY <1>1, <1>2, <1>3, OneRootSet DEF Typed

\* watcher_stop cancels the read of a root, ...
LEMMA StopCancelsRoot ==
    ASSUME Typed, Roots, StopCancels
    PROVE  /\ OneRoot(next) /\ next <= rootCount
           /\ roots'[next].path = roots[next].path
           /\ roots'[next].event = roots[next].event
           /\ roots'[next].io =
                  IF roots[next].io = "pending" THEN "canceling" ELSE roots[next].io
<1>1. next \in Slots /\ next <= rootCount /\ roots[next] \in Root
  BY WatcherConstants
     DEF StopCancels, StopGoes, OwnerGoes, Typed, RootsTypeOK, OwnerTypeOK, Roots, Slots
<1>. DEFINE io == IF roots[next].io = "pending" THEN "canceling" ELSE roots[next].io
            root == [roots[next] EXCEPT !.io = io]
<1>2. /\ root \in Root /\ root.path = roots[next].path /\ root.io = io
      /\ root.event = roots[next].event
  BY <1>1 DEF Root
<1>3. roots' = [roots EXCEPT ![next] = root]
  BY <1>1 DEF StopCancels
<1>. HIDE DEF root
<1>. QED
  BY <1>1, <1>2, <1>3, OneRootSet DEF Typed

\* ... and closes it.
LEMMA StopClosesItsRoot ==
    ASSUME Typed, Roots, StopClosesRoot
    PROVE  OneRoot(next) /\ next <= rootCount /\ roots'[next] = Closed
<1>1. next \in Slots /\ next <= rootCount
  BY WatcherConstants
     DEF StopClosesRoot, CloseRoot, StopGoes, OwnerGoes, Typed, RootsTypeOK, OwnerTypeOK, Roots,
         Slots
<1>. QED
  BY <1>1, ClosedRoot, OneRootSet DEF StopClosesRoot, CloseRoot, Typed

\* watcher_start opens the next root.
LEMMA StartOpensItsRoot ==
    ASSUME Typed, Roots, StartOpensRoot
    PROVE  /\ OneRoot(rootCount + 1) /\ rootCount' = rootCount + 1 /\ rootCount + 1 <= MaxRoots
           /\ roots'[rootCount + 1].path = list[next] /\ list[next] \in Paths
           /\ roots'[rootCount + 1].io = "pending"
           /\ ~roots'[rootCount + 1].event /\ ~roots'[rootCount + 1].buffered
<1>1. rootCount + 1 \in Slots /\ list[next] \in Paths
  BY WatcherConstants DEF StartOpensRoot, Typed, RootsTypeOK, HistoryTypeOK, Slots
<1>. DEFINE opened == [Closed EXCEPT !.path = list[next]]
<1>2. /\ opened \in Root /\ opened.path = list[next] /\ opened.buffered = FALSE
  BY <1>1 DEF Root, Closed
<1>3. roots' = [roots EXCEPT ![rootCount + 1] = Reissued(opened)]
  BY DEF StartOpensRoot
<1>. HIDE DEF opened
<1>. DEFINE root == Reissued(opened)
<1>4. /\ root \in Root /\ root.path = list[next] /\ root.io = "pending"
      /\ ~root.event /\ ~root.buffered
  BY <1>2, ReissuedRoot
<1>. HIDE DEF root
<1>5. OneRoot(rootCount + 1) /\ roots'[rootCount + 1] = root
  BY <1>1, <1>3, <1>4, OneRootSet DEF Typed, root
<1>6. rootCount' = rootCount + 1 /\ rootCount + 1 <= MaxRoots
  BY WatcherConstants DEF StartOpensRoot, Typed, RootsTypeOK
<1>. QED
  BY <1>1, <1>4, <1>5, <1>6

\* The steps of the threads and the owner that leave the roots alone.
CalmStep ==
    \/ WatchStops \/ WatchWakes \/ WatchSignals \/ DebounceStep
    \/ CallStop \/ \E paths \in PathLists : CallStart(paths)
    \/ StopSignals \/ StopJoinsWatch \/ StopJoinsDebounce \/ StopForgetsRoots \/ StopClosesEvents
    \/ StartCreatesEvents \/ StartSkipsRoot \/ StartHasRoots \/ StartCreatesThreads
    \/ AtRest \/ (\E path \in Paths : Reappear(path)) \/ UNCHANGED vars

\* They do leave the roots alone, and only the end of watcher_stop's loop changes
\* how many there are.
LEMMA CalmRoots ==
    ASSUME CalmStep
    PROVE  /\ UNCHANGED roots
           /\ rootCount' = rootCount \/ (StopForgetsRoots /\ rootCount' = 0)
BY DEF CalmStep, WatchStops, WatchWakes, WatchSignals, WatchGoes, DebounceStep, DebounceStops,
       DebounceAbsorbs, DebounceFires, DebounceReturns, DebounceGoes, CallStop, CallStart, Call,
       StopSignals, StopJoinsWatch, StopJoinsDebounce, StopForgetsRoots, StopClosesEvents,
       StartCreatesEvents, StartSkipsRoot, StartHasRoots, StartCreatesThreads, AtRest, Reappear,
       Happens, vars, rootVars

\* Every step is one of these.
LEMMA StepKinds ==
    ASSUME [Next]_vars
    PROVE  \/ \E path \in Paths : Changes(path)
           \/ \E k \in Slots : CancelCompletes(k)
           \/ WatchResets \/ WatchReissues \/ WatchGivesUp
           \/ StopCancels \/ StopClosesRoot \/ StartOpensRoot
           \/ CalmStep
BY DEF Next, WatchStep, StopStep, StartStep, Changes, CalmStep

-------------------------------------------------------------------------------

\* Every step keeps the roots of their types.
LEMMA RootsTyped ==
    ASSUME Typed, Roots, [Next]_vars
    PROVE  RootsTypeOK'
<1>0. RootsTypeOK /\ MaxRoots \in Nat
  BY WatcherConstants DEF Typed
<1>1. ASSUME NEW path \in Paths, Changes(path)
      PROVE  RootsTypeOK'
  BY <1>0, <1>1, SeenRoots, ChangesFrame DEF RootsTypeOK
<1>2. ASSUME NEW k \in Slots, CancelCompletes(k)
      PROVE  RootsTypeOK'
  BY <1>0, <1>2, CancelCompletesRoot DEF RootsTypeOK, OneRoot
<1>3. CASE WatchResets \/ WatchReissues \/ WatchGivesUp
  <2>1. UNCHANGED rootCount
    BY <1>3 DEF WatchResets, WatchReissues, WatchGivesUp, WatchGoes
  <2>. QED
    BY <1>0, <1>3, <2>1, WatchResetsRoot, WatchReissuesRoot, WatchGivesUpRoot
       DEF RootsTypeOK, OneRoot
<1>4. CASE StopCancels \/ StopClosesRoot
  <2>1. UNCHANGED rootCount
    BY <1>4 DEF StopCancels, StopClosesRoot, CloseRoot
  <2>. QED
    BY <1>0, <1>4, <2>1, StopCancelsRoot, StopClosesItsRoot DEF RootsTypeOK, OneRoot
<1>5. CASE StartOpensRoot
  <2>1. roots' \in [Slots -> Root] /\ rootCount' = rootCount + 1 /\ rootCount + 1 <= MaxRoots
    BY <1>5, StartOpensItsRoot DEF OneRoot
  <2>. QED
    BY <1>0, <2>1 DEF RootsTypeOK
<1>6. CASE CalmStep
  BY <1>0, <1>6, CalmRoots DEF RootsTypeOK
<1>. QED
  BY <1>1, <1>2, <1>3, <1>4, <1>5, <1>6, StepKinds

\* Every step keeps the threads and their events of their types.
LEMMA ThreadsTyped ==
    ASSUME Typed, Roots, [Next]_vars
    PROVE  ThreadsTypeOK'
<1>0. ThreadsTypeOK
  BY DEF Typed
<1>1. CASE UNCHANGED <<eventVars, threadVars>>
  BY <1>0, <1>1 DEF eventVars, threadVars, ThreadsTypeOK
<1>2. CASE WatchStep
  <2>1. UNCHANGED <<stopEvent, debounce>> /\ changedEvent' \in {changedEvent, "set"}
    BY <1>2 DEF WatchStep, WatchStops, WatchWakes, WatchSignals, WatchResets, WatchReissues,
                WatchGivesUp, WatchGoes
  <2>2. current' = current \/ current' \in Slots
    BY <1>2 DEF WatchStep, WatchStops, WatchWakes, WatchSignals, WatchResets, WatchReissues,
                WatchGivesUp
  <2>3. watch' \in {"none", "wait", "signal", "reset", "reissue", "exited"}
    BY <1>2 DEF WatchStep, WatchStops, WatchWakes, WatchSignals, WatchResets, WatchReissues,
                WatchGivesUp, WatchGoes
  <2>4. current' \in 0..MaxRoots
    BY <1>0, <2>2, WatcherConstants DEF ThreadsTypeOK, Slots
  <2>. QED
    BY <1>0, <2>1, <2>3, <2>4 DEF ThreadsTypeOK, Events
<1>3. CASE DebounceStep
  BY <1>0, <1>3 DEF DebounceStep, DebounceStops, DebounceAbsorbs, DebounceFires, DebounceReturns,
                    DebounceGoes, ThreadsTypeOK, Events
<1>4. CASE StopStep \/ StartStep
  <2>1. UNCHANGED current
    BY <1>4 DEF StopStep, StopSignals, StopJoinsWatch, StopJoinsDebounce, StopCancels,
                StopClosesRoot, CloseRoot, StopForgetsRoots, StopClosesEvents, StartStep,
                StartCreatesEvents, StartOpensRoot, StartSkipsRoot, StartHasRoots,
                StartCreatesThreads, StopGoes, StartGoes, OwnerGoes
  <2>2. /\ stopEvent' \in {stopEvent, "null", "reset", "set"}
        /\ changedEvent' \in {changedEvent, "null", "reset"}
        /\ watch' \in {watch, "none", "wait"} /\ debounce' \in {debounce, "none", "wait"}
    BY <1>4 DEF StopStep, StopSignals, StopJoinsWatch, StopJoinsDebounce, StopCancels,
                StopClosesRoot, CloseRoot, StopForgetsRoots, StopClosesEvents, StartStep,
                StartCreatesEvents, StartOpensRoot, StartSkipsRoot, StartHasRoots,
                StartCreatesThreads, eventVars
  <2>. QED
    BY <1>0, <2>1, <2>2 DEF ThreadsTypeOK, Events
<1>. QED
  BY <1>1, <1>2, <1>3, <1>4, ChangesFrame
     DEF Next, Changes, Reappear, Happens, CancelCompletes, CallStop, CallStart, Call, AtRest,
         vars

\* Every step keeps the owner, its list and its loop of their types.
LEMMA OwnerTyped ==
    ASSUME Typed, [Next]_vars
    PROVE  OwnerTypeOK'
<1>. USE DEF OwnerTypeOK, OwnerPCs, StopPCs
<1>0. OwnerTypeOK
  BY DEF Typed
<1>1. CASE UNCHANGED ownerVars
  BY <1>0, <1>1 DEF ownerVars
<1>2. CASE CallStop \/ \E paths \in PathLists : CallStart(paths)
  BY <1>0, <1>2 DEF CallStop, CallStart, Call
<1>3. CASE StopStep
  BY <1>0, <1>3 DEF StopStep, StopSignals, StopJoinsWatch, StopJoinsDebounce, StopCancels,
                StopClosesRoot, CloseRoot, StopForgetsRoots, StopClosesEvents, StopGoes, OwnerGoes
<1>4. CASE StartStep
  BY <1>0, <1>4 DEF StartStep, StartCreatesEvents, StartOpensRoot, StartSkipsRoot, StartHasRoots,
                StartCreatesThreads, StartGoes, OwnerGoes
<1>5. CASE WatchStep \/ DebounceStep
  BY <1>1, <1>5 DEF WatchStep, WatchStops, WatchWakes, WatchSignals, WatchResets, WatchReissues,
                WatchGivesUp, WatchGoes, DebounceStep, DebounceStops, DebounceAbsorbs,
                DebounceFires, DebounceReturns, DebounceGoes
<1>. QED
  BY <1>1, <1>2, <1>3, <1>4, <1>5
     DEF Next, Change, Vanish, Reappear, Happens, CancelCompletes, AtRest, vars

-------------------------------------------------------------------------------

\* What the threads and the kernel leave to the owner.
LEMMA OthersFrame ==
    ASSUME \/ WatchStep \/ DebounceStep
           \/ (\E path \in Paths : Changes(path) \/ Reappear(path))
           \/ (\E k \in Slots : CancelCompletes(k))
           \/ AtRest \/ UNCHANGED vars
    PROVE  UNCHANGED <<owner, resume, list, next, rootCount, stopEvent>>
BY ChangesFrame
   DEF WatchStep, WatchStops, WatchWakes, WatchSignals, WatchResets, WatchReissues, WatchGivesUp,
       WatchGoes, DebounceStep, DebounceStops, DebounceAbsorbs, DebounceFires, DebounceReturns,
       DebounceGoes, Reappear, Happens, CancelCompletes, AtRest, vars, rootVars, eventVars,
       ownerVars

\* The owner takes nothing away that a thread uses, and starts a thread only
\* when both events are there.
LEMMA ThreadsStep ==
    ASSUME Typed, Threads, Roots, [Next]_vars
    PROVE  Threads'
<1>. USE DEF Threads
<1>1. CASE UNCHANGED <<stopEvent, changedEvent, watch, debounce, owner>>
  BY <1>1
<1>2. CASE WatchStep
  <2>1. UNCHANGED <<stopEvent, debounce, owner>>
    BY <1>2 DEF WatchStep, WatchStops, WatchWakes, WatchSignals, WatchResets, WatchReissues,
                WatchGivesUp, WatchGoes, ownerVars
  <2>2. \/ changedEvent' \in {changedEvent, "set"} /\ watch \notin {"none", "exited"}
    BY <1>2 DEF WatchStep, WatchStops, WatchWakes, WatchSignals, WatchResets, WatchReissues,
                WatchGivesUp, WatchGoes
  <2>. QED
    BY <2>1, <2>2
<1>3. CASE DebounceStep
  BY <1>3 DEF DebounceStep, DebounceStops, DebounceAbsorbs, DebounceFires, DebounceReturns,
              DebounceGoes, ownerVars, eventVars
<1>4. CASE CallStop \/ \E paths \in PathLists : CallStart(paths)
  BY <1>4 DEF CallStop, CallStart, Call, eventVars, threadVars
<1>5. CASE StopSignals \/ StopJoinsWatch \/ StopJoinsDebounce \/ StopCancels \/ StopForgetsRoots
  BY <1>5 DEF StopSignals, StopJoinsWatch, StopJoinsDebounce, StopCancels, StopForgetsRoots,
              StopGoes, OwnerGoes, eventVars, Typed, ThreadsTypeOK, Events
<1>6. CASE StopClosesRoot
  BY <1>6 DEF StopClosesRoot, CloseRoot, StopGoes, OwnerGoes, eventVars
<1>7. CASE StopClosesEvents
  BY <1>7 DEF StopClosesEvents, StopGoes, OwnerGoes, Typed, OwnerTypeOK
<1>8. CASE StartCreatesEvents
  BY <1>8 DEF StartCreatesEvents, StartGoes, OwnerGoes
<1>9. CASE StartOpensRoot \/ StartSkipsRoot \/ StartHasRoots
  BY <1>9 DEF StartOpensRoot, StartSkipsRoot, StartHasRoots, StartGoes, OwnerGoes, eventVars
<1>10. CASE StartCreatesThreads
  BY <1>10 DEF StartCreatesThreads, StartGoes, OwnerGoes, eventVars
<1>11. CASE \/ \E path \in Paths : Change(path) \/ Vanish(path) \/ Reappear(path)
            \/ \E k \in Slots : CancelCompletes(k)
            \/ AtRest \/ UNCHANGED vars
  BY <1>1, <1>11, ChangesFrame
     DEF Changes, Reappear, Happens, CancelCompletes, AtRest, vars, eventVars, threadVars,
         ownerVars
<1>. QED
  BY <1>2, <1>3, <1>4, <1>5, <1>6, <1>7, <1>8, <1>9, <1>10, <1>11
     DEF Next, StopStep, StartStep

\* The roots in use, and those that are not.
InUse(k) == k <= rootCount /\ ~(owner \in {"cancel", "await"} /\ k < next)

\* The roots in use stay open, the others closed.
LEMMA SlotsStep ==
    ASSUME Typed, Threads, Roots, [Next]_vars
    PROVE  \A k \in Slots :
               IF InUse(k)' THEN roots'[k].path # NoPath ELSE roots'[k] = Closed
<1>. USE DEF InUse
<1>0. /\ rootCount \in Nat /\ next \in Nat /\ \A k \in Slots : k \in Nat /\ k > 0
      /\ \A k \in Slots : IF InUse(k) THEN roots[k].path # NoPath ELSE roots[k] = Closed
  BY WatcherConstants DEF Roots, Typed, RootsTypeOK, OwnerTypeOK, Slots
<1>1. ASSUME UNCHANGED <<owner, next, rootCount>>,
             \A k \in Slots : InUse(k) => roots'[k].path = roots[k].path,
             \A k \in Slots : ~InUse(k) => roots'[k] = roots[k]
      PROVE  \A k \in Slots : IF InUse(k)' THEN roots'[k].path # NoPath ELSE roots'[k] = Closed
  BY <1>0, <1>1
<1>2. ASSUME NEW path \in Paths, Changes(path)
      PROVE  \A k \in Slots : IF InUse(k)' THEN roots'[k].path # NoPath ELSE roots'[k] = Closed
  <2>1. \A k \in Slots : roots'[k].path = roots[k].path
    BY <1>2, SeenRoots DEF Typed
  <2>2. \A k \in Slots : roots[k] = Closed => roots'[k] = roots[k]
    BY <1>2, SeenRoots, WatcherConstants DEF Typed, Closed
  <2>. QED
    BY <1>0, <1>1, <1>2, <2>1, <2>2, OthersFrame
<1>3. ASSUME NEW k \in Slots, CancelCompletes(k)
      PROVE  \A j \in Slots : IF InUse(j)' THEN roots'[j].path # NoPath ELSE roots'[j] = Closed
  <2>1. InUse(k)
    BY <1>0, <1>3, CancelCompletesRoot DEF Closed
  <2>. QED
    BY <1>1, <1>3, <2>1, OthersFrame, CancelCompletesRoot DEF OneRoot
<1>4. CASE WatchResets \/ WatchReissues \/ WatchGivesUp
  <2>1. InUse(current)
    BY <1>4, CurrentRoot DEF WatchResets, WatchReissues, WatchGivesUp, WatchGoes, Threads
  <2>2. OneRoot(current) /\ roots'[current].path = roots[current].path
    BY <1>4, WatchResetsRoot, WatchReissuesRoot, WatchGivesUpRoot
  <2>3. UNCHANGED <<owner, next, rootCount>>
    BY <1>4, OthersFrame DEF WatchStep
  <2>. QED
    BY <1>1, <2>1, <2>2, <2>3 DEF OneRoot
<1>5. CASE StopCancels
  <2>1. owner = "cancel" /\ owner' = "await" /\ UNCHANGED <<next, rootCount>>
    BY <1>5 DEF StopCancels, StopGoes, OwnerGoes
  <2>2. OneRoot(next) /\ roots'[next].path = roots[next].path /\ next <= rootCount
    BY <1>5, StopCancelsRoot
  <2>. QED
    BY <1>0, <2>1, <2>2 DEF OneRoot
<1>6. CASE StopClosesRoot
  <2>1. owner = "await" /\ owner' = "cancel" /\ next' = next + 1 /\ UNCHANGED rootCount
    BY <1>6 DEF StopClosesRoot, CloseRoot, StopGoes, OwnerGoes
  <2>2. OneRoot(next) /\ roots'[next] = Closed
    BY <1>6, StopClosesItsRoot
  <2>3. ASSUME NEW k \in Slots
        PROVE  InUse(k)' <=> InUse(k) /\ k # next
    BY <1>0, <2>1
  <2>. QED
    BY <1>0, <2>2, <2>3 DEF OneRoot
<1>7. CASE StartOpensRoot
  <2>1. owner = "open" /\ owner' = "open" /\ rootCount' = rootCount + 1
    BY <1>7 DEF StartOpensRoot, StartGoes, OwnerGoes
  <2>2. OneRoot(rootCount + 1) /\ roots'[rootCount + 1].path # NoPath
    BY <1>7, StartOpensItsRoot, WatcherConstants
  <2>3. ASSUME NEW k \in Slots
        PROVE  InUse(k)' <=> InUse(k) \/ k = rootCount + 1
    BY <1>0, <2>1
  <2>. QED
    BY <1>0, <2>2, <2>3 DEF OneRoot
<1>8. CASE CalmStep
  <2>1. UNCHANGED roots
    BY <1>8, CalmRoots
  <2>2. \A k \in Slots : InUse(k)' <=> InUse(k)
    <3>1. CASE StopJoinsDebounce
      BY <1>0, <3>1 DEF StopJoinsDebounce, StopGoes, OwnerGoes, rootVars
    <3>2. CASE StopForgetsRoots
      BY <1>0, <3>2 DEF StopForgetsRoots, StopGoes, OwnerGoes
    <3>3. CASE \/ StopSignals \/ StopJoinsWatch \/ StopClosesEvents
               \/ StartCreatesEvents \/ StartSkipsRoot \/ StartHasRoots \/ StartCreatesThreads
      <4>1. owner \notin {"cancel", "await"} /\ owner' \notin {"cancel", "await"}
        BY <3>3 DEF StopSignals, StopJoinsWatch, StopClosesEvents, StartCreatesEvents,
                    StartSkipsRoot, StartHasRoots, StartCreatesThreads, StopGoes, StartGoes,
                    OwnerGoes, Typed, OwnerTypeOK
      <4>2. UNCHANGED rootCount
        BY <3>3 DEF StopSignals, StopJoinsWatch, StopClosesEvents, StartCreatesEvents,
                    StartSkipsRoot, StartHasRoots, StartCreatesThreads, rootVars
      <4>. QED
        BY <4>1, <4>2
    <3>4. CASE CallStop \/ \E paths \in PathLists : CallStart(paths)
      BY <3>4 DEF CallStop, CallStart, Call, rootVars
    <3>5. CASE \/ WatchStep \/ DebounceStep \/ AtRest \/ (\E path \in Paths : Reappear(path))
               \/ UNCHANGED vars
      BY <3>5, OthersFrame
    <3>. QED
      BY <1>8, <3>1, <3>2, <3>3, <3>4, <3>5 DEF CalmStep, WatchStep
  <2>. QED
    BY <1>0, <2>1, <2>2
<1>. QED
  BY <1>2, <1>3, <1>4, <1>5, <1>6, <1>7, <1>8, StepKinds

\* The loops of watcher_start and watcher_stop count the roots.
LEMMA RootsStep ==
    ASSUME Typed, Threads, Roots, [Next]_vars
    PROVE  Roots'
<1>0. /\ rootCount \in Nat /\ next \in Nat
      /\ rootCount' \in 0..MaxRoots /\ MaxRoots \in Nat
  BY RootsTyped, WatcherConstants DEF Typed, RootsTypeOK, OwnerTypeOK
<1>. DEFINE Counted ==
                /\ owner \in {"closeEvents", "events"} => rootCount = 0
                /\ owner \in {"open", "cancel", "await"} => next > 0
                /\ owner = "await" => next <= rootCount
                /\ owner = "threads" => rootCount > 0
                /\ watch \notin {"none", "exited"} => rootCount > 0
                /\ watch \in {"signal", "reset", "reissue"} => current \in 1..rootCount
<1>1. Counted
  BY DEF Roots
<1>2. Counted'
  <2>1. CASE WatchStep
    <3>1. UNCHANGED <<owner, next, rootCount>>
      BY <2>1, OthersFrame
    <3>2. watch \notin {"none", "exited"}
      BY <2>1 DEF WatchStep, WatchStops, WatchWakes, WatchSignals, WatchResets, WatchReissues,
                  WatchGivesUp, WatchGoes
    <3>3. watch' \in {"signal", "reset", "reissue"} => current' \in 1..rootCount
      <4>1. CASE WatchWakes
        BY <1>0, <4>1 DEF WatchWakes, Signaled, Slots
      <4>2. CASE ~WatchWakes
        BY <1>1, <2>1, <4>2 DEF WatchStep, WatchStops, WatchSignals, WatchResets, WatchReissues,
                                WatchGivesUp, WatchGoes
      <4>. QED
        BY <4>1, <4>2
    <3>. QED
      BY <1>1, <3>1, <3>2, <3>3
  <2>2. CASE \/ DebounceStep \/ AtRest \/ UNCHANGED vars
             \/ (\E path \in Paths : Changes(path) \/ Reappear(path))
             \/ (\E k \in Slots : CancelCompletes(k))
    <3>1. UNCHANGED <<owner, next, rootCount>>
      BY <2>2, OthersFrame
    <3>2. UNCHANGED <<watch, current>>
      BY <2>2, ChangesFrame DEF DebounceStep, DebounceStops, DebounceAbsorbs, DebounceFires,
            DebounceReturns, DebounceGoes, Reappear, Happens, CancelCompletes, AtRest, vars,
            threadVars
    <3>. QED
      BY <1>1, <3>1, <3>2
  <2>3. CASE CallStop \/ \E paths \in PathLists : CallStart(paths)
    BY <1>1, <2>3 DEF CallStop, CallStart, Call, rootVars, threadVars
  <2>4. CASE StopStep
    <3>1. CASE StopSignals \/ StopJoinsWatch \/ StopJoinsDebounce
      BY <1>0, <1>1, <3>1 DEF StopSignals, StopJoinsWatch, StopJoinsDebounce, StopGoes, OwnerGoes,
                              rootVars, Threads
    <3>2. CASE StopCancels \/ StopClosesRoot
      BY <1>0, <1>1, <3>2 DEF StopCancels, StopClosesRoot, CloseRoot, StopGoes, OwnerGoes, Threads
    <3>3. CASE StopForgetsRoots
      BY <1>1, <3>3 DEF StopForgetsRoots, StopGoes, OwnerGoes, Threads
    <3>4. CASE StopClosesEvents
      BY <1>1, <3>4 DEF StopClosesEvents, StopGoes, OwnerGoes, rootVars, Typed, OwnerTypeOK
    <3>. QED
      BY <2>4, <3>1, <3>2, <3>3, <3>4 DEF StopStep
  <2>5. CASE StartStep
    <3>1. CASE StartCreatesEvents \/ StartSkipsRoot
      BY <1>0, <1>1, <3>1 DEF StartCreatesEvents, StartSkipsRoot, StartGoes, OwnerGoes, rootVars,
                              Threads
    <3>2. CASE StartOpensRoot
      BY <1>0, <1>1, <3>2 DEF StartOpensRoot, StartGoes, OwnerGoes, Threads
    <3>3. CASE StartHasRoots
      BY <1>0, <1>1, <3>3 DEF StartHasRoots, StartGoes, OwnerGoes, rootVars, Threads
    <3>4. CASE StartCreatesThreads
      BY <1>1, <3>4 DEF StartCreatesThreads, StartGoes, OwnerGoes, rootVars
    <3>. QED
      BY <2>5, <3>1, <3>2, <3>3, <3>4 DEF StartStep
  <2>. QED
    BY <2>1, <2>2, <2>3, <2>4, <2>5 DEF Next, Changes
<1>3. \A k \in Slots : IF InUse(k)' THEN roots'[k].path # NoPath ELSE roots'[k] = Closed
  BY SlotsStep
<1>4. \A k \in Slots :
        InUse(k)' <=> ~(k > rootCount' \/ (owner' \in {"cancel", "await"} /\ k < next'))
  BY <1>0 DEF InUse, Slots
<1>. QED
  BY <1>2, <1>3, <1>4 DEF Roots

\* What the steps that leave the roots alone do to the threads.
LEMMA CalmThreads ==
    ASSUME Typed, Threads, Roots, Reads, CalmStep
    PROVE  /\ watch' \in {"signal", "reset", "reissue"} =>
                  \/ WatchWakes \/ WatchSignals
                  \/ UNCHANGED <<watch, current>>
           /\ UNCHANGED <<owner, next>> \/ owner # "await"
           /\ watch \in {"signal", "reset", "reissue"} =>
                  \/ UNCHANGED <<watch, current>>
                  \/ watch' \in {"signal", "reset", "reissue"} /\ UNCHANGED current
<1>1. CASE WatchStops \/ WatchWakes \/ WatchSignals
  <2>1. UNCHANGED <<owner, next>>
    BY <1>1, OthersFrame DEF WatchStep
  <2>. QED
    BY <1>1, <2>1 DEF WatchStops, WatchWakes, WatchSignals, WatchGoes
<1>2. CASE DebounceStep \/ AtRest \/ (\E path \in Paths : Reappear(path)) \/ UNCHANGED vars
  <2>1. UNCHANGED <<owner, next>>
    BY <1>2, OthersFrame
  <2>2. UNCHANGED <<watch, current>>
    BY <1>2 DEF DebounceStep, DebounceStops, DebounceAbsorbs, DebounceFires, DebounceReturns,
                DebounceGoes, Reappear, Happens, AtRest, vars, threadVars
  <2>. QED
    BY <2>1, <2>2
<1>3. CASE CallStop \/ \E paths \in PathLists : CallStart(paths)
  BY <1>3 DEF CallStop, CallStart, Call, threadVars
<1>4. CASE \/ StopSignals \/ StopJoinsWatch \/ StopJoinsDebounce \/ StopForgetsRoots
           \/ StopClosesEvents
  BY <1>4 DEF StopSignals, StopJoinsWatch, StopJoinsDebounce, StopForgetsRoots, StopClosesEvents,
              StopGoes, OwnerGoes
<1>5. CASE StartCreatesEvents \/ StartSkipsRoot \/ StartHasRoots \/ StartCreatesThreads
  BY <1>5 DEF StartCreatesEvents, StartSkipsRoot, StartHasRoots, StartCreatesThreads, StartGoes,
              OwnerGoes, Threads
<1>. QED
  BY <1>1, <1>2, <1>3, <1>4, <1>5 DEF CalmStep

\* A root's event tells the truth.
LEMMA ReadsStep ==
    ASSUME Typed, Threads, Roots, Reads, [Next]_vars
    PROVE  Reads'
<1>. USE DEF Reads
<1>1. ASSUME NEW path \in Paths, Changes(path)
      PROVE  Reads'
  <2>1. UNCHANGED <<owner, next, watch, current>>
    BY <1>1, ChangesFrame DEF threadVars, ownerVars
  <2>2. watch \in {"signal", "reset", "reissue"} => current \in Slots
    BY CurrentRoot
  <2>. QED
    BY <1>1, <2>1, <2>2, SeenRoots DEF Typed
<1>2. ASSUME NEW k \in Slots, CancelCompletes(k)
      PROVE  Reads'
  <2>1. UNCHANGED <<owner, next, watch, current>>
    BY <1>2, CancelCompletesRoot DEF threadVars, ownerVars
  <2>2. watch \in {"signal", "reset", "reissue"} => current \in Slots
    BY CurrentRoot
  <2>. QED
    BY <1>2, <2>1, <2>2, CancelCompletesRoot DEF OneRoot
<1>3. CASE WatchResets \/ WatchReissues \/ WatchGivesUp
  <2>1. UNCHANGED <<owner, next>>
    BY <1>3, OthersFrame DEF WatchStep
  <2>2. roots[current].io = "done"
    BY <1>3 DEF WatchResets, WatchReissues, WatchGivesUp, WatchGoes
  <2>3. CASE WatchResets
    <3>1. watch' = "reissue" /\ UNCHANGED current
      BY <2>3 DEF WatchResets, WatchGoes
    <3>. QED
      BY <2>1, <2>2, <2>3, <3>1, WatchResetsRoot DEF OneRoot
  <2>4. CASE WatchReissues
    <3>1. watch' = "wait"
      BY <2>4 DEF WatchReissues, WatchGoes
    <3>. QED
      BY <2>1, <2>4, <3>1, WatchReissuesRoot DEF OneRoot
  <2>5. CASE WatchGivesUp
    <3>1. watch' = "wait"
      BY <2>5 DEF WatchGivesUp, WatchGoes
    <3>. QED
      BY <2>1, <2>5, <3>1, WatchGivesUpRoot DEF OneRoot
  <2>. QED
    BY <1>3, <2>3, <2>4, <2>5
<1>4. CASE StopCancels
  <2>1. owner = "cancel" /\ owner' = "await" /\ UNCHANGED <<next, watch>> /\ watch = "none"
    BY <1>4 DEF StopCancels, StopGoes, OwnerGoes, Threads
  <2>. QED
    BY <1>4, <2>1, StopCancelsRoot DEF OneRoot
<1>5. CASE StopClosesRoot
  <2>1. owner = "await" /\ UNCHANGED watch /\ watch = "none"
    BY <1>5 DEF StopClosesRoot, CloseRoot, StopGoes, OwnerGoes, Threads
  <2>. QED
    BY <1>5, <2>1, StopClosesItsRoot DEF OneRoot, Closed
<1>6. CASE StartOpensRoot
  <2>1. owner = "open" /\ UNCHANGED watch /\ watch = "none"
    BY <1>6 DEF StartOpensRoot, StartGoes, OwnerGoes, Threads
  <2>. QED
    BY <1>6, <2>1, StartOpensItsRoot DEF OneRoot
<1>7. CASE CalmStep
  <2>1. UNCHANGED roots
    BY <1>7, CalmRoots
  <2>2. watch' \in {"signal", "reset", "reissue"} => roots[current'].io = "done"
    <3>1. CASE WatchWakes
      BY <3>1 DEF WatchWakes, Signaled
    <3>2. CASE WatchSignals
      BY <3>2 DEF WatchSignals, WatchGoes
    <3>. QED
      BY <1>7, <3>1, <3>2, CalmThreads
  <2>3. UNCHANGED <<owner, next>> \/ owner # "await"
    BY <1>7, CalmThreads
  <2>. QED
    BY <2>1, <2>2, <2>3
<1>. QED
  BY <1>1, <1>2, <1>3, <1>4, <1>5, <1>6, <1>7, StepKinds

-------------------------------------------------------------------------------

\* No root goes deaf: each step that completes a read sets the event or leaves
\* it to the watch thread, which issues the next read after it has reset it.
LEMMA DeafStep ==
    ASSUME Typed, Threads, Roots, Reads, NoRootGoesDeaf, [Next]_vars
    PROVE  NoRootGoesDeaf'
<1>. DEFINE Handled(k) == watch \in {"signal", "reset", "reissue"} /\ current = k
            Heard(k) == roots[k].io = "done" => roots[k].event \/ Handled(k)
<1>0. /\ rootCount \in 0..MaxRoots /\ rootCount' \in 0..MaxRoots /\ MaxRoots \in Nat
      /\ 1..rootCount \subseteq Slots
  BY RootsTyped, WatcherConstants DEF Typed, RootsTypeOK, Slots
<1>1. \A k \in 1..rootCount : Heard(k)
  BY <1>0 DEF NoRootGoesDeaf, ReadAnswered, Signaled
<1>. SUFFICES ASSUME NEW k \in 1..rootCount' PROVE Heard(k)'
  BY <1>0 DEF NoRootGoesDeaf, ReadAnswered, Signaled
<1>2. ASSUME NEW path \in Paths, Changes(path)
      PROVE  Heard(k)'
  <2>1. UNCHANGED <<rootCount, watch, current>>
    BY <1>2, ChangesFrame DEF threadVars
  <2>. QED
    BY <1>0, <1>1, <1>2, <2>1, SeenRoots DEF Typed
<1>3. ASSUME NEW j \in Slots, CancelCompletes(j)
      PROVE  Heard(k)'
  <2>1. UNCHANGED <<rootCount, watch, current>>
    BY <1>3, CancelCompletesRoot DEF threadVars
  <2>. QED
    BY <1>0, <1>1, <1>3, <2>1, CancelCompletesRoot DEF OneRoot
<1>4. CASE WatchResets \/ WatchReissues \/ WatchGivesUp
  <2>1. UNCHANGED <<rootCount, current>>
    BY <1>4 DEF WatchResets, WatchReissues, WatchGivesUp, WatchGoes
  <2>2. k \in Slots /\ (k # current /\ roots'[k].io = "done" => roots'[k].event)
    <3>1. OneRoot(current)
      BY <1>4, WatchResetsRoot, WatchReissuesRoot, WatchGivesUpRoot
    <3>. QED
      BY <1>0, <1>1, <2>1, <3>1 DEF OneRoot
  <2>3. CASE WatchResets
    <3>1. watch' = "reissue"
      BY <2>3 DEF WatchResets, WatchGoes
    <3>. QED
      BY <2>1, <2>2, <3>1
  <2>4. CASE WatchReissues
    BY <2>2, <2>4, WatchReissuesRoot
  <2>5. CASE WatchGivesUp
    BY <2>2, <2>5, WatchGivesUpRoot
  <2>. QED
    BY <1>4, <2>3, <2>4, <2>5
<1>5. CASE StopCancels
  <2>1. watch = "none" /\ UNCHANGED rootCount
    BY <1>5 DEF StopCancels, StopGoes, OwnerGoes, Threads
  <2>. QED
    BY <1>0, <1>1, <1>5, <2>1, StopCancelsRoot DEF OneRoot
<1>6. CASE StopClosesRoot
  <2>1. watch = "none" /\ UNCHANGED rootCount
    BY <1>6 DEF StopClosesRoot, CloseRoot, StopGoes, OwnerGoes, Threads
  <2>. QED
    BY <1>0, <1>1, <1>6, <2>1, StopClosesItsRoot DEF OneRoot, Closed
<1>7. CASE StartOpensRoot
  <2>1. watch = "none"
    BY <1>7 DEF StartOpensRoot, StartGoes, OwnerGoes, Threads
  <2>2. OneRoot(rootCount + 1) /\ rootCount' = rootCount + 1 /\ roots'[rootCount + 1].io = "pending"
    BY <1>7, StartOpensItsRoot
  <2>3. k = rootCount + 1 \/ k \in 1..rootCount
    BY <1>0, <2>2
  <2>. QED
    BY <1>0, <1>1, <2>1, <2>2, <2>3 DEF OneRoot
<1>8. CASE CalmStep
  <2>1. UNCHANGED roots /\ k \in 1..rootCount
    BY <1>0, <1>8, CalmRoots
  <2>. QED
    BY <1>1, <1>8, <2>1, CalmThreads
<1>. QED
  BY <1>2, <1>3, <1>4, <1>5, <1>6, <1>7, <1>8, StepKinds

-------------------------------------------------------------------------------

\* watcher_start opens one root for each directory of a list without duplicates.
LEMMA OneRootEachStep ==
    ASSUME Typed, Threads, Roots, OneRootEach, [Next]_vars
    PROVE  OneRootEach'
<1>0. /\ rootCount \in Nat /\ rootCount \in 0..MaxRoots /\ MaxRoots \in Nat
      /\ 1..rootCount \subseteq Slots /\ next \in Nat
  BY WatcherConstants DEF Typed, RootsTypeOK, OwnerTypeOK, Slots
<1>1. ASSUME UNCHANGED rootCount,
             \A k \in Slots : roots'[k].path \in {roots[k].path, NoPath},
             owner' = "open" =>
                 /\ owner = "open" /\ UNCHANGED list /\ next' >= next
                 /\ \A k \in Slots : roots'[k].path = roots[k].path
      PROVE  OneRootEach'
  <2>1. \A j, k \in 1..rootCount :
            roots'[j].path = roots'[k].path /\ roots'[j].path # NoPath => j = k
    BY <1>0, <1>1 DEF OneRootEach
  <2>2. ASSUME owner' = "open", NEW k \in 1..rootCount
        PROVE  \E i \in DOMAIN list : i < next' /\ roots'[k].path = list[i]
    <3>1. PICK i \in DOMAIN list : i < next /\ roots[k].path = list[i]
      BY <1>1, <2>2 DEF OneRootEach
    <3>2. i \in Nat
      BY WatcherConstants DEF Typed, OwnerTypeOK
    <3>3. next' \in Nat
      BY OwnerTyped DEF OwnerTypeOK
    <3>. QED
      BY <1>0, <1>1, <2>2, <3>1, <3>2, <3>3
  <2>. QED
    BY <1>1, <2>1, <2>2 DEF OneRootEach
<1>2. CASE \/ \E path \in Paths : Changes(path)
           \/ \E k \in Slots : CancelCompletes(k)
           \/ WatchResets \/ WatchReissues \/ WatchGivesUp
  <2>1. UNCHANGED <<owner, list, next, rootCount>>
    BY <1>2, OthersFrame DEF WatchStep
  <2>2. \A k \in Slots : roots'[k].path = roots[k].path
    BY <1>2, SeenRoots, CancelCompletesRoot, WatchResetsRoot, WatchReissuesRoot,
       WatchGivesUpRoot DEF OneRoot, Typed
  <2>. QED
    BY <1>0, <1>1, <2>1, <2>2
<1>3. CASE StopCancels \/ StopClosesRoot
  <2>1. owner' # "open" /\ UNCHANGED rootCount
    BY <1>3 DEF StopCancels, StopClosesRoot, CloseRoot, StopGoes, OwnerGoes
  <2>2. \A k \in Slots : roots'[k].path \in {roots[k].path, NoPath}
    BY <1>3, StopCancelsRoot, StopClosesItsRoot DEF OneRoot, Closed
  <2>. QED
    BY <1>1, <2>1, <2>2
<1>4. CASE StartOpensRoot
  <2>1. /\ owner = "open" /\ UNCHANGED list /\ next' = next + 1 /\ rootCount' = rootCount + 1
        /\ roots'[rootCount + 1].path = list[next]
        /\ \A k \in 1..rootCount : roots'[k].path = roots[k].path
    BY <1>0, <1>4, StartOpensItsRoot DEF StartOpensRoot, StartGoes, OwnerGoes, OneRoot
  <2>2. next \in DOMAIN list /\ DOMAIN list \subseteq Nat
    <3>1. next > 0 /\ next <= Len(list)
      BY <1>4, <2>1 DEF StartOpensRoot, Roots
    <3>2. list \in Seq(Paths)
      BY <3>1, <1>0, WatcherConstants DEF Typed, OwnerTypeOK
    <3>. QED
      BY <1>0, <3>1, <3>2
  <2>3. \A i, j \in DOMAIN list : list[i] = list[j] => i = j
    BY WatcherConstants DEF Typed, OwnerTypeOK
  <2>4. \A k \in 1..rootCount : \E i \in DOMAIN list : i < next /\ roots'[k].path = list[i]
    BY <2>1 DEF OneRootEach
  <2>5. \A k \in 1..rootCount : roots'[k].path # roots'[rootCount + 1].path
    BY <1>0, <2>1, <2>2, <2>3, <2>4
  <2>6. \A k \in 1..rootCount + 1 : k \in 1..rootCount \/ k = rootCount + 1
    BY <1>0
  <2>7. \A j, k \in 1..rootCount + 1 :
            roots'[j].path = roots'[k].path /\ roots'[j].path # NoPath => j = k
    BY <2>1, <2>5, <2>6 DEF OneRootEach
  <2>8. \A k \in 1..rootCount + 1 :
            \E i \in DOMAIN list : i < next + 1 /\ roots'[k].path = list[i]
    BY <1>0, <2>1, <2>2, <2>4, <2>6
  <2>. QED
    BY <2>1, <2>7, <2>8 DEF OneRootEach
<1>5. CASE CalmStep
  <2>1. UNCHANGED roots
    BY <1>5, CalmRoots
  <2>2. CASE StopForgetsRoots \/ StartCreatesEvents
    <3>1. rootCount' = 0
      BY <2>2 DEF StopForgetsRoots, StartCreatesEvents, StartGoes, OwnerGoes, Roots, rootVars
    <3>. QED
      BY <3>1 DEF OneRootEach
  <2>3. CASE ~(StopForgetsRoots \/ StartCreatesEvents)
    <3>1. UNCHANGED rootCount
      BY <1>5, <2>3, CalmRoots
    <3>2. owner' = "open" => owner = "open" /\ UNCHANGED list /\ next' >= next
      <4>1. CASE \/ WatchStep \/ DebounceStep \/ AtRest
                 \/ (\E path \in Paths : Reappear(path)) \/ UNCHANGED vars
        BY <1>0, <4>1, OthersFrame
      <4>2. CASE CallStop \/ \E paths \in PathLists : CallStart(paths)
        BY <4>2 DEF CallStop, CallStart, Call
      <4>3. CASE StopSignals \/ StopJoinsWatch \/ StopJoinsDebounce \/ StopClosesEvents
        BY <4>3 DEF StopSignals, StopJoinsWatch, StopJoinsDebounce, StopClosesEvents, StopGoes,
                    OwnerGoes, Typed, OwnerTypeOK
      <4>4. CASE StartSkipsRoot \/ StartHasRoots \/ StartCreatesThreads
        BY <1>0, <4>4 DEF StartSkipsRoot, StartHasRoots, StartCreatesThreads, StartGoes, OwnerGoes
      <4>. QED
        BY <1>5, <2>3, <4>1, <4>2, <4>3, <4>4 DEF CalmStep, WatchStep
    <3>. QED
      BY <1>1, <2>1, <3>1, <3>2
  <2>. QED
    BY <2>2, <2>3
<1>. QED
  BY <1>2, <1>3, <1>4, <1>5, StepKinds

-------------------------------------------------------------------------------

\* Sets of roots can be counted.
LEMMA RootsCounted ==
    ASSUME NEW S \in SUBSET Slots
    PROVE  IsFiniteSet(S) /\ Cardinality(S) \in Nat
<1>1. IsFiniteSet(Slots)
  BY WatcherConstants, FS_Interval DEF Slots
<1>. QED
  BY <1>1, FS_Subset, FS_CardinalityType

\* What one root more or less makes of their number.
LEMMA OneMoreOrLess ==
    ASSUME NEW S \in SUBSET Slots, NEW T \in SUBSET Slots, NEW k \in Slots
    PROVE  /\ T \subseteq S => Cardinality(T) <= Cardinality(S)
           /\ T \subseteq S \cup {k} => Cardinality(T) <= Cardinality(S) + 1
           /\ k \in S /\ T \subseteq S \ {k} => Cardinality(T) <= Cardinality(S) - 1
<1>0. IsFiniteSet(S) /\ Cardinality(S) \in Nat /\ Cardinality(T) \in Nat
  BY RootsCounted
<1>1. ASSUME T \subseteq S PROVE Cardinality(T) <= Cardinality(S)
  BY <1>0, <1>1, FS_Subset
<1>2. ASSUME T \subseteq S \cup {k} PROVE Cardinality(T) <= Cardinality(S) + 1
  <2>1. IsFiniteSet(S \cup {k}) /\ Cardinality(S \cup {k}) \in {Cardinality(S), Cardinality(S) + 1}
    BY <1>0, FS_AddElement
  <2>2. Cardinality(T) <= Cardinality(S \cup {k})
    BY <1>2, <2>1, FS_Subset
  <2>. QED
    BY <1>0, <2>1, <2>2
<1>3. ASSUME k \in S, T \subseteq S \ {k} PROVE Cardinality(T) <= Cardinality(S) - 1
  <2>1. IsFiniteSet(S \ {k}) /\ Cardinality(S \ {k}) = Cardinality(S) - 1
    BY <1>0, <1>3, FS_RemoveElement
  <2>2. Cardinality(T) <= Cardinality(S \ {k})
    BY <1>3, <2>1, FS_Subset
  <2>. QED
    BY <2>1, <2>2
<1>. QED
  BY <1>1, <1>2, <1>3

\* A burst that ends has been paid for.
LEMMA FiresPaid ==
    ASSUME Typed, Threads, Paid, DebounceFires
    PROVE  stopEvent = "reset" /\ unanswered > 0
<1>1. stopEvent = "reset" /\ debounce = "burst"
  BY DEF DebounceFires, DebounceGoes, Threads, Typed, ThreadsTypeOK, Events
<1>2. Cardinality(Unheard) \in Nat /\ Cardinality(Kept) \in Nat
  BY RootsCounted DEF Unheard, Kept
<1>3. OneIf(debounce = "burst") = 1 /\ OneIf(changedEvent = "set") \in {0, 1}
  BY <1>1 DEF OneIf
<1>4. CallbacksToCome > 0
  BY <1>2, <1>3 DEF CallbacksToCome
<1>5. CallbacksToCome <= unanswered
  BY <1>1 DEF Paid
<1>6. CallbacksToCome \in Nat /\ unanswered \in Nat
  BY <1>2, <1>3 DEF CallbacksToCome, Typed, HistoryTypeOK
<1>. QED
  BY <1>1, <1>4, <1>5, <1>6

\* Every step keeps the history and the counters of their types.
LEMMA HistoryTyped ==
    ASSUME Typed, Threads, Roots, Paid, [Next]_vars
    PROVE  HistoryTypeOK'
<1>. USE DEF HistoryTypeOK
<1>0. HistoryTypeOK /\ MaxChanges \in Nat /\ MaxCalls \in Nat
  BY WatcherConstants DEF Typed
<1>1. ASSUME NEW path \in Paths, Changes(path)
      PROVE  HistoryTypeOK'
  BY <1>0, <1>1, ChangesFrame DEF ownerVars, promiseVars
<1>2. ASSUME NEW path \in Paths, Reappear(path)
      PROVE  HistoryTypeOK'
  BY <1>0, <1>2 DEF Reappear, Happens, ownerVars, promiseVars
<1>3. CASE UNCHANGED <<exists, owed, unanswered, changes, calls>>
  BY <1>0, <1>3
<1>4. CASE CallStop \/ \E paths \in PathLists : CallStart(paths)
  BY <1>0, <1>4 DEF CallStop, CallStart, Call, kernelVars, promiseVars
<1>5. CASE WatchStep
  <2>1. UNCHANGED <<exists, changes, calls, unanswered>> /\ owed' \subseteq owed
    BY <1>5 DEF WatchStep, WatchStops, WatchWakes, WatchSignals, WatchResets, WatchReissues,
                WatchGivesUp, WatchGoes, kernelVars, ownerVars, promiseVars
  <2>. QED
    BY <1>0, <2>1
<1>6. CASE DebounceFires
  <2>1. unanswered > 0
    BY <1>6, FiresPaid
  <2>2. UNCHANGED <<exists, changes, calls>> /\ unanswered' = unanswered - 1 /\ owed' = {}
    BY <1>6 DEF DebounceFires, DebounceGoes, kernelVars, ownerVars
  <2>. QED
    BY <1>0, <2>1, <2>2
<1>7. CASE DebounceStops \/ DebounceAbsorbs \/ DebounceReturns
  BY <1>3, <1>7 DEF DebounceStops, DebounceAbsorbs, DebounceReturns, DebounceGoes, kernelVars,
                    ownerVars, promiseVars
<1>8. CASE StopStep \/ StartStep
  <2>1. UNCHANGED <<exists, changes, calls>>
    BY <1>8 DEF StopStep, StopSignals, StopJoinsWatch, StopJoinsDebounce, StopCancels,
                StopClosesRoot, CloseRoot, StopForgetsRoots, StopClosesEvents, StartStep,
                StartCreatesEvents, StartOpensRoot, StartSkipsRoot, StartHasRoots,
                StartCreatesThreads, StopGoes, StartGoes, OwnerGoes, kernelVars
  <2>2. UNCHANGED <<owed, unanswered>> \/ (owed' = {} /\ unanswered' = 0)
    BY <1>8 DEF StopStep, StopSignals, StopJoinsWatch, StopJoinsDebounce, StopCancels,
                StopClosesRoot, CloseRoot, StopForgetsRoots, StopClosesEvents, StartStep,
                StartCreatesEvents, StartOpensRoot, StartSkipsRoot, StartHasRoots,
                StartCreatesThreads, promiseVars
  <2>. QED
    BY <1>0, <2>1, <2>2
<1>9. CASE AtRest \/ UNCHANGED vars \/ \E k \in Slots : CancelCompletes(k)
  BY <1>3, <1>9 DEF AtRest, CancelCompletes, vars, kernelVars, ownerVars, promiseVars
<1>. QED
  BY <1>1, <1>2, <1>4, <1>5, <1>6, <1>7, <1>8, <1>9 DEF Next, DebounceStep, Changes

-------------------------------------------------------------------------------

\* The roots that no step has touched are counted as they were.
LEMMA SameCount ==
    ASSUME Typed, Threads, Roots, Reads, CalmStep, ~WatchSignals
    PROVE  /\ Unheard' \subseteq Unheard
           /\ Kept' = Kept
<1>1. UNCHANGED roots
  BY CalmRoots
<1>2. watch' \in {"reset", "reissue"} => UNCHANGED <<watch, current>>
  BY CalmThreads DEF WatchWakes, WatchGoes
<1>3. watch \in {"reset", "reissue"} => UNCHANGED <<watch, current>>
  BY CalmThreads DEF WatchWakes, WatchGoes
<1>. QED
  BY <1>1, <1>2, <1>3 DEF Unheard, Kept

\* A callback to come comes from a change, or from one that was to come already.
LEMMA PaidStep ==
    ASSUME Typed, Threads, Roots, Reads, OneRootEach, Paid, [Next]_vars
    PROVE  Paid'
<1>0. /\ Unheard \in SUBSET Slots /\ Unheard' \in SUBSET Slots
      /\ Kept \in SUBSET Slots /\ Kept' \in SUBSET Slots
      /\ Cardinality(Unheard) \in Nat /\ Cardinality(Unheard') \in Nat
      /\ Cardinality(Kept) \in Nat /\ Cardinality(Kept') \in Nat
      /\ unanswered \in Nat /\ unanswered' \in Nat
  BY RootsCounted, HistoryTyped DEF Unheard, Kept, Typed, HistoryTypeOK
<1>. DEFINE events == OneIf(changedEvent = "set") + OneIf(debounce = "burst")
<1>1. /\ CallbacksToCome = Cardinality(Unheard) + Cardinality(Kept) + events
      /\ CallbacksToCome' = Cardinality(Unheard') + Cardinality(Kept') + events'
      /\ events \in Nat /\ events' \in Nat
  BY <1>0 DEF CallbacksToCome, OneIf
<1>2. stopEvent # "reset" => owed = {} /\ unanswered = 0
  BY DEF Paid
<1>3. ASSUME stopEvent' = "reset" => stopEvent = "reset",
             stopEvent = "reset" =>
                 Cardinality(Unheard') + Cardinality(Kept') + events' + unanswered
                     <= Cardinality(Unheard) + Cardinality(Kept) + events + unanswered',
             stopEvent' # "reset" => owed' \subseteq owed /\ unanswered' <= unanswered,
             stopEvent' # "reset" /\ stopEvent = "reset" => owed' = {} /\ unanswered' = 0
      PROVE  Paid'
  <2>1. CASE stopEvent' = "reset"
    <3>. HIDE DEF events
    <3>1. CallbacksToCome <= unanswered
      BY <1>3, <2>1 DEF Paid
    <3>2. CallbacksToCome' <= unanswered'
      BY <1>0, <1>1, <1>3, <2>1, <3>1
    <3>. QED
      BY <2>1, <3>2 DEF Paid
  <2>2. CASE stopEvent' # "reset"
    <3>1. owed' = {} /\ unanswered' = 0
      BY <1>0, <1>2, <1>3, <2>2
    <3>. QED
      BY <2>2, <3>1 DEF Paid
  <2>. QED
    BY <2>1, <2>2
<1>4. ASSUME UNCHANGED <<eventVars, threadVars>>,
             \A k \in Slots : roots'[k] = roots[k]
      PROVE  Unheard' = Unheard /\ Kept' = Kept /\ events' = events
  BY <1>4 DEF Unheard, Kept, eventVars, threadVars
<1>. HIDE DEF events
<1>5. ASSUME NEW path \in Paths, Changes(path)
      PROVE  Paid'
  <2>1. UNCHANGED <<eventVars, threadVars, rootCount>> /\ UNCHANGED stopEvent
    BY <1>5, ChangesFrame DEF eventVars
  <2>2. UNCHANGED <<watch, current>> /\ events' = events
    BY <2>1 DEF events, eventVars, threadVars
  <2>3. CASE Owes(path)
    <3>1. stopEvent = "reset" /\ unanswered' = unanswered + 1
      BY <1>5, <2>3, ChangesFrame DEF Owes
    <3>2. PICK k \in Slots : roots[k].path = path /\ Watched(roots[k])
      BY <2>3 DEF Owes
    <3>3. \A j \in Slots : roots[j].path = path => j \in 1..rootCount
      BY WatcherConstants DEF Roots, Closed, Slots, Typed, RootsTypeOK
    <3>4. \A j \in Slots : roots[j].path = path => j = k
      BY <3>2, <3>3, WatcherConstants DEF OneRootEach
    <3>5. \A j \in Slots \ {k} : roots'[j] = roots[j]
      BY <1>5, <3>4, SeenRoots DEF Typed
    <3>6. ~roots[k].gone /\ roots[k].io # "none"
      BY <3>2 DEF Watched
    <3>7. CASE roots[k].io = "pending"
      <4>1. Unheard' \subseteq Unheard \cup {k} /\ Kept' \subseteq Kept
        BY <1>5, <2>2, <3>2, <3>5, <3>6, <3>7, SeenRoots DEF Unheard, Kept, Typed
      <4>2. Cardinality(Unheard') <= Cardinality(Unheard) + 1
            /\ Cardinality(Kept') <= Cardinality(Kept)
        BY <1>0, <4>1, OneMoreOrLess
      <4>. QED
        BY <1>0, <1>1, <1>3, <2>1, <2>2, <3>1, <4>2
    <3>8. CASE roots[k].io # "pending"
      <4>1. Unheard' \subseteq Unheard /\ Kept' \subseteq Kept \cup {k}
        BY <1>5, <2>2, <3>2, <3>5, <3>6, <3>8, SeenRoots DEF Unheard, Kept, Typed
      <4>2. Cardinality(Unheard') <= Cardinality(Unheard)
            /\ Cardinality(Kept') <= Cardinality(Kept) + 1
        BY <1>0, <3>2, <4>1, OneMoreOrLess
      <4>. QED
        BY <1>0, <1>1, <1>3, <2>1, <2>2, <3>1, <4>2
    <3>. QED
      BY <3>7, <3>8
  <2>4. CASE ~Owes(path)
    <3>1. UNCHANGED promiseVars
      BY <1>5, <2>4, ChangesFrame
    <3>2. CASE stopEvent = "reset"
      <4>1. \A k \in Slots : roots[k].path = path /\ ~roots[k].gone => roots[k].io = "none"
        BY <2>4, <3>2, WatcherConstants DEF Owes, Watched
      <4>2. \A k \in Slots : IF roots[k].io = "none" THEN roots'[k].io = "none"
                             ELSE roots'[k] = roots[k]
        BY <1>5, <4>1, SeenRoots DEF Typed
      <4>3. Unheard' \subseteq Unheard /\ Kept' \subseteq Kept
        BY <2>2, <4>2 DEF Unheard, Kept
      <4>4. Cardinality(Unheard') <= Cardinality(Unheard)
            /\ Cardinality(Kept') <= Cardinality(Kept)
        BY <1>0, <4>3, RootsCounted, FS_Subset
      <4>. QED
        BY <1>0, <1>1, <1>3, <2>1, <2>2, <3>1, <3>2, <4>4 DEF promiseVars
    <3>3. CASE stopEvent # "reset"
      BY <1>0, <1>3, <2>1, <3>1, <3>3 DEF promiseVars
    <3>. QED
      BY <3>2, <3>3
  <2>. QED
    BY <2>3, <2>4
<1>6. ASSUME NEW k \in Slots, CancelCompletes(k)
      PROVE  Paid'
  <2>1. UNCHANGED <<stopEvent, owed, unanswered>>
    BY <1>6 DEF CancelCompletes, eventVars, promiseVars
  <2>2. stopEvent # "reset"
    BY <1>6 DEF CancelCompletes, Reads, Threads
  <2>. QED
    BY <1>0, <1>3, <2>1, <2>2
<1>7. CASE WatchResets \/ WatchReissues \/ WatchGivesUp \/ WatchSignals
  <2>1. /\ UNCHANGED <<stopEvent, debounce, current, unanswered>> /\ owed' \subseteq owed
        /\ current \in Slots /\ roots[current].io = "done"
    BY <1>7, CurrentRoot DEF WatchResets, WatchReissues, WatchGivesUp, WatchSignals, WatchGoes,
                              Reads, promiseVars
  <2>2. CASE WatchSignals
    <3>1. watch = "signal" /\ watch' = "reset" /\ UNCHANGED roots /\ changedEvent' = "set"
      BY <2>2 DEF WatchSignals, WatchGoes
    <3>2. current \in Unheard /\ Unheard' \subseteq Unheard \ {current} /\ Kept' \subseteq Kept
      BY <2>1, <3>1 DEF Unheard, Kept
    <3>3. Cardinality(Unheard') <= Cardinality(Unheard) - 1
          /\ Cardinality(Kept') <= Cardinality(Kept)
      BY <1>0, <2>1, <3>2, OneMoreOrLess
    <3>4. events' <= events + 1
      BY <2>1, <3>1 DEF events, OneIf
    <3>. QED
      BY <1>0, <1>1, <1>3, <2>1, <3>3, <3>4
  <2>3. CASE WatchResets \/ WatchReissues \/ WatchGivesUp
    <3>1. events' = events
      BY <2>1, <2>3 DEF events, WatchResets, WatchReissues, WatchGivesUp
    <3>2. OneRoot(current)
      BY <2>3, WatchResetsRoot, WatchReissuesRoot, WatchGivesUpRoot
    <3>3. watch \in {"reset", "reissue"}
      BY <2>3 DEF WatchResets, WatchReissues, WatchGivesUp, WatchGoes
    <3>4. CASE WatchReissues /\ roots[current].buffered
      <4>1. Unheard' \subseteq Unheard \cup {current} /\ Kept' \subseteq Kept \ {current}
            /\ current \in Kept
        BY <2>1, <3>2, <3>3, <3>4, WatchReissuesRoot DEF OneRoot, Unheard, Kept
      <4>2. Cardinality(Unheard') <= Cardinality(Unheard) + 1
            /\ Cardinality(Kept') <= Cardinality(Kept) - 1
        BY <1>0, <2>1, <4>1, OneMoreOrLess
      <4>. QED
        BY <1>0, <1>1, <1>3, <2>1, <3>1, <4>2
    <3>5. CASE ~(WatchReissues /\ roots[current].buffered)
      <4>1. Unheard' \subseteq Unheard /\ Kept' \subseteq Kept
        <5>1. CASE WatchResets
          <6>1. watch' = "reissue"
            BY <5>1 DEF WatchResets, WatchGoes
          <6>. QED
            BY <2>1, <3>2, <3>3, <5>1, <6>1, WatchResetsRoot DEF OneRoot, Unheard, Kept
        <5>2. CASE WatchReissues
          BY <2>1, <3>2, <3>3, <3>5, <5>2, WatchReissuesRoot DEF OneRoot, Unheard, Kept
        <5>3. CASE WatchGivesUp
          BY <2>1, <3>2, <3>3, <5>3, WatchGivesUpRoot DEF OneRoot, Unheard, Kept
        <5>. QED
          BY <2>3, <5>1, <5>2, <5>3
      <4>2. Cardinality(Unheard') <= Cardinality(Unheard)
            /\ Cardinality(Kept') <= Cardinality(Kept)
        BY <1>0, <2>1, <4>1, OneMoreOrLess
      <4>. QED
        BY <1>0, <1>1, <1>3, <2>1, <3>1, <4>2
    <3>. QED
      BY <3>4, <3>5
  <2>. QED
    BY <1>7, <2>2, <2>3
<1>8. CASE StopCancels \/ StopClosesRoot
  <2>1. UNCHANGED <<stopEvent, owed, unanswered>> /\ stopEvent # "reset"
    BY <1>8 DEF StopCancels, StopClosesRoot, CloseRoot, StopGoes, OwnerGoes, Threads, eventVars,
                promiseVars
  <2>. QED
    BY <1>0, <1>3, <2>1
<1>9. CASE StartOpensRoot
  <2>1. /\ watch = "none"
        /\ UNCHANGED <<stopEvent, changedEvent, watch, debounce, owed, unanswered>>
    BY <1>9 DEF StartOpensRoot, StartGoes, OwnerGoes, Threads, eventVars, promiseVars
  <2>2. Unheard' \subseteq Unheard /\ Kept' \subseteq Kept
    BY <1>9, <2>1, StartOpensItsRoot DEF OneRoot, Unheard, Kept
  <2>3. Cardinality(Unheard') <= Cardinality(Unheard) /\ Cardinality(Kept') <= Cardinality(Kept)
    BY <1>0, <2>2, RootsCounted, FS_Subset
  <2>4. events' = events
    BY <2>1 DEF events
  <2>. QED
    BY <1>0, <1>1, <1>3, <2>1, <2>3, <2>4
<1>10. CASE StopSignals
  <2>1. stopEvent' # "reset" /\ owed' = {} /\ unanswered' = 0
    BY <1>10 DEF StopSignals
  <2>. QED
    BY <2>1 DEF Paid
<1>11. CASE StopClosesEvents
  <2>1. stopEvent' # "reset" /\ UNCHANGED <<owed, unanswered>> /\ stopEvent # "reset"
    BY <1>11 DEF StopClosesEvents, StopGoes, OwnerGoes, Threads, promiseVars
  <2>. QED
    BY <1>2, <2>1 DEF Paid
<1>12. CASE StartCreatesEvents
  <2>1. /\ owner = "events" /\ UNCHANGED <<roots, watch, debounce, owed, unanswered>>
        /\ changedEvent' # "set"
    BY <1>12 DEF StartCreatesEvents, StartGoes, OwnerGoes, rootVars, promiseVars
  <2>2. rootCount = 0 /\ debounce = "none" /\ owed = {} /\ unanswered = 0
    BY <1>2, <2>1 DEF Roots, Threads
  <2>3. \A k \in Slots : roots[k] = Closed
    BY <2>2 DEF Roots, Slots
  <2>4. Unheard' = {} /\ Kept' = {}
    BY <2>1, <2>3 DEF Unheard, Kept, Closed
  <2>5. events' = 0
    BY <2>1, <2>2 DEF events, OneIf
  <2>6. CallbacksToCome' = 0
    BY <1>1, <2>4, <2>5, FS_EmptySet
  <2>. QED
    BY <2>1, <2>2, <2>6 DEF Paid
<1>13. CASE DebounceFires
  <2>1. /\ UNCHANGED stopEvent /\ owed' = {} /\ unanswered' = unanswered - 1
        /\ debounce = "burst" /\ debounce' = "callback" /\ UNCHANGED changedEvent
    BY <1>13 DEF DebounceFires, DebounceGoes
  <2>2. events' = events - 1
    BY <2>1 DEF events, OneIf
  <2>3. Cardinality(Unheard') <= Cardinality(Unheard) /\ Kept' = Kept
    BY <1>0, <1>13, SameCount, RootsCounted, FS_Subset DEF CalmStep, DebounceStep, WatchSignals,
       WatchGoes, DebounceFires, DebounceGoes
  <2>. QED
    BY <1>0, <1>1, <1>3, <2>1, <2>2, <2>3
<1>14. ASSUME CalmStep,
              ~(WatchSignals \/ StopSignals \/ StopClosesEvents \/ StartCreatesEvents
                    \/ DebounceFires)
       PROVE  Paid'
  <2>1. Cardinality(Unheard') <= Cardinality(Unheard) /\ Kept' = Kept
    BY <1>0, <1>14, SameCount, RootsCounted, FS_Subset
  <2>2. UNCHANGED <<stopEvent, owed, unanswered>>
    BY <1>14 DEF CalmStep, WatchStops, WatchWakes, WatchGoes, DebounceStep, DebounceStops,
                 DebounceAbsorbs, DebounceReturns, DebounceGoes, CallStop, CallStart, Call,
                 StopJoinsWatch, StopJoinsDebounce, StopForgetsRoots, StartSkipsRoot,
                 StartHasRoots, StartCreatesThreads, AtRest, Reappear, Happens, vars, eventVars,
                 promiseVars
  <2>3. \/ UNCHANGED changedEvent /\ debounce' = debounce
        \/ UNCHANGED changedEvent /\ debounce' # "burst"
        \/ DebounceAbsorbs
    BY <1>14 DEF CalmStep, WatchStops, WatchWakes, WatchGoes, DebounceStep, DebounceStops,
                 DebounceReturns, DebounceGoes, CallStop, CallStart, Call,
                 StopJoinsWatch, StopJoinsDebounce, StopForgetsRoots, StartSkipsRoot,
                 StartHasRoots, StartCreatesThreads, AtRest, Reappear, Happens, vars, eventVars,
                 threadVars
  <2>4. events' <= events
    BY <2>3 DEF events, OneIf, DebounceAbsorbs, DebounceGoes
  <2>. QED
    BY <1>0, <1>1, <1>3, <2>1, <2>2, <2>4
<1>. QED
  BY <1>5, <1>6, <1>7, <1>8, <1>9, <1>10, <1>11, <1>12, <1>13, <1>14, StepKinds

-------------------------------------------------------------------------------

\* The inductive invariant.
IInv == Typed /\ Threads /\ Roots /\ Reads /\ OneRootEach /\ Paid

\* It holds when the watcher is created, ...
LEMMA WatcherInit ==
    ASSUME Init
    PROVE  IInv /\ NoRootGoesDeaf
<1>0. roots = [k \in Slots |-> Closed] /\ rootCount = 0 /\ owner = "idle" /\ watch = "none"
      /\ debounce = "none" /\ stopEvent = "null" /\ changedEvent = "null"
  BY DEF Init
<1>1. RootsTypeOK
  BY <1>0, ClosedRoot, WatcherConstants DEF RootsTypeOK
<1>2. ThreadsTypeOK /\ OwnerTypeOK /\ HistoryTypeOK
  BY WatcherConstants DEF Init, ThreadsTypeOK, OwnerTypeOK, HistoryTypeOK, Events, OwnerPCs, StopPCs
<1>3. Threads /\ Reads
  BY <1>0 DEF Threads, Reads, Closed
<1>4. Roots
  BY <1>0 DEF Roots, Slots
<1>5. OneRootEach /\ NoRootGoesDeaf
  BY <1>0 DEF OneRootEach, NoRootGoesDeaf
<1>6. Paid
  BY DEF Init, Paid
<1>. QED
  BY <1>1, <1>2, <1>3, <1>4, <1>5, <1>6 DEF IInv, Typed

\* ... every step keeps it, ...
LEMMA WatcherStep ==
    ASSUME IInv, [Next]_vars
    PROVE  IInv'
<1>1. Typed'
  BY RootsTyped, ThreadsTyped, OwnerTyped, HistoryTyped DEF IInv, Typed
<1>. QED
  BY <1>1, ThreadsStep, RootsStep, ReadsStep, OneRootEachStep, PaidStep DEF IInv

\* ... and so it always holds.
LEMMA WatcherInvariant == Spec => []IInv
<1>1. Init => IInv
  BY WatcherInit
<1>2. IInv /\ [Next]_vars => IInv'
  BY WatcherStep
<1>. QED
  BY <1>1, <1>2, PTL DEF Spec, Safety

\* The variables keep to their types, and the changes without a callback to the
\* changes there were.
THEOREM WatcherTypeOK == Spec => []TypeOK
<1>1. IInv => TypeOK
  BY WatcherConstants
     DEF IInv, Typed, RootsTypeOK, ThreadsTypeOK, OwnerTypeOK, HistoryTypeOK, TypeOK
<1>. QED
  BY <1>1, WatcherInvariant, PTL

\* No root goes deaf: a read that has completed is still to be seen by the watch
\* thread, however many directories change, vanish and are given up.
THEOREM NoRootDeaf == Spec => []NoRootGoesDeaf
<1>1. Init => NoRootGoesDeaf
  BY WatcherInit
<1>2. IInv /\ NoRootGoesDeaf /\ [Next]_vars => NoRootGoesDeaf'
  BY DeafStep DEF IInv
<1>. QED
  BY <1>1, <1>2, WatcherInvariant, PTL DEF Spec, Safety

\* Nothing is used after it is given up: no read is outstanding into a root that
\* is not in use, and the threads find the events and the roots they wait on open.
THEOREM NothingFreedUsed == Spec => []NothingFreedIsUsed
<1>1. ASSUME IInv PROVE NothingFreedIsUsed
  <2>1. ASSUME NEW k \in Slots, roots[k].path = NoPath
        PROVE  roots[k].io \notin {"pending", "canceling"}
    BY <1>1, <2>1 DEF IInv, Roots, Closed
  <2>2. ASSUME watch \notin {"none", "exited"}
        PROVE  rootCount > 0 /\ \A k \in 1..rootCount : roots[k].path # NoPath
    <3>1. owner \notin {"cancel", "await"} /\ rootCount > 0
      BY <1>1, <2>2 DEF IInv, Threads, Roots
    <3>2. \A k \in 1..rootCount : k \in Slots /\ ~(k > rootCount)
      BY <1>1, WatcherConstants DEF IInv, Typed, RootsTypeOK, Slots
    <3>. QED
      BY <1>1, <3>1, <3>2 DEF IInv, Roots
  <2>. QED
    BY <1>1, <2>1, <2>2 DEF NothingFreedIsUsed, IInv, Threads
<1>. QED
  BY <1>1, WatcherInvariant, PTL

-------------------------------------------------------------------------------

\* Every step of the watcher is one its promise allows, or stutters.
LEMMA PromiseStep ==
    ASSUME IInv, IInv', [Next]_vars
    PROVE  [Promise!Next]_(Promise!promise)
<1>. USE DEF Promise!promise
<1>0. /\ stopEvent # "reset" => owed = {} /\ unanswered = 0
      /\ stopEvent' # "reset" => owed' = {} /\ unanswered' = 0
  BY DEF IInv, Paid
<1>1. ASSUME UNCHANGED <<stopEvent, owed, unanswered>>,
             debounce' = "callback" <=> debounce = "callback"
      PROVE  UNCHANGED Promise!promise
  BY <1>1
<1>2. ASSUME NEW path \in Paths, Changes(path)
      PROVE  Promise!Change(path) \/ UNCHANGED Promise!promise
  BY <1>2, ChangesFrame DEF Promise!Change, Owes, eventVars, threadVars, promiseVars
<1>3. ASSUME NEW k \in Slots, CancelCompletes(k)
      PROVE  UNCHANGED Promise!promise
  BY <1>3 DEF CancelCompletes, eventVars, threadVars, promiseVars
<1>4. CASE WatchResets \/ WatchReissues
  BY <1>1, <1>4 DEF WatchResets, WatchReissues, WatchGoes, promiseVars
<1>5. CASE WatchGivesUp
  <2>1. /\ UNCHANGED <<stopEvent, debounce, unanswered>> /\ owed' = owed \ {roots[current].path}
    BY <1>5 DEF WatchGivesUp, WatchGoes
  <2>2. CASE stopEvent = "reset"
    <3>1. roots[current].path \in Paths
      <4>1. current \in 1..rootCount /\ current \in Slots /\ roots[current] \in Root
        BY <1>5, CurrentRoot DEF IInv, WatchGivesUp, WatchGoes
      <4>2. owner \notin {"cancel", "await"}
        BY <1>5 DEF IInv, Threads, WatchGivesUp, WatchGoes
      <4>3. ~(current > rootCount)
        BY <4>1 DEF IInv, Typed, RootsTypeOK
      <4>. QED
        BY <4>1, <4>2, <4>3 DEF IInv, Roots, Root
    <3>2. Promise!GiveUp(roots[current].path)
      BY <2>1, <2>2 DEF Promise!GiveUp
    <3>. QED
      BY <3>1, <3>2 DEF Promise!Next
  <2>3. CASE stopEvent # "reset"
    BY <1>0, <1>1, <2>1, <2>3
  <2>. QED
    BY <2>2, <2>3
<1>6. CASE StopCancels \/ StopClosesRoot \/ StartOpensRoot
  BY <1>1, <1>6 DEF StopCancels, StopClosesRoot, CloseRoot, StartOpensRoot, eventVars, promiseVars
<1>7. CASE DebounceFires
  <2>1. stopEvent = "reset" /\ unanswered > 0
    BY <1>7, FiresPaid DEF IInv
  <2>. QED
    BY <1>7, <2>1 DEF DebounceFires, DebounceGoes, Promise!CallBack, Promise!Next
<1>8. CASE DebounceReturns
  BY <1>8 DEF DebounceReturns, DebounceGoes, promiseVars, Promise!Return, Promise!Next
<1>9. CASE StopSignals
  <2>1. /\ stopEvent' # "reset" /\ owed' = {} /\ unanswered' = 0 /\ UNCHANGED debounce
    BY <1>9 DEF StopSignals
  <2>2. CASE stopEvent = "reset"
    BY <2>1, <2>2 DEF Promise!Stop, Promise!Next
  <2>3. CASE stopEvent # "reset"
    BY <1>0, <2>1, <2>3
  <2>. QED
    BY <2>2, <2>3
<1>10. CASE StopClosesEvents
  <2>1. stopEvent # "reset" /\ stopEvent' # "reset" /\ UNCHANGED <<debounce, owed, unanswered>>
    BY <1>10 DEF IInv, Threads, StopClosesEvents, StopGoes, OwnerGoes, promiseVars
  <2>. QED
    BY <2>1
<1>11. CASE StartCreatesEvents
  <2>1. /\ stopEvent = "null" /\ debounce = "none" /\ stopEvent' \in {"null", "reset"}
        /\ UNCHANGED <<debounce, owed, unanswered>>
    BY <1>11 DEF IInv, Threads, StartCreatesEvents, StartGoes, OwnerGoes, promiseVars
  <2>2. Promise!Start \/ UNCHANGED Promise!promise
    BY <2>1 DEF Promise!Start
  <2>. QED
    BY <2>2 DEF Promise!Next
<1>12. CASE StartCreatesThreads
  <2>1. debounce = "none" /\ debounce' \in {"none", "wait"}
    BY <1>12 DEF IInv, Threads, StartCreatesThreads, StartGoes, OwnerGoes
  <2>. QED
    BY <1>1, <1>12, <2>1 DEF StartCreatesThreads, eventVars, promiseVars
<1>13. ASSUME CalmStep,
              ~(DebounceFires \/ DebounceReturns \/ StopSignals \/ StopClosesEvents
                    \/ StartCreatesEvents \/ StartCreatesThreads)
       PROVE  UNCHANGED Promise!promise
  <2>1. UNCHANGED <<stopEvent, owed, unanswered>>
    BY <1>13 DEF CalmStep, WatchStops, WatchWakes, WatchSignals, WatchGoes, DebounceStep,
                 DebounceStops, DebounceAbsorbs, DebounceGoes, CallStop, CallStart, Call,
                 StopJoinsWatch, StopJoinsDebounce, StopForgetsRoots, StartSkipsRoot,
                 StartHasRoots, AtRest, Reappear, Happens, vars, eventVars, promiseVars
  <2>2. debounce' = "callback" <=> debounce = "callback"
    BY <1>13 DEF CalmStep, WatchStops, WatchWakes, WatchSignals, WatchGoes, DebounceStep,
                 DebounceStops, DebounceAbsorbs, DebounceGoes, CallStop, CallStart, Call,
                 StopJoinsWatch, StopJoinsDebounce, StopForgetsRoots, StartSkipsRoot,
                 StartHasRoots, AtRest, Reappear, Happens, vars, threadVars
  <2>. QED
    BY <1>1, <2>1, <2>2
<1>. QED
  BY <1>2, <1>3, <1>4, <1>5, <1>6, <1>7, <1>8, <1>9, <1>10, <1>11, <1>12, <1>13, StepKinds
     DEF Promise!Next

\* The threads, the events and the kernel keep the watcher's promise, as far as it
\* says what may never happen: no callback without a change, none decided after
\* the stop was signaled, no two at once and none that runs into the next start.
THEOREM KeepsItsPromise ==
    Spec => Promise!Init /\ [][Promise!Next]_(Promise!promise)
<1>1. Init => Promise!Init
  BY DEF Init, Promise!Init
<1>2. IInv /\ IInv' /\ [Next]_vars => [Promise!Next]_(Promise!promise)
  BY PromiseStep
<1>. QED
  BY <1>1, <1>2, WatcherInvariant, PTL DEF Spec, Safety
===============================================================================
