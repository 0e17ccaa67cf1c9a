----------------------------- MODULE WatcherPromise -----------------------------
(* What src/watcher.h promises to whoever starts a watcher: changes in the     *)
(* watched directories are followed by a callback, a burst of them perhaps by  *)
(* one; there is no callback without a change, and none begins once the        *)
(* watcher has been told to stop.  Module Watcher implements it.               *)
EXTENDS Naturals

CONSTANT Paths          \* directories of the file system

VARIABLES
    on,                 \* started, and not told to stop since
    owed,               \* directories with a change not called back for yet
    unanswered,         \* changes since the start less the callbacks for them
    calling             \* the callback runs

promise == <<on, owed, unanswered, calling>>

Init == on = FALSE /\ owed = {} /\ unanswered = 0 /\ calling = FALSE

\* No start returns into the callback of an earlier one.
Start ==
    /\ ~on /\ ~calling /\ on' = TRUE
    /\ UNCHANGED <<owed, unanswered, calling>>

Change(path) ==
    /\ on /\ owed' = owed \cup {path} /\ unanswered' = unanswered + 1
    /\ UNCHANGED <<on, calling>>

\* A directory that can no longer be read is left to the periodic sync.
GiveUp(path) ==
    /\ on /\ owed' = owed \ {path}
    /\ UNCHANGED <<on, unanswered, calling>>

CallBack ==
    /\ on /\ ~calling /\ calling' = TRUE
    /\ unanswered > 0 /\ unanswered' = unanswered - 1
    /\ owed' = {} /\ UNCHANGED on

CallBackOwed == owed # {} /\ CallBack

Return == calling /\ calling' = FALSE /\ UNCHANGED <<on, owed, unanswered>>

\* What was owed is no longer, and a callback that runs goes on.
Stop ==
    /\ on /\ on' = FALSE /\ owed' = {} /\ unanswered' = 0
    /\ UNCHANGED calling

Next ==
    \/ Start \/ CallBack \/ Return \/ Stop
    \/ \E path \in Paths : Change(path) \/ GiveUp(path)

Spec == Init /\ [][Next]_promise /\ WF_promise(CallBackOwed) /\ WF_promise(Return)
===============================================================================
