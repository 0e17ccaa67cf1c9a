--------------------------- MODULE CoalescingRunner ---------------------------
(* What syncer.h promises of the background sync runner, without threads,     *)
(* locks or wake-ups: triggers coalesce, at most one run executes at a time,  *)
(* every trigger is covered by a run that starts after it, and nothing starts *)
(* once the runner has been stopped.  Syncer.tla is shown to implement it.    *)
EXTENDS Naturals

VARIABLES
    requested,                  \* triggers made so far
    served,                     \* value of requested when the last run began
    running,                    \* a run is executing
    halted                      \* the runner has been told to stop

absVars == <<requested, served, running, halted>>

AbsInit ==
    /\ requested = 0
    /\ served = 0
    /\ running = FALSE
    /\ halted = FALSE

\* A trigger, from any thread, at any time: even after the stop.
Request ==
    /\ requested' = requested + 1
    /\ UNCHANGED <<served, running, halted>>

\* One run serves every trigger made before it began.
Begin ==
    /\ ~running
    /\ ~halted
    /\ served < requested
    /\ running' = TRUE
    /\ served' = requested
    /\ UNCHANGED <<requested, halted>>

Finish ==
    /\ running
    /\ running' = FALSE
    /\ UNCHANGED <<requested, served, halted>>

Halt ==
    /\ ~halted
    /\ halted' = TRUE
    /\ UNCHANGED <<requested, served, running>>

AbsNext == Request \/ Begin \/ Finish \/ Halt

\* Safety part of the promise.
AbsSafety == AbsInit /\ [][AbsNext]_absVars

\* The full promise: a needed run begins, and a run that began ends.
AbsSpec == AbsSafety /\ WF_absVars(Begin) /\ WF_absVars(Finish)
===============================================================================
