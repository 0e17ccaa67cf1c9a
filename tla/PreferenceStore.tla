----------------------------- MODULE PreferenceStore -----------------------------
(* What settings.h and app.c promise of the preferences: a change of one is one *)
(* step that stores both, or one that stores nothing because the save failed;   *)
(* a session starts from what is stored, or from the defaults if it cannot be   *)
(* read; and the end of a session, at any moment, takes nothing away.  Module   *)
(* Preferences implements it with a lock, a temporary file and a rename.        *)
CONSTANT Flags          \* the features that can be switched off

VARIABLES
    up,                 \* a session runs
    off,                \* the flags off in memory, as a reader sees them
    stored              \* the flags off on disk

store == <<up, off, stored>>

Init == up = FALSE /\ off = {} /\ stored \in SUBSET Flags

Start == ~up /\ up' = TRUE /\ off' \in {stored, {}} /\ UNCHANGED stored

Flip(flag) == IF flag \in off THEN off \ {flag} ELSE off \cup {flag}

Set(flag) == up /\ off' = Flip(flag) /\ stored' = off' /\ UNCHANGED up
SetUnsaved(flag) == up /\ off' = Flip(flag) /\ UNCHANGED <<up, stored>>

End == up /\ up' = FALSE /\ off' = {} /\ UNCHANGED stored

Next == Start \/ End \/ \E flag \in Flags : Set(flag) \/ SetUnsaved(flag)

Spec == Init /\ [][Next]_store
===============================================================================
