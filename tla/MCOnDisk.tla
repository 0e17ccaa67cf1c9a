------------------------------- MODULE MCOnDisk --------------------------------
(* What outlives a process of the program: the preferences it saves in a file   *)
(* of its own, the API key it hands to the CLI, and its executable, which an    *)
(* update replaces.  No step on one of them reads or writes the state of        *)
(* another, so a behaviour follows one while the others stay as at the start.   *)
EXTENDS Preferences, SettingsDialog, SelfUpdate, TLC

\* Verify threads are interchangeable, and so are processes.
DiskSymmetry == Permutations(Verifiers) \cup Permutations(Procs)

PreferencesRest == PreferencesInit /\ chosen = {}
KeyRests == DialogInit /\ stored = NoKey
ExecutableRests == Init

MCInit ==
    /\ PreferencesInit /\ DialogInit /\ Init
    /\ PreferencesRest \/ KeyRests

MCNext ==
    \/ /\ KeyRests /\ ExecutableRests /\ PreferencesNext
       /\ UNCHANGED <<settingsVars, vars>>
    \/ /\ PreferencesRest /\ ExecutableRests /\ DialogNext
       /\ UNCHANGED <<preferencesVars, vars>>
    \/ /\ PreferencesRest /\ KeyRests /\ Next
       /\ UNCHANGED <<preferencesVars, settingsVars>>

MCSpec == MCInit /\ [][MCNext]_<<preferencesVars, settingsVars, vars>>
===============================================================================
