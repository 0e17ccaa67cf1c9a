----------------------------- MODULE MCSelfUpdate -----------------------------
(* Two or three processes, two newer builds, two installs.                     *)
EXTENDS SelfUpdate, TLC

\* Processes are interchangeable.
ProcSymmetry == Permutations(Procs)
===============================================================================
