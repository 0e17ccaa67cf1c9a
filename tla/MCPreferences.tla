----------------------------- MODULE MCPreferences -----------------------------
(* The two setters with four toggles between them, so that each can follow a   *)
(* failed save of the other, and two ends of the process.                      *)
EXTENDS Preferences
===============================================================================
