------------------------------ MODULE MCUpdater -------------------------------
\* Instance of Updater for model checking.
EXTENDS Updater, TLC
===============================================================================
