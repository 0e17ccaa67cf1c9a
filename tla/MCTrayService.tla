----------------------------- MODULE MCTrayService -----------------------------
(* The program as it is, where only the tray menu toggles tracking.  Either the *)
(* ticker works, and the watcher and two syncs may fail, or there is no ticker  *)
(* and the watcher and the syncs must be enough.                                *)
EXTENDS TrayService

WithTicker == [tickerWorks |-> TRUE, watchMayFail |-> TRUE, failures |-> 2]
WithoutTicker == [tickerWorks |-> FALSE, watchMayFail |-> FALSE, failures |-> 0]
MCSetups == {WithTicker, WithoutTicker}
===============================================================================
