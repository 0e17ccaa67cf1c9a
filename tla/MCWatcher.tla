------------------------------- MODULE MCWatcher -------------------------------
(* Three directories for two root slots, so that the array fills and a path is *)
(* left out; a start can be followed by a restart with other paths or a stop.  *)
EXTENDS Watcher

CONSTANTS a, b, c

ThreePaths == <<a, b, c>>
MCPathLists == {<<>>, <<b>>, ThreePaths}
===============================================================================
