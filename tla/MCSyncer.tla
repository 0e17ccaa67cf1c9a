------------------------------- MODULE MCSyncer -------------------------------
(* Two calling threads, the ticker, the worker and the owner; enough triggers *)
(* for one to be served, one to arrive during that run and one to arrive      *)
(* during or after the stop.                                                  *)
EXTENDS Syncer
===============================================================================
