------------------------------ MODULE MCCliCalls ------------------------------
(* Two calls at a time, so that each child can inherit the other call's pipe;   *)
(* the output of one fills its pipe, the other one is silent.                   *)
EXTENDS CliCalls

CONSTANTS talking, silent

MCOutput == [c \in {talking, silent} |-> IF c = talking THEN 2 ELSE 0]
===============================================================================
