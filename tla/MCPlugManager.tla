---- MODULE MCPlugManager ----
(* Two phase threads, the first of which may be the start trigger's, and   *)
(* one plug beside UserInput.                                              *)
EXTENDS PlugManager
CONSTANTS p1, p2, probe
MCPhases == <<p1, p2>>
====
