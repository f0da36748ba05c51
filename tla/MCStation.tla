---- MODULE MCStation ----
(* Two runs, of two Test objects, and one subscriber.                      *)
EXTENDS Station
CONSTANTS t1, t2, c1
MCTestOf == <<t1, t2>>
MCMaxChanges == <<2, 1>>
====
