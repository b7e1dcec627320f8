-------------------------- MODULE MCHeadlessClient --------------------------
EXTENDS HeadlessClient

(* A video every 10 units, three and a third milliseconds; statistics every *)
(* three milliseconds.                                                      *)
MCInterval == [video |-> 10, stats |-> 9]
MCLateness == [video |-> {1, 23}, stats |-> {0}]
MCFileSizes == {0, 3, 4}
=============================================================================
