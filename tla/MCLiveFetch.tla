---------------------------- MODULE MCLiveFetch ----------------------------
(***************************************************************************)
(* LiveFetch on the window k1 d1 k2 d2 of a stream.  Key frames have a     *)
(* segment more than the first batch asks for; metadata tells to fetch     *)
(* from the first or from the second frame of each class.                  *)
(***************************************************************************)
EXTENDS LiveFetch

CONSTANTS d1, d2, k1, k2

MCDeltaNames == <<d1, d2>>
MCKeyNames == <<k1, k2>>
MCDeltas == {d1, d2}
MCSamples == {d1, d2, k1, k2}
MCEarlier ==
  (d1 :> {}) @@ (d2 :> {d1}) @@ (k1 :> {d1, d2}) @@ (k2 :> {d1, d2, k1})
MCTimestamp == (k1 :> 1) @@ (d1 :> 2) @@ (k2 :> 3) @@ (d2 :> 4)
MCNData == [n \in MCSamples |-> IF n \in MCDeltas THEN 1 ELSE 2]
MCNParity == [n \in MCSamples |-> 0]
MCEstData == [Delta |-> 1, Key |-> 1]
MCEstParity == [Delta |-> 0, Key |-> 0]
MCPositions == {[Delta |-> i, Key |-> i] : i \in 1 .. 2}
============================================================================
