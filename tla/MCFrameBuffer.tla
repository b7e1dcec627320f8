--------------------------- MODULE MCFrameBuffer ---------------------------
(***************************************************************************)
(* The buffer and its validator on two delta frames and a key frame.       *)
(* Names of key frames ("k") sort after those of delta frames ("d"), so no *)
(* key frame is Earlier than a delta frame.  The key frame was published   *)
(* between them.                                                           *)
(***************************************************************************)
EXTENDS SampleValidation, TLC

CONSTANTS d1, d2, k1

MCSamples == {d1, d2, k1}
MCDeltas == {d1, d2}
MCEarlier == (d1 :> {}) @@ (d2 :> {d1}) @@ (k1 :> {d1, d2})
MCTimestamp == (d1 :> 1) @@ (k1 :> 2) @@ (d2 :> 3)
MCNData == (d1 :> 1) @@ (d2 :> 2) @@ (k1 :> 1)
MCNParity == (d1 :> 0) @@ (d2 :> 2) @@ (k1 :> 0)
=============================================================================
