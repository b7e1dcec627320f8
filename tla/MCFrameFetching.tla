-------------------------- MODULE MCFrameFetching --------------------------
(***************************************************************************)
(* A key frame of which a part can be missing for good; a delta frame with *)
(* a parity segment, which may come first; a GOP with a delta frame before *)
(* the target and a key frame larger than what is asked for at first.      *)
(***************************************************************************)
EXTENDS StreamRecorder

MCGops ==
  {[target |-> 0, nData |-> 0 :> 2, nParity |-> 0 :> 2],
   [target |-> 1, nData |-> 0 :> 1 @@ 1 :> 1, nParity |-> 0 :> 0 @@ 1 :> 1],
   [target |-> 2, nData |-> 0 :> 2 @@ 1 :> 1 @@ 2 :> 1, nParity |-> 0 :> 0 @@ 1 :> 0 @@ 2 :> 0]}
=============================================================================
