------------------------- MODULE MCFramePublishing -------------------------
(***************************************************************************)
(* Three frames: one that fills its six segments and two that do not; a    *)
(* prefix that contains the library's own component; a header of more      *)
(* bytes than the low byte of a size can tell; two threads in the storage, *)
(* the URI of one of them beginning that of the other.                     *)
(***************************************************************************)
EXTENDS FramePublishing, TLC

MCHeader(n) == [i \in 1..17 |-> (n + i) % 16]
MCFrames ==
  <<[no |-> 1, class |-> "Key", bytes |-> <<7, 8, 9, 1, 2, 6>>, sync |-> 1 :> 3 @@ 2 :> 4, header |-> MCHeader(2)],
    [no |-> 1, class |-> "Delta", bytes |-> <<5>>, sync |-> 1 :> 5 @@ 2 :> 6, header |-> MCHeader(3)],
    [no |-> 2, class |-> "Delta", bytes |-> <<4, 3>>, sync |-> 1 :> 7 @@ 2 :> 1, header |-> MCHeader(4)]>>
MCRecorded == {"hi", "high"}
MCThreads == <<<<3, 4>>, <<1>>>>
MCSyncStreams == <<<<9, 2>>>>
MCStream ==
  [NoInfo EXCEPT !.base = <<Str("a"), Str("ndnrtc")>>, !.api = 3, !.stream = "camera", !.ts = 5, !.thread = "hi"]
=============================================================================
