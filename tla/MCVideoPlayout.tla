-------------------------- MODULE MCVideoPlayout --------------------------
(* VideoPlayout scaled down: a key frame, two delta frames, a key frame.  *)
EXTENDS VideoPlayout

MCFrames == 0..3
MCKeyFrames == {0, 3}
MCTs == [f \in MCFrames |-> 5 + 2 * f]
MCLevels == {1, 4}
MCFfwds == {0, 2}
MCLateness == {0, 3}
=============================================================================
