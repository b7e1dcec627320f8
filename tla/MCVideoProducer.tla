-------------------------- MODULE MCVideoProducer --------------------------
(* Instances of VideoProducer for TLC. *)
EXTENDS VideoProducer

CONSTANTS hi, lo  \* two threads of the stream

MCThreads == {hi, lo}
MCMaxFrames == [t \in MCThreads |-> IF t = hi THEN 5 ELSE 1]
MCGarbage == {3}
=============================================================================
