-------------------------- MODULE MCRemoteStream --------------------------
(* Two threads; two versions of the metadata, of two and of three segments;  *)
(* an Interest queue that its callers drain beyond two entries.              *)
EXTENDS InterestQueue

MCThreads == {1, 2}
MCVersions == {1, 2}
MCSegments == <<2, 3>>
MCKinds == {"audio", "live", "seed"}
=============================================================================
