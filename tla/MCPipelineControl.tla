-------------------------- MODULE MCPipelineControl --------------------------
(***************************************************************************)
(* The consumer's control of its pipeline, scaled down: a minimal pipeline *)
(* of 2 samples and delays that ask for 1 or 5 samples, at rates whose     *)
(* upper limit can fall below a size that was settled on; windows of two   *)
(* samples that are stable after two occurrences, a time-out of one and a  *)
(* half periods.                                                           *)
(*                                                                         *)
(* InterestControl has a state machine above it and estimators beside it.  *)
(* Each side is looked at with the other left to the environment: the      *)
(* machine of PipelineControl under whatever the estimators may say, and   *)
(* the estimators under whatever the machine may ask for.                  *)
(***************************************************************************)
EXTENDS PipelineControl, Estimators

MCDemands == {1, 5}
MCMaxDemands == {2, 5}
MCKinds == {"video", "audio", "seed"}
MCAll == {"timeout", "starvation", "reject", "stop"}
MCGarbage == {[sampleSize |-> 1, minOccurrences |-> 0], [sampleSize |-> 2, minOccurrences |-> 1]}

VARIABLE side

machineVars == <<kind, state, observers, hasMeta, asked, rejected, allowed, latency, active, starved, fault>>

(* What the side that rests starts from does not matter: it is chosen.      *)
MCInit ==
  /\ Init /\ LCInit
  /\ \/ side = "machine" /\ drdChange.sampleSize = 1
     \/ side = "estimators" /\ kind = CHOOSE k \in Kinds : TRUE

(* The rate is announced to the machine, by an audio stream's packets.      *)
MCNext ==
  /\ \/ side = "machine" /\ Next /\ UNCHANGED estimatorVars
     \/ side = "estimators" /\ LCNext /\ UNCHANGED <<machineVars, maxDemand>>
  /\ UNCHANGED side

MCSpec == MCInit /\ [][MCNext]_<<vars, lcVars, side>> /\ Fairness
=============================================================================
