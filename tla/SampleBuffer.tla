---------------------------- MODULE SampleBuffer ----------------------------
(***************************************************************************)
(* What the frame buffer promises to the pipeliner and to the playout,     *)
(* without slots: every sample is idle, being fetched, playable or         *)
(* stranded.  A bounded number of samples is held at a time, samples are   *)
(* played in timestamp order, playing a delta frame abandons the delta     *)
(* frames before it, and a reset abandons what is being fetched but        *)
(* nothing playable.  Only a sample that parity can complete, or that has  *)
(* the timestamp of a playable one, may be held without ever being played. *)
(***************************************************************************)
EXTENDS Integers, FiniteSets

CONSTANTS
  Samples, Deltas, Earlier, Timestamp,
  Recoverable,  \* samples whose parity can stand in for a data segment
  Bound         \* on the number of samples held at a time

VARIABLE status

Held == {n \in Samples : status[n] # "idle"}
Playable == {n \in Samples : status[n] = "playable"}

Init == status = [n \in Samples |-> "idle"]

Request(n) ==
  /\ status[n] = "idle"
  /\ Cardinality(Held) < Bound
  /\ status' = [status EXCEPT ![n] = "fetching"]

Assemble(n) ==
  /\ status[n] = "fetching"
  /\ status' = [status EXCEPT ![n] = "playable"]

(* An assembled sample without a header, or with the timestamp of another,  *)
(* is locked and not queued.                                                *)
Strand(n) ==
  /\ status[n] = "fetching"
  /\ n \in Recoverable \/ \E m \in Playable : Timestamp[m] = Timestamp[n]
  /\ status' = [status EXCEPT ![n] = "stranded"]

Play(n) ==
  /\ n \in Playable
  /\ \A m \in Playable : Timestamp[n] <= Timestamp[m]
  /\ status' = [m \in Samples |->
                  IF m = n \/ (n \in Deltas /\ m \in Earlier[n] /\ status[m] = "fetching")
                  THEN "idle" ELSE status[m]]

Reset == status' = [n \in Samples |-> IF status[n] = "fetching" THEN "idle" ELSE status[n]]

Next ==
  \/ \E n \in Samples : Request(n) \/ Assemble(n) \/ Strand(n) \/ Play(n)
  \/ Reset

Spec == Init /\ [][Next]_status
=============================================================================
