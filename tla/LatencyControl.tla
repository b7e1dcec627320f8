---------------------------- MODULE LatencyControl ----------------------------
(***************************************************************************)
(* The decision of LatencyControl::sampleArrived (latency-control.cpp): a  *)
(* stream that arrives steadily may do with a shorter pipeline, one that   *)
(* does not, for a whole time window, needs a longer one.  What the        *)
(* estimators say is a record; module Estimators computes it, module       *)
(* PipelineControl leaves it to the environment.                           *)
(***************************************************************************)

(* The stream is stable, the delay has changed (asked only of a stable     *)
(* one), the time window has passed.                                       *)
Estimate == {e \in [stable : BOOLEAN, changed : BOOLEAN, timeout : BOOLEAN] :
               e.changed => e.stable}

Commands == {"Keep", "Increase", "Decrease"}

latencyReset == [command |-> "Keep", waitForChange |-> FALSE]

(* The command for a new sample, and what it leaves to wait for. *)
latencyCommand(l, e) ==
  IF e.stable
  THEN IF l.waitForChange
       THEN [command |-> IF ~e.changed /\ e.timeout THEN "Decrease" ELSE "Keep",
             waitForChange |-> ~e.changed]
       ELSE [command |-> "Decrease", waitForChange |-> FALSE]
  ELSE IF e.timeout
       THEN [command |-> "Increase", waitForChange |-> FALSE]
       ELSE [l EXCEPT !.command = "Keep"]

(* pipelineChanged: called whenever a command was given. *)
pipelineChanged(l) == [l EXCEPT !.waitForChange = @ \/ l.command = "Decrease"]
=============================================================================
