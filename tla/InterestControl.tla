--------------------------- MODULE InterestControl ---------------------------
(***************************************************************************)
(* InterestControl (interest-control.cpp) and its default strategy: how    *)
(* many samples may be outstanding.  limit_ is moved by bursts and         *)
(* withholds of the latency control between two limits that follow the     *)
(* demand, that is the data retrieval delay counted in sample periods.     *)
(*                                                                         *)
(* A state of the component is a record ic; module PipelineControl drives  *)
(* the same operations from the state machine.                             *)
(***************************************************************************)
EXTENDS Integers

CONSTANTS
  MinPipelineSize,  \* InterestControl::MinPipelineSize
  ResetUpper,       \* upperLimit_ of a reset pipeline
  UpperFactor,      \* upper limit over lower limit in getLimits
  Demands,          \* calculateDemand() at the delays that may be measured
  MaxDemands,       \* calculateDemand(rate, MAX_PIPELINE_SIZE_MS, 0)
  Cap,              \* bound of the demands: no measured delay asks for more
  WordSize          \* 2^32: unsigned arithmetic wraps

ASSUME InterestControlAssumption ==
  /\ MinPipelineSize \in Nat \ {0} /\ ResetUpper \in Nat /\ UpperFactor \in Nat \ {0}
  /\ MinPipelineSize <= ResetUpper
  /\ Demands \subseteq Nat \ {0} /\ MaxDemands \subseteq Nat \ {0}
  /\ \A d \in MaxDemands : MinPipelineSize <= d
  /\ Cap \in Nat /\ ResetUpper <= Cap
  /\ \A d \in Demands \cup MaxDemands : d <= Cap
  /\ WordSize \in Nat \ {0}

larger(a, b) == IF a > b THEN a ELSE b
smaller(a, b) == IF a < b THEN a ELSE b

-----------------------------------------------------------------------------
(* StrategyDefault *)

(* getLimits, for a measured demand at the current rate. *)
strategyLower(demand, maxDemand) == smaller(larger(demand, MinPipelineSize), maxDemand)
strategyUpper(demand, maxDemand) ==
  smaller(UpperFactor * strategyLower(demand, maxDemand), maxDemand)

(* ceil(limit / 2) *)
strategyBurst(limit) == (limit + 1) \div 2

(* round((limit - lower) / 2), the difference being unsigned. *)
strategyWithhold(limit, lower) == (((limit - lower) % WordSize) + 1) \div 2

-----------------------------------------------------------------------------
(* InterestControl *)

(* Fault: the upper limit is not enforced. *)
changeLimitToUncapped(ic, newLimit) == [ic EXCEPT !.limit = larger(newLimit, ic.lower)]

changeLimitTo(ic, newLimit) ==
  [ic EXCEPT !.limit = IF newLimit < ic.lower THEN ic.lower
                       ELSE IF newLimit > ic.upper THEN ic.upper
                       ELSE newLimit]

setLimits(ic, demand, maxDemand) ==
  LET newLower == strategyLower(demand, maxDemand)
      newUpper == strategyUpper(demand, maxDemand)
      moved == [ic EXCEPT !.lower = IF ~ic.limitSet \/ newLower > @ THEN newLower ELSE @,
                          !.upper = newUpper]
  IN IF ic.lower = newLower /\ ic.upper = newUpper THEN ic
     ELSE IF moved.limit < moved.lower THEN changeLimitTo(moved, moved.lower)
     ELSE moved

icReset ==
  [initialized |-> FALSE, limitSet |-> FALSE, pipeline |-> 0,
   lower |-> MinPipelineSize, limit |-> MinPipelineSize, upper |-> ResetUpper]

initialize(ic, pipelineLimit) ==
  changeLimitTo([ic EXCEPT !.lower = MinPipelineSize,
                           !.upper = larger(@, pipelineLimit)], pipelineLimit)

decrement(ic) == [ic EXCEPT !.pipeline = @ - 1]

increment(ic) == IF ic.pipeline >= ic.limit THEN ic ELSE [ic EXCEPT !.pipeline = @ + 1]

burst(ic) ==
  IF ic.initialized
  THEN changeLimitTo(ic, (ic.limit + strategyBurst(ic.limit)) % WordSize) ELSE ic

withhold(ic) ==
  IF ic.initialized /\ strategyWithhold(ic.limit, ic.lower) # 0
  THEN changeLimitTo(ic, (ic.limit - strategyWithhold(ic.limit, ic.lower)) % WordSize) ELSE ic

markLowerLimit(ic, lowerLimit, demand, maxDemand) ==
  setLimits([ic EXCEPT !.limitSet = TRUE, !.lower = lowerLimit], demand, maxDemand)

onOriginalDrdUpdate(ic, demand, maxDemand) ==
  IF ic.initialized THEN setLimits(ic, demand, maxDemand) ELSE ic

targetRateUpdate(ic, demand, maxDemand) ==
  setLimits([ic EXCEPT !.initialized = TRUE], demand, maxDemand)

(* PipelineControl::needPipelineAdjustment *)
needPipelineAdjustment(c, command) ==
  IF command = "Increase" THEN burst(c)
  ELSE IF command = "Decrease" THEN withhold(c) ELSE c

-----------------------------------------------------------------------------
VARIABLES
  ic,        \* the component
  maxDemand, \* what targetRate_ allows at most
  mark       \* Adjusting::pipelineLowerLimit_, a limit to return to

icVars == <<ic, maxDemand, mark>>

ICInit == ic = icReset /\ maxDemand \in MaxDemands /\ mark = MinPipelineSize

Reset == ic' = icReset /\ UNCHANGED <<maxDemand, mark>>

Initialize(pipelineLimit) ==
  ic' = initialize(ic, pipelineLimit) /\ UNCHANGED <<maxDemand, mark>>

Increment == ic.pipeline < ic.limit /\ ic' = increment(ic) /\ UNCHANGED <<maxDemand, mark>>

(* A sample arrives that was counted when it was requested. *)
Decrement == ic.pipeline > 0 /\ ic' = decrement(ic) /\ UNCHANGED <<maxDemand, mark>>

Burst == ic' = burst(ic) /\ UNCHANGED <<maxDemand, mark>>

Withhold == ic' = withhold(ic) /\ UNCHANGED <<maxDemand, mark>>

(* Adjusting remembers pipelineLimit() and restores it as the lower limit. *)
Remember == mark' = ic.limit /\ UNCHANGED <<ic, maxDemand>>

MarkLowerLimit(demand) ==
  ic' = markLowerLimit(ic, mark, demand, maxDemand) /\ UNCHANGED <<maxDemand, mark>>

DrdUpdate(demand) ==
  ic' = onOriginalDrdUpdate(ic, demand, maxDemand) /\ UNCHANGED <<maxDemand, mark>>

TargetRateUpdate(demand, rateDemand) ==
  /\ ic' = targetRateUpdate(ic, demand, rateDemand)
  /\ maxDemand' = rateDemand
  /\ UNCHANGED mark

(* What happens between two decisions of the pipeline control. *)
Measure ==
  \/ Increment \/ Decrement \/ Burst \/ Withhold
  \/ \E demand \in Demands :
       \/ DrdUpdate(demand)
       \/ \E rateDemand \in MaxDemands : TargetRateUpdate(demand, rateDemand)

Decide ==
  \/ Reset \/ Remember
  \/ \E demand \in Demands : Initialize(demand) \/ MarkLowerLimit(demand)

ICNext == Measure \/ Decide

ICSpec == ICInit /\ [][ICNext]_icVars

-----------------------------------------------------------------------------
(* Properties *)

(* Type correctness of the component. *)
ICTypeOK ==
  /\ ic \in [initialized : BOOLEAN, limitSet : BOOLEAN, pipeline : Int,
             lower : Nat, limit : Nat, upper : Nat]
  /\ maxDemand \in MaxDemands
  /\ mark \in Nat

(* InterestControl always leaves room for a sample (limit_ never becomes    *)
(* zero, which would stop the stream) and never asks for more samples than  *)
(* the largest demand, through any order of bursts, withholds and           *)
(* re-measured limits, although lower and upper limit may cross.            *)
PipelineBounded ==
  1 <= ic.limit /\ ic.limit <= Cap /\ 0 <= ic.pipeline /\ ic.pipeline <= Cap

(* As long as no lower limit was marked, the limits enclose and limit_ is   *)
(* not below the lower one: the unsigned limit_ - lowerLimit_ in withhold   *)
(* does not wrap.                                                           *)
UnmarkedLimitsOrdered ==
  ~ic.limitSet => ic.lower <= ic.limit /\ ic.lower <= ic.upper

(* Measurements never take a marked lower limit back (setLimits only raises *)
(* a limit set by markLowerLimit).                                          *)
MarkedLowerLimitStays == [][Measure /\ ic.limitSet => ic.lower <= ic'.lower]_icVars

(* The limit of the pipeline stays within bounds under bursts, withholds,   *)
(* marks and re-measured limits, and until a mark the limits are in order,  *)
(* so that no unsigned difference wraps.                                    *)
LimitsSound ==
  /\ ICTypeOK
  /\ PipelineBounded
  /\ UnmarkedLimitsOrdered
=============================================================================
