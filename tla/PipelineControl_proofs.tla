------------------------ MODULE PipelineControl_proofs ------------------------
(***************************************************************************)
(* Proofs about the control loop of a stream, for all values of the        *)
(* constants.                                                              *)
(*                                                                         *)
(* First InterestControl, LatencyControl and the stability of the          *)
(* arrivals.  The three invariants of the limits are proved together:      *)
(* limit_ is bounded only if the limits changeLimitTo clamps it to are,    *)
(* and a marked limit is bounded because it was a limit once.  They hold   *)
(* under latency control too, which implements InterestControl's           *)
(* specification.  The sums that StabilityEstimator keeps are those of     *)
(* what arrived last.                                                      *)
(*                                                                         *)
(* Then PipelineControl: a stream's control loop neither fails nor carries *)
(* anything from one session into the next, and a settled pipeline size    *)
(* stays a floor, for every demand, every rate and every order of          *)
(* callbacks.  The inductive invariant is a predicate on the record that   *)
(* the callbacks hand on, so that it can be stated between two of their    *)
(* calls.                                                                  *)
(***************************************************************************)
EXTENDS PipelineControl, Estimators, TLAPS, SequenceTheorems, WellFoundedInduction

(* The limits and limit_ stay between one and Cap, the upper one never      *)
(* falls below the smallest pipeline.                                       *)
Bounds(r) ==
  /\ 1 <= r.lower /\ r.lower <= Cap
  /\ MinPipelineSize <= r.upper /\ r.upper <= Cap
  /\ 1 <= r.limit /\ r.limit <= Cap
  /\ 0 <= r.pipeline /\ r.pipeline <= Cap

ICState ==
  [initialized : BOOLEAN, limitSet : BOOLEAN, pipeline : Int,
   lower : Nat, limit : Nat, upper : Nat]

Ordered(r) == ~r.limitSet => r.lower <= r.limit /\ r.lower <= r.upper

(* What every operation preserves. *)
Good(r) == r \in ICState /\ Bounds(r) /\ Ordered(r)

ICInv ==
  /\ Good(ic)
  /\ maxDemand \in MaxDemands
  /\ mark \in Nat /\ 1 <= mark /\ mark <= Cap

(* changeLimitTo keeps the limits and puts limit_ between them. *)
LEMMA ChangeLimit ==
  ASSUME NEW r, r \in ICState, NEW x \in Int, Bounds(r), ~r.limitSet => r.lower <= r.upper
  PROVE  /\ Good(changeLimitTo(r, x))
         /\ changeLimitTo(r, x).lower = r.lower
         /\ changeLimitTo(r, x).limitSet = r.limitSet
<1> DEFINE lim == IF x < r.lower THEN r.lower ELSE IF x > r.upper THEN r.upper ELSE x
           new == changeLimitTo(r, x)
<1>1. lim \in Nat /\ 1 <= lim /\ lim <= Cap /\ (~r.limitSet => r.lower <= lim)
  BY InterestControlAssumption DEF ICState, Bounds
<1>2. /\ new = [r EXCEPT !.limit = lim]
      /\ new \in ICState
      /\ new.limit = lim
      /\ new.lower = r.lower /\ new.upper = r.upper
      /\ new.pipeline = r.pipeline /\ new.limitSet = r.limitSet
  BY <1>1 DEF changeLimitTo, ICState
<1> HIDE DEF lim, new
<1>3. Bounds(new)
  BY <1>1, <1>2 DEF Bounds
<1>4. Ordered(new)
  BY <1>1, <1>2 DEF Ordered
<1> QED
  BY <1>2, <1>3, <1>4 DEF Good, new

(* The strategy's limits enclose and respect the smallest pipeline and Cap. *)
LEMMA StrategyLimits ==
  ASSUME NEW d \in Demands, NEW m \in MaxDemands
  PROVE  /\ strategyLower(d, m) \in Nat /\ strategyUpper(d, m) \in Nat
         /\ MinPipelineSize <= strategyLower(d, m)
         /\ strategyLower(d, m) <= strategyUpper(d, m)
         /\ strategyUpper(d, m) <= Cap
<1> DEFINE L == strategyLower(d, m)
           U == strategyUpper(d, m)
           P == UpperFactor * L
<1>1. /\ d \in Nat /\ m \in Nat /\ Cap \in Nat /\ m <= Cap
      /\ MinPipelineSize \in Nat /\ MinPipelineSize <= m
  BY InterestControlAssumption
<1>2. L \in Nat /\ MinPipelineSize <= L /\ L <= m
  BY <1>1 DEF strategyLower, smaller, larger
<1>3. P \in Nat /\ L <= P
  <2> HIDE DEF L
  <2>1. UpperFactor \in Nat /\ UpperFactor >= 1
    BY InterestControlAssumption
  <2>2. \A a, b \in Nat : a >= 1 => a * b \in Nat /\ b <= a * b
    OBVIOUS
  <2> QED
    BY <1>2, <2>1, <2>2
<1>4. U = smaller(P, m)
  BY DEF strategyUpper
<1> HIDE DEF L, U, P
<1>5. U \in Nat /\ L <= U /\ U <= m
  BY <1>1, <1>2, <1>3, <1>4 DEF smaller
<1> QED
  BY <1>1, <1>2, <1>5 DEF L, U

(* setLimits keeps the invariant and never lowers a marked lower limit. *)
LEMMA SetLimits ==
  ASSUME NEW r, Good(r), NEW d \in Demands, NEW m \in MaxDemands
  PROVE  /\ Good(setLimits(r, d, m))
         /\ r.limitSet => r.lower <= setLimits(r, d, m).lower
<1> DEFINE L == strategyLower(d, m)
           U == strategyUpper(d, m)
           low == IF ~r.limitSet \/ L > r.lower THEN L ELSE r.lower
           moved == [r EXCEPT !.lower = low, !.upper = U]
           new == setLimits(r, d, m)
<1>1. /\ L \in Nat /\ U \in Nat /\ MinPipelineSize <= L /\ L <= U /\ U <= Cap
      /\ MinPipelineSize \in Nat /\ 1 <= MinPipelineSize /\ Cap \in Nat
  BY StrategyLimits, InterestControlAssumption
<1> HIDE DEF L, U
<1>2. /\ r \in ICState /\ r.limitSet \in BOOLEAN
      /\ r.lower \in Nat /\ 1 <= r.lower /\ r.lower <= Cap
      /\ r.limit \in Nat /\ 1 <= r.limit /\ r.limit <= Cap
      /\ r.pipeline \in Int /\ 0 <= r.pipeline /\ r.pipeline <= Cap
  BY DEF Good, Bounds, ICState
<1>3. /\ low \in Nat /\ 1 <= low /\ low <= Cap
      /\ (~r.limitSet => low = L) /\ (r.limitSet => r.lower <= low)
  BY <1>1, <1>2
<1>4. /\ moved \in ICState
      /\ moved.lower = low /\ moved.upper = U /\ moved.limit = r.limit
      /\ moved.pipeline = r.pipeline /\ moved.limitSet = r.limitSet
  BY <1>1, <1>2, <1>3 DEF ICState
<1>5. \/ new = r
      \/ moved.limit < moved.lower /\ new = changeLimitTo(moved, moved.lower)
      \/ ~(moved.limit < moved.lower) /\ new = moved
  BY DEF setLimits, L, U
<1> HIDE DEF low, moved, new
<1>6. Bounds(moved)
  BY <1>1, <1>2, <1>3, <1>4 DEF Bounds
<1>7. ~moved.limitSet => moved.lower <= moved.upper
  BY <1>1, <1>3, <1>4
<1>8. CASE new = r
  BY <1>2, <1>8 DEF new
<1>9. CASE moved.limit < moved.lower /\ new = changeLimitTo(moved, moved.lower)
  <2>1. moved.lower \in Int
    BY <1>3, <1>4
  <2>2. Good(new) /\ new.lower = moved.lower
    BY <1>4, <1>6, <1>7, <1>9, <2>1, ChangeLimit
  <2> QED
    BY <1>3, <1>4, <2>2 DEF new
<1>10. CASE ~(moved.limit < moved.lower) /\ new = moved
  <2>1. Ordered(new)
    BY <1>2, <1>3, <1>4, <1>7, <1>10 DEF Ordered
  <2> QED
    BY <1>3, <1>4, <1>6, <1>10, <2>1 DEF Good, new
<1> QED
  BY <1>5, <1>8, <1>9, <1>10

(* The operations that take no measurement keep the invariant. *)
LEMMA Operations ==
  ASSUME NEW r, Good(r)
  PROVE  /\ Good(icReset)
         /\ r.pipeline < r.limit => Good(increment(r))
         /\ r.pipeline > 0 => Good(decrement(r))
         /\ Good(burst(r))
         /\ Good(withhold(r))
<1>1. /\ r \in ICState /\ r.limitSet \in BOOLEAN
      /\ r.lower \in Nat /\ 1 <= r.lower /\ r.lower <= Cap
      /\ r.upper \in Nat /\ MinPipelineSize <= r.upper /\ r.upper <= Cap
      /\ r.limit \in Nat /\ 1 <= r.limit /\ r.limit <= Cap
      /\ r.pipeline \in Int /\ 0 <= r.pipeline /\ r.pipeline <= Cap
  BY DEF Good, Bounds, ICState
<1>2. /\ MinPipelineSize \in Nat /\ 1 <= MinPipelineSize
      /\ ResetUpper \in Nat /\ MinPipelineSize <= ResetUpper /\ ResetUpper <= Cap
      /\ Cap \in Nat /\ WordSize \in Nat \ {0}
  BY InterestControlAssumption
<1>3. Good(icReset)
  BY <1>2 DEF icReset, Good, ICState, Bounds, Ordered
<1>4. ASSUME r.pipeline < r.limit PROVE Good(increment(r))
  <2>1. increment(r) = [r EXCEPT !.pipeline = r.pipeline + 1]
    BY <1>1, <1>4 DEF increment
  <2> QED
    BY <1>1, <1>2, <1>4, <2>1 DEF Good, ICState, Bounds, Ordered
<1>5. ASSUME r.pipeline > 0 PROVE Good(decrement(r))
  BY <1>1, <1>2, <1>5 DEF decrement, Good, ICState, Bounds, Ordered
<1>6. ~r.limitSet => r.lower <= r.upper
  BY DEF Good, Ordered
<1>7. Good(burst(r))
  <2>1. (r.limit + strategyBurst(r.limit)) % WordSize \in Int
    BY <1>1, <1>2 DEF strategyBurst
  <2> QED
    BY <1>1, <1>6, <2>1, ChangeLimit DEF burst, Good
<1>8. Good(withhold(r))
  <2>1. (r.limit - strategyWithhold(r.limit, r.lower)) % WordSize \in Int
    BY <1>1, <1>2 DEF strategyWithhold
  <2> QED
    BY <1>1, <1>6, <2>1, ChangeLimit DEF withhold, Good
<1> QED
  BY <1>3, <1>4, <1>5, <1>7, <1>8

(* So do those that follow a measured demand, or restore a limit. *)
LEMMA MeasuredOperations ==
  ASSUME NEW r, Good(r), NEW d \in Demands, NEW m \in MaxDemands,
         NEW k \in Nat, 1 <= k, k <= Cap
  PROVE  /\ Good(initialize(r, k))
         /\ Good(markLowerLimit(r, k, d, m))
         /\ Good(onOriginalDrdUpdate(r, d, m))
         /\ Good(targetRateUpdate(r, d, m))
<1>1. /\ r \in ICState /\ r.limitSet \in BOOLEAN
      /\ r.lower \in Nat /\ 1 <= r.lower /\ r.lower <= Cap
      /\ r.upper \in Nat /\ MinPipelineSize <= r.upper /\ r.upper <= Cap
      /\ r.limit \in Nat /\ 1 <= r.limit /\ r.limit <= Cap
      /\ r.pipeline \in Int /\ 0 <= r.pipeline /\ r.pipeline <= Cap
  BY DEF Good, Bounds, ICState
<1>2. /\ MinPipelineSize \in Nat /\ 1 <= MinPipelineSize
      /\ Cap \in Nat /\ d \in Nat /\ 1 <= d /\ d <= Cap
  BY InterestControlAssumption
<1>3. Good(initialize(r, k))
  <2> DEFINE up == larger(r.upper, k)
             opened == [r EXCEPT !.lower = MinPipelineSize, !.upper = up]
  <2>1. up \in Nat /\ MinPipelineSize <= up /\ up <= Cap
    BY <1>1, <1>2 DEF larger
  <2>2. /\ opened \in ICState
        /\ opened.lower = MinPipelineSize /\ opened.upper = up /\ opened.limit = r.limit
        /\ opened.pipeline = r.pipeline
    BY <1>1, <1>2, <2>1 DEF ICState
  <2>3. initialize(r, k) = changeLimitTo(opened, k)
    BY DEF initialize
  <2> HIDE DEF up, opened
  <2>4. Bounds(opened) /\ opened.lower <= opened.upper /\ k \in Int
    BY <1>1, <1>2, <2>1, <2>2 DEF Bounds
  <2> QED
    BY <2>2, <2>3, <2>4, ChangeLimit
<1>4. Good(markLowerLimit(r, k, d, m))
  <2> DEFINE marked == [r EXCEPT !.limitSet = TRUE, !.lower = k]
  <2>1. /\ marked \in ICState /\ marked.limitSet = TRUE
        /\ marked.lower = k /\ marked.upper = r.upper /\ marked.limit = r.limit
        /\ marked.pipeline = r.pipeline
    BY <1>1 DEF ICState
  <2>2. markLowerLimit(r, k, d, m) = setLimits(marked, d, m)
    BY DEF markLowerLimit
  <2> HIDE DEF marked
  <2>3. Good(marked)
    BY <1>1, <2>1 DEF Good, Bounds, Ordered
  <2> QED
    BY <2>2, <2>3, SetLimits
<1>5. Good(onOriginalDrdUpdate(r, d, m))
  BY SetLimits DEF onOriginalDrdUpdate
<1>6. Good(targetRateUpdate(r, d, m))
  <2> DEFINE started == [r EXCEPT !.initialized = TRUE]
  <2>1. /\ started \in ICState /\ started.limitSet = r.limitSet
        /\ started.lower = r.lower /\ started.upper = r.upper /\ started.limit = r.limit
        /\ started.pipeline = r.pipeline
    BY <1>1 DEF ICState
  <2>2. targetRateUpdate(r, d, m) = setLimits(started, d, m)
    BY DEF targetRateUpdate
  <2> HIDE DEF started
  <2>3. Good(started)
    BY <1>1, <2>1 DEF Good, Bounds, Ordered
  <2> QED
    BY <2>2, <2>3, SetLimits
<1> QED
  BY <1>3, <1>4, <1>5, <1>6

(* Every step keeps the inductive invariant. *)
LEMMA ICStep ==
  ASSUME ICInv, [ICNext]_icVars
  PROVE  ICInv'
<1>1. Cap \in Nat /\ Good(ic) /\ maxDemand \in MaxDemands
      /\ mark \in Nat /\ 1 <= mark /\ mark <= Cap
  BY InterestControlAssumption DEF ICInv
<1>2. CASE Reset
  BY <1>1, <1>2, Operations DEF ICInv, Reset
<1>3. ASSUME NEW d \in Demands, Initialize(d) PROVE ICInv'
  <2>1. d \in Nat /\ 1 <= d /\ d <= Cap
    BY InterestControlAssumption
  <2> QED
    BY <1>1, <1>3, <2>1, MeasuredOperations DEF ICInv, Initialize
<1>4. CASE Increment
  BY <1>1, <1>4, Operations DEF ICInv, Increment
<1>5. CASE Decrement
  BY <1>1, <1>5, Operations DEF ICInv, Decrement
<1>6. CASE Burst
  BY <1>1, <1>6, Operations DEF ICInv, Burst
<1>7. CASE Withhold
  BY <1>1, <1>7, Operations DEF ICInv, Withhold
<1>8. CASE Remember
  <2>1. ic.limit \in Nat /\ 1 <= ic.limit /\ ic.limit <= Cap
    BY <1>1 DEF Good, ICState, Bounds
  <2> QED
    BY <1>1, <1>8, <2>1 DEF ICInv, Remember
<1>9. ASSUME NEW d \in Demands, MarkLowerLimit(d) PROVE ICInv'
  BY <1>1, <1>9, MeasuredOperations DEF ICInv, MarkLowerLimit
<1>10. ASSUME NEW d \in Demands, DrdUpdate(d) PROVE ICInv'
  BY <1>1, <1>10, MeasuredOperations DEF ICInv, DrdUpdate
<1>11. ASSUME NEW d \in Demands, NEW m \in MaxDemands, TargetRateUpdate(d, m) PROVE ICInv'
  BY <1>1, <1>11, MeasuredOperations DEF ICInv, TargetRateUpdate
<1>12. CASE UNCHANGED icVars
  BY <1>12 DEF ICInv, icVars
<1> QED
  BY <1>2, <1>3, <1>4, <1>5, <1>6, <1>7, <1>8, <1>9, <1>10, <1>11, <1>12
  DEF ICNext, Measure, Decide

(* The inductive invariant holds throughout. *)
THEOREM ICInvariant == ICSpec => []ICInv
<1>1. ICInit => ICInv
  <2> SUFFICES ASSUME ICInit PROVE ICInv
    OBVIOUS
  <2>1. Good(icReset)
    BY InterestControlAssumption DEF icReset, Good, ICState, Bounds, Ordered
  <2>2. MinPipelineSize \in Nat /\ 1 <= MinPipelineSize /\ MinPipelineSize <= Cap
    BY InterestControlAssumption
  <2> QED
    BY <2>1, <2>2 DEF ICInit, ICInv
<1>2. ICInv /\ [ICNext]_icVars => ICInv'
  BY ICStep
<1> QED
  BY <1>1, <1>2, PTL DEF ICSpec

(* changeLimitTo's clamping keeps limit_ positive and below the largest     *)
(* demand, and pipeline_ within it, even after lower and upper limit have   *)
(* crossed through markLowerLimit; until a lower limit is marked, the       *)
(* unsigned difference limit_ - lowerLimit_ of withhold() cannot wrap.      *)
THEOREM LimitsStaySound == ICSpec => []LimitsSound
<1>1. ICInv => ICTypeOK
  BY DEF ICInv, Good, ICState, ICTypeOK
<1>2. ICInv => PipelineBounded
  BY DEF ICInv, Good, Bounds, PipelineBounded
<1>3. ICInv => UnmarkedLimitsOrdered
  BY DEF ICInv, Good, Ordered, UnmarkedLimitsOrdered
<1>4. ICInv => LimitsSound
  BY <1>1, <1>2, <1>3 DEF LimitsSound
<1> QED
  BY <1>4, ICInvariant, PTL

(* The operations between two decisions leave a marked limit, or raise it. *)
LEMMA MeasureKeepsMark ==
  ASSUME ICInv, Measure, ic.limitSet
  PROVE  ic.lower <= ic'.lower
<1>1. Good(ic) /\ ic \in ICState /\ ic.lower \in Nat /\ ic.limit \in Nat /\ maxDemand \in MaxDemands
  BY DEF ICInv, Good, ICState
<1>2. Bounds(ic) /\ (~ic.limitSet => ic.lower <= ic.upper) /\ WordSize \in Nat \ {0}
  BY InterestControlAssumption DEF ICInv, Good, Ordered
<1>3. CASE Increment \/ Decrement
  BY <1>1, <1>3 DEF Increment, Decrement, increment, decrement, ICState
<1>4. CASE Burst
  <2>1. (ic.limit + strategyBurst(ic.limit)) % WordSize \in Int
    BY <1>1, <1>2 DEF strategyBurst
  <2> QED
    BY <1>1, <1>2, <1>4, <2>1, ChangeLimit DEF Burst, burst
<1>5. CASE Withhold
  <2>1. (ic.limit - strategyWithhold(ic.limit, ic.lower)) % WordSize \in Int
    BY <1>1, <1>2 DEF strategyWithhold
  <2> QED
    BY <1>1, <1>2, <1>5, <2>1, ChangeLimit DEF Withhold, withhold
<1>6. ASSUME NEW d \in Demands, DrdUpdate(d) PROVE ic.lower <= ic'.lower
  BY <1>1, <1>6, SetLimits DEF DrdUpdate, onOriginalDrdUpdate
<1>7. ASSUME NEW d \in Demands, NEW m \in MaxDemands, TargetRateUpdate(d, m)
      PROVE  ic.lower <= ic'.lower
  <2> DEFINE started == [ic EXCEPT !.initialized = TRUE]
  <2>1. /\ started \in ICState /\ started.limitSet = ic.limitSet
        /\ started.lower = ic.lower /\ started.upper = ic.upper
        /\ started.limit = ic.limit /\ started.pipeline = ic.pipeline
    BY <1>1 DEF ICState
  <2>2. ic' = setLimits(started, d, m)
    BY <1>7 DEF TargetRateUpdate, targetRateUpdate
  <2> HIDE DEF started
  <2>3. Good(started)
    BY <1>1, <2>1 DEF Good, Bounds, Ordered
  <2> QED
    BY <2>1, <2>2, <2>3, SetLimits
<1> QED
  BY <1>3, <1>4, <1>5, <1>6, <1>7 DEF Measure

(* No measurement takes back a lower limit set by markLowerLimit. *)
THEOREM MarkSurvivesMeasurements == ICSpec => MarkedLowerLimitStays
<1>1. ICInv /\ [ICNext]_icVars => [Measure /\ ic.limitSet => ic.lower <= ic'.lower]_icVars
  BY MeasureKeepsMark
<1> QED
  BY <1>1, ICInvariant, PTL DEF ICSpec, MarkedLowerLimitStays
-----------------------------------------------------------------------------
(* LatencyControl and its estimators.  The steps of InterestControl that    *)
(* they cause are those of ICSpec.                                          *)

(* What the two controls do together InterestControl could do by itself.    *)
LEMMA ControlsMoveInterest == [LCNext]_lcVars => [ICNext]_icVars
<1> SUFFICES ASSUME [LCNext]_lcVars PROVE [ICNext]_icVars
  OBVIOUS
<1>1. ASSUME NEW delta \in Deltas, SampleArrived(delta) PROVE [ICNext]_icVars
  <2>1. PICK command \in {"Keep", "Increase", "Decrease"} :
          ic' = needPipelineAdjustment(ic, command)
    <3>1. \E l : ic' = needPipelineAdjustment(ic, l.command)
      BY <1>1 DEF SampleArrived
    <3>2. PICK l : ic' = needPipelineAdjustment(ic, l.command)
      BY <3>1
    <3> QED
      BY <3>2 DEF needPipelineAdjustment
  <2> QED
    BY <1>1, <2>1 DEF SampleArrived, needPipelineAdjustment, ICNext, Measure, Burst, Withhold, icVars
<1>2. ASSUME NEW demand \in Demands, DrdUpdate(demand) PROVE [ICNext]_icVars
  BY <1>2 DEF ICNext, Measure
<1>3. CASE ResetControls
  BY <1>3 DEF ResetControls, ICNext, Decide
<1>4. CASE InterestStep
  BY <1>4 DEF InterestStep, ICNext, Measure, Decide
<1>5. CASE UNCHANGED icVars
  BY <1>5
<1> QED
  BY <1>1, <1>2, <1>3, <1>4, <1>5 DEF LCNext, CachedDrd, OriginalDrd, lcVars

(* InterestControl's limits under the commands of LatencyControl.           *)
THEOREM ControlledByLatency == LCSpec => ICSpec
<1>1. LCInit => ICInit
  BY DEF LCInit
<1> QED
  BY <1>1, ControlsMoveInterest, PTL DEF LCSpec, ICSpec

ChangeCounts == 0..MaxChanges

DrdState ==
  [sampleSize : Nat, minOccurrences : Nat, nStable : Nat, nChanges : ChangeCounts,
   nMinor : Nat, lastChecked : ChangeCounts]

(* A delay change that was not reported yet came after the last command,    *)
(* and the time-out never runs ahead of the time since that command.        *)
WaitInv ==
  /\ drdChange \in DrdState
  /\ lc \in [command : Commands, waitForChange : BOOLEAN]
  /\ elapsed \in {Unset} \cup 0..(TimeoutWindow + 1)
  /\ since \in 0..(TimeoutWindow + 1)
  /\ elapsed # Unset => elapsed <= since
  /\ changed \in BOOLEAN
  /\ hasChange(drdChange) => changed

(* LatencyControl has given no command and waits for nothing. *)
LEMMA LatencyReset == latencyReset \in [command : Commands, waitForChange : BOOLEAN]
  BY DEF latencyReset, Commands

(* What a new delay does to the counters of DrdChangeEstimator, whatever    *)
(* its parameters are.                                                      *)
LEMMA NewDrdValue ==
  ASSUME NEW d \in DrdState, d.nChanges < MaxChanges, NEW calm \in BOOLEAN, NEW move \in Moves
  PROVE  /\ newDrdValue(d, calm, move) \in DrdState
         /\ newDrdValue(d, calm, move).lastChecked = d.lastChecked
<1> DEFINE up == smaller(d.nStable + 1, d.minOccurrences)
           next == IF calm THEN [d EXCEPT !.nStable = up]
                   ELSE [d EXCEPT !.nStable = 0, !.nChanges = 0, !.nMinor = 0]
<1>1. up \in Nat /\ 0 \in ChangeCounts /\ d.nChanges + 1 \in ChangeCounts
  BY EstimatorsAssumption DEF DrdState, ChangeCounts, smaller
<1> HIDE DEF up
<1>2. /\ next \in DrdState /\ next.lastChecked = d.lastChecked
      /\ next.nChanges = d.nChanges \/ next.nChanges = 0
  BY <1>1 DEF DrdState
<1> HIDE DEF next
<1>3. change(next, move) \in DrdState /\ change(next, move).lastChecked = next.lastChecked
  <2> DEFINE more == next.nChanges + 1
             minors == next.nMinor + 1
             jumped == [next EXCEPT !.nChanges = more]
             drifted == [next EXCEPT !.nMinor = 0, !.nChanges = more]
             counts == [next EXCEPT !.nMinor = minors]
             rests == [next EXCEPT !.nMinor = 0]
  <2>1. /\ more \in ChangeCounts /\ minors \in Nat
        /\ next.nMinor \in Nat /\ next.sampleSize \in Nat
        /\ minors >= next.sampleSize \/ minors < next.sampleSize
    <3>1. next.nChanges + 1 \in ChangeCounts
      BY <1>1, <1>2, EstimatorsAssumption DEF ChangeCounts
    <3>2. next.nMinor \in Nat /\ next.sampleSize \in Nat
      BY <1>2 DEF DrdState
    <3> QED
      BY <3>1, <3>2
  <2>4. change(next, move) =
          CASE move = "major" -> jumped
            [] move = "minor" /\ minors >= next.sampleSize -> drifted
            [] move = "minor" /\ minors < next.sampleSize -> counts
            [] move = "none" -> rests
    BY DEF change
  <2>5. ~(minors >= next.sampleSize /\ minors < next.sampleSize)
    BY <2>1
  <2> HIDE DEF more, minors
  <2>2. \A r \in {jumped, drifted, counts, rests} :
          r \in DrdState /\ r.lastChecked = next.lastChecked
    <3>1. jumped \in DrdState /\ jumped.lastChecked = next.lastChecked
      BY <1>2, <2>1 DEF DrdState
    <3>2. drifted \in DrdState /\ drifted.lastChecked = next.lastChecked
      BY <1>2, <2>1 DEF DrdState
    <3>3. counts \in DrdState /\ counts.lastChecked = next.lastChecked
      BY <1>2, <2>1 DEF DrdState
    <3>4. rests \in DrdState /\ rests.lastChecked = next.lastChecked
      BY <1>2, <2>1 DEF DrdState
    <3> HIDE DEF jumped, drifted, counts, rests
    <3> QED
      BY <3>1, <3>2, <3>3, <3>4
  <2> HIDE DEF jumped, drifted, counts, rests
  <2>3. change(next, move) \in {jumped, drifted, counts, rests}
    BY <2>1, <2>4, <2>5 DEF Moves
  <2> QED
    BY <2>2, <2>3
<1>4. newDrdValue(d, calm, move) = next \/ newDrdValue(d, calm, move) = change(next, move)
  BY DEF newDrdValue, next, up
<1> QED
  BY <1>2, <1>3, <1>4

(* What a sample does to the estimate of the delay, to the window and to    *)
(* what LatencyControl waits for.                                           *)
LEMMA SampleKeepsWait ==
  ASSUME WaitInv, NEW delta \in Deltas, SampleArrived(delta)
  PROVE  /\ WaitInv'
         /\ lc'.command = "Decrease" /\ lc.waitForChange => later(since, delta) > TimeoutWindow
         /\ lc'.command = "Increase" => later(since, delta) > TimeoutWindow
         /\ lc.waitForChange /\ ~lc'.waitForChange => changed \/ lc'.command = "Increase"
<1> DEFINE ticks == IF elapsed = Unset THEN 0 ELSE later(elapsed, delta)
           st == newDataArrived(stability, delta)
           wanted == st.isStable /\ lc.waitForChange
           has == wanted /\ hasChange(drdChange)
           e == [stable |-> st.isStable, changed |-> has, timeout |-> ticks > TimeoutWindow]
           l == latencyCommand(lc, e)
<1>1. /\ lc' = pipelineChanged(l)
      /\ drdChange' = flushedAfter(drdChange, wanted, l.command)
      /\ elapsed' = stamped(ticks, e, wanted, l.command)
      /\ since' = IF l.command # "Keep" THEN 0 ELSE later(since, delta)
      /\ changed' = IF l.command # "Keep" THEN FALSE ELSE changed
  BY DEF SampleArrived
<1>2. /\ delta \in Nat /\ TimeoutWindow \in Nat \ {0} /\ MaxChanges \in Nat
      /\ lc.command \in Commands /\ lc.waitForChange \in BOOLEAN
      /\ lc \in [command : Commands, waitForChange : BOOLEAN]
      /\ drdChange \in DrdState
  BY EstimatorsAssumption DEF WaitInv
<1>3. /\ ticks \in 0..(TimeoutWindow + 1)
      /\ later(since, delta) \in 0..(TimeoutWindow + 1)
      /\ ticks <= later(since, delta)
  BY <1>2 DEF WaitInv, later, smaller, Unset
<1>4. e.stable = st.isStable /\ e.changed = has /\ (e.timeout <=> ticks > TimeoutWindow)
  OBVIOUS
<1> HIDE DEF ticks, st, e
<1>5. /\ l \in [command : Commands, waitForChange : BOOLEAN]
      /\ l.command = "Decrease" /\ lc.waitForChange => e.timeout
      /\ l.command = "Increase" => e.timeout
      /\ lc.waitForChange /\ ~l.waitForChange =>
           l.command = "Increase" \/ (e.stable /\ e.changed)
  BY <1>2 DEF latencyCommand, Commands
<1> HIDE DEF l
<1>6. /\ lc' \in [command : Commands, waitForChange : BOOLEAN]
      /\ lc'.command = l.command
      /\ lc'.waitForChange <=> l.waitForChange \/ l.command = "Decrease"
  BY <1>1, <1>5 DEF pipelineChanged
<1>7. drdChange' \in DrdState /\ (hasChange(drdChange') => changed')
  <2>0. /\ 0 \in ChangeCounts /\ ChangeCounts \subseteq Int
        /\ drdChange.nChanges \in ChangeCounts
    BY <1>2 DEF ChangeCounts, DrdState
  <2>1. CASE l.command # "Keep"
    <3>1. drdChange' = flushed(drdChange)
      BY <1>1, <2>1 DEF flushedAfter
    <3>2. drdChange' \in DrdState /\ drdChange'.nChanges = 0 /\ drdChange'.lastChecked = 0
      BY <1>2, <2>0, <3>1 DEF flushed, DrdState
    <3> QED
      BY <3>2 DEF hasChange
  <2>2. CASE l.command = "Keep" /\ wanted
    <3>1. drdChange' = [drdChange EXCEPT !.lastChecked = drdChange.nChanges]
      BY <1>1, <2>2 DEF flushedAfter
    <3>2. drdChange' \in DrdState /\ drdChange'.nChanges = drdChange'.lastChecked
      BY <1>2, <2>0, <3>1 DEF DrdState
    <3>3. drdChange'.nChanges \in Int
      BY <2>0, <3>2 DEF DrdState
    <3> QED
      BY <3>2, <3>3 DEF hasChange
  <2>3. CASE l.command = "Keep" /\ ~wanted
    BY <1>1, <1>2, <2>3 DEF flushedAfter, DrdState, hasChange, WaitInv
  <2> QED
    BY <2>1, <2>2, <2>3
<1>8. /\ elapsed' \in 0..(TimeoutWindow + 1) /\ since' \in 0..(TimeoutWindow + 1)
      /\ elapsed' <= since'
  BY <1>1, <1>2, <1>3 DEF stamped
<1>9. WaitInv'
  BY <1>1, <1>6, <1>7, <1>8 DEF WaitInv
<1>10. e.changed => changed
  BY <1>4 DEF WaitInv
<1> HIDE DEF wanted, has
<1> QED
  BY <1>2, <1>3, <1>4, <1>5, <1>6, <1>9, <1>10

(* The waiting survives every step. *)
LEMMA WaitInvNext == WaitInv /\ [LCNext]_lcVars => WaitInv'
<1> SUFFICES ASSUME WaitInv, [LCNext]_lcVars PROVE WaitInv'
  OBVIOUS
<1>1. ASSUME NEW calm \in BOOLEAN, NEW move \in Moves, OnDrdUpdate(calm, move)
      PROVE  WaitInv'
  <2>1. /\ drdChange' = newDrdValue(drdChange, calm, move)
        /\ drdChange' \in DrdState /\ drdChange'.lastChecked = drdChange.lastChecked
    BY <1>1, NewDrdValue DEF OnDrdUpdate, WaitInv
  <2>2. /\ changed' <=> changed \/ drdChange'.nChanges > drdChange.nChanges
        /\ changed' \in BOOLEAN
    BY <1>1 DEF OnDrdUpdate
  <2>3. hasChange(drdChange') => changed'
    <3>1. /\ drdChange'.nChanges \in Int /\ drdChange.nChanges \in Int
          /\ drdChange.lastChecked \in Int
      BY <2>1 DEF WaitInv, DrdState, ChangeCounts
    <3> QED
      BY <2>1, <2>2, <3>1 DEF hasChange, WaitInv
  <2> QED
    BY <1>1, <2>1, <2>2, <2>3 DEF OnDrdUpdate, WaitInv
<1>2. CASE ResetControls
  <2>1. TimeoutWindow \in Nat /\ MaxChanges \in Nat
    BY EstimatorsAssumption
  <2>2. drdChange' \in DrdState /\ ~hasChange(drdChange')
    <3>1. 0 \in ChangeCounts /\ drdChange \in DrdState /\ drdChange' = flushed(drdChange)
      BY <1>2, <2>1 DEF ChangeCounts, WaitInv, ResetControls
    <3>2. drdChange' \in DrdState /\ drdChange'.nChanges = 0 /\ drdChange'.lastChecked = 0
      BY <3>1 DEF flushed, DrdState
    <3> QED
      BY <3>2 DEF hasChange
  <2>3. elapsed' = Unset /\ changed' \in BOOLEAN /\ lc' = latencyReset
    BY <1>2, Zenon DEF ResetControls
  <2>4. since' \in 0..(TimeoutWindow + 1)
    <3>1. since' = TimeoutWindow + 1
      BY <1>2, Zenon DEF ResetControls
    <3> QED
      BY <2>1, <3>1
  <2> QED
    BY <2>2, <2>3, <2>4, LatencyReset DEF WaitInv
<1>3. CASE UNCHANGED estimatorVars
  BY <1>3 DEF estimatorVars, WaitInv
<1> QED
  BY <1>1, <1>2, <1>3, SampleKeepsWait
  DEF LCNext, CachedDrd, OriginalDrd, InterestStep, lcVars

(* The waiting at the start. *)
LEMMA WaitInvInit == LCInit => WaitInv
<1> SUFFICES ASSUME LCInit PROVE WaitInv
  OBVIOUS
<1>1. PICK g \in Garbage :
        drdChange = [sampleSize |-> g.sampleSize, minOccurrences |-> g.minOccurrences,
                     nStable |-> 0, nChanges |-> 0, nMinor |-> 0, lastChecked |-> 0]
  BY DEF LCInit
<1>2. g \in [sampleSize : Nat, minOccurrences : Nat] /\ MaxChanges \in Nat /\ TimeoutWindow \in Nat
  BY EstimatorsAssumption
<1>3. drdChange \in DrdState /\ ~hasChange(drdChange)
  BY <1>1, <1>2 DEF DrdState, ChangeCounts, hasChange
<1>4. elapsed = Unset /\ changed \in BOOLEAN /\ lc = latencyReset
  BY Zenon DEF LCInit
<1>5. since \in 0..(TimeoutWindow + 1)
  <2>1. since = TimeoutWindow + 1
    BY Zenon DEF LCInit
  <2> QED
    BY <1>2, <2>1
<1> QED
  BY <1>3, <1>4, <1>5, LatencyReset DEF WaitInv

(* LatencyControl waits for the effect of a command: a pipeline that was    *)
(* just shortened is shortened again only after the delay has changed or a  *)
(* time window has passed, and it is lengthened only after one, whatever    *)
(* DrdChangeEstimator's uninitialised parameters hold.                      *)
THEOREM CommandsWait == LCSpec => CommandsAwaitEffect
<1>1. WaitInv /\ [LCNext]_lcVars =>
        [\A delta \in Deltas : SampleArrived(delta) =>
           /\ lc'.command = "Decrease" /\ lc.waitForChange => later(since, delta) > TimeoutWindow
           /\ lc'.command = "Increase" => later(since, delta) > TimeoutWindow
           /\ lc.waitForChange /\ ~lc'.waitForChange => changed \/ lc'.command = "Increase"]_lcVars
  BY SampleKeepsWait
<1> QED
  BY <1>1, WaitInvInit, WaitInvNext, PTL DEF LCSpec, CommandsAwaitEffect
-----------------------------------------------------------------------------
(* Sums of deltas.  Each is proved for the set of the lengths it holds at.  *)

(* A set that holds 0, and each successor of what it holds, holds them all. *)
LEMMA SetInduction ==
  ASSUME NEW S, 0 \in S, \A n \in Nat : n \in S => n + 1 \in S
  PROVE  \A n \in Nat : n \in S
<1> SUFFICES ASSUME NEW n \in Nat, n \notin S PROVE FALSE
  OBVIOUS
<1> DEFINE T == Nat \ S
           R == OpToRel(<, Nat)
<1>1. IsWellFoundedOn(R, Nat)
  BY NatLessThanWellFounded
<1>2. \A x, y \in Nat : y < x => <<y, x>> \in R
  BY DEF OpToRel
<1> HIDE DEF R
<1>3. T \in SUBSET Nat /\ T # {}
  OBVIOUS
<1>4. PICK x \in T : \A y \in T : ~(<<y, x>> \in R)
  BY <1>1, <1>3, WFMin
<1>5. x \in Nat /\ x # 0 /\ x \notin S
  BY <1>4
<1>6. x - 1 \in Nat /\ x - 1 < x /\ (x - 1) + 1 = x
  BY <1>5
<1>7. x - 1 \notin T
  BY <1>2, <1>4, <1>5, <1>6
<1> QED
  BY <1>5, <1>6, <1>7

(* What the recursion in partialSums says. *)
LEMMA PartialSums ==
  ASSUME NEW s \in Seq(Nat)
  PROVE  /\ partialSums(s)[0] = 0
         /\ \A i \in 0..Len(s) : partialSums(s)[i] \in Nat
         /\ \A i \in 1..Len(s) : partialSums(s)[i] = partialSums(s)[i - 1] + s[i]
<1> DEFINE Rec(f, n) == f = [i \in 0..n |-> IF i = 0 THEN 0 ELSE f[i - 1] + s[i]]
           S == {n \in Nat : n <= Len(s) => \E f : Rec(f, n)}
           p == partialSums(s)
           T == {n \in Nat : n <= Len(s) => p[n] \in Nat}
<1>1. Len(s) \in Nat /\ \A i \in 1..Len(s) : s[i] \in Nat
  OBVIOUS
<1>2. 0 \in S
  <2> DEFINE z == [i \in 0..0 |-> 0]
  <2>1. Rec(z, 0)
    OBVIOUS
  <2> QED
    BY <2>1
<1>3. ASSUME NEW n \in Nat, n \in S PROVE n + 1 \in S
  <2> SUFFICES ASSUME n + 1 <= Len(s) PROVE \E f : Rec(f, n + 1)
    OBVIOUS
  <2>1. PICK f : Rec(f, n)
    BY <1>1, <1>3
  <2> DEFINE g == [i \in 0..(n + 1) |-> IF i = n + 1 THEN f[n] + s[n + 1] ELSE f[i]]
  <2>2. \A i \in 0..n : f[i] = IF i = 0 THEN 0 ELSE f[i - 1] + s[i]
    BY <2>1
  <2>3. \A i \in 0..(n + 1) : g[i] = IF i = 0 THEN 0 ELSE g[i - 1] + s[i]
    BY <2>2
  <2>4. Rec(g, n + 1)
    BY <2>3
  <2> QED
    BY <2>4
<1> HIDE DEF S
<1>4. Len(s) \in S
  BY <1>1, <1>2, <1>3, SetInduction
<1>5. \E f : Rec(f, Len(s))
  BY <1>1, <1>4 DEF S
<1>6. p = CHOOSE f : Rec(f, Len(s))
  BY DEF partialSums
<1> HIDE DEF p
<1>7. Rec(p, Len(s))
  BY <1>5, <1>6
<1>8. \A i \in 0..Len(s) : p[i] = IF i = 0 THEN 0 ELSE p[i - 1] + s[i]
  BY <1>7
<1> HIDE DEF Rec
<1>9. 0 \in T
  BY <1>1, <1>8
<1>10. ASSUME NEW n \in Nat, n \in T PROVE n + 1 \in T
  <2> SUFFICES ASSUME n + 1 <= Len(s) PROVE p[n + 1] \in Nat
    OBVIOUS
  <2>1. n + 1 \in 0..Len(s) /\ n + 1 # 0 /\ (n + 1) - 1 = n /\ n + 1 \in 1..Len(s)
    BY <1>1
  <2>2. p[n] \in Nat
    BY <1>1, <1>10
  <2>3. p[n + 1] = p[n] + s[n + 1]
    BY <1>8, <2>1
  <2>4. s[n + 1] \in Nat
    BY <1>1, <2>1
  <2> QED
    BY <2>2, <2>3, <2>4
<1> HIDE DEF T
<1>11. \A n \in Nat : n \in T
  BY <1>9, <1>10, SetInduction
<1>12. \A i \in 0..Len(s) : p[i] \in Nat
  BY <1>1, <1>11 DEF T
<1> QED
  BY <1>1, <1>8, <1>12 DEF p

(* The sum of the deltas of a window. *)
LEMMA TotalIsNat == \A s \in Seq(Nat) : total(s) \in Nat
<1> SUFFICES ASSUME NEW s \in Seq(Nat) PROVE total(s) \in Nat
  OBVIOUS
<1>1. Len(s) \in 0..Len(s)
  OBVIOUS
<1> QED
  BY <1>1, PartialSums DEF total

(* Partial sums of sequences that agree up to a shift differ by a constant. *)
LEMMA SumsShift ==
  ASSUME NEW s \in Seq(Nat), NEW t \in Seq(Nat), NEW m \in Nat, NEW k \in Nat,
         k <= Len(t), k + m <= Len(s),
         \A i \in 1..k : t[i] = s[i + m]
  PROVE  partialSums(t)[k] = partialSums(s)[k + m] - partialSums(s)[m]
<1> DEFINE p == partialSums(s)
           q == partialSums(t)
           S == {n \in Nat : n <= k => q[n] = p[n + m] - p[m]}
<1>1. /\ Len(s) \in Nat /\ Len(t) \in Nat
      /\ q[0] = 0 /\ \A i \in 1..Len(t) : q[i] = q[i - 1] + t[i]
      /\ \A i \in 1..Len(s) : p[i] = p[i - 1] + s[i]
      /\ \A i \in 0..Len(s) : p[i] \in Nat
      /\ \A i \in 1..Len(s) : s[i] \in Nat
  BY PartialSums
<1> HIDE DEF p, q
<1>2. 0 \in S
  <2>1. m \in 0..Len(s) /\ 0 + m = m
    BY <1>1
  <2>2. p[m] \in Nat
    BY <1>1, <2>1
  <2> QED
    BY <1>1, <2>1, <2>2
<1>3. ASSUME NEW n \in Nat, n \in S PROVE n + 1 \in S
  <2> SUFFICES ASSUME n + 1 <= k PROVE q[n + 1] = p[(n + 1) + m] - p[m]
    OBVIOUS
  <2> DEFINE a == n + 1
             b == a + m
  <2>1. /\ a \in 1..Len(t) /\ a - 1 = n /\ a \in 1..k
        /\ b \in 1..Len(s) /\ b - 1 = n + m /\ n + m \in 0..Len(s) /\ m \in 0..Len(s)
    BY <1>1
  <2>2. q[n] = p[n + m] - p[m]
    BY <1>3, <2>1
  <2>3. p[n + m] \in Nat /\ p[m] \in Nat /\ s[b] \in Nat /\ t[a] = s[b]
    BY <1>1, <2>1
  <2>4. q[a] = q[n] + t[a] /\ p[b] = p[n + m] + s[b]
    BY <1>1, <2>1
  <2> DEFINE sum == p[n + m]
             before == p[m]
             last == s[b]
  <2>5. /\ q[a] = (sum - before) + last /\ p[b] = sum + last
        /\ sum \in Nat /\ before \in Nat /\ last \in Nat
    BY <2>2, <2>3, <2>4
  <2> HIDE DEF sum, before, last
  <2>6. (sum - before) + last = (sum + last) - before
    BY <2>5
  <2>7. q[a] = p[b] - before
    BY <2>5, <2>6
  <2> QED
    BY <2>7 DEF a, b, before
<1> HIDE DEF S
<1>4. k \in S
  BY <1>2, <1>3, SetInduction
<1>5. q[k] = p[k + m] - p[m]
  BY <1>4 DEF S
<1> QED
  BY <1>5 DEF p, q

(* A new delta adds to the sum, the oldest one leaves it. *)
LEMMA TotalOfAppend ==
  ASSUME NEW s \in Seq(Nat), NEW x \in Nat
  PROVE  total(Append(s, x)) = total(s) + x
<1> DEFINE t == Append(s, x)
           n == Len(s)
<1>1. n \in Nat /\ t \in Seq(Nat) /\ Len(t) = n + 1 /\ t[n + 1] = x /\ \A i \in 1..n : t[i] = s[i]
  BY AppendProperties
<1> HIDE DEF t
<1>2. partialSums(s)[n] = partialSums(t)[n + 0] - partialSums(t)[0]
  <2>1. 0 \in Nat /\ n <= Len(s) /\ n + 0 <= Len(t) /\ \A i \in 1..n : s[i] = t[i + 0]
    BY <1>1
  <2> HIDE DEF n
  <2> QED
    BY <1>1, <2>1, SumsShift
<1>3. /\ partialSums(t)[0] = 0 /\ partialSums(t)[n] \in Nat
      /\ partialSums(t)[n + 1] = partialSums(t)[n] + t[n + 1]
  <2>1. n + 1 \in 1..Len(t) /\ n \in 0..Len(t) /\ (n + 1) - 1 = n
    BY <1>1
  <2> QED
    BY <1>1, <2>1, PartialSums
<1>4. n + 0 = n
  BY <1>1
<1>5. partialSums(s)[n] = partialSums(t)[n]
  BY <1>2, <1>3, <1>4
<1> QED
  BY <1>1, <1>3, <1>5 DEF total, t

(* Dropping the oldest sample takes it off the sum.                         *)
LEMMA TotalOfTail ==
  ASSUME NEW s \in Seq(Nat), s # <<>>
  PROVE  /\ total(Tail(s)) = total(s) - Head(s)
         /\ Head(s) \in Nat
<1> DEFINE t == Tail(s)
           n == Len(t)
<1>1. /\ Head(s) \in Nat /\ t \in Seq(Nat) /\ n = Len(s) - 1 /\ n \in Nat
      /\ \A i \in 1..n : t[i] = s[i + 1]
  <2>1. Tail(s) \in Seq(Nat) /\ Head(s) \in Nat /\ Len(Tail(s)) = Len(s) - 1
        /\ \A i \in 1..Len(Tail(s)) : Tail(s)[i] = s[i + 1]
    BY HeadTailProperties
  <2>2. Len(Tail(s)) \in Nat
    BY <2>1
  <2> QED
    BY <2>1, <2>2
<1>2. Head(s) = s[1]
  OBVIOUS
<1> HIDE DEF t
<1>3. Len(s) \in Nat /\ Len(s) = n + 1 /\ n <= Len(t) /\ n + 1 <= Len(s)
  BY <1>1
<1> HIDE DEF n
<1>4. partialSums(t)[n] = partialSums(s)[n + 1] - partialSums(s)[1]
  <2>1. 1 \in Nat /\ \A i \in 1..n : t[i] = s[i + 1]
    BY <1>1
  <2>2. s \in Seq(Nat) /\ t \in Seq(Nat) /\ n \in Nat /\ n <= Len(t) /\ n + 1 <= Len(s)
    BY <1>1, <1>3
  <2> QED
    BY <2>1, <2>2, SumsShift
<1>5. partialSums(s)[1] = Head(s)
  <2>1. 1 \in 1..Len(s) /\ 1 - 1 = 0
    BY <1>1, <1>3
  <2>2. partialSums(s)[1] = partialSums(s)[0] + s[1] /\ partialSums(s)[0] = 0
    BY <2>1, PartialSums
  <2> QED
    BY <1>1, <1>2, <2>2
<1> QED
  BY <1>1, <1>3, <1>4, <1>5 DEF total, t, n

(* The last delta of a window is no more than their sum. *)
LEMMA LastBelowTotal ==
  ASSUME NEW s \in Seq(Nat), s # <<>>
  PROVE  s[Len(s)] <= total(s)
<1> DEFINE n == Len(s)
<1>1. n \in Nat /\ n # 0 /\ s[n] \in Nat
  <2>1. n \in Nat /\ n # 0
    BY EmptySeq
  <2>2. n \in 1..Len(s)
    BY <2>1
  <2> QED
    BY <2>1, <2>2, ElementOfSeq
<1>2. n \in 1..n /\ n - 1 \in 0..n
  BY <1>1
<1>3. partialSums(s)[n] = partialSums(s)[n - 1] + s[n] /\ partialSums(s)[n - 1] \in Nat
  BY <1>2, PartialSums
<1> QED
  BY <1>1, <1>3 DEF total
-----------------------------------------------------------------------------
(* The windows of StabilityEstimator.  Their contents are counted from the  *)
(* newest delta on, so that growing and sliding look alike.                 *)

back(s, i) == s[Len(s) - i]

(* t is s with x at its end, the oldest element gone or not. *)
Pushed(t, s, x) ==
  /\ t \in Seq(Nat) /\ t # <<>>
  /\ back(t, 0) = x
  /\ \A i \in Nat : i + 1 < Len(t) => back(t, i + 1) = back(s, i)

AverageState == [samples : Seq(Nat), sum : Nat, limitReached : BOOLEAN]

(* A window after n values *)
WindowOf(avg, n) ==
  /\ avg \in AverageState
  /\ Len(avg.samples) = smaller(n, WindowSize)
  /\ avg.limitReached <=> n >= WindowSize
  /\ avg.sum = total(avg.samples)

Occurrences == 0..MinOccurrences

StabilityState ==
  [isStable : BOOLEAN, nStable : Occurrences, nUnstable : Occurrences, seen : BOOLEAN,
   m1 : AverageState, m2 : AverageState]

(* The first window holds the newest deltas of r, the second one those that *)
(* left the first.                                                          *)
Windows(s, r) ==
  /\ s \in StabilityState
  /\ r \in Seq(Nat) /\ Len(r) <= 2 * WindowSize
  /\ WindowOf(s.m1, Len(r)) /\ WindowOf(s.m2, Len(r))
  /\ \A i \in 0..(Len(s.m1.samples) - 1) : back(s.m1.samples, i) = back(r, i)
  /\ \A i \in Nat : WindowSize + i < Len(r) => back(s.m2.samples, i) = back(r, WindowSize + i)

(* A delta off the period by more than the threshold *)
Off(d) == 100 * (d - Period) > Threshold * Period

(* Each irregular delta beyond a whole window of them was counted, and as   *)
(* many as minOccurrences_ end stability.                                   *)
IrregularsCounted(s, r) ==
  /\ \A j \in 1..WindowSize :
       WindowSize + j <= Len(r) /\ (\A i \in 0..(WindowSize + j - 1) : Off(back(r, i)))
         => s.nUnstable >= smaller(j, MinOccurrences)
  /\ s.nUnstable >= MinOccurrences => ~s.isStable

StableInv == Windows(stability, recent) /\ IrregularsCounted(stability, recent)

(* Appending is pushing, and so is appending to what an oldest element left.*)
LEMMA AppendPushes ==
  ASSUME NEW s \in Seq(Nat), NEW x \in Nat
  PROVE  /\ Pushed(Append(s, x), s, x)
         /\ Len(Append(s, x)) = Len(s) + 1
         /\ Pushed(Tail(Append(s, x)), s, x) \/ s = <<>>
         /\ Len(Tail(Append(s, x))) = Len(s)
         /\ s # <<>> => /\ Pushed(Append(Tail(s), x), s, x)
                        /\ Len(Append(Tail(s), x)) = Len(s)
<1> DEFINE t == Append(s, x)
           u == Tail(t)
           v == Append(Tail(s), x)
           n == Len(s)
<1>1. /\ t \in Seq(Nat) /\ t # <<>> /\ Len(t) = n + 1 /\ n \in Nat
      /\ t[n + 1] = x /\ \A i \in 1..n : t[i] = s[i]
  BY AppendProperties
<1> HIDE DEF t
<1>2. u \in Seq(Nat) /\ Len(u) = n /\ \A i \in 1..n : u[i] = t[i + 1]
  <2>1. Tail(t) \in Seq(Nat) /\ Len(Tail(t)) = Len(t) - 1
        /\ \A i \in 1..Len(Tail(t)) : Tail(t)[i] = t[i + 1]
    BY <1>1, HeadTailProperties
  <2> QED
    BY <1>1, <2>1
<1> HIDE DEF u
<1>3. Pushed(t, s, x)
  <2>1. back(t, 0) = x
    BY <1>1 DEF back
  <2>2. ASSUME NEW i \in Nat, i + 1 < Len(t) PROVE back(t, i + 1) = back(s, i)
    <3>1. n - i \in 1..n /\ (n + 1) - (i + 1) = n - i
      BY <1>1, <2>2
    <3> QED
      BY <1>1, <3>1 DEF back
  <2> QED
    BY <1>1, <2>1, <2>2 DEF Pushed
<1>4. ASSUME s # <<>> PROVE Pushed(u, s, x) /\ n # 0
  <2>1. n # 0
    BY <1>4, EmptySeq
  <2>2. back(u, 0) = x
    <3>1. n \in 1..n /\ n - 0 = n
      BY <1>1, <2>1
    <3> QED
      BY <1>1, <1>2, <3>1 DEF back
  <2>3. ASSUME NEW i \in Nat, i + 1 < Len(u) PROVE back(u, i + 1) = back(s, i)
    <3>1. n \in Nat /\ i + 1 < n
      BY <1>1, <1>2, <2>3
    <3> HIDE DEF n
    <3>2. n - (i + 1) \in 1..n /\ (n - (i + 1)) + 1 = n - i /\ n - i \in 1..n
      BY <3>1
    <3>3. u[n - (i + 1)] = t[n - i] /\ t[n - i] = s[n - i]
      BY <1>1, <1>2, <3>2
    <3> QED
      BY <1>2, <3>3 DEF back, n
  <2>4. u # <<>>
    BY <1>2, <2>1, EmptySeq
  <2> QED
    BY <1>2, <2>1, <2>2, <2>3, <2>4 DEF Pushed
<1>5. ASSUME s # <<>> PROVE v \in Seq(Nat) /\ Len(v) = n /\ Pushed(v, s, x)
  <2> DEFINE w == Tail(s)
  <2>1. w \in Seq(Nat) /\ Len(w) = n - 1 /\ \A i \in 1..(n - 1) : w[i] = s[i + 1]
    <3>1. Tail(s) \in Seq(Nat) /\ Len(Tail(s)) = Len(s) - 1
          /\ \A i \in 1..Len(Tail(s)) : Tail(s)[i] = s[i + 1]
      BY <1>5, HeadTailProperties
    <3> QED
      BY <3>1
  <2>2. v = Append(w, x)
    OBVIOUS
  <2> HIDE DEF w, v
  <2>3. v \in Seq(Nat) /\ Len(v) = n /\ v[n] = x /\ \A i \in 1..(n - 1) : v[i] = w[i]
    <3>1. /\ v \in Seq(Nat) /\ Len(v) = Len(w) + 1 /\ v[Len(w) + 1] = x
          /\ \A i \in 1..Len(w) : v[i] = w[i]
      BY <2>1, <2>2, AppendProperties
    <3>2. Len(w) + 1 = n
      BY <1>1, <2>1
    <3> QED
      BY <2>1, <3>1, <3>2
  <2>4. n # 0 /\ v # <<>>
    BY <1>4, <1>5, <2>3, EmptySeq
  <2>5. back(v, 0) = x
    BY <1>1, <2>3 DEF back
  <2>6. ASSUME NEW i \in Nat, i + 1 < Len(v) PROVE back(v, i + 1) = back(s, i)
    <3>1. n - (i + 1) \in 1..(n - 1) /\ (n - (i + 1)) + 1 = n - i
      <4>1. n \in Nat /\ i + 1 < n
        BY <1>1, <2>3, <2>6
      <4> HIDE DEF n
      <4> QED
        BY <4>1
    <3>2. v[n - (i + 1)] = s[n - i]
      BY <2>1, <2>3, <3>1
    <3> QED
      BY <2>3, <3>2 DEF back
  <2> QED
    BY <2>3, <2>4, <2>5, <2>6 DEF Pushed
<1> QED
  BY <1>1, <1>2, <1>3, <1>4, <1>5 DEF t, u, v, n

(* Average::newValue grows the window to its size and slides it then.       *)
LEMMA NewValue ==
  ASSUME NEW avg, NEW n \in Nat, WindowOf(avg, n), NEW x \in Nat
  PROVE  /\ WindowOf(newValue(avg, x), n + 1)
         /\ Pushed(newValue(avg, x).samples, avg.samples, x)
<1> DEFINE s == avg.samples
           pushed == Append(s, x)
           new == newValue(avg, x)
<1>1. /\ s \in Seq(Nat) /\ avg.sum \in Nat /\ avg.limitReached \in BOOLEAN
      /\ Len(s) = smaller(n, WindowSize) /\ (avg.limitReached <=> n >= WindowSize)
      /\ avg.sum = total(s) /\ WindowSize \in Nat \ {0}
  BY EstimatorsAssumption DEF WindowOf, AverageState
<1> HIDE DEF s
<1>2. /\ pushed \in Seq(Nat) /\ pushed # <<>> /\ Len(pushed) = Len(s) + 1 /\ Len(s) \in Nat
      /\ total(pushed) = avg.sum + x
  <2>1. pushed \in Seq(Nat) /\ pushed # <<>> /\ Len(pushed) = Len(s) + 1 /\ Len(s) \in Nat
    <3>1. s \in Seq(Nat) /\ x \in Nat
      BY <1>1
    <3>2. Len(s) \in Nat
      BY <3>1
    <3>3. pushed \in Seq(Nat) /\ pushed # <<>> /\ Len(pushed) = Len(s) + 1
      BY ONLY <3>1, AppendProperties
    <3> QED
      BY <3>2, <3>3
  <2>2. total(pushed) = total(s) + x
    BY <1>1, TotalOfAppend
  <2> QED
    BY <1>1, <2>1, <2>2
<1>3. CASE avg.limitReached
  <2>1. Len(s) = WindowSize /\ s # <<>>
    <3>1. Len(s) = WindowSize
      BY <1>1, <1>3 DEF smaller
    <3> QED
      BY <1>1, <3>1, EmptySeq
  <2> DEFINE u == Tail(pushed)
             sum == avg.sum + x - Head(pushed)
  <2>2. new = [samples |-> u, sum |-> sum, limitReached |-> TRUE]
    BY <1>3 DEF newValue, s
  <2>3. Pushed(u, s, x) /\ Len(u) = WindowSize
    BY <1>1, <2>1, AppendPushes
  <2>4. sum = total(u) /\ sum \in Nat
    <3>1. total(u) = total(pushed) - Head(pushed) /\ Head(pushed) \in Nat
      BY <1>2, TotalOfTail
    <3>2. total(u) \in Nat
      BY <2>3, TotalIsNat DEF Pushed
    <3> DEFINE h == Head(pushed)
               a == total(pushed)
               b == total(u)
               c == avg.sum
    <3>3. b = a - h /\ h \in Nat /\ b \in Nat /\ a = c + x /\ c \in Nat
      BY <1>1, <1>2, <3>1, <3>2
    <3>4. sum = c + x - h
      OBVIOUS
    <3> HIDE DEF a, b, c, h, sum
    <3>5. sum = b
      BY <3>3, <3>4
    <3> QED
      BY <3>3, <3>5 DEF b
  <2> HIDE DEF u, sum
  <2>5. new.samples = u /\ new.sum = sum /\ new.limitReached
    BY <2>2
  <2>6. new \in AverageState
    BY <2>2, <2>3, <2>4 DEF AverageState, Pushed
  <2>7. n + 1 >= WindowSize /\ smaller(n + 1, WindowSize) = WindowSize
    BY <1>1, <1>3 DEF smaller
  <2> HIDE DEF new
  <2>8. WindowOf(new, n + 1)
    BY <2>3, <2>4, <2>5, <2>6, <2>7 DEF WindowOf
  <2> QED
    BY <2>3, <2>5, <2>8 DEF new, s
<1>4. CASE ~avg.limitReached
  <2> DEFINE full == avg.limitReached \/ Len(pushed) = WindowSize
             sum == avg.sum + x
             sumOrRest == avg.sum + x - (IF avg.limitReached THEN Head(pushed) ELSE 0)
             some == IF avg.limitReached THEN Tail(pushed) ELSE pushed
  <2>1. new = [samples |-> some, sum |-> sumOrRest, limitReached |-> full]
    BY DEF newValue, s
  <2>2. sum \in Nat /\ full \in BOOLEAN
    BY <1>1
  <2>3. Pushed(pushed, s, x)
    BY <1>1, AppendPushes
  <2>4. Len(pushed) = smaller(n + 1, WindowSize)
    BY <1>1, <1>2, <1>4 DEF smaller
  <2>5. full <=> n + 1 >= WindowSize
    <3>1. Len(pushed) = WindowSize <=> n + 1 >= WindowSize
      BY <1>1, <1>2, <1>4 DEF smaller
    <3> QED
      BY <1>4, <3>1
  <2>6. sum = total(pushed) /\ some = pushed
    BY <1>2, <1>4
  <2>7. sumOrRest = sum
    <3>1. (IF avg.limitReached THEN Head(pushed) ELSE 0) = 0
      BY <1>4
    <3> HIDE DEF pushed
    <3> QED
      BY <1>1, <2>2, <3>1
  <2> HIDE DEF pushed, full, sum, sumOrRest, some
  <2>8. new.samples = pushed /\ new.sum = sum /\ new.limitReached = full
    BY <2>1, <2>6, <2>7
  <2>9. new \in AverageState
    BY <1>2, <2>1, <2>2, <2>6, <2>7 DEF AverageState
  <2> HIDE DEF new
  <2>10. new.limitReached <=> n + 1 >= WindowSize
    BY <2>5, <2>8
  <2>11. WindowOf(new, n + 1)
    BY <2>4, <2>6, <2>8, <2>9, <2>10 DEF WindowOf
  <2> QED
    BY <2>3, <2>8, <2>11 DEF new, s
<1> QED
  BY <1>1, <1>3, <1>4
(* What an occurrence leaves behind: enough irregular ones end stability.   *)
LEMMA Occurred ==
  ASSUME NEW s \in StabilityState, NEW regular \in BOOLEAN
  PROVE  /\ occurred(s, regular) \in StabilityState
         /\ occurred(s, regular).m1 = s.m1
         /\ occurred(s, regular).m2 = s.m2
         /\ occurred(s, regular).seen = s.seen
         /\ ~regular => occurred(s, regular).nUnstable = counted(s.nUnstable)
         /\ occurred(s, regular).nUnstable >= MinOccurrences => ~occurred(s, regular).isStable
<1> DEFINE nUnstable == IF regular THEN 0 ELSE counted(s.nUnstable)
           nStable == IF regular THEN counted(s.nStable)
                      ELSE IF nUnstable >= MinOccurrences THEN 0 ELSE s.nStable
           isStable == nStable >= MinOccurrences
           o == occurred(s, regular)
<1>1. MinOccurrences \in Nat /\ MinOccurrences >= 1
  BY EstimatorsAssumption
<1>2. counted(s.nStable) \in Occurrences /\ counted(s.nUnstable) \in Occurrences
  BY <1>1 DEF counted, smaller, StabilityState, Occurrences
<1>3. nUnstable \in Occurrences
  BY <1>1, <1>2 DEF Occurrences
<1>4. nStable \in Occurrences
  BY <1>1, <1>2 DEF Occurrences, StabilityState
<1>5. nUnstable >= MinOccurrences => ~isStable
  BY <1>1
<1>6. ~regular => nUnstable = counted(s.nUnstable)
  OBVIOUS
<1>7. isStable \in BOOLEAN
  OBVIOUS
<1>8. o = [s EXCEPT !.nStable = nStable, !.nUnstable = nUnstable, !.isStable = isStable]
  BY DEF occurred
<1> HIDE DEF nUnstable, nStable, isStable, o
<1>9. o \in StabilityState /\ o.m1 = s.m1 /\ o.m2 = s.m2 /\ o.seen = s.seen
  BY <1>3, <1>4, <1>7, <1>8 DEF StabilityState
<1>10. o.nUnstable = nUnstable /\ o.isStable = isStable
  BY <1>8 DEF StabilityState
<1> QED
  BY <1>5, <1>6, <1>9, <1>10 DEF o

(* A window of deltas that are all off is off as a whole. *)
LEMMA OffTotal ==
  ASSUME NEW s \in Seq(Nat), s # <<>>, \A i \in 1..Len(s) : Off(s[i])
  PROVE  100 * (total(s) - Period * Len(s)) > (Threshold * Period) * Len(s)
<1> DEFINE p == partialSums(s)
           q == Threshold * Period
           c == 100 * Period + q + 1
           S == {n \in Nat : n <= Len(s) => 100 * p[n] >= c * n}
<1>1. Period \in Nat /\ Threshold \in Nat
  BY EstimatorsAssumption
<1>2. q \in Nat
  BY <1>1
<1>3. /\ Len(s) \in Nat /\ Len(s) # 0 /\ p[0] = 0
      /\ \A i \in 0..Len(s) : p[i] \in Nat
      /\ \A i \in 1..Len(s) : p[i] = p[i - 1] + s[i]
      /\ \A i \in 1..Len(s) : s[i] \in Nat
  BY PartialSums, EmptySeq
<1> HIDE DEF p
<1>4. \A i \in 1..Len(s) : 100 * s[i] >= c
  <2> SUFFICES ASSUME NEW i \in 1..Len(s) PROVE 100 * s[i] >= c
    OBVIOUS
  <2>1. 100 * (s[i] - Period) > q /\ s[i] \in Nat
    BY <1>3 DEF Off
  <2> HIDE DEF q
  <2> QED
    BY <1>1, <1>2, <2>1
<1>5. c \in Nat
  BY <1>1, <1>2
<1> HIDE DEF q
<1> HIDE DEF c
<1>6. \A n \in Nat : c * n \in Nat /\ c * (n + 1) = c * n + c
  BY <1>5
<1>7. 0 \in S
  BY <1>3, <1>5
<1>8. ASSUME NEW n \in Nat, n \in S PROVE n + 1 \in S
  <2> SUFFICES ASSUME n + 1 <= Len(s) PROVE 100 * p[n + 1] >= c * (n + 1)
    OBVIOUS
  <2> DEFINE a == n + 1
             y == c * n
             z == c * a
  <2>1. a \in 1..Len(s) /\ a - 1 = n /\ n \in 0..Len(s) /\ n <= Len(s)
    BY <1>3
  <2>2. 100 * p[n] >= y
    BY <1>8, <2>1
  <2>3. y \in Nat /\ z = y + c
    BY <1>6
  <2>4. p[a] = p[n] + s[a] /\ p[n] \in Nat /\ s[a] \in Nat /\ 100 * s[a] >= c
    BY <1>3, <1>4, <2>1
  <2> DEFINE sum == p[n]
             next == p[a]
             last == s[a]
  <2>5. /\ next = sum + last /\ sum \in Nat /\ last \in Nat
        /\ 100 * last >= c /\ 100 * sum >= y
    BY <2>2, <2>4
  <2> HIDE DEF y, z, a, S, sum, next, last
  <2>6. 100 * next >= z
    BY <1>5, <2>3, <2>5
  <2> QED
    BY <2>6 DEF z, a, next
<1> HIDE DEF S
<1>9. Len(s) \in S
  BY <1>3, <1>7, <1>8, SetInduction
<1> DEFINE n == Len(s)
           t == total(s)
<1>10. 100 * t >= c * n /\ t \in Nat /\ n \in Nat /\ n >= 1
  BY <1>3, <1>9, TotalIsNat DEF S, total, p
<1> HIDE DEF n, t
<1>11. c * n = 100 * (Period * n) + q * n + n
  <2>1. c = 100 * Period + q + 1
    BY DEF c
  <2>2. (100 * Period + q + 1) * n = 100 * (Period * n) + q * n + n
    BY <1>1, <1>2, <1>10
  <2> QED
    BY <2>1, <2>2
<1>12. 100 * (t - Period * n) > q * n
  <2> DEFINE x == Period * n
             y == q * n
  <2>1. x \in Nat /\ y \in Nat
    BY <1>1, <1>2, <1>10
  <2>2. 100 * t >= 100 * x + y + n
    BY <1>10, <1>11
  <2> HIDE DEF x, y
  <2>3. 100 * (t - x) > y
    BY <1>10, <2>1, <2>2
  <2> QED
    BY <2>3 DEF x, y
<1> QED
  BY <1>12 DEF n, t, q

(* Such a first window is irregular, whatever the second holds. *)
LEMMA OffIsIrregular ==
  ASSUME NEW m1, NEW m2, m1.samples \in Seq(Nat), m1.samples # <<>>,
         m1.sum = total(m1.samples), \A i \in 1..Len(m1.samples) : Off(m1.samples[i])
  PROVE  ~isRegular(m1, m2)
<1> DEFINE n == Len(m1.samples)
           x == m1.sum
           y == Period * n
           z == Threshold * Period * n
<1>1. x \in Nat /\ y \in Nat /\ z \in Nat
  <2>1. Period \in Nat /\ Threshold \in Nat /\ n \in Nat
    BY EstimatorsAssumption
  <2>2. x \in Nat
    BY TotalIsNat
  <2> HIDE DEF n
  <2> QED
    BY <2>1, <2>2
<1>2. 100 * (x - y) > z
  BY OffTotal
<1> HIDE DEF x, y, z
<1>3. 100 * distance(x, y) > z
  BY <1>1, <1>2 DEF distance
<1>4. ~(100 * distance(x, y) <= z)
  <2>1. distance(x, y) \in Int
    BY <1>1 DEF distance
  <2> HIDE DEF n
  <2> QED
    BY <1>1, <1>3, <2>1
<1> QED
  BY <1>4 DEF isRegular, x, y, z
(* Both windows take a delta: the first the new one, the second the oldest  *)
(* of the first.                                                            *)
Fed(s, delta) ==
  [s EXCEPT !.m2 = newValue(s.m2, oldestValue(s.m1)), !.m1 = newValue(s.m1, delta)]

Remembered(r, delta) ==
  IF Len(r) < 2 * WindowSize THEN Append(r, delta) ELSE Append(Tail(r), delta)

(* The arrivals that the windows are compared with, after one more.         *)
LEMMA Remembering ==
  ASSUME NEW r \in Seq(Nat), Len(r) <= 2 * WindowSize, NEW delta \in Nat
  PROVE  /\ Pushed(Remembered(r, delta), r, delta)
         /\ Len(Remembered(r, delta)) = smaller(Len(r) + 1, 2 * WindowSize)
<1>1. WindowSize \in Nat /\ WindowSize > 0 /\ Len(r) \in Nat
  BY EstimatorsAssumption
<1>2. CASE Len(r) < 2 * WindowSize
  <2>1. Remembered(r, delta) = Append(r, delta)
    BY <1>2 DEF Remembered
  <2>2. smaller(Len(r) + 1, 2 * WindowSize) = Len(r) + 1
    BY <1>1, <1>2 DEF smaller
  <2> QED
    BY <2>1, <2>2, AppendPushes
<1>3. CASE Len(r) = 2 * WindowSize
  <2>1. Remembered(r, delta) = Append(Tail(r), delta)
    BY <1>1, <1>3 DEF Remembered
  <2>2. smaller(Len(r) + 1, 2 * WindowSize) = Len(r)
    BY <1>1, <1>3 DEF smaller
  <2>3. r # <<>>
    BY <1>1, <1>3, EmptySeq
  <2> QED
    BY <2>1, <2>2, <2>3, AppendPushes
<1> QED
  BY <1>1, <1>2, <1>3

(* Two times WindowSize values more do not change what a window is. *)
LEMMA FullWindow ==
  ASSUME NEW avg, NEW n \in Nat, NEW m \in Nat, WindowOf(avg, n), n >= WindowSize, m >= WindowSize
  PROVE  WindowOf(avg, m)
<1>1. smaller(n, WindowSize) = smaller(m, WindowSize)
  BY EstimatorsAssumption DEF smaller
<1> QED
  BY <1>1 DEF WindowOf

(* Both averages move on by one arrival, the second fed by the first.       *)
LEMMA WindowsSlide ==
  ASSUME NEW s, NEW r, Windows(s, r), NEW delta \in Nat
  PROVE  Windows(Fed(s, delta), Remembered(r, delta))
<1> DEFINE f == Fed(s, delta)
           new == Remembered(r, delta)
           oldest == oldestValue(s.m1)
           w1 == newValue(s.m1, delta)
           w2 == newValue(s.m2, oldest)
           n == Len(r)
           k == Len(new)
           W == WindowSize
<1>1. /\ s \in StabilityState /\ r \in Seq(Nat) /\ n <= 2 * W /\ n \in Nat
      /\ WindowOf(s.m1, n) /\ WindowOf(s.m2, n)
      /\ W \in Nat /\ W > 0
  BY EstimatorsAssumption DEF Windows
<1>2. /\ \A i \in 0..(Len(s.m1.samples) - 1) : back(s.m1.samples, i) = back(r, i)
      /\ \A i \in Nat : W + i < n => back(s.m2.samples, i) = back(r, W + i)
  BY DEF Windows
<1>3. /\ s.m1.samples \in Seq(Nat) /\ s.m2.samples \in Seq(Nat)
      /\ Len(s.m1.samples) = smaller(n, W) /\ Len(s.m2.samples) = smaller(n, W)
  BY <1>1 DEF WindowOf, AverageState
<1>4. Pushed(new, r, delta) /\ k = smaller(n + 1, 2 * W)
  BY <1>1, Remembering
<1>5. oldest \in Nat /\ (n >= W => oldest = s.m1.samples[1])
  <2>1. CASE s.m1.samples = <<>>
    <3>1. Len(s.m1.samples) = 0
      BY <2>1, EmptySeq
    <3>2. ~(n >= W)
      BY <1>1, <1>3, <3>1 DEF smaller
    <3>3. oldest = 0
      BY <2>1 DEF oldestValue
    <3> QED
      BY <3>2, <3>3
  <2>2. CASE s.m1.samples # <<>>
    <3>1. oldest = Head(s.m1.samples)
      BY <2>2 DEF oldestValue
    <3>2. Head(s.m1.samples) \in Nat /\ Head(s.m1.samples) = s.m1.samples[1]
      BY <1>3, <2>2, HeadTailProperties
    <3> QED
      BY <3>1, <3>2
  <2> QED
    BY <2>1, <2>2
<1> HIDE DEF oldest
<1>6. /\ WindowOf(w1, n + 1) /\ Pushed(w1.samples, s.m1.samples, delta)
      /\ WindowOf(w2, n + 1) /\ Pushed(w2.samples, s.m2.samples, oldest)
  BY <1>1, <1>5, NewValue
<1>7. f = [s EXCEPT !.m2 = w2, !.m1 = w1]
  BY DEF Fed, oldest
<1> HIDE DEF w1, w2, f, new, W
<1>8. w1 \in AverageState /\ w2 \in AverageState
  BY <1>6 DEF WindowOf
<1>9. f.m1 = w1 /\ f.m2 = w2 /\ f \in StabilityState
  BY <1>1, <1>7, <1>8 DEF StabilityState
<1>10. new \in Seq(Nat) /\ k \in Nat /\ k <= 2 * W /\ k <= n + 1 /\ (k < n + 1 => n >= W /\ k >= W)
  <2>1. new \in Seq(Nat)
    BY <1>4 DEF Pushed
  <2>2. k \in Nat
    BY <2>1
  <2> QED
    BY <1>1, <1>4, <2>1, <2>2 DEF smaller
<1>11. WindowOf(w1, k) /\ WindowOf(w2, k)
  <2>1. CASE k = n + 1
    BY <1>6, <2>1
  <2>2. CASE k < n + 1
    <3>1. n + 1 >= WindowSize /\ k >= WindowSize /\ n + 1 \in Nat
      BY <1>1, <1>10, <2>2 DEF W
    <3> QED
      BY <1>6, <1>10, <3>1, FullWindow
  <2> QED
    BY <1>1, <1>10, <2>1, <2>2
<1>12. /\ w1.samples \in Seq(Nat) /\ w2.samples \in Seq(Nat)
       /\ Len(w1.samples) = smaller(k, W) /\ Len(w2.samples) = smaller(k, W)
  BY <1>11 DEF WindowOf, AverageState, W
<1> HIDE DEF n, k
<1>13. \A i \in 0..(Len(w1.samples) - 1) : back(w1.samples, i) = back(new, i)
  <2> SUFFICES ASSUME NEW i \in 0..(Len(w1.samples) - 1) PROVE back(w1.samples, i) = back(new, i)
    OBVIOUS
  <2>1. i \in Nat /\ i < smaller(k, W)
    BY <1>1, <1>10, <1>12 DEF smaller
  <2>2. CASE i = 0
    BY <1>4, <1>6, <2>2 DEF Pushed
  <2>3. CASE i # 0
    <3> DEFINE j == i - 1
    <3>1. j \in Nat /\ i = j + 1
      BY <2>1, <2>3
    <3> HIDE DEF j
    <3>2. j + 1 < Len(w1.samples) /\ j + 1 < k
      BY <1>1, <1>10, <1>12, <2>1, <3>1 DEF smaller
    <3>3. j \in 0..(Len(s.m1.samples) - 1)
      BY <1>1, <1>3, <1>10, <2>1, <3>1 DEF smaller
    <3>4. back(w1.samples, j + 1) = back(s.m1.samples, j)
      BY <1>6, <3>1, <3>2 DEF Pushed
    <3>5. back(new, j + 1) = back(r, j)
      BY <1>4, <3>1, <3>2 DEF Pushed, k
    <3> QED
      BY <1>2, <3>1, <3>3, <3>4, <3>5
  <2> QED
    BY <2>2, <2>3
<1>14. \A i \in Nat : W + i < k => back(w2.samples, i) = back(new, W + i)
  <2> SUFFICES ASSUME NEW i \in Nat, W + i < k PROVE back(w2.samples, i) = back(new, W + i)
    OBVIOUS
  <2>1. n >= W /\ smaller(n, W) = W /\ smaller(k, W) = W /\ i < W
    BY <1>1, <1>10 DEF smaller
  <2>2. CASE i = 0
    <3>1. back(w2.samples, 0) = s.m1.samples[1]
      BY <1>5, <1>6, <2>1 DEF Pushed
    <3>2. (W - 1) \in 0..(Len(s.m1.samples) - 1) /\ Len(s.m1.samples) - (W - 1) = 1
          /\ (W - 1) + 1 = W /\ W - 1 \in Nat
      BY <1>1, <1>3, <2>1
    <3>3. s.m1.samples[1] = back(s.m1.samples, W - 1)
      BY <3>2 DEF back
    <3>4. back(new, (W - 1) + 1) = back(r, W - 1)
      <4>1. (W - 1) + 1 < k
        BY <1>1, <2>2, <3>2
      <4> QED
        BY <1>4, <3>2, <4>1 DEF Pushed, k
    <3>5. back(s.m1.samples, W - 1) = back(r, W - 1)
      BY <1>2, <3>2
    <3>6. W + i = (W - 1) + 1
      BY <1>1, <2>2, <3>2
    <3> QED
      BY <2>2, <3>1, <3>3, <3>4, <3>5, <3>6
  <2>3. CASE i # 0
    <3> DEFINE j == i - 1
    <3>1. j \in Nat /\ i = j + 1
      BY <2>3
    <3> HIDE DEF j
    <3>2. j + 1 < Len(w2.samples) /\ (W + j) + 1 < k /\ W + j < n /\ W + j \in Nat
          /\ W + i = (W + j) + 1
      BY <1>1, <1>10, <1>12, <2>1, <3>1
    <3>3. back(w2.samples, j + 1) = back(s.m2.samples, j)
      BY <1>6, <3>1, <3>2 DEF Pushed
    <3>4. back(new, (W + j) + 1) = back(r, W + j)
      BY <1>4, <3>2 DEF Pushed, k
    <3>5. back(s.m2.samples, j) = back(r, W + j)
      BY <1>2, <3>1, <3>2
    <3> QED
      BY <3>1, <3>2, <3>3, <3>4, <3>5
  <2> QED
    BY <2>2, <2>3
<1> QED
  BY <1>9, <1>10, <1>11, <1>13, <1>14 DEF Windows, f, new, W, k
(* A delta that makes the irregular ones outgrow a window is counted. *)
LEMMA StableArrival ==
  ASSUME NEW s, NEW r, Windows(s, r), IrregularsCounted(s, r), NEW delta \in Nat, s.seen
  PROVE  /\ Windows(newDataArrived(s, delta), Remembered(r, delta))
         /\ IrregularsCounted(newDataArrived(s, delta), Remembered(r, delta))
<1> DEFINE f == Fed(s, delta)
           new == Remembered(r, delta)
           regular == isRegular(f.m1, f.m2)
           judged == f.m1.sum # 0 /\ f.m2.sum # 0
           o == newDataArrived(s, delta)
           n == Len(r)
           k == Len(new)
           W == WindowSize
           M == MinOccurrences
<1>1. /\ W \in Nat /\ W > 0 /\ M \in Nat /\ M >= 1 /\ Period \in Nat
      /\ s \in StabilityState /\ r \in Seq(Nat) /\ n \in Nat /\ n <= 2 * W
  BY EstimatorsAssumption DEF Windows
<1>2. /\ Windows(f, new) /\ f \in StabilityState
      /\ f.m1 \in AverageState /\ f.m2 \in AverageState
      /\ WindowOf(f.m1, k) /\ WindowOf(f.m2, k)
  BY WindowsSlide DEF Windows, StabilityState
<1>3. Pushed(new, r, delta) /\ k = smaller(n + 1, 2 * W)
  BY <1>1, Remembering
<1>4. f.nUnstable = s.nUnstable /\ f.isStable = s.isStable
  BY <1>1 DEF Fed, StabilityState
<1>5. o = IF judged THEN occurred(f, regular) ELSE f
  BY DEF newDataArrived, Fed
<1>6. k \in Nat /\ k <= n + 1 /\ k <= 2 * W
  BY <1>1, <1>3 DEF smaller
<1>7. f.nUnstable \in Nat /\ s.nUnstable \in Nat /\ o.m1 = f.m1 /\ o.m2 = f.m2 /\ o \in StabilityState
  <2>1. regular \in BOOLEAN
    BY DEF isRegular
  <2> HIDE DEF f, regular, judged, o
  <2>2. f.nUnstable \in Nat /\ s.nUnstable \in Nat
    BY <1>1, <1>2 DEF StabilityState, Occurrences
  <2> QED
    BY <1>2, <1>5, <2>1, <2>2, Occurred
<1> HIDE DEF f, new, o, n, k, regular, W, M
<1>8. Windows(o, new)
  BY <1>2, <1>7 DEF Windows
<1>9. ASSUME NEW j \in 1..W, W + j <= k, \A i \in 0..(W + j - 1) : Off(back(new, i))
      PROVE  judged /\ ~regular
  <2> DEFINE a == f.m1.samples
             b == f.m2.samples
  <2>1. a \in Seq(Nat) /\ b \in Seq(Nat) /\ Len(a) = W /\ Len(b) = W
        /\ f.m1.sum = total(a) /\ f.m2.sum = total(b)
    <3>1. smaller(k, W) = W
      BY <1>1, <1>6, <1>9 DEF smaller
    <3> QED
      BY <1>2, <3>1 DEF WindowOf, AverageState, W
  <2>2. \A i \in 0..(Len(a) - 1) : back(a, i) = back(new, i)
    BY <1>2 DEF Windows
  <2>3. \A i \in Nat : W + i < k => back(b, i) = back(new, W + i)
    BY <1>2 DEF Windows, W, k
  <2> HIDE DEF a, b
  <2>4. a # <<>> /\ b # <<>>
    BY <1>1, <2>1, EmptySeq
  <2>5. \A i \in 1..Len(a) : Off(a[i])
    <3> SUFFICES ASSUME NEW i \in 1..Len(a) PROVE Off(a[i])
      OBVIOUS
    <3>1. W - i \in 0..(Len(a) - 1) /\ Len(a) - (W - i) = i /\ W - i \in 0..(W + j - 1)
      BY <1>1, <2>1, <1>9
    <3>2. a[i] = back(a, W - i)
      BY <3>1 DEF back
    <3> QED
      BY <1>9, <2>2, <3>1, <3>2
  <2>6. ~regular
    BY <2>1, <2>4, <2>5, OffIsIrregular DEF a, regular
  <2>7. a[W] \in Nat /\ b[W] \in Nat /\ Off(a[W]) /\ Off(b[W])
    <3>1. W \in 1..Len(a) /\ W \in 1..Len(b)
      BY <1>1, <2>1
    <3>2. a[W] \in Nat /\ b[W] \in Nat
      BY <2>1, <3>1, ElementOfSeq
    <3>3. W + 0 < k /\ W + 0 \in 0..(W + j - 1) /\ Len(b) - 0 = W
      BY <1>1, <1>6, <1>9, <2>1
    <3>4. back(b, 0) = back(new, W + 0)
      BY <2>3, <3>3
    <3>5. b[W] = back(new, W + 0)
      BY <3>3, <3>4 DEF back
    <3> QED
      BY <1>9, <2>5, <3>1, <3>2, <3>3, <3>5
  <2>8. a[W] > 0 /\ b[W] > 0
    <3> SUFFICES ASSUME NEW d \in Nat, Off(d) PROVE d > 0
      BY <2>7
    <3>1. Threshold * Period >= 0 /\ Threshold * Period \in Nat
      <4>1. Threshold \in Nat
        BY EstimatorsAssumption
      <4> QED
        BY <1>1, <4>1
    <3> DEFINE q == Threshold * Period
    <3>2. 100 * (d - Period) > q /\ q \in Nat
      BY <3>1 DEF Off
    <3> HIDE DEF q
    <3> QED
      BY <1>1, <3>2
  <2>9. a[W] <= total(a) /\ b[W] <= total(b) /\ total(a) \in Nat /\ total(b) \in Nat
    BY <2>1, <2>4, LastBelowTotal, TotalIsNat
  <2>10. total(a) # 0 /\ total(b) # 0
    BY <2>7, <2>8, <2>9
  <2> QED
    BY <2>1, <2>6, <2>10
<1>10. ASSUME NEW j \in 1..W, W + j <= k, \A i \in 0..(W + j - 1) : Off(back(new, i))
       PROVE  o.nUnstable >= smaller(j, M)
  <2>1. judged /\ ~regular
    BY <1>9, <1>10
  <2>2. o = occurred(f, regular) /\ regular \in BOOLEAN
    BY <1>5, <2>1 DEF isRegular, regular
  <2>3. o.nUnstable = counted(s.nUnstable)
    BY <1>2, <1>4, <2>1, <2>2, Occurred
  <2>4. CASE j = 1
    BY <1>1, <1>7, <2>3, <2>4 DEF counted, smaller, M
  <2>5. CASE j # 1
    <3> DEFINE h == j - 1
    <3>1. h \in 1..W /\ j = h + 1 /\ W + h <= n
      BY <1>1, <1>6, <1>10, <2>5
    <3> HIDE DEF h
    <3>2. \A i \in 0..(W + h - 1) : Off(back(r, i))
      <4> SUFFICES ASSUME NEW i \in 0..(W + h - 1) PROVE Off(back(r, i))
        OBVIOUS
      <4>1. i \in Nat /\ i + 1 < k /\ i + 1 \in 0..(W + j - 1)
        BY <1>1, <1>6, <1>10, <3>1
      <4>2. back(new, i + 1) = back(r, i)
        BY <1>3, <4>1 DEF Pushed, k
      <4>3. Off(back(new, i + 1))
        BY <1>10, <4>1
      <4> QED
        BY <4>2, <4>3
    <3>3. s.nUnstable >= smaller(h, M)
      BY <3>1, <3>2 DEF IrregularsCounted, W, M, n
    <3> QED
      BY <1>1, <1>7, <2>3, <3>1, <3>3 DEF counted, smaller, M
  <2> QED
    BY <2>4, <2>5
<1>11. o.nUnstable >= M => ~o.isStable
  <2>1. s.nUnstable >= M => ~s.isStable
    BY DEF IrregularsCounted, M
  <2>2. CASE judged
    <3>1. regular \in BOOLEAN
      BY DEF isRegular, regular
    <3>2. o = occurred(f, regular)
      BY <1>5, <2>2
    <3> QED
      BY <1>2, <3>1, <3>2, Occurred DEF M
  <2>3. CASE ~judged
    BY <1>4, <1>5, <2>1, <2>3
  <2> QED
    BY <2>2, <2>3
<1> QED
  BY <1>8, <1>10, <1>11 DEF IrregularsCounted, o, new, W, M, k

(* Empty windows are windows of no arrivals.                                *)
LEMMA NewWindows == Windows(NewStability, <<>>) /\ IrregularsCounted(NewStability, <<>>)
<1> DEFINE e == <<>>
           s == NewStability
<1>1. WindowSize \in Nat /\ WindowSize > 0 /\ MinOccurrences \in Nat /\ MinOccurrences >= 1
  BY EstimatorsAssumption
<1>2. e \in Seq(Nat) /\ Len(e) = 0
  BY EmptySeq
<1>3. NewAverage.samples = e /\ NewAverage.sum = 0 /\ NewAverage.limitReached = FALSE
  BY DEF NewAverage
<1>4. NewAverage \in AverageState
  BY <1>2 DEF NewAverage, AverageState
<1>5. s.m1 = NewAverage /\ s.m2 = NewAverage /\ s.nUnstable = 0
  BY DEF NewStability
<1>6. s \in StabilityState
  BY <1>1, <1>4 DEF NewStability, StabilityState, Occurrences
<1> HIDE DEF e, s
<1>7. total(e) = 0
  BY <1>2, PartialSums DEF total
<1>8. WindowOf(NewAverage, 0)
  <2>1. smaller(0, WindowSize) = 0 /\ ~(0 >= WindowSize)
    BY <1>1 DEF smaller
  <2> QED
    BY <1>2, <1>3, <1>4, <1>7, <2>1 DEF WindowOf
<1>9. 0..(Len(NewAverage.samples) - 1) = {} /\ \A i \in Nat : ~(WindowSize + i < Len(e))
  BY <1>1, <1>2, <1>3
<1>10. Windows(s, e)
  BY <1>1, <1>2, <1>5, <1>6, <1>8, <1>9 DEF Windows
<1>11. IrregularsCounted(s, e)
  BY <1>1, <1>2, <1>5 DEF IrregularsCounted
<1> QED
  BY <1>10, <1>11 DEF e, s

(* The estimator starts with empty windows.                                 *)
LEMMA StableInvInit == LCInit => StableInv
  BY NewWindows DEF LCInit, StableInv

(* An arrival slides the windows, everything else leaves them alone or      *)
(* empties them.                                                            *)
LEMMA StableInvNext == StableInv /\ [LCNext]_lcVars => StableInv'
<1> SUFFICES ASSUME StableInv, [LCNext]_lcVars PROVE StableInv'
  OBVIOUS
<1>1. ASSUME NEW delta \in Deltas, SampleArrived(delta) PROVE StableInv'
  <2>1. delta \in Nat
    BY EstimatorsAssumption
  <2>2. /\ stability' = newDataArrived(stability, delta)
        /\ recent' = IF ~stability.seen THEN recent ELSE Remembered(recent, delta)
    BY <1>1 DEF SampleArrived, Remembered
  <2>3. CASE stability.seen
    BY <2>1, <2>2, <2>3, StableArrival DEF StableInv
  <2>4. CASE ~stability.seen
    <3> PICK s : s = stability
      OBVIOUS
    <3> DEFINE o == [s EXCEPT !.seen = TRUE]
    <3>1. stability' = o /\ recent' = recent
      BY <2>2, <2>4 DEF newDataArrived
    <3>2. Windows(s, recent) /\ IrregularsCounted(s, recent) /\ s \in StabilityState
      BY DEF StableInv, Windows
    <3>3. o \in StabilityState /\ o.m1 = s.m1 /\ o.m2 = s.m2
          /\ o.nUnstable = s.nUnstable /\ o.isStable = s.isStable
      BY <3>2 DEF StabilityState
    <3> HIDE DEF o
    <3>4. Windows(o, recent)
      BY <3>2, <3>3 DEF Windows
    <3>5. IrregularsCounted(o, recent)
      BY <3>2, <3>3 DEF IrregularsCounted
    <3> QED
      BY <3>1, <3>4, <3>5 DEF StableInv
  <2> QED
    BY <2>3, <2>4
<1>2. CASE ResetControls
  BY <1>2, NewWindows DEF ResetControls, StableInv
<1>3. ASSUME UNCHANGED <<stability, recent>> PROVE StableInv'
  BY <1>3 DEF StableInv
<1>4. ASSUME NEW calm \in BOOLEAN, NEW move \in Moves,
             CachedDrd(calm, move) \/ \E demand \in Demands : OriginalDrd(calm, move, demand)
      PROVE  UNCHANGED <<stability, recent>>
  BY <1>4 DEF CachedDrd, OriginalDrd, OnDrdUpdate
<1>5. ASSUME InterestStep \/ UNCHANGED lcVars PROVE UNCHANGED <<stability, recent>>
  BY <1>5 DEF InterestStep, lcVars, estimatorVars
<1> QED
  BY <1>1, <1>2, <1>3, <1>4, <1>5 DEF LCNext

(* Two full windows laid end to end are what was remembered. *)
LEMMA FullWindowsAdjacent ==
  ASSUME NEW s, NEW r, Windows(s, r), Len(r) = 2 * WindowSize
  PROVE  r = s.m2.samples \o s.m1.samples
<1> DEFINE a == s.m1.samples
           b == s.m2.samples
           both == b \o a
           W == WindowSize
<1>1. /\ W \in Nat /\ W > 0 /\ r \in Seq(Nat) /\ Len(r) = W + W
      /\ WindowOf(s.m1, Len(r)) /\ WindowOf(s.m2, Len(r))
      /\ \A i \in 0..(Len(a) - 1) : back(a, i) = back(r, i)
      /\ \A i \in Nat : W + i < Len(r) => back(b, i) = back(r, W + i)
  BY EstimatorsAssumption DEF Windows
<1>2. a \in Seq(Nat) /\ b \in Seq(Nat) /\ Len(a) = W /\ Len(b) = W
  <2>1. smaller(Len(r), W) = W
    BY <1>1 DEF smaller
  <2> QED
    BY <1>1, <2>1 DEF WindowOf, AverageState
<1> HIDE DEF a, b, W
<1>3. /\ both \in Seq(Nat) /\ Len(both) = W + W
      /\ \A i \in 1..(W + W) : both[i] = IF i <= W THEN b[i] ELSE a[i - W]
  <2>1. /\ both \in Seq(Nat) /\ Len(both) = Len(b) + Len(a)
        /\ \A i \in 1..(Len(b) + Len(a)) : both[i] = IF i <= Len(b) THEN b[i] ELSE a[i - Len(b)]
    BY <1>2, ConcatProperties
  <2> HIDE DEF both
  <2> QED
    BY <1>2, <2>1
<1> HIDE DEF both
<1>4. ASSUME NEW i \in 1..(W + W) PROVE r[i] = both[i]
  <2>1. CASE i <= W
    <3>1. W - i \in Nat /\ W + (W - i) < W + W /\ W - (W - i) = i
          /\ (W + W) - (W + (W - i)) = i
      <4>1. W \in Nat /\ i \in 1..(W + W) /\ i <= W
        BY <1>1, <2>1
      <4> QED
        BY <4>1
    <3>2. back(b, W - i) = back(r, W + (W - i))
      BY <1>1, <3>1
    <3> QED
      BY <1>1, <1>2, <1>3, <2>1, <3>1, <3>2 DEF back
  <2>2. CASE i > W
    <3>1. (W + W) - i \in 0..(W - 1) /\ W - ((W + W) - i) = i - W
          /\ (W + W) - ((W + W) - i) = i /\ ~(i <= W)
      <4>1. W \in Nat /\ i \in 1..(W + W) /\ i > W
        BY <1>1, <2>2
      <4> QED
        BY <4>1
    <3>2. back(a, (W + W) - i) = back(r, (W + W) - i)
      BY <1>1, <1>2, <3>1
    <3> QED
      BY <1>1, <1>2, <1>3, <3>1, <3>2 DEF back
  <2> QED
    BY <1>1, <2>1, <2>2
<1> QED
  BY <1>1, <1>3, <1>4, SeqEqual DEF both, a, b

(* The claim about the estimators, from both invariants. *)
LEMMA StableInvSuffices == WaitInv /\ StableInv => StabilityIsRecent
<1> SUFFICES ASSUME WaitInv, StableInv PROVE StabilityIsRecent
  OBVIOUS
<1> DEFINE n == Len(recent)
           W == WindowSize
<1>1. /\ W \in Nat /\ W > 0 /\ MinOccurrences \in Nat /\ MinOccurrences \in 1..W
      /\ stability \in StabilityState /\ recent \in Seq(Nat) /\ n \in Nat
      /\ WindowOf(stability.m1, n) /\ WindowOf(stability.m2, n)
  BY EstimatorsAssumption DEF StableInv, Windows
<1>2. EstimatorsTypeOK
  <2>1. stability.nStable \in 0..MinOccurrences /\ stability.nUnstable \in 0..MinOccurrences
    BY <1>1 DEF StabilityState, Occurrences
  <2>2. ASSUME NEW avg, WindowOf(avg, n)
        PROVE  Len(avg.samples) <= WindowSize /\ avg.sum \in Nat
    BY <1>1, <2>2 DEF WindowOf, AverageState, smaller
  <2>3. \A avg \in {stability.m1, stability.m2} :
          Len(avg.samples) <= WindowSize /\ avg.sum \in Nat
    BY <1>1, <2>2
  <2> QED
    BY <2>1, <2>3 DEF EstimatorsTypeOK, WaitInv, DrdState, ChangeCounts
<1>3. WindowsAdjacent
  <2>1. \A avg \in {stability.m1, stability.m2} : avg.sum = total(avg.samples)
    BY <1>1 DEF WindowOf
  <2>2. Len(recent) = 2 * WindowSize => recent = stability.m2.samples \o stability.m1.samples
    BY FullWindowsAdjacent DEF StableInv
  <2> QED
    BY <2>1, <2>2 DEF WindowsAdjacent
<1>4. ASSUME n = 2 * W,
             \A i \in DOMAIN recent : 100 * (recent[i] - Period) > Threshold * Period
      PROVE  ~stability.isStable
  <2>1. W \in 1..WindowSize /\ WindowSize + W <= Len(recent)
    BY <1>1, <1>4
  <2>2. \A i \in 0..(WindowSize + W - 1) : Off(back(recent, i))
    <3> SUFFICES ASSUME NEW i \in 0..(W + W - 1) PROVE Off(back(recent, i))
      OBVIOUS
    <3>1. n - i \in 1..n
      BY <1>1, <1>4
    <3>2. DOMAIN recent = 1..n
      BY <1>1
    <3> QED
      BY <1>4, <3>1, <3>2 DEF Off, back
  <2>3. stability.nUnstable >= smaller(W, MinOccurrences)
    BY <2>1, <2>2 DEF StableInv, IrregularsCounted
  <2>4. smaller(W, MinOccurrences) = MinOccurrences
    BY <1>1 DEF smaller
  <2> QED
    BY <2>3, <2>4 DEF StableInv, IrregularsCounted
<1> QED
  BY <1>2, <1>3, <1>4 DEF StabilityIsRecent

(* Whatever the size of the windows and however the deltas come: the two    *)
(* windows of StabilityEstimator are adjacent, their sums are those of what *)
(* they hold, and a stream whose deltas were all off the period by more     *)
(* than the threshold is not held stable.                                   *)
THEOREM OldArrivalsDoNotCount == LCSpec => []StabilityIsRecent
<1>1. LCSpec => [](WaitInv /\ StableInv)
  BY WaitInvInit, WaitInvNext, StableInvInit, StableInvNext, PTL DEF LCSpec
<1> QED
  BY <1>1, StableInvSuffices, PTL
-----------------------------------------------------------------------------
(* The records that the callbacks of PipelineControl hand on.               *)

WorldType ==
  [ic : ICState, maxDemand : MaxDemands, mark : Nat,
   state : {"Idle", "Bootstrapping", "Adjusting", "Fetching"},
   observers : Nat, hasMeta : BOOLEAN, asked : 0..MaxAsked, rejected : BOOLEAN,
   allowed : BOOLEAN, latency : [command : Commands, waitForChange : BOOLEAN],
   active : BOOLEAN, starved : BOOLEAN,
   fault : {"none", "started already", "Unsupported state", "assert(pipeline_ >= 0)"}]

(* A record with limits within bounds; every function of the control loop   *)
(* keeps this.                                                              *)
Sound(w) == w \in WorldType /\ Good(w.ic) /\ 1 <= w.mark /\ w.mark <= Cap

(* The mark m holds the limit up as far as the upper limit lets it.         *)
Floor(r, m) == r.limitSet /\ m <= r.lower /\ smaller(m, r.upper) <= r.limit

(* The pipeline has not fallen below m, unless under an upper limit that    *)
(* crossed an earlier, marked lower one.                                    *)
NotBelow(r, m) == m <= r.limit \/ Floor(r, m)

(* What the states of a machine of kind k say about the pipeline: a         *)
(* playback-driven machine that plays has something outstanding, Adjusting  *)
(* has not fallen below the mark, Fetching rests on it.                     *)
Settled(w, k) ==
  /\ w.state \in {"Adjusting", "Fetching"} /\ k = "seed" => w.ic.pipeline >= 1
  /\ w.state = "Adjusting" => k # "seed" /\ NotBelow(w.ic, w.mark)
  /\ w.state = "Fetching" /\ k # "seed" => Floor(w.ic, w.mark)

Scratch(w) == w.ic = icReset /\ w.latency = latencyReset

Session(w, k) ==
  /\ w.fault = "none" \/ (k = "seed" /\ w.fault = "Unsupported state")
  /\ IF w.active THEN w.state # "Idle" /\ w.observers = 1
     ELSE w.state = "Idle" /\ w.observers = 0
  /\ w.allowed <=> w.state \in {"Adjusting", "Fetching"}
  /\ w.state \in {"Adjusting", "Fetching"} => ~w.starved
  /\ w.state = "Bootstrapping" /\ k # "seed" /\ ~w.hasMeta => Scratch(w)

WInv(w, k) == k \in Kinds /\ Sound(w) /\ Session(w, k) /\ Settled(w, k)

-----------------------------------------------------------------------------
(* What the operations of InterestControl do to a mark.                     *)

(* changeLimitTo puts limit_ between the limits, the upper one prevailing.  *)
LEMMA ChangeLimitFields ==
  ASSUME NEW r \in ICState, NEW x \in Int
  PROVE  /\ changeLimitTo(r, x).lower = r.lower /\ changeLimitTo(r, x).upper = r.upper
         /\ changeLimitTo(r, x).limitSet = r.limitSet
         /\ changeLimitTo(r, x).pipeline = r.pipeline
         /\ changeLimitTo(r, x).limit \in Int
         /\ smaller(larger(x, r.lower), r.upper) <= changeLimitTo(r, x).limit
<1> DEFINE lim == IF x < r.lower THEN r.lower ELSE IF x > r.upper THEN r.upper ELSE x
<1>1. lim \in Int /\ smaller(larger(x, r.lower), r.upper) <= lim
  BY DEF ICState, smaller, larger
<1>2. changeLimitTo(r, x) = [r EXCEPT !.limit = lim]
  BY DEF changeLimitTo
<1> HIDE DEF lim
<1> QED
  BY <1>1, <1>2 DEF ICState

(* setLimits shortens the pipeline no further than to a lower upper limit,  *)
(* and takes no mark back.                                                  *)
LEMMA SetLimitsFloor ==
  ASSUME NEW r, Good(r), NEW d \in Demands, NEW md \in MaxDemands, NEW m \in Nat
  PROVE  /\ NotBelow(r, m) => NotBelow(setLimits(r, d, md), m)
         /\ setLimits(r, d, md).pipeline = r.pipeline
         /\ setLimits(r, d, md).limitSet = r.limitSet
         /\ Floor(r, m) => Floor(setLimits(r, d, md), m)
<1> DEFINE L == strategyLower(d, md)
           U == strategyUpper(d, md)
           low == IF ~r.limitSet \/ L > r.lower THEN L ELSE r.lower
           moved == [r EXCEPT !.lower = low, !.upper = U]
           new == setLimits(r, d, md)
<1>1. L \in Nat /\ U \in Nat /\ L <= U
  BY StrategyLimits
<1> HIDE DEF L, U
<1>2. /\ r \in ICState /\ r.limitSet \in BOOLEAN
      /\ r.lower \in Nat /\ r.limit \in Nat /\ r.upper \in Nat
  BY DEF Good, ICState
<1>3. low \in Nat /\ (r.limitSet => r.lower <= low) /\ (~r.limitSet => low <= U)
  BY <1>1, <1>2
<1>4. /\ moved \in ICState
      /\ moved.lower = low /\ moved.upper = U /\ moved.limit = r.limit
      /\ moved.pipeline = r.pipeline /\ moved.limitSet = r.limitSet
  BY <1>1, <1>2, <1>3 DEF ICState
<1>5. \/ new = r
      \/ moved.limit < moved.lower /\ new = changeLimitTo(moved, moved.lower)
      \/ ~(moved.limit < moved.lower) /\ new = moved
  BY DEF setLimits, L, U
<1> HIDE DEF low, moved, new
<1>6. CASE new = r
  BY <1>6 DEF new
<1>7. CASE moved.limit < moved.lower /\ new = changeLimitTo(moved, moved.lower)
  <2>1. /\ new.lower = low /\ new.upper = U /\ new.limitSet = r.limitSet
        /\ new.pipeline = r.pipeline /\ new.limit \in Int
        /\ smaller(low, U) <= new.limit
    BY <1>3, <1>4, <1>7, ChangeLimitFields DEF larger
  <2> QED
    BY <1>1, <1>2, <1>3, <1>4, <1>7, <2>1 DEF new, NotBelow, Floor, smaller
<1>8. CASE ~(moved.limit < moved.lower) /\ new = moved
  BY <1>1, <1>2, <1>3, <1>4, <1>8 DEF new, NotBelow, Floor, smaller
<1> QED
  BY <1>5, <1>6, <1>7, <1>8

(* A floor carries any change of limit_.                                    *)
LEMMA ChangeLimitFloor ==
  ASSUME NEW r \in ICState, NEW x \in Int, NEW m \in Nat
  PROVE  /\ Floor(r, m) => Floor(changeLimitTo(r, x), m)
         /\ m <= x => smaller(m, changeLimitTo(r, x).upper) <= changeLimitTo(r, x).limit
<1>1. r.lower \in Nat /\ r.upper \in Nat /\ r.limit \in Nat
  BY DEF ICState
<1> QED
  BY <1>1, ChangeLimitFields DEF Floor, smaller, larger

(* A burst of a bounded pipeline asks for more than there was.              *)
LEMMA BurstAsksForMore ==
  ASSUME NEW limit \in 1..Cap
  PROVE  /\ (limit + strategyBurst(limit)) % WordSize \in Int
         /\ limit <= (limit + strategyBurst(limit)) % WordSize
<1>1. Cap \in Nat /\ WordSize \in Nat \ {0} /\ 2 * Cap < WordSize
  BY InterestControlAssumption, PipelineControlAssumption
<1>2. strategyBurst(limit) \in Nat /\ strategyBurst(limit) <= limit
  BY <1>1 DEF strategyBurst
<1> DEFINE x == limit + strategyBurst(limit)
<1>3. x \in Nat /\ limit <= x /\ x < WordSize
  BY <1>1, <1>2
<1>4. x % WordSize = x
  <2> HIDE DEF x
  <2> QED
    BY <1>1, <1>3
<1> QED
  BY <1>3, <1>4

(* A command of the latency control keeps a floor; one that does not        *)
(* shorten the pipeline keeps it above what it was not below.               *)
LEMMA AdjustmentFloor ==
  ASSUME NEW r, Good(r), NEW c \in Commands, NEW m \in Nat
  PROVE  LET new == needPipelineAdjustment(r, c) IN
         /\ Good(new) /\ new.pipeline = r.pipeline
         /\ c = "Keep" => new = r
         /\ Floor(r, m) => Floor(new, m)
         /\ c # "Decrease" /\ NotBelow(r, m) => smaller(m, new.upper) <= new.limit
<1> DEFINE new == needPipelineAdjustment(r, c)
<1>1. /\ r \in ICState /\ r.limit \in 1..Cap /\ r.lower \in Nat /\ r.upper \in Nat
      /\ Cap \in Nat /\ WordSize \in Nat \ {0}
  BY InterestControlAssumption DEF Good, ICState, Bounds
<1>2. NotBelow(r, m) => smaller(m, r.upper) <= r.limit
  BY <1>1 DEF NotBelow, Floor, smaller
<1>3. CASE c = "Keep"
  BY <1>2, <1>3 DEF needPipelineAdjustment
<1>4. CASE c = "Increase"
  <2>1. CASE ~r.initialized
    BY <1>2, <1>4, <2>1 DEF needPipelineAdjustment, burst
  <2>2. CASE r.initialized
    <3> DEFINE x == (r.limit + strategyBurst(r.limit)) % WordSize
    <3>1. x \in Int /\ r.limit <= x
      BY <1>1, BurstAsksForMore
    <3>2. new = changeLimitTo(r, x) /\ new = burst(r)
      BY <1>4, <2>2 DEF needPipelineAdjustment, burst
    <3> HIDE DEF x
    <3>3. Good(new) /\ new.pipeline = r.pipeline /\ new.upper = r.upper
      <4>1. Good(burst(r))
        BY Operations
      <4>2. changeLimitTo(r, x).pipeline = r.pipeline /\ changeLimitTo(r, x).upper = r.upper
        BY <1>1, <3>1, ChangeLimitFields
      <4> HIDE DEF new
      <4> QED
        BY <3>2, <4>1, <4>2
    <3>4. /\ Floor(r, m) => Floor(new, m)
          /\ m <= x => smaller(m, new.upper) <= new.limit
      BY <1>1, <3>1, <3>2, ChangeLimitFloor
    <3>5. NotBelow(r, m) => m <= x \/ Floor(new, m)
      BY <1>1, <3>1, <3>4 DEF NotBelow
    <3> QED
      BY <1>4, <3>3, <3>4, <3>5 DEF new, Floor
  <2> QED
    BY <2>1, <2>2
<1>5. CASE c = "Decrease"
  <2>1. new = withhold(r) /\ Good(withhold(r))
    BY <1>5, Operations DEF needPipelineAdjustment
  <2> DEFINE x == (r.limit - strategyWithhold(r.limit, r.lower)) % WordSize
  <2>2. x \in Int
    BY <1>1 DEF strategyWithhold
  <2>3. new = r \/ new = changeLimitTo(r, x)
    BY <2>1 DEF withhold
  <2> HIDE DEF x
  <2> QED
    BY <1>1, <1>5, <2>1, <2>2, <2>3, ChangeLimitFloor, ChangeLimitFields
<1> QED
  BY <1>3, <1>4, <1>5 DEF Commands

(* Marking a lower limit that the pipeline has not fallen below makes it a  *)
(* floor.                                                                   *)
LEMMA MarkFloor ==
  ASSUME NEW r, Good(r), NEW m \in Nat, 1 <= m, m <= Cap,
         NEW d \in Demands, NEW md \in MaxDemands
  PROVE  /\ Good(markLowerLimit(r, m, d, md))
         /\ markLowerLimit(r, m, d, md).pipeline = r.pipeline
         /\ smaller(m, r.upper) <= r.limit => Floor(markLowerLimit(r, m, d, md), m)
<1> DEFINE marked == [r EXCEPT !.limitSet = TRUE, !.lower = m]
<1>1. r \in ICState /\ Bounds(r)
  BY DEF Good
<1>2. /\ marked \in ICState /\ marked.limitSet
      /\ marked.lower = m /\ marked.upper = r.upper /\ marked.limit = r.limit
      /\ marked.pipeline = r.pipeline
  BY <1>1 DEF ICState
<1>3. markLowerLimit(r, m, d, md) = setLimits(marked, d, md)
  BY DEF markLowerLimit
<1> HIDE DEF marked
<1>4. Good(marked)
  BY <1>1, <1>2 DEF Good, Bounds, Ordered
<1>5. smaller(m, r.upper) <= r.limit => Floor(marked, m)
  BY <1>2 DEF Floor
<1> QED
  BY <1>2, <1>3, <1>4, <1>5, SetLimits, SetLimitsFloor

(* So do the measurements, which otherwise keep what a mark says.           *)
LEMMA MeasureFloor ==
  ASSUME NEW r, Good(r), NEW d \in Demands, NEW md \in MaxDemands, NEW m \in Nat
  PROVE  /\ LET new == onOriginalDrdUpdate(r, d, md) IN
              /\ Good(new) /\ new.pipeline = r.pipeline
              /\ (Floor(r, m) => Floor(new, m)) /\ (NotBelow(r, m) => NotBelow(new, m))
         /\ LET new == targetRateUpdate(r, d, md) IN
              /\ Good(new) /\ new.pipeline = r.pipeline
              /\ (Floor(r, m) => Floor(new, m)) /\ (NotBelow(r, m) => NotBelow(new, m))
<1>1. LET new == onOriginalDrdUpdate(r, d, md) IN
        /\ Good(new) /\ new.pipeline = r.pipeline
        /\ (Floor(r, m) => Floor(new, m)) /\ (NotBelow(r, m) => NotBelow(new, m))
  BY SetLimits, SetLimitsFloor DEF onOriginalDrdUpdate
<1> DEFINE started == [r EXCEPT !.initialized = TRUE]
<1>2. /\ started \in ICState /\ started.limitSet = r.limitSet
      /\ started.lower = r.lower /\ started.upper = r.upper /\ started.limit = r.limit
      /\ started.pipeline = r.pipeline
  BY DEF Good, ICState
<1>3. targetRateUpdate(r, d, md) = setLimits(started, d, md)
  BY DEF targetRateUpdate
<1> HIDE DEF started
<1>4. Good(started)
  BY <1>2 DEF Good, Bounds, Ordered
<1>5. (Floor(r, m) => Floor(started, m)) /\ (NotBelow(r, m) => NotBelow(started, m))
  BY <1>2 DEF Floor, NotBelow
<1>6. LET new == targetRateUpdate(r, d, md) IN
        /\ Good(new) /\ new.pipeline = r.pipeline
        /\ (Floor(r, m) => Floor(new, m)) /\ (NotBelow(r, m) => NotBelow(new, m))
  BY <1>2, <1>3, <1>4, <1>5, SetLimits, SetLimitsFloor
<1> QED
  BY <1>1, <1>6

-----------------------------------------------------------------------------
(* The functions of the control loop, on one record.                        *)

SameButIc(u, w) ==
  /\ u.maxDemand = w.maxDemand /\ u.mark = w.mark /\ u.state = w.state
  /\ u.observers = w.observers /\ u.hasMeta = w.hasMeta /\ u.asked = w.asked
  /\ u.rejected = w.rejected /\ u.allowed = w.allowed /\ u.latency = w.latency
  /\ u.active = w.active /\ u.starved = w.starved /\ u.fault = w.fault

(* Between BufferControl and the state machine: a command of the latency    *)
(* control has changed the pipeline, the state has not followed it yet.     *)
Commanded(w, k) ==
  /\ k \in Kinds /\ Sound(w) /\ Session(w, k) /\ ~w.starved
  /\ w.state \in {"Adjusting", "Fetching"} /\ k = "seed" => w.ic.pipeline >= 1
  /\ w.state = "Adjusting" =>
       /\ k # "seed"
       /\ w.latency.command # "Decrease" => smaller(w.mark, w.ic.upper) <= w.ic.limit
       /\ w.latency.command = "Keep" => NotBelow(w.ic, w.mark)
  /\ w.state = "Fetching" /\ k # "seed" => Floor(w.ic, w.mark)

(* A change of the pipeline alone.                                          *)
LEMMA SetIc ==
  ASSUME NEW w \in WorldType, NEW x \in ICState
  PROVE  /\ [w EXCEPT !.ic = x] \in WorldType
         /\ [w EXCEPT !.ic = x].ic = x
         /\ SameButIc([w EXCEPT !.ic = x], w)
BY DEF WorldType, SameButIc

(* fillUpPipeline leaves something outstanding and the limits alone.        *)
LEMMA FillUp ==
  ASSUME NEW w, Sound(w)
  PROVE  LET u == fillUpPipeline(w) IN
         /\ Sound(u) /\ SameButIc(u, w)
         /\ u.ic.pipeline >= 1
         /\ u.ic.limit = w.ic.limit /\ u.ic.upper = w.ic.upper
         /\ u.ic.lower = w.ic.lower /\ u.ic.limitSet = w.ic.limitSet
<1> DEFINE p == larger(w.ic.pipeline, w.ic.limit)
           x == [w.ic EXCEPT !.pipeline = p]
           u == fillUpPipeline(w)
<1>1. /\ w \in WorldType /\ w.ic \in ICState /\ Bounds(w.ic) /\ Ordered(w.ic)
      /\ Cap \in Nat
  BY InterestControlAssumption DEF Sound, Good
<1>2. p \in Int /\ 1 <= p /\ p <= Cap
  BY <1>1 DEF larger, Bounds, ICState
<1>3. u = [w EXCEPT !.ic = x]
  BY DEF fillUpPipeline
<1> HIDE DEF p
<1>4. /\ x \in ICState /\ x.pipeline = p /\ x.limit = w.ic.limit /\ x.upper = w.ic.upper
      /\ x.lower = w.ic.lower /\ x.limitSet = w.ic.limitSet
  BY <1>1, <1>2 DEF ICState
<1> HIDE DEF x
<1>5. Good(x)
  BY <1>1, <1>2, <1>4 DEF Good, Bounds, Ordered
<1>6. u \in WorldType /\ u.ic = x /\ SameButIc(u, w)
  BY <1>1, <1>3, <1>4, SetIc
<1> HIDE DEF u
<1> QED
  BY <1>2, <1>4, <1>5, <1>6 DEF Sound, SameButIc, u

(* Idle forgets the session.                                                *)
LEMMA EnterIdle ==
  ASSUME NEW w, Sound(w), NEW d
  PROVE  LET u == enter(w, "Idle", d) IN
         /\ Sound(u) /\ Scratch(u) /\ u.state = "Idle" /\ ~u.allowed
         /\ u.observers = w.observers /\ u.active = w.active
         /\ u.starved = w.starved /\ u.fault = w.fault
<1> DEFINE left == [w EXCEPT !.hasMeta = FALSE, !.state = "Idle"]
           u == enter(w, "Idle", d)
<1>1. w \in WorldType
  BY DEF Sound
<1>2. Good(icReset) /\ latencyReset \in [command : Commands, waitForChange : BOOLEAN]
  BY Operations DEF Sound, latencyReset, Commands
<1>3. u = [left EXCEPT !.latency = latencyReset, !.ic = icReset, !.allowed = FALSE]
  BY DEF enter
<1> DEFINE ic0 == icReset
           l0 == latencyReset
<1>4. Good(ic0) /\ ic0 \in ICState /\ l0 \in [command : Commands, waitForChange : BOOLEAN]
  BY <1>2 DEF Good
<1>5. u = [w EXCEPT !.hasMeta = FALSE, !.state = "Idle",
                    !.latency = l0, !.ic = ic0, !.allowed = FALSE]
  BY <1>1, <1>3
<1> HIDE DEF ic0, l0, u
<1>6. /\ u \in WorldType /\ u.ic = ic0 /\ u.latency = l0 /\ u.state = "Idle" /\ ~u.allowed
      /\ u.observers = w.observers /\ u.active = w.active /\ u.mark = w.mark
      /\ u.starved = w.starved /\ u.fault = w.fault
  BY <1>1, <1>4, <1>5 DEF WorldType
<1> QED
  BY <1>4, <1>6 DEF Sound, Scratch, u, ic0, l0

(* Bootstrapping asks for metadata, or for a seed frame.                    *)
LEMMA EnterBootstrapping ==
  ASSUME NEW w, Sound(w), Scratch(w), ~w.allowed, w.active, w.observers = 1, w.fault = "none",
         kind \in Kinds, NEW d \in Demands
  PROVE  /\ WInv(enter(w, "Bootstrapping", d), kind)
         /\ enter(w, "Bootstrapping", d).state = "Bootstrapping"
<1> DEFINE left == [w EXCEPT !.hasMeta = FALSE, !.state = "Bootstrapping"]
           more(v) == smaller(v.asked + 1, MaxAsked)
           u == enter(w, "Bootstrapping", d)
<1>1. /\ w \in WorldType /\ Good(w.ic) /\ 1 <= w.mark /\ w.mark <= Cap
      /\ MaxAsked \in Nat \ {0} /\ SeedSize \in Nat /\ 1 <= SeedSize /\ SeedSize <= Cap
  BY PipelineControlAssumption DEF Sound
<1>2. /\ left \in WorldType /\ left.ic = w.ic /\ left.latency = w.latency /\ ~left.hasMeta
      /\ left.state = "Bootstrapping" /\ ~left.allowed /\ left.active /\ left.observers = 1
      /\ left.fault = "none" /\ left.mark = w.mark /\ left.maxDemand = w.maxDemand
  BY <1>1 DEF WorldType
<1>3. u = IF kind = "seed" THEN askSeedFrame(left, d) ELSE ask(left)
  BY DEF enter
<1> HIDE DEF left, u
<1>4. ASSUME NEW v \in WorldType
      PROVE  /\ ask(v) \in WorldType /\ ask(v).ic = v.ic /\ ask(v).latency = v.latency
             /\ ask(v).state = v.state /\ ask(v).allowed = v.allowed /\ ask(v).active = v.active
             /\ ask(v).observers = v.observers /\ ask(v).fault = v.fault
             /\ ask(v).mark = v.mark /\ ask(v).hasMeta = v.hasMeta
  <2>1. more(v) \in 0..MaxAsked
    <3>1. v.asked \in 0..MaxAsked
      BY DEF WorldType
    <3> QED
      BY <1>1, <3>1 DEF smaller
  <2>2. ask(v) = [v EXCEPT !.asked = more(v), !.rejected = FALSE]
    BY DEF ask
  <2> HIDE DEF more
  <2> QED
    BY <2>1, <2>2 DEF WorldType
<1>5. CASE kind # "seed"
  <2>1. u = ask(left)
    BY <1>3, <1>5
  <2>2. /\ u \in WorldType /\ u.ic = w.ic /\ u.latency = w.latency
        /\ u.state = "Bootstrapping" /\ ~u.allowed /\ u.active /\ u.observers = 1
        /\ u.fault = "none" /\ u.mark = w.mark
    BY <1>2, <1>4, <2>1
  <2>3. Sound(u) /\ Session(u, kind)
    BY <1>1, <2>2 DEF Sound, Session, Scratch
  <2>4. Settled(u, kind)
    BY <2>2 DEF Settled
  <2> QED
    BY <2>2, <2>3, <2>4 DEF WInv, u
<1>6. CASE kind = "seed"
  <2> DEFINE x == markLowerLimit(initialize(left.ic, SeedSize), SeedSize, d, left.maxDemand)
             seeded == [left EXCEPT !.ic = x]
  <2>1. left.maxDemand \in MaxDemands
    BY <1>2 DEF WorldType
  <2>2. Good(initialize(left.ic, SeedSize))
    BY <1>1, <1>2, <2>1, MeasuredOperations
  <2>3. Good(x) /\ x \in ICState
    BY <1>1, <2>1, <2>2, MarkFloor DEF Good
  <2>4. u = ask(seeded)
    BY <1>3, <1>6 DEF askSeedFrame
  <2> HIDE DEF x
  <2>5. seeded \in WorldType /\ seeded.ic = x /\ SameButIc(seeded, left)
    BY <1>2, <2>3, SetIc
  <2> HIDE DEF seeded
  <2>6. /\ u \in WorldType /\ u.ic = x
        /\ u.state = "Bootstrapping" /\ ~u.allowed /\ u.active /\ u.observers = 1
        /\ u.fault = "none" /\ u.mark = w.mark
    BY <1>2, <1>4, <2>4, <2>5 DEF SameButIc
  <2>7. Sound(u) /\ Session(u, kind)
    BY <1>1, <1>6, <2>3, <2>6 DEF Sound, Session
  <2>8. Settled(u, kind)
    BY <2>6 DEF Settled
  <2> QED
    BY <2>6, <2>7, <2>8 DEF WInv, u
<1> QED
  BY <1>5, <1>6

(* PipelineControl::start, from Idle.                                       *)
LEMMA StartKeeps ==
  ASSUME NEW w, Sound(w), Scratch(w), ~w.allowed, w.active, w.state = "Idle",
         w.observers = 0, w.fault = "none", kind \in Kinds, NEW d \in Demands
  PROVE  WInv(start(w, d), kind) /\ start(w, d).state = "Bootstrapping"
<1> DEFINE v == [w EXCEPT !.observers = 1]
<1>1. w \in WorldType
  BY DEF Sound
<1>2. /\ v \in WorldType /\ v.ic = w.ic /\ v.latency = w.latency /\ ~v.allowed
      /\ v.active /\ v.observers = 1 /\ v.fault = "none" /\ v.mark = w.mark
  BY <1>1 DEF WorldType
<1>3. start(w, d) = enter(v, "Bootstrapping", d)
  <2>1. w.observers + 1 = 1
    OBVIOUS
  <2>2. start(w, d) = switchToState(v, "Bootstrapping", d)
    BY <2>1 DEF start
  <2> QED
    BY <2>2 DEF switchToState, States
<1> HIDE DEF v
<1>4. Sound(v) /\ Scratch(v)
  BY <1>2 DEF Sound, Scratch
<1> QED
  BY <1>2, <1>3, <1>4, EnterBootstrapping

(* Starvation in Adjusting or Fetching: the machine that its observer stops *)
(* and starts from within the transition starts from scratch.               *)
LEMMA RevertKeeps ==
  ASSUME NEW w, Sound(w), w.active, w.observers = 1, w.fault = "none",
         kind \in Kinds, NEW d \in Demands
  PROVE  WInv(revertToIdle(w, d), kind) /\ revertToIdle(w, d).state = "Bootstrapping"
<1> DEFINE idle == enter(w, "Idle", d)
           v == [idle EXCEPT !.observers = 0]
<1>1. /\ Sound(idle) /\ Scratch(idle) /\ idle.state = "Idle" /\ ~idle.allowed
      /\ idle.observers = 1 /\ idle.active /\ idle.fault = "none"
  BY EnterIdle
<1>2. revertToIdle(w, d) = start(stop(idle, d), d)
  BY <1>1 DEF revertToIdle
<1> HIDE DEF idle
<1>3. stop(idle, d) = v
  BY <1>1 DEF stop
<1>4. /\ v \in WorldType /\ v.ic = idle.ic /\ v.latency = idle.latency /\ ~v.allowed
      /\ v.active /\ v.observers = 0 /\ v.fault = "none" /\ v.mark = idle.mark
      /\ v.state = "Idle"
  BY <1>1 DEF WorldType, Sound
<1> HIDE DEF v
<1>5. Sound(v) /\ Scratch(v)
  BY <1>1, <1>4 DEF Sound, Scratch
<1> QED
  BY <1>2, <1>3, <1>4, <1>5, StartKeeps

(* PipelineControl::stop                                                    *)
LEMMA StopKeeps ==
  ASSUME NEW w, Sound(w), ~w.active, w.observers = 1, w.state # "Idle", w.fault = "none",
         kind \in Kinds, NEW d
  PROVE  WInv(stop(w, d), kind)
<1> DEFINE v == [w EXCEPT !.observers = 0]
           u == enter(v, "Idle", d)
<1>1. w \in WorldType
  BY DEF Sound
<1>2. /\ v \in WorldType /\ v.ic = w.ic /\ ~v.active /\ v.observers = 0
      /\ v.fault = "none" /\ v.mark = w.mark /\ v.state = w.state
  BY <1>1 DEF WorldType
<1>3. stop(w, d) = u
  BY <1>1, <1>2 DEF stop, switchToState, States
<1> HIDE DEF v
<1>4. Sound(v)
  BY <1>2 DEF Sound
<1>5. /\ Sound(u) /\ u.state = "Idle" /\ ~u.allowed /\ u.observers = 0 /\ ~u.active
      /\ u.fault = "none"
  BY <1>2, <1>4, EnterIdle
<1> HIDE DEF u
<1>6. Session(u, kind) /\ Settled(u, kind)
  BY <1>5 DEF Session, Settled
<1> QED
  BY <1>3, <1>5, <1>6 DEF WInv

(* Entering Adjusting marks the size of the pipeline.                       *)
LEMMA EnterAdjusting ==
  ASSUME NEW w, Sound(w), w.active, w.observers = 1, w.fault = "none", w.allowed, ~w.starved,
         kind \in Kinds, kind # "seed", NEW d
  PROVE  WInv(switchToState(w, "Adjusting", d), kind)
<1> DEFINE m == w.ic.limit
           u == switchToState(w, "Adjusting", d)
<1>1. w \in WorldType /\ Good(w.ic) /\ m \in Nat /\ 1 <= m /\ m <= Cap
  BY DEF Sound, Good, Bounds, ICState
<1>2. u = [w EXCEPT !.hasMeta = FALSE, !.state = "Adjusting", !.mark = m]
  BY <1>1 DEF switchToState, States, enter
<1> HIDE DEF m, u
<1>3. /\ u \in WorldType /\ u.ic = w.ic /\ u.mark = m /\ u.state = "Adjusting"
      /\ u.active /\ u.observers = 1 /\ u.fault = "none" /\ u.allowed /\ ~u.starved
  BY <1>1, <1>2 DEF WorldType
<1>4. Sound(u) /\ Session(u, kind)
  BY <1>1, <1>3 DEF Sound, Session
<1>5. Settled(u, kind)
  BY <1>1, <1>3 DEF Settled, NotBelow, m
<1> QED
  BY <1>4, <1>5 DEF WInv, u

(* Entering Fetching, on a floor or with a seed frame outstanding.          *)
LEMMA EnterFetching ==
  ASSUME NEW w, Sound(w), w.active, w.observers = 1, w.fault = "none", w.allowed, ~w.starved,
         kind \in Kinds, kind = "seed" => w.ic.pipeline >= 1,
         kind # "seed" => Floor(w.ic, w.mark), NEW d
  PROVE  WInv(switchToState(w, "Fetching", d), kind)
<1> DEFINE u == switchToState(w, "Fetching", d)
<1>1. w \in WorldType /\ Good(w.ic)
  BY DEF Sound
<1>2. u = [w EXCEPT !.hasMeta = FALSE, !.state = "Fetching"]
  BY <1>1 DEF switchToState, States, enter
<1> HIDE DEF u
<1>3. /\ u \in WorldType /\ u.ic = w.ic /\ u.mark = w.mark /\ u.state = "Fetching"
      /\ u.active /\ u.observers = 1 /\ u.fault = "none" /\ u.allowed /\ ~u.starved
  BY <1>1, <1>2 DEF WorldType
<1>4. Sound(u) /\ Session(u, kind)
  BY <1>1, <1>3 DEF Sound, Session
<1>5. Settled(u, kind)
  BY <1>1, <1>3 DEF Settled
<1> QED
  BY <1>4, <1>5 DEF WInv, u

(* The state machine's reaction to a segment.                               *)
LEMMA OnSegmentKeeps ==
  ASSUME NEW w, Commanded(w, kind), w.active, w.fault = "none", NEW role, NEW d \in Demands
  PROVE  WInv(onSegment(w, role, d), kind)
<1> DEFINE f == fillUpPipeline(w)
<1>1. /\ kind \in Kinds /\ Sound(w) /\ Session(w, kind) /\ ~w.starved /\ w \in WorldType
      /\ w.state # "Idle" /\ w.observers = 1
  BY DEF Commanded, Session, Sound
<1>2. /\ Sound(f) /\ SameButIc(f, w) /\ f.ic.pipeline >= 1
      /\ f.ic.limit = w.ic.limit /\ f.ic.upper = w.ic.upper
      /\ f.ic.lower = w.ic.lower /\ f.ic.limitSet = w.ic.limitSet
      /\ f \in WorldType
  BY <1>1, FillUp DEF Sound
<1> HIDE DEF f
<1>3. /\ \A m : Floor(f.ic, m) <=> Floor(w.ic, m)
      /\ \A m : NotBelow(f.ic, m) <=> NotBelow(w.ic, m)
  BY <1>2 DEF Floor, NotBelow
<1>4. Session(f, kind) \/ (w.state = "Bootstrapping" /\ kind # "seed" /\ ~w.hasMeta)
  BY <1>1, <1>2 DEF Session, SameButIc
<1>5. CASE w.state = "Bootstrapping" /\ kind # "seed"
  <2>1. onSegment(w, role, d) = bootstrapOnSegment(w, role, d)
    BY <1>5 DEF onSegment
  <2>2. CASE ~w.hasMeta \/ role = "unexpected"
    <3>1. Settled(w, kind) /\ bootstrapOnSegment(w, role, d) = w
      BY <1>5, <2>2 DEF Settled, bootstrapOnSegment
    <3> QED
      BY <1>1, <2>1, <3>1 DEF WInv
  <2>3. CASE w.hasMeta /\ role # "unexpected" /\ role # "startOff"
    <3>1. Settled(f, kind) /\ bootstrapOnSegment(w, role, d) = f
      BY <1>2, <1>5, <2>3 DEF Settled, SameButIc, bootstrapOnSegment, f
    <3> QED
      BY <1>1, <1>2, <1>4, <2>1, <2>3, <3>1 DEF WInv
  <2>4. CASE w.hasMeta /\ role # "unexpected" /\ role = "startOff"
    <3> DEFINE g == [f EXCEPT !.allowed = TRUE]
    <3>1. bootstrapOnSegment(w, role, d) = switchToState(g, "Adjusting", d)
      BY <2>4 DEF bootstrapOnSegment, f
    <3>2. /\ g \in WorldType /\ g.ic = f.ic /\ g.mark = f.mark /\ g.active = f.active
          /\ g.observers = f.observers /\ g.fault = f.fault /\ g.allowed /\ g.starved = f.starved
      BY <1>2 DEF WorldType
    <3> HIDE DEF g
    <3>3. Sound(g)
      BY <1>2, <3>2 DEF Sound
    <3> QED
      BY <1>1, <1>2, <1>5, <2>1, <3>1, <3>2, <3>3, EnterAdjusting DEF SameButIc
  <2> QED
    BY <2>2, <2>3, <2>4
<1>6. CASE w.state = "Bootstrapping" /\ kind = "seed"
  <2>1. onSegment(w, role, d) = seedOnSegment(w, role, d)
    BY <1>6 DEF onSegment
  <2>2. CASE role # "startOff"
    <3>1. Settled(w, kind) /\ seedOnSegment(w, role, d) = w
      BY <1>6, <2>2 DEF Settled, seedOnSegment
    <3> QED
      BY <1>1, <2>1, <3>1 DEF WInv
  <2>3. CASE role = "startOff"
    <3> DEFINE g == [f EXCEPT !.allowed = TRUE]
    <3>1. seedOnSegment(w, role, d) = switchToState(g, "Fetching", d)
      BY <2>3 DEF seedOnSegment, f
    <3>2. /\ g \in WorldType /\ g.ic = f.ic /\ g.mark = f.mark /\ g.active = f.active
          /\ g.observers = f.observers /\ g.fault = f.fault /\ g.allowed /\ g.starved = f.starved
      BY <1>2 DEF WorldType
    <3> HIDE DEF g
    <3>3. Sound(g)
      BY <1>2, <3>2 DEF Sound
    <3> QED
      BY <1>1, <1>2, <1>6, <2>1, <3>1, <3>2, <3>3, EnterFetching DEF SameButIc
  <2> QED
    BY <2>2, <2>3
<1>7. CASE w.state = "Adjusting"
  <2>0. kind # "seed" /\ w.allowed
    BY <1>1, <1>7 DEF Commanded, Session
  <2>1. onSegment(w, role, d) = adjustingOnSegment(w, d)
    BY <1>7 DEF onSegment
  <2>2. CASE w.latency.command = "Increase"
    <3> DEFINE x == markLowerLimit(f.ic, w.mark, d, w.maxDemand)
               g == [f EXCEPT !.ic = x]
    <3>1. /\ w.mark \in Nat /\ 1 <= w.mark /\ w.mark <= Cap /\ w.maxDemand \in MaxDemands
          /\ Good(f.ic) /\ smaller(w.mark, f.ic.upper) <= f.ic.limit
      BY <1>1, <1>2, <1>7, <2>2 DEF Commanded, Sound, WorldType
    <3>2. Good(x) /\ x \in ICState /\ Floor(x, w.mark)
      BY <3>1, MarkFloor DEF Good
    <3>3. adjustingOnSegment(w, d) = switchToState(g, "Fetching", d)
      BY <2>2 DEF adjustingOnSegment, f
    <3> HIDE DEF x
    <3>4. g \in WorldType /\ g.ic = x /\ SameButIc(g, f)
      BY <1>2, <3>2, SetIc
    <3> HIDE DEF g
    <3>5. /\ Sound(g) /\ g.active /\ g.observers = 1 /\ g.fault = "none" /\ g.allowed
          /\ ~g.starved /\ Floor(g.ic, g.mark)
      BY <1>1, <1>2, <2>0, <3>1, <3>2, <3>4 DEF Sound, SameButIc
    <3> QED
      BY <1>1, <2>0, <2>1, <3>3, <3>5, EnterFetching
  <2>3. CASE w.latency.command = "Decrease"
    <3> DEFINE m == f.ic.limit
               g == [f EXCEPT !.mark = m]
    <3>1. adjustingOnSegment(w, d) = g
      BY <2>3 DEF adjustingOnSegment, f
    <3>2. m \in Nat /\ 1 <= m /\ m <= Cap
      BY <1>2 DEF Sound, Good, ICState, Bounds
    <3> HIDE DEF m
    <3>3. /\ g \in WorldType /\ g.ic = f.ic /\ g.mark = m /\ g.state = f.state
          /\ g.observers = f.observers /\ g.allowed = f.allowed /\ g.active = f.active
          /\ g.starved = f.starved /\ g.fault = f.fault
      BY <1>2, <3>2 DEF WorldType
    <3> HIDE DEF g
    <3>4. Sound(g) /\ Session(g, kind)
      BY <1>1, <1>2, <1>7, <3>2, <3>3 DEF Sound, Session, SameButIc
    <3>5. NotBelow(g.ic, g.mark)
      BY <3>2, <3>3 DEF NotBelow, m
    <3>6. Settled(g, kind)
      BY <1>2, <1>7, <2>0, <3>3, <3>5 DEF Settled, SameButIc
    <3> QED
      BY <1>1, <2>1, <3>1, <3>4, <3>6 DEF WInv
  <2>4. CASE w.latency.command = "Keep"
    <3>1. adjustingOnSegment(w, d) = f
      BY <2>4 DEF adjustingOnSegment, f
    <3>2. Settled(f, kind)
      BY <1>2, <1>3, <1>7, <2>0, <2>4 DEF Settled, SameButIc, Commanded
    <3> QED
      BY <1>1, <1>2, <1>4, <1>7, <2>1, <3>1, <3>2 DEF WInv
  <2>5. w.latency.command \in Commands
    BY <1>1 DEF WorldType
  <2> QED
    BY <2>2, <2>3, <2>4, <2>5 DEF Commands
<1>8. CASE w.state = "Fetching"
  <2>0. w.allowed /\ (kind # "seed" => Floor(f.ic, f.mark))
    BY <1>1, <1>2, <1>3, <1>8 DEF Commanded, Session, SameButIc
  <2>1. onSegment(w, role, d) = fetchingOnSegment(w, d)
    BY <1>8 DEF onSegment
  <2>2. Settled(f, kind)
    BY <1>2, <1>8, <2>0 DEF Settled, SameButIc
  <2>3. CASE w.latency.command # "Increase"
    <3>1. fetchingOnSegment(w, d) = f
      BY <2>3 DEF fetchingOnSegment, f
    <3> QED
      BY <1>1, <1>2, <1>4, <1>8, <2>1, <2>2, <3>1 DEF WInv
  <2>4. CASE w.latency.command = "Increase"
    <3>1. fetchingOnSegment(w, d) = switchToState(f, "Adjusting", d)
      BY <2>4 DEF fetchingOnSegment, f
    <3>2. CASE kind # "seed"
      BY <1>1, <1>2, <2>0, <2>1, <3>1, <3>2, EnterAdjusting DEF SameButIc
    <3>3. CASE kind = "seed"
      <4> DEFINE g == [f EXCEPT !.fault = "Unsupported state"]
      <4>1. switchToState(f, "Adjusting", d) = g
        BY <3>3 DEF switchToState, States
      <4>2. /\ g \in WorldType /\ g.ic = f.ic /\ g.mark = f.mark /\ g.state = f.state
            /\ g.observers = f.observers /\ g.allowed = f.allowed /\ g.active = f.active
            /\ g.starved = f.starved /\ g.fault = "Unsupported state"
        BY <1>2 DEF WorldType
      <4> HIDE DEF g
      <4>3. Sound(g) /\ Session(g, kind) /\ Settled(g, kind)
        BY <1>1, <1>2, <1>8, <2>2, <3>3, <4>2 DEF Sound, Session, Settled, SameButIc
      <4> QED
        BY <1>1, <2>1, <3>1, <4>1, <4>3 DEF WInv
    <3> QED
      BY <3>2, <3>3
  <2> QED
    BY <2>3, <2>4
<1> QED
  BY <1>1, <1>5, <1>6, <1>7, <1>8 DEF WorldType

(* What BufferControl and LatencyControl make of a segment before the state *)
(* machine sees it.  Of a bootstrapping live machine it must have metadata, *)
(* or what waits for it would not start from scratch.                       *)
LEMMA BufferControlKeeps ==
  ASSUME NEW w, WInv(w, kind), w.active, ~w.starved, NEW seg \in Segment,
         w.state = "Bootstrapping" /\ kind # "seed" => w.hasMeta,
         kind = "video" /\ seg.first => w.ic.pipeline > 0,
         NEW e \in Estimate, NEW d \in Demands, NEW rd \in MaxDemands
  PROVE  LET u == bufferControl(w, seg, e, d, rd) IN
         /\ Commanded(u, kind) /\ u.active /\ u.fault = w.fault
<1> DEFINE departed == IF seg.first /\ kind = "video" THEN decrement(w.ic) ELSE w.ic
           measured == IF seg.original THEN onOriginalDrdUpdate(departed, d, w.maxDemand)
                       ELSE departed
           rate == seg.header /\ kind = "audio"
           x == IF rate THEN targetRateUpdate(measured, d, rd) ELSE measured
           md == IF rate THEN rd ELSE w.maxDemand
           rated == [w EXCEPT !.ic = x, !.maxDemand = md]
           u == bufferControl(w, seg, e, d, rd)
           Keeps(r) == /\ Good(r)
                       /\ \A m \in Nat : /\ Floor(w.ic, m) => Floor(r, m)
                                         /\ NotBelow(w.ic, m) => NotBelow(r, m)
                       /\ kind # "video" => r.pipeline = w.ic.pipeline
<1>1. /\ w \in WorldType /\ Good(w.ic) /\ w.maxDemand \in MaxDemands
      /\ 1 <= w.mark /\ w.mark <= Cap /\ w.mark \in Nat
      /\ kind \in Kinds /\ Session(w, kind) /\ Settled(w, kind) /\ w.state # "Idle"
      /\ w.latency \in [command : Commands, waitForChange : BOOLEAN]
  BY DEF WInv, Sound, WorldType, Session
<1>2. Keeps(departed)
  <2>1. CASE seg.first /\ kind = "video"
    <3>1. Good(decrement(w.ic)) /\ w.ic \in ICState
      BY <1>1, <2>1, Operations DEF Good
    <3>2. /\ decrement(w.ic).limit = w.ic.limit /\ decrement(w.ic).lower = w.ic.lower
          /\ decrement(w.ic).upper = w.ic.upper /\ decrement(w.ic).limitSet = w.ic.limitSet
      BY <3>1 DEF decrement, ICState
    <3> QED
      BY <2>1, <3>1, <3>2 DEF Floor, NotBelow
  <2>2. CASE ~(seg.first /\ kind = "video")
    BY <1>1, <2>2
  <2> QED
    BY <2>1, <2>2
<1> HIDE DEF departed
<1>3. Keeps(measured)
  <2>1. CASE seg.original
    BY <1>1, <1>2, <2>1, MeasureFloor
  <2>2. CASE ~seg.original
    BY <1>2, <2>2
  <2> QED
    BY <2>1, <2>2
<1> HIDE DEF measured
<1>4. Keeps(x)
  <2>1. CASE rate
    BY <1>3, <2>1, MeasureFloor
  <2>2. CASE ~rate
    BY <1>3, <2>2
  <2> QED
    BY <2>1, <2>2
<1>5. md \in MaxDemands
  BY <1>1
<1>6. u = IF seg.first THEN sampleArrived(rated, e) ELSE rated
  <2>1. CASE rate
    <3>1. rated = [w EXCEPT !.ic = targetRateUpdate(measured, d, rd), !.maxDemand = rd]
      BY <2>1
    <3> QED
      BY <2>1, <3>1 DEF bufferControl, measured, departed
  <2>2. CASE ~rate
    <3>1. rated = [w EXCEPT !.ic = measured]
      <4>1. [w EXCEPT !.ic = measured, !.maxDemand = w.maxDemand] = [w EXCEPT !.ic = measured]
        BY <1>1 DEF WorldType
      <4> QED
        BY <2>2, <4>1
    <3> QED
      BY <2>2, <3>1 DEF bufferControl, measured, departed
  <2> QED
    BY <2>1, <2>2
<1> HIDE DEF x, md, u, rate
<1>7. x \in ICState
  BY <1>4 DEF Good
<1>8. /\ rated \in WorldType /\ rated.ic = x /\ rated.mark = w.mark /\ rated.state = w.state
      /\ rated.observers = w.observers /\ rated.hasMeta = w.hasMeta /\ rated.allowed = w.allowed
      /\ rated.latency = w.latency /\ rated.active = w.active /\ rated.starved = w.starved
      /\ rated.fault = w.fault
  BY <1>1, <1>5, <1>7 DEF WorldType
<1> HIDE DEF rated
<1>9. ASSUME NEW v \in WorldType, NEW l, l = v.latency, Good(v.ic),
             v.mark = w.mark, v.state = w.state, v.observers = w.observers,
             v.hasMeta = w.hasMeta, v.allowed = w.allowed, v.active = w.active,
             v.starved = w.starved, v.fault = w.fault,
             v.ic.pipeline = x.pipeline,
             Floor(x, w.mark) => Floor(v.ic, w.mark),
             l.command # "Decrease" /\ NotBelow(x, w.mark) =>
               smaller(w.mark, v.ic.upper) <= v.ic.limit,
             l.command = "Keep" /\ NotBelow(x, w.mark) => NotBelow(v.ic, w.mark)
      PROVE  Commanded(v, kind) /\ v.active /\ v.fault = w.fault
  <2>1. Sound(v) /\ ~v.starved
    BY <1>1, <1>9 DEF Sound
  <2>2. Session(v, kind)
    BY <1>1, <1>9 DEF Session
  <2>3. v.state \in {"Adjusting", "Fetching"} /\ kind = "seed" => v.ic.pipeline >= 1
    BY <1>1, <1>4, <1>9 DEF Settled
  <2>4. v.state = "Adjusting" => kind # "seed" /\ NotBelow(x, w.mark)
    BY <1>1, <1>4, <1>9 DEF Settled
  <2>5. v.state = "Fetching" /\ kind # "seed" => Floor(v.ic, v.mark)
    BY <1>1, <1>4, <1>9 DEF Settled
  <2> QED
    BY <1>1, <1>9, <2>1, <2>2, <2>3, <2>4, <2>5 DEF Commanded
<1>10. NotBelow(x, w.mark) => smaller(w.mark, x.upper) <= x.limit
  BY <1>1, <1>7 DEF NotBelow, Floor, smaller, ICState
<1>11. CASE ~seg.first
  BY <1>1, <1>4, <1>6, <1>8, <1>9, <1>10, <1>11 DEF u
<1>12. CASE seg.first
  <2> DEFINE l == latencyCommand(w.latency, e)
             c == l.command
             p == pipelineChanged(l)
             y == needPipelineAdjustment(x, c)
             v == [rated EXCEPT !.latency = p, !.ic = y]
  <2>1. l \in [command : Commands, waitForChange : BOOLEAN]
    BY <1>1 DEF latencyCommand, Estimate, Commands
  <2> HIDE DEF l
  <2>2. p \in [command : Commands, waitForChange : BOOLEAN] /\ p.command = c /\ c \in Commands
    BY <2>1 DEF pipelineChanged
  <2>3. /\ Good(y) /\ y.pipeline = x.pipeline /\ y \in ICState
        /\ c = "Keep" => y = x
        /\ Floor(x, w.mark) => Floor(y, w.mark)
        /\ c # "Decrease" /\ NotBelow(x, w.mark) => smaller(w.mark, y.upper) <= y.limit
    <3> HIDE DEF c
    <3> QED
      BY <1>1, <1>4, <2>2, AdjustmentFloor DEF Good
  <2>4. u = v
    BY <1>6, <1>8, <1>12 DEF sampleArrived, l
  <2> HIDE DEF p, y, c
  <2>5. /\ v \in WorldType /\ v.ic = y /\ v.latency = p /\ v.mark = w.mark /\ v.state = w.state
        /\ v.observers = w.observers /\ v.hasMeta = w.hasMeta /\ v.allowed = w.allowed
        /\ v.active = w.active /\ v.starved = w.starved /\ v.fault = w.fault
    BY <1>8, <2>2, <2>3 DEF WorldType
  <2> HIDE DEF v
  <2> QED
    BY <1>9, <2>2, <2>3, <2>4, <2>5 DEF u
<1> QED
  BY <1>11, <1>12

-----------------------------------------------------------------------------
(* The steps.                                                               *)

(* The record that callbacks hand on is the state they start from.          *)
LEMMA WorldFields ==
  /\ World.ic = ic /\ World.maxDemand = maxDemand /\ World.mark = mark
  /\ World.state = state /\ World.observers = observers /\ World.hasMeta = hasMeta
  /\ World.asked = asked /\ World.rejected = rejected /\ World.allowed = allowed
  /\ World.latency = latency /\ World.active = active /\ World.starved = starved
  /\ World.fault = fault
BY DEF World

(* What a step leaves behind is the record it ends with.                    *)
LEMMA BecomeKeeps ==
  ASSUME NEW w, WInv(w, kind), Become(w)
  PROVE  WInv(World, kind)'
<1>1. w \in WorldType
  BY DEF WInv, Sound
<1>2. World' = w
  BY <1>1 DEF Become, World, WorldType
<1>3. kind' = kind
  BY DEF Become
<1> QED
  BY <1>2, <1>3

(* The flags that callbacks set on their way.                               *)
LEMMA FlagsKeep ==
  ASSUME NEW w, WInv(w, kind), NEW n \in 0..MaxAsked
  PROVE  /\ WInv([w EXCEPT !.starved = FALSE], kind)
         /\ WInv([w EXCEPT !.asked = n], kind)
         /\ WInv([w EXCEPT !.asked = n, !.rejected = TRUE], kind)
         /\ WInv([w EXCEPT !.asked = n, !.rejected = FALSE], kind)
         /\ w.state \in {"Idle", "Bootstrapping"} => WInv([w EXCEPT !.starved = TRUE], kind)
<1>1. w \in WorldType /\ Good(w.ic)
  BY DEF WInv, Sound
<1>2. ASSUME NEW v \in WorldType, SameButIc([v EXCEPT !.starved = w.starved, !.asked = w.asked,
                                                    !.rejected = w.rejected], w),
             v.ic = w.ic, v.starved => w.starved \/ w.state \in {"Idle", "Bootstrapping"}
      PROVE  WInv(v, kind)
  <2>1. /\ v.mark = w.mark /\ v.state = w.state /\ v.observers = w.observers
        /\ v.hasMeta = w.hasMeta /\ v.allowed = w.allowed /\ v.latency = w.latency
        /\ v.active = w.active /\ v.fault = w.fault
    BY <1>2 DEF SameButIc, WorldType
  <2>2. Sound(v) /\ Settled(v, kind)
    BY <1>2, <2>1 DEF WInv, Sound, Settled
  <2>3. Session(v, kind)
    BY <1>2, <2>1 DEF WInv, Session, Scratch
  <2> QED
    BY <2>2, <2>3 DEF WInv
<1>3. ASSUME NEW s \in BOOLEAN, s => w.state \in {"Idle", "Bootstrapping"}
      PROVE  WInv([w EXCEPT !.starved = s], kind)
  <2> DEFINE v == [w EXCEPT !.starved = s]
  <2>1. v \in WorldType /\ v.ic = w.ic /\ v.starved = s
        /\ SameButIc([v EXCEPT !.starved = w.starved, !.asked = w.asked, !.rejected = w.rejected], w)
    BY <1>1 DEF WorldType, SameButIc
  <2> HIDE DEF v
  <2>2. WInv(v, kind)
    BY <1>2, <1>3, <2>1
  <2> QED
    BY <2>2 DEF v
<1>4. ASSUME NEW r \in BOOLEAN
      PROVE  WInv([w EXCEPT !.asked = n, !.rejected = r], kind)
  <2> DEFINE v == [w EXCEPT !.asked = n, !.rejected = r]
  <2>1. v \in WorldType /\ v.ic = w.ic /\ v.starved = w.starved
        /\ SameButIc([v EXCEPT !.starved = w.starved, !.asked = w.asked, !.rejected = w.rejected], w)
    BY <1>1 DEF WorldType, SameButIc
  <2> HIDE DEF v
  <2>2. WInv(v, kind)
    BY <1>2, <2>1
  <2> QED
    BY <2>2 DEF v
<1>5. WInv([w EXCEPT !.asked = n], kind)
  <2> DEFINE v == [w EXCEPT !.asked = n]
  <2>1. v \in WorldType /\ v.ic = w.ic /\ v.starved = w.starved
        /\ SameButIc([v EXCEPT !.starved = w.starved, !.asked = w.asked, !.rejected = w.rejected], w)
    BY <1>1 DEF WorldType, SameButIc
  <2> HIDE DEF v
  <2>2. WInv(v, kind)
    BY <1>2, <2>1
  <2> QED
    BY <2>2 DEF v
<1> QED
  BY <1>3, <1>4, <1>5

(* A record the state machine may be given, from the invariant.             *)
LEMMA UncommandedKeeps ==
  ASSUME NEW w, WInv(w, kind), ~w.starved
  PROVE  Commanded(w, kind)
<1>1. w.mark \in Nat /\ w.ic \in ICState
  BY DEF WInv, Sound, WorldType
<1>2. w.ic.limit \in Nat /\ w.ic.lower \in Nat /\ w.ic.upper \in Nat
  BY <1>1 DEF ICState
<1>3. NotBelow(w.ic, w.mark) => smaller(w.mark, w.ic.upper) <= w.ic.limit
  BY <1>1, <1>2 DEF NotBelow, Floor, smaller
<1> QED
  BY <1>3 DEF WInv, Settled, Commanded

(* What processMetadata initialises is within bounds.                       *)
LEMMA MetadataKeeps ==
  ASSUME NEW w, WInv(w, kind), w.state = "Bootstrapping", NEW d \in Demands
  PROVE  WInv(processMetadata(w, d), kind)
<1> DEFINE x == initialize(w.ic, d)
           v == [w EXCEPT !.hasMeta = TRUE, !.ic = x]
           u == fillUpPipeline(v)
<1>1. w \in WorldType /\ Good(w.ic) /\ w.maxDemand \in MaxDemands
  BY DEF WInv, Sound, WorldType
<1>2. Good(x) /\ x \in ICState
  <2>1. d \in Nat /\ 1 <= d /\ d <= Cap
    BY InterestControlAssumption
  <2> QED
    BY <1>1, <2>1, MeasuredOperations DEF Good
<1>3. processMetadata(w, d) = u
  BY DEF processMetadata
<1> HIDE DEF x
<1>4. /\ v \in WorldType /\ v.ic = x /\ v.hasMeta /\ v.mark = w.mark /\ v.state = w.state
      /\ v.observers = w.observers /\ v.allowed = w.allowed /\ v.active = w.active
      /\ v.starved = w.starved /\ v.fault = w.fault
  BY <1>1, <1>2 DEF WorldType
<1> HIDE DEF v
<1>5. Sound(v)
  BY <1>2, <1>4 DEF WInv, Sound
<1>6. Sound(u) /\ SameButIc(u, v)
  BY <1>5, FillUp
<1> HIDE DEF u
<1>7. Session(u, kind) /\ Settled(u, kind)
  BY <1>4, <1>6 DEF SameButIc, WInv, Session, Settled
<1> QED
  BY <1>3, <1>6, <1>7 DEF WInv

(* A bootstrap Interest is sent again.                                      *)
LEMMA AskKeeps ==
  ASSUME NEW w, WInv(w, kind), NEW d \in Demands
  PROVE  /\ WInv(ask(w), kind)
         /\ w.state = "Bootstrapping" /\ kind = "seed" => WInv(askSeedFrame(w, d), kind)
<1>0. ASSUME NEW v, WInv(v, kind) PROVE WInv(ask(v), kind)
  <2> DEFINE n == smaller(v.asked + 1, MaxAsked)
  <2>1. v.asked \in 0..MaxAsked /\ MaxAsked \in Nat \ {0}
    BY <1>0, PipelineControlAssumption DEF WInv, Sound, WorldType
  <2>2. n \in 0..MaxAsked
    BY <2>1 DEF smaller
  <2>3. ask(v) = [v EXCEPT !.asked = n, !.rejected = FALSE]
    BY DEF ask
  <2> HIDE DEF n
  <2>4. WInv([v EXCEPT !.asked = n, !.rejected = FALSE], kind)
    BY <1>0, <2>2, FlagsKeep
  <2> QED
    BY <2>3, <2>4
<1>1. ASSUME w.state = "Bootstrapping", kind = "seed" PROVE WInv(askSeedFrame(w, d), kind)
  <2> DEFINE x == markLowerLimit(initialize(w.ic, SeedSize), SeedSize, d, w.maxDemand)
             v == [w EXCEPT !.ic = x]
  <2>0. w \in WorldType /\ Good(w.ic) /\ w.maxDemand \in MaxDemands
    BY DEF WInv, Sound, WorldType
  <2>1. SeedSize \in Nat /\ 1 <= SeedSize /\ SeedSize <= Cap
    BY PipelineControlAssumption, InterestControlAssumption
  <2>2. Good(initialize(w.ic, SeedSize))
    BY <2>0, <2>1, MeasuredOperations
  <2>3. Good(x) /\ x \in ICState
    BY <2>0, <2>1, <2>2, MarkFloor DEF Good
  <2>4. askSeedFrame(w, d) = ask(v)
    BY DEF askSeedFrame
  <2> HIDE DEF x
  <2>5. v \in WorldType /\ v.ic = x /\ SameButIc(v, w)
    BY <2>0, <2>3, SetIc
  <2> HIDE DEF v
  <2>6. Sound(v) /\ Session(v, kind) /\ Settled(v, kind)
    BY <1>1, <2>3, <2>5 DEF SameButIc, WInv, Sound, Session, Settled
  <2>7. WInv(v, kind)
    BY <2>6 DEF WInv
  <2> QED
    BY <1>0, <2>4, <2>7
<1> QED
  BY <1>0, <1>1

(* initiateFetching                                                         *)
LEMMA StartStep ==
  ASSUME WInv(World, kind), NEW d \in Demands, Start(d)
  PROVE  WInv(World, kind)'
<1> DEFINE v == [World EXCEPT !.active = TRUE, !.observers = 0]
           idle == enter(v, "Idle", d)
<1>1. World \in WorldType /\ Sound(World) /\ kind \in Kinds
  BY DEF WInv, Sound
<1>2. fault = "none" /\ Become(start(idle, d))
  BY DEF Start
<1>3. /\ v \in WorldType /\ v.ic = World.ic /\ v.mark = World.mark
      /\ v.active /\ v.observers = 0 /\ v.fault = World.fault
  BY <1>1 DEF WorldType
<1> HIDE DEF v
<1>4. Sound(v) /\ v.fault = "none"
  BY <1>1, <1>2, <1>3, WorldFields DEF Sound
<1>5. /\ Sound(idle) /\ Scratch(idle) /\ idle.state = "Idle" /\ ~idle.allowed
      /\ idle.active /\ idle.observers = 0 /\ idle.fault = "none"
  BY <1>3, <1>4, EnterIdle
<1> HIDE DEF idle
<1>6. WInv(start(idle, d), kind)
  BY <1>1, <1>5, StartKeeps
<1> QED
  BY <1>2, <1>6, BecomeKeeps

(* stopFetching                                                             *)
LEMMA StopStep ==
  ASSUME WInv(World, kind), NEW d \in Demands, Stop(d)
  PROVE  WInv(World, kind)'
<1> DEFINE v == [World EXCEPT !.active = FALSE]
<1>1. World \in WorldType /\ Sound(World) /\ kind \in Kinds
  BY DEF WInv, Sound
<1>2. fault = "none" /\ active /\ Become(stop(v, d))
  BY DEF Stop
<1>3. World.state # "Idle" /\ World.observers = 1 /\ World.fault = "none"
  BY <1>2, WorldFields DEF WInv, Session
<1>4. /\ v \in WorldType /\ v.ic = World.ic /\ v.mark = World.mark /\ v.state = World.state
      /\ ~v.active /\ v.observers = 1 /\ v.fault = "none"
  BY <1>1, <1>3 DEF WorldType
<1> HIDE DEF v
<1>5. Sound(v)
  BY <1>1, <1>4 DEF Sound
<1>6. WInv(stop(v, d), kind)
  BY <1>1, <1>3, <1>4, <1>5, StopKeeps
<1> QED
  BY <1>2, <1>6, BecomeKeeps

(* What the callbacks are given: the session's record, its starvation       *)
(* forgotten.                                                               *)
LEMMA FedRecord ==
  ASSUME WInv(World, kind), active, fault = "none"
  PROVE  LET w == [World EXCEPT !.starved = FALSE] IN
         /\ WInv(w, kind) /\ ~w.starved /\ w.active /\ w.fault = "none"
         /\ w.state = state /\ w.hasMeta = hasMeta /\ w.ic = ic /\ state # "Idle"
         /\ Commanded(w, kind)
<1> DEFINE w == [World EXCEPT !.starved = FALSE]
<1>1. World \in WorldType /\ 0 \in 0..MaxAsked
  BY PipelineControlAssumption DEF WInv, Sound
<1>2. WInv(w, kind)
  BY <1>1, FlagsKeep
<1>3. /\ ~w.starved /\ w.active /\ w.fault = "none"
      /\ w.state = state /\ w.hasMeta = hasMeta /\ w.ic = ic
  BY <1>1, WorldFields DEF WorldType
<1>4. state # "Idle"
  BY WorldFields DEF WInv, Session
<1> HIDE DEF w
<1>5. Commanded(w, kind)
  BY <1>2, <1>3, UncommandedKeeps
<1> QED
  BY <1>2, <1>3, <1>4, <1>5 DEF w

(* A segment of a sample in the buffer passes BufferControl first.          *)
LEMMA OnSegmentStep ==
  ASSUME WInv(World, kind), NEW seg \in Segment, NEW e \in Estimate,
         NEW d \in Demands, NEW rd \in MaxDemands, OnSegment(seg, e, d, rd)
  PROVE  WInv(World, kind)'
<1> DEFINE w == [World EXCEPT !.starved = FALSE]
           u == bufferControl(w, seg, e, d, rd)
<1>1. /\ fault = "none" /\ active
      /\ kind = "seed" \/ hasMeta \/ state \in {"Adjusting", "Fetching"}
      /\ kind = "video" /\ seg.first => ic.pipeline > 0
      /\ Become(onSegment(u, seg.role, d))
  BY DEF OnSegment
<1>2. /\ WInv(w, kind) /\ ~w.starved /\ w.active /\ w.fault = "none"
      /\ w.state = state /\ w.hasMeta = hasMeta /\ w.ic = ic
  BY <1>1, FedRecord
<1> HIDE DEF w
<1>3. Commanded(u, kind) /\ u.active /\ u.fault = "none"
  BY <1>1, <1>2, BufferControlKeeps
<1> HIDE DEF u
<1>4. WInv(onSegment(u, seg.role, d), kind)
  BY <1>3, OnSegmentKeeps
<1> QED
  BY <1>1, <1>4, BecomeKeeps

(* A late one does not.                                                     *)
LEMMA OnLateSegmentStep ==
  ASSUME WInv(World, kind), NEW role, NEW d \in Demands, OnLateSegment(role, d)
  PROVE  WInv(World, kind)'
<1> DEFINE w == [World EXCEPT !.starved = FALSE]
<1>1. fault = "none" /\ active /\ Become(onSegment(w, role, d))
  BY DEF OnLateSegment
<1>2. Commanded(w, kind) /\ w.active /\ w.fault = "none"
  BY <1>1, FedRecord
<1> HIDE DEF w
<1>3. WInv(onSegment(w, role, d), kind)
  BY <1>2, OnSegmentKeeps
<1> QED
  BY <1>1, <1>3, BecomeKeeps

(* Metadata, wanted or not.                                                 *)
LEMMA OnMetadataStep ==
  ASSUME WInv(World, kind), NEW d \in Demands, OnMetadata(d)
  PROVE  WInv(World, kind)'
<1> DEFINE n == asked - 1
           v == [World EXCEPT !.starved = FALSE]
           w == [World EXCEPT !.asked = n, !.starved = FALSE]
<1>1. /\ fault = "none" /\ active /\ asked > 0
      /\ Become(IF state = "Bootstrapping" THEN processMetadata(w, d)
                ELSE onSegment(w, "unexpected", d))
  BY WorldFields DEF OnMetadata
<1>2. World \in WorldType /\ asked \in 0..MaxAsked
  BY WorldFields DEF WInv, Sound, WorldType
<1>3. n \in 0..MaxAsked
  BY <1>1, <1>2, PipelineControlAssumption
<1> HIDE DEF n
<1>4. WInv(v, kind) /\ v \in WorldType
  BY <1>1, FedRecord DEF WInv, Sound
<1>5. w = [v EXCEPT !.asked = n]
  BY <1>2 DEF WorldType
<1>6. /\ w.state = state /\ ~w.starved /\ w.active /\ w.fault = "none"
  BY <1>1, <1>2, WorldFields DEF WorldType
<1> HIDE DEF v, w
<1>7. WInv(w, kind)
  BY <1>3, <1>4, <1>5, FlagsKeep
<1>8. CASE state = "Bootstrapping"
  BY <1>1, <1>6, <1>7, <1>8, MetadataKeeps, BecomeKeeps
<1>9. CASE state # "Bootstrapping"
  <2>1. Commanded(w, kind)
    BY <1>6, <1>7, UncommandedKeeps
  <2>2. WInv(onSegment(w, "unexpected", d), kind)
    BY <1>6, <2>1, OnSegmentKeeps
  <2> QED
    BY <1>1, <1>9, <2>2, BecomeKeeps
<1> QED
  BY <1>8, <1>9

(* A time-out of a bootstrap Interest, and a Nack.                          *)
LEMMA LostStep ==
  ASSUME WInv(World, kind)
  PROVE  /\ \A d \in Demands : OnTimeout(d) => WInv(World, kind)'
         /\ OnReject => WInv(World, kind)'
<1> DEFINE n == asked - 1
           w == [World EXCEPT !.asked = n]
<1>1. World \in WorldType /\ asked \in 0..MaxAsked
  BY WorldFields DEF WInv, Sound, WorldType
<1>2. asked > 0 => n \in 0..MaxAsked
  BY <1>1, PipelineControlAssumption
<1> HIDE DEF n
<1>3. w.state = state
  BY <1>1, WorldFields DEF WorldType
<1>4. asked > 0 => WInv(w, kind) /\ WInv([World EXCEPT !.asked = n, !.rejected = TRUE], kind)
  BY <1>2, FlagsKeep
<1>5. ASSUME OnReject PROVE WInv(World, kind)'
  <2>1. asked > 0 /\ Become([World EXCEPT !.asked = n, !.rejected = TRUE])
    BY <1>5, WorldFields DEF OnReject, n
  <2> QED
    BY <1>4, <2>1, BecomeKeeps
<1>6. ASSUME NEW d \in Demands, OnTimeout(d) PROVE WInv(World, kind)'
  <2>1. /\ asked > 0
        /\ Become(IF ~active \/ state = "Idle" THEN w
                  ELSE IF state = "Bootstrapping" /\ kind = "seed" THEN askSeedFrame(w, d)
                  ELSE ask(w))
    BY <1>6, WorldFields DEF OnTimeout, n
  <2> HIDE DEF w
  <2>2. /\ WInv(w, kind) /\ WInv(ask(w), kind)
        /\ state = "Bootstrapping" /\ kind = "seed" => WInv(askSeedFrame(w, d), kind)
    BY <1>3, <1>4, <2>1, AskKeeps
  <2>3. CASE ~active \/ state = "Idle"
    BY <2>1, <2>2, <2>3, BecomeKeeps
  <2>4. CASE ~(~active \/ state = "Idle") /\ state = "Bootstrapping" /\ kind = "seed"
    BY <2>1, <2>2, <2>4, BecomeKeeps
  <2>5. CASE ~(~active \/ state = "Idle") /\ ~(state = "Bootstrapping" /\ kind = "seed")
    BY <2>1, <2>2, <2>5, BecomeKeeps
  <2> QED
    BY <2>3, <2>4, <2>5
<1> QED
  BY <1>5, <1>6

(* Starvation: a machine that plays starts over, one that bootstraps only   *)
(* remembers that it was told.                                              *)
LEMMA OnStarvationStep ==
  ASSUME WInv(World, kind), NEW d \in Demands, OnStarvation(d)
  PROVE  WInv(World, kind)'
<1> DEFINE w == [World EXCEPT !.starved = TRUE]
           after == IF state \in {"Adjusting", "Fetching"} THEN revertToIdle(w, d) ELSE w
<1>1. /\ fault = "none" /\ active
      /\ Become(IF after.state = "Idle" THEN switchToState(after, "Bootstrapping", d) ELSE after)
  BY DEF OnStarvation
<1>2. World \in WorldType /\ kind \in Kinds
  BY DEF WInv, Sound
<1>3. state # "Idle" /\ observers = 1
      /\ state \in {"Idle", "Bootstrapping", "Adjusting", "Fetching"}
  BY <1>1, <1>2, WorldFields DEF WInv, Session, WorldType
<1>4. /\ w \in WorldType /\ w.ic = World.ic /\ w.mark = World.mark /\ w.state = state
      /\ w.active /\ w.observers = 1 /\ w.fault = "none"
  BY <1>1, <1>2, <1>3, WorldFields DEF WorldType
<1>5. CASE state \in {"Adjusting", "Fetching"}
  <2> HIDE DEF w
  <2>1. Sound(w)
    BY <1>4 DEF WInv, Sound
  <2>2. WInv(revertToIdle(w, d), kind) /\ revertToIdle(w, d).state = "Bootstrapping"
    BY <1>2, <1>4, <2>1, RevertKeeps
  <2>3. after = revertToIdle(w, d)
    BY <1>5
  <2> HIDE DEF after
  <2> QED
    BY <1>1, <2>2, <2>3, BecomeKeeps
<1>6. CASE state = "Bootstrapping"
  <2>1. 0 \in 0..MaxAsked
    BY PipelineControlAssumption
  <2>2. WInv(w, kind)
    BY <1>6, <2>1, WorldFields, FlagsKeep
  <2> HIDE DEF w
  <2>3. after = w
    BY <1>6
  <2> HIDE DEF after
  <2> QED
    BY <1>1, <1>4, <1>6, <2>2, <2>3, BecomeKeeps
<1> QED
  BY <1>3, <1>5, <1>6

(* A played frame of a playback-driven stream finds something outstanding.  *)
LEMMA FramePlayedStep ==
  ASSUME WInv(World, kind), FramePlayed
  PROVE  WInv(World, kind)'
<1> DEFINE x == decrement(World.ic)
           w == [World EXCEPT !.ic = x]
           u == fillUpPipeline(w)
<1>1. /\ kind = "seed" /\ fault = "none" /\ active /\ allowed
      /\ Become(IF ic.pipeline > 0 THEN u ELSE [World EXCEPT !.fault = "assert(pipeline_ >= 0)"])
  BY WorldFields DEF FramePlayed
<1>2. /\ World \in WorldType /\ Good(World.ic) /\ kind \in Kinds
      /\ 1 <= World.mark /\ World.mark <= Cap
  BY DEF WInv, Sound
<1>3. World.state \in {"Adjusting", "Fetching"} /\ World.ic.pipeline >= 1
  BY <1>1, WorldFields DEF WInv, Session, Settled
<1>4. World.ic.pipeline \in Int
  BY <1>2 DEF WorldType, ICState
<1>5. Become(u)
  <2>1. ic.pipeline > 0
    BY <1>3, <1>4, WorldFields
  <2> QED
    BY <1>1, <2>1
<1>6. Good(x) /\ x \in ICState
  BY <1>2, <1>3, <1>4, Operations DEF Good
<1> HIDE DEF x
<1>7. w \in WorldType /\ w.ic = x /\ SameButIc(w, World)
  BY <1>2, <1>6, SetIc
<1> HIDE DEF w
<1>8. Sound(w)
  BY <1>2, <1>6, <1>7 DEF Sound, SameButIc
<1>9. Sound(u) /\ SameButIc(u, w) /\ u.ic.pipeline >= 1
  BY <1>8, FillUp
<1> HIDE DEF u
<1>10. Session(u, kind) /\ Settled(u, kind)
  BY <1>1, <1>7, <1>9 DEF SameButIc, WInv, Session, Settled
<1> QED
  BY <1>2, <1>5, <1>9, <1>10, BecomeKeeps DEF WInv

-----------------------------------------------------------------------------
(* Every stream starts idle and from scratch.                               *)
LEMMA WInvInit == Init => WInv(World, kind)
<1> SUFFICES ASSUME Init PROVE WInv(World, kind)
  OBVIOUS
<1>1. /\ kind \in Kinds /\ state = "Idle" /\ observers = 0 /\ hasMeta = FALSE /\ asked = 0
      /\ rejected = FALSE /\ allowed = FALSE /\ latency = latencyReset
      /\ active = FALSE /\ starved = FALSE /\ fault = "none"
  BY DEF Init
<1>2. ic = icReset /\ maxDemand \in MaxDemands /\ mark \in Nat /\ 1 <= mark /\ mark <= Cap
  BY InterestControlAssumption DEF Init, ICInit
<1>3. Good(ic) /\ ic \in ICState
  BY <1>2, InterestControlAssumption DEF icReset, Good, Bounds, Ordered, ICState
<1>4. latency \in [command : Commands, waitForChange : BOOLEAN]
  BY <1>1 DEF latencyReset, Commands
<1>5. asked \in 0..MaxAsked
  BY <1>1, PipelineControlAssumption
<1>6. World \in WorldType
  BY <1>1, <1>2, <1>3, <1>4, <1>5 DEF World, WorldType
<1>7. Sound(World)
  BY <1>2, <1>3, <1>6, WorldFields DEF Sound
<1>8. Session(World, kind) /\ Settled(World, kind)
  BY <1>1, WorldFields DEF Session, Settled
<1> QED
  BY <1>1, <1>7, <1>8 DEF WInv

(* The control loop keeps its limits, its sessions and its settled sizes,   *)
(* whatever the network, the estimators and the application do.             *)
THEOREM ControlInvariant == Spec => []WInv(World, kind)
<1>1. Init => WInv(World, kind)
  BY WInvInit
<1>2. WInv(World, kind) /\ [Next]_vars => WInv(World, kind)'
  <2> SUFFICES ASSUME WInv(World, kind), [Next]_vars PROVE WInv(World, kind)'
    OBVIOUS
  <2>1. CASE UNCHANGED vars
    <3>1. kind' = kind /\ World' = World
      BY <2>1 DEF vars, icVars, World
    <3> QED
      BY <3>1
  <2>2. ASSUME NEW d \in Demands, Start(d) PROVE WInv(World, kind)'
    BY <2>2, StartStep
  <2>3. ASSUME NEW d \in Demands, Stop(d) PROVE WInv(World, kind)'
    BY <2>3, StopStep
  <2>4. ASSUME NEW d \in Demands, OnMetadata(d) PROVE WInv(World, kind)'
    BY <2>4, OnMetadataStep
  <2>5. ASSUME NEW d \in Demands, OnTimeout(d) PROVE WInv(World, kind)'
    BY <2>5, LostStep
  <2>6. ASSUME NEW d \in Demands, OnStarvation(d) PROVE WInv(World, kind)'
    BY <2>6, OnStarvationStep
  <2>7. ASSUME NEW d \in Demands, NEW role \in Roles, OnLateSegment(role, d)
        PROVE  WInv(World, kind)'
    BY <2>7, OnLateSegmentStep
  <2>8. ASSUME NEW role \in Roles, SegmentArrives(role) PROVE WInv(World, kind)'
    <3>1. PICK seg \in {s \in Segment : s.role = role}, d \in Demands :
            \E e \in Estimates(seg), rd \in Rates(seg) : OnSegment(seg, e, d, rd)
      BY <2>8 DEF SegmentArrives
    <3>2. PICK e \in Estimates(seg), rd \in Rates(seg) : OnSegment(seg, e, d, rd)
      BY <3>1
    <3>3. e \in Estimate
      <4>1. CASE seg.first
        BY <4>1 DEF Estimates
      <4>2. CASE ~seg.first
        <5>1. e = [stable |-> FALSE, changed |-> FALSE, timeout |-> FALSE]
          BY <4>2 DEF Estimates
        <5>2. e \in [stable : BOOLEAN, changed : BOOLEAN, timeout : BOOLEAN] /\ ~e.changed
          BY <5>1
        <5> QED
          BY <5>2 DEF Estimate
      <4> QED
        BY <4>1, <4>2
    <3>4. maxDemand \in MaxDemands
      BY WorldFields DEF WInv, Sound, WorldType
    <3>5. rd \in MaxDemands
      BY <3>4 DEF Rates
    <3> QED
      BY <3>2, <3>3, <3>5, OnSegmentStep
  <2>9. CASE OnReject
    BY <2>9, LostStep
  <2>10. CASE FramePlayed
    BY <2>10, FramePlayedStep
  <2> QED
    BY <2>1, <2>2, <2>3, <2>4, <2>5, <2>6, <2>7, <2>8, <2>9, <2>10 DEF Next
<1> QED
  BY <1>1, <1>2, PTL DEF Spec

(* Restarts from within a transition neither fail nor leave anything        *)
(* behind.                                                                  *)
THEOREM SessionsStayApart == Spec => []SessionsKeptApart
<1>1. WInv(World, kind) => SessionsKeptApart
  <2> SUFFICES ASSUME WInv(World, kind) PROVE SessionsKeptApart
    OBVIOUS
  <2>1. World \in WorldType /\ Good(World.ic) /\ kind \in Kinds
    BY DEF WInv, Sound
  <2>2. /\ ic \in ICState /\ maxDemand \in MaxDemands /\ mark \in Nat
        /\ state \in {"Idle", "Bootstrapping", "Adjusting", "Fetching"}
        /\ observers \in Nat /\ hasMeta \in BOOLEAN /\ asked \in 0..MaxAsked
        /\ rejected \in BOOLEAN /\ allowed \in BOOLEAN
        /\ latency \in [command : Commands, waitForChange : BOOLEAN]
        /\ active \in BOOLEAN /\ starved \in BOOLEAN
        /\ fault \in {"none", "started already", "Unsupported state", "assert(pipeline_ >= 0)"}
    BY <2>1, WorldFields DEF WorldType
  <2>3. state \in States
    BY <2>2, WorldFields DEF WInv, Settled, States
  <2>4. PCTypeOK
    BY <2>1, <2>2, <2>3 DEF PCTypeOK, ICTypeOK, ICState
  <2> QED
    BY <2>4, WorldFields DEF WInv, Session, Scratch, SessionsKeptApart, NoFault, RestartsItself,
         PlayoutMatchesState, StarvationArmed, BootstrapsFromScratch
<1> QED
  BY <1>1, ControlInvariant, PTL

(* While the machine fetches, the size it settled on is a floor under the   *)
(* pipeline.                                                                *)
THEOREM SettledSizeStaysFloor == Spec => []SettledSizeIsFloor
<1>1. WInv(World, kind) => SettledSizeIsFloor
  BY WorldFields DEF WInv, Settled, Floor, SettledSizeIsFloor
<1> QED
  BY <1>1, ControlInvariant, PTL
=============================================================================
