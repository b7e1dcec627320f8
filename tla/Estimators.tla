------------------------------ MODULE Estimators ------------------------------
(***************************************************************************)
(* What the consumer measures and what follows from it: sliding averages   *)
(* (estimators.cpp), the StabilityEstimator and DrdChangeEstimator of      *)
(* latency-control.cpp, the DrdEstimator that tells its observers, and     *)
(* LatencyControl moving InterestControl's pipeline.                       *)
(*                                                                         *)
(* Time is counted in ticks between arrivals.  A delay is abstracted to    *)
(* what DrdChangeEstimator tells apart: whether the average is calm, and   *)
(* how far the newest value is from it.  DrdChangeEstimator's constructor  *)
(* leaves its three parameters uninitialised: they are any of Garbage, and *)
(* calm is arbitrary because its threshold is.                             *)
(***************************************************************************)
EXTENDS InterestControl, LatencyControl, Sequences

CONSTANTS
  WindowSize,      \* sampleSize_ of the StabilityEstimator: 10
  MinOccurrences,  \* minOccurrences_ of the StabilityEstimator: 4
  Threshold,       \* threshold_, in percent
  Period,          \* 1000 / targetRate_, in ticks
  Deltas,          \* ticks that may pass between two samples
  TimeoutWindow,   \* timeoutWindowMs_ of LatencyControl, in ticks
  MaxChanges,      \* bound on nChanges_
  Garbage          \* what DrdChangeEstimator may find in its parameters

ASSUME EstimatorsAssumption ==
  /\ WindowSize \in Nat \ {0} /\ MinOccurrences \in 1..WindowSize
  /\ Threshold \in 0..100 /\ Period \in Nat \ {0}
  /\ Deltas \subseteq Nat /\ TimeoutWindow \in Nat \ {0} /\ MaxChanges \in Nat \ {0}
  /\ Garbage \subseteq [sampleSize : Nat, minOccurrences : Nat]

VARIABLES
  stability,  \* StabilityEstimator
  drdChange,  \* DrdChangeEstimator
  elapsed,    \* ticks since timestamp_ of LatencyControl, or Unset
  lc,         \* LatencyControl: currentCommand_ and waitForChange_
  recent,     \* history: the last 2 * WindowSize deltas since the last flush
  since,      \* history: ticks since the last command that was given
  changed     \* history: the delay has changed since then

estimatorVars == <<stability, drdChange, elapsed, lc, recent, since, changed>>
lcVars == <<icVars, estimatorVars>>

Unset == -1

(* Ticks beyond the time window are not told apart. *)
later(ticks, delta) == smaller(ticks + delta, TimeoutWindow + 1)

distance(a, b) == IF a > b THEN a - b ELSE b - a

-----------------------------------------------------------------------------
(* Average over a SampleWindow *)

NewAverage == [samples |-> <<>>, sum |-> 0, limitReached |-> FALSE]

oldestValue(avg) == IF avg.samples = <<>> THEN 0 ELSE Head(avg.samples)

(* Average::newValue; SampleWindow::isLimitReached answers TRUE for the     *)
(* first time at the WindowSize-th value.                                   *)
newValue(avg, value) ==
  LET pushed == Append(avg.samples, value)
  IN [samples |-> IF avg.limitReached THEN Tail(pushed) ELSE pushed,
      sum |-> avg.sum + value - (IF avg.limitReached THEN Head(pushed) ELSE 0),
      limitReached |-> avg.limitReached \/ Len(pushed) = WindowSize]

-----------------------------------------------------------------------------
(* StabilityEstimator *)

NewStability ==
  [isStable |-> FALSE, nStable |-> 0, nUnstable |-> 0, seen |-> FALSE,
   m1 |-> NewAverage, m2 |-> NewAverage]

(* |mean2 / mean1 - 1| <= threshold_ and mean1 is as close to the target    *)
(* period, both means being quotients of sum and number of samples.         *)
isRegular(m1, m2) ==
  LET n1 == Len(m1.samples)
      n2 == Len(m2.samples)
  IN /\ 100 * distance(m2.sum * n1, m1.sum * n2) <= Threshold * m1.sum * n2
     /\ 100 * distance(m1.sum, Period * n1) <= Threshold * Period * n1

(* The occurrence counters matter up to MinOccurrences only. *)
counted(n) == smaller(n + 1, MinOccurrences)

(* Fault: irregular arrivals do not take stability back. *)
occurredForgiving(s, regular) ==
  LET nStable == IF regular THEN counted(s.nStable) ELSE s.nStable
  IN [s EXCEPT !.nStable = nStable,
               !.nUnstable = IF regular THEN 0 ELSE counted(@),
               !.isStable = nStable >= MinOccurrences]

occurred(s, regular) ==
  LET nUnstable == IF regular THEN 0 ELSE counted(s.nUnstable)
      nStable == IF regular THEN counted(s.nStable)
                 ELSE IF nUnstable >= MinOccurrences THEN 0 ELSE s.nStable
  IN [s EXCEPT !.nStable = nStable, !.nUnstable = nUnstable,
               !.isStable = nStable >= MinOccurrences]

newDataArrived(s, delta) ==
  IF ~s.seen THEN [s EXCEPT !.seen = TRUE]
  ELSE LET fed == [s EXCEPT !.m2 = newValue(s.m2, oldestValue(s.m1)), !.m1 = newValue(s.m1, delta)]
       IN IF fed.m1.sum # 0 /\ fed.m2.sum # 0 THEN occurred(fed, isRegular(fed.m1, fed.m2)) ELSE fed

-----------------------------------------------------------------------------
(* DrdChangeEstimator *)

flushed(d) == [d EXCEPT !.nStable = 0, !.nChanges = 0, !.nMinor = 0, !.lastChecked = 0]

(* How far the newest value is from the average: below 8%, up to 20%, more. *)
Moves == {"none", "minor", "major"}

change(d, move) ==
  CASE move = "major" -> [d EXCEPT !.nChanges = @ + 1]
    [] move = "minor" /\ d.nMinor + 1 >= d.sampleSize ->
         [d EXCEPT !.nMinor = 0, !.nChanges = @ + 1]
    [] move = "minor" /\ d.nMinor + 1 < d.sampleSize -> [d EXCEPT !.nMinor = @ + 1]
    [] move = "none" -> [d EXCEPT !.nMinor = 0]

(* The occurrences matter up to minOccurrences_ only. *)
newDrdValue(d, calm, move) ==
  LET next == IF calm THEN [d EXCEPT !.nStable = smaller(@ + 1, d.minOccurrences)]
              ELSE [d EXCEPT !.nStable = 0, !.nChanges = 0, !.nMinor = 0]
  IN IF next.nStable >= d.minOccurrences THEN change(next, move) ELSE next

hasChange(d) == d.nChanges > d.lastChecked

-----------------------------------------------------------------------------
LCInit ==
  /\ ICInit
  /\ stability = NewStability
  /\ \E g \in Garbage :
       drdChange = [sampleSize |-> g.sampleSize, minOccurrences |-> g.minOccurrences,
                    nStable |-> 0, nChanges |-> 0, nMinor |-> 0, lastChecked |-> 0]
  /\ elapsed = Unset /\ lc = latencyReset
  /\ recent = <<>> /\ since = TimeoutWindow + 1 /\ changed = FALSE

(* pipelineChanged flushes the estimator after a command; hasChange, asked  *)
(* of a stable stream that waits, remembers what it has reported.           *)
flushedAfter(d, asked, command) ==
  IF command # "Keep" THEN flushed(d)
  ELSE [d EXCEPT !.lastChecked = IF asked THEN d.nChanges ELSE @]

(* Fault: an increase does not restart the window. *)
stampedAfterDecrease(ticks, e, asked, command) ==
  IF command = "Decrease" \/ (asked /\ e.changed) THEN 0 ELSE ticks

(* timestamp_ = now: a change was reported or a command given. *)
stamped(ticks, e, asked, command) ==
  IF command # "Keep" \/ (asked /\ e.changed) THEN 0 ELSE ticks

(* LatencyControl::sampleArrived, delta ticks after the previous sample.    *)
(* PipelineControl, the registered observer, answers every command.         *)
SampleArrived(delta) ==
  LET ticks == IF elapsed = Unset THEN 0 ELSE later(elapsed, delta)
      st == newDataArrived(stability, delta)
      asked == st.isStable /\ lc.waitForChange
      e == [stable |-> st.isStable, changed |-> asked /\ hasChange(drdChange),
            timeout |-> ticks > TimeoutWindow]
      l == latencyCommand(lc, e)
  IN /\ stability' = st
     /\ lc' = pipelineChanged(l)
     /\ drdChange' = flushedAfter(drdChange, asked, l.command)
     /\ elapsed' = stamped(ticks, e, asked, l.command)
     /\ ic' = needPipelineAdjustment(ic, l.command)
     /\ recent' = IF ~stability.seen THEN recent
                  ELSE IF Len(recent) < 2 * WindowSize THEN Append(recent, delta)
                  ELSE Append(Tail(recent), delta)
     /\ since' = IF l.command # "Keep" THEN 0 ELSE later(since, delta)
     /\ changed' = IF l.command # "Keep" THEN FALSE ELSE changed
     /\ UNCHANGED <<maxDemand, mark>>

(* DrdEstimator::newValue moved an average and tells LatencyControl. *)
OnDrdUpdate(calm, move) ==
  /\ drdChange.nChanges < MaxChanges
  /\ drdChange' = newDrdValue(drdChange, calm, move)
  /\ changed' = (changed \/ drdChange'.nChanges > drdChange.nChanges)
  /\ UNCHANGED <<stability, elapsed, lc, recent, since>>

(* Only a delay of original data is told to InterestControl, before. *)
OriginalDrd(calm, move, demand) == DrdUpdate(demand) /\ OnDrdUpdate(calm, move)

CachedDrd(calm, move) == OnDrdUpdate(calm, move) /\ UNCHANGED icVars

(* Idle::enter resets both controls. *)
ResetControls ==
  /\ Reset
  /\ stability' = NewStability /\ drdChange' = flushed(drdChange)
  /\ elapsed' = Unset /\ lc' = latencyReset
  /\ recent' = <<>> /\ since' = TimeoutWindow + 1 /\ changed' = FALSE

(* What the state machine does with the interest control meanwhile: the     *)
(* pipeline is sized before the first sample arrives, Adjusting remembers   *)
(* the size it finds and settles on it at an increase.  The                 *)
(* count of outstanding samples, which moves no limit, is left to module    *)
(* PipelineControl.                                                         *)
InterestStep ==
  /\ \/ Remember
     \/ \E demand \in Demands :
          \/ elapsed = Unset /\ Initialize(demand)
          \/ lc.command = "Increase" /\ MarkLowerLimit(demand)
          \/ \E rateDemand \in MaxDemands : TargetRateUpdate(demand, rateDemand)
  /\ UNCHANGED estimatorVars

LCNext ==
  \/ \E delta \in Deltas : SampleArrived(delta)
  \/ \E calm \in BOOLEAN, move \in Moves :
       CachedDrd(calm, move) \/ \E demand \in Demands : OriginalDrd(calm, move, demand)
  \/ ResetControls
  \/ InterestStep

LCSpec == LCInit /\ [][LCNext]_lcVars

-----------------------------------------------------------------------------
(* Properties *)

(* Type correctness of the estimators: no window grows beyond its size. *)
EstimatorsTypeOK ==
  /\ stability.nStable \in 0..MinOccurrences /\ stability.nUnstable \in 0..MinOccurrences
  /\ \A avg \in {stability.m1, stability.m2} :
       Len(avg.samples) <= WindowSize /\ avg.sum \in Nat
  /\ drdChange.nChanges \in 0..MaxChanges /\ drdChange.lastChecked \in 0..MaxChanges
  /\ elapsed \in {Unset} \cup 0..(TimeoutWindow + 1)
  /\ lc \in [command : Commands, waitForChange : BOOLEAN]

(* The sums of the first 0, 1, 2... of the samples, and of all of them *)
partialSums(s) ==
  LET f[i \in 0..Len(s)] == IF i = 0 THEN 0 ELSE f[i - 1] + s[i] IN f
total(s) == partialSums(s)[Len(s)]

(* StabilityEstimator compares two adjacent windows: once 2 * WindowSize    *)
(* deltas were measured, the second average holds the deltas that left the  *)
(* first, and each accumulated sum is the sum of the samples still held.    *)
WindowsAdjacent ==
  /\ \A avg \in {stability.m1, stability.m2} : avg.sum = total(avg.samples)
  /\ Len(recent) = 2 * WindowSize =>
       recent = stability.m2.samples \o stability.m1.samples

(* A stream is not held stable on the strength of old arrivals: the two     *)
(* windows are adjacent and current, and when every delta of both is off    *)
(* the period by more than the threshold, in the same direction, latency    *)
(* control sees the stream unstable.                                        *)
StabilityIsRecent ==
  /\ EstimatorsTypeOK
  /\ WindowsAdjacent
  /\ Len(recent) = 2 * WindowSize
       /\ (\A i \in DOMAIN recent : 100 * (recent[i] - Period) > Threshold * Period)
     => ~stability.isStable

(* Commands wait for the effect of the one before: a pipeline that was just *)
(* shortened is shortened again only after the delay has changed since, or  *)
(* a whole time window later, and it is never lengthened within the window  *)
(* of an earlier command, whatever the uninitialised parameters of          *)
(* DrdChangeEstimator hold.                                                 *)
CommandsAwaitEffect ==
  [][\A delta \in Deltas : SampleArrived(delta) =>
       /\ lc'.command = "Decrease" /\ lc.waitForChange =>
            later(since, delta) > TimeoutWindow
       /\ lc'.command = "Increase" => later(since, delta) > TimeoutWindow
       /\ lc.waitForChange /\ ~lc'.waitForChange =>
            changed \/ lc'.command = "Increase"]_lcVars
=============================================================================
