---------------------------- MODULE VideoPlayout ----------------------------
(***************************************************************************)
(* Playing a video stream: PlayoutControl starts and stops the playout,    *)
(* PlayoutImpl takes samples from the playback queue at the pace of their  *)
(* timestamps, JitterTiming makes up for the time spent on processing, and *)
(* VideoPlayoutImpl decides which frames the decoder gets                  *)
(* (playout-control.cpp, playout-impl.cpp, jitter-timing.cpp,              *)
(* video-playout-impl.cpp).                                                *)
(*                                                                         *)
(* All of it runs on the io_service thread.  The network delivers frames   *)
(* late, out of order or never.  The timer has to be set anew for every    *)
(* sample; it expires, and its handler runs then or later.                 *)
(* Frames are their playback numbers.  Time is counted in milliseconds of  *)
(* Ms ticks.                                                               *)
(***************************************************************************)
EXTENDS Integers, Sequences, FiniteSets

CONSTANTS
  Frames,     \* playback numbers
  KeyFrames,  \* those of key frames
  Ts,         \* publishTimestampMs_ of each frame
  Period,     \* samplePeriod(): 1000 / packetRate_
  Ms,         \* ticks in a millisecond (1000 microseconds)
  MinLevel,   \* PlayoutControl::MinimalPlayableLevel
  Levels,     \* target sizes that the user, the latency control or the DRD may ask for
  Ffwds,      \* fast forward intervals given with the permission to play
  Lateness,   \* how much later than its expiry a timer may fire, in ticks
  MaxClock    \* bound on the time a session may wait at an empty queue

ASSUME PlayoutAssumption ==
  /\ Frames \subseteq Nat /\ KeyFrames \subseteq Frames
  /\ Ts \in [Frames -> Int] /\ \A f, g \in Frames : f < g => Ts[f] < Ts[g]
  /\ Period \in Nat \ {0} /\ Ms \in Nat \ {0} /\ MinLevel \in Nat \ {0}
  /\ Levels \subseteq Nat /\ Ffwds \subseteq Nat
  /\ Lateness \subseteq Nat /\ MaxClock \in Nat

VARIABLES
  queue,   \* frames in the playback queue
  seen,    \* history: frames that have been assembled
  control, \* playoutAllowed_, ffwdMs_, userThresholdMs_, thresholdMs_
  playout, \* isRunning_, lastTimestamp_, lastDelay_, delayAdjustment_
  jitter,  \* framePlayoutTimeMs_, processingTimeUsec_
  timer,   \* timer_: "off", "armed", or "expired": its handler is queued
  gop,     \* gopIsValid_, currentPlayNo_
  shown,   \* history: frames the decoder got in this session
  clock,   \* history: ticks from the start of the session to the last extraction
  base     \* history: timestamp that was due at the start, moved by later adjustments

vars == <<queue, seen, control, playout, jitter, timer, gop, shown, clock, base>>

-----------------------------------------------------------------------------
(* PlaybackQueue *)

IsFirst(f, q) == f \in q /\ \A g \in q : f <= g
IsLast(f, q) == f \in q /\ \A g \in q : g <= f

(* size: milliseconds of playable content *)
IsSize(ms, q) ==
  \/ q = {} /\ ms = 0
  \/ \E f, l \in q : IsFirst(f, q) /\ IsLast(l, q) /\ ms = Ts[l] - Ts[f] + Period

(* pop: the play time of f, when rest are left *)
IsPlayTime(d, f, rest) ==
  \/ rest = {} /\ d = Period
  \/ \E g \in rest : IsFirst(g, rest) /\ d = Ts[g] - Ts[f]

-----------------------------------------------------------------------------
(* PlayoutImpl *)

(* adjustDelay: what is left of the adjustment, and how long to wait *)
adjustDelay(p, delay) ==
  IF p.adjustment < 0 /\ -p.adjustment > delay
  THEN [left |-> p.adjustment + delay, wait |-> 0]
  ELSE [left |-> 0, wait |-> delay + p.adjustment]

(* Fault: the correction forgets how long the last sample was played. *)
correctAdjustmentHard(p, f) ==
  IF p.lastDelay >= 0 THEN [p EXCEPT !.adjustment = @ + Ts[f] - p.lastTs] ELSE p

correctAdjustment(p, f) ==
  IF p.lastDelay >= 0 THEN [p EXCEPT !.adjustment = @ + Ts[f] - p.lastTs - p.lastDelay] ELSE p

(* A frame is taken from the queue, or none is there. *)
popped(p, f, delay) ==
  LET c == correctAdjustment(p, f)
  IN [c EXCEPT !.lastTs = Ts[f], !.lastDelay = delay, !.adjustment = adjustDelay(c, delay).left]
poppedWait(p, f, delay) == adjustDelay(correctAdjustment(p, f), delay).wait

starved(p) ==
  [p EXCEPT !.lastTs = @ + Period, !.lastDelay = Period, !.adjustment = adjustDelay(p, Period).left]
starvedWait(p) == adjustDelay(p, Period).wait

-----------------------------------------------------------------------------
(* JitterTiming *)

(* updatePlayoutTime: whole milliseconds of processing are taken off. *)
updatePlayoutTime(j, wait) ==
  LET whole == (j.processing \div Ms) * Ms
  IN IF j.processing < Ms THEN [j EXCEPT !.playTime = wait]
     ELSE IF whole > wait * Ms
     THEN [playTime |-> 0, processing |-> j.processing - wait * Ms]
     ELSE [playTime |-> wait - j.processing \div Ms, processing |-> j.processing - whole]

(* startFramePlayout, when the timer fires late *)
startFramePlayout(j, late) == [j EXCEPT !.processing = @ + late]

-----------------------------------------------------------------------------
(* VideoPlayoutImpl::processSample of a frame that can be read *)

(* Fault: a gap between delta frames does not invalidate the GOP. *)
processSampleThroughGaps(g, f) ==
  [valid |-> f \in KeyFrames \/ g.valid, playNo |-> f]

processSample(g, f) ==
  [valid |-> \/ f \in KeyFrames
             \/ g.valid /\ (g.playNo >= 0 => f = g.playNo + 1),
   playNo |-> f]

-----------------------------------------------------------------------------
(* extractSample, after startFramePlayout, of the queue q by the playout p. *)
(* A frame that FEC cannot restore changes nothing but the time.            *)
Sample(q, p, j, g, s) ==
  \/ /\ q = {}
     /\ queue' = q /\ gop' = g /\ shown' = s
     /\ playout' = starved(p)
     /\ jitter' = updatePlayoutTime(j, starvedWait(p))
  \/ \E f \in q, delay \in 0..MaxClock :
       /\ IsFirst(f, q) /\ IsPlayTime(delay, f, q \ {f})
       /\ queue' = q \ {f}
       /\ playout' = popped(p, f, delay)
       /\ jitter' = updatePlayoutTime(j, poppedWait(p, f, delay))
       /\ \/ gop' = g /\ shown' = s
          \/ /\ gop' = processSample(g, f)
             /\ shown' = IF gop'.valid THEN Append(s, f) ELSE s

(* Fault: an empty queue sets no timer. *)
ExtractSampleOrWait(q, p, j, g, s) ==
  Sample(q, p, j, g, s) /\ timer' = IF q = {} THEN "off" ELSE "armed"

(* Whatever was found, run sets the timer for the next sample. *)
ExtractSample(q, p, j, g, s) == Sample(q, p, j, g, s) /\ timer' = "armed"

stopped == [running |-> FALSE, lastTs |-> -1, lastDelay |-> -1, adjustment |-> 0]
fresh == [playTime |-> 0, processing |-> 0]

(* start: ffwd milliseconds of the queue are played at once.  A handler     *)
(* left over from the session before has run by then: it was queued before  *)
(* the Interests left that bring the frames to start with.                  *)
Start(q, c, ffwd) ==
  /\ timer = "off"
  /\ control' = c
  /\ clock' = 0
  /\ \E f \in q : IsFirst(f, q) /\ base' = Ts[f] + ffwd
  /\ ExtractSample(q, [stopped EXCEPT !.running = TRUE, !.adjustment = -ffwd], fresh, gop, <<>>)

(* stop leaves the GOP valid; a timer that has expired cannot be cancelled. *)
StopPlayout(q, c) ==
  /\ control' = c /\ queue' = q
  /\ timer' = IF timer = "armed" THEN "off" ELSE timer
  /\ playout' = stopped /\ jitter' = fresh
  /\ gop' = [gop EXCEPT !.playNo = -1]
  /\ shown' = <<>> /\ clock' = 0 /\ base' = 0

Unmoved(q, c) ==
  /\ control' = c /\ queue' = q
  /\ UNCHANGED <<playout, jitter, timer, gop, shown, clock, base>>

(* checkPlayout, with the queue q and the control c *)
CheckPlayout(q, c) ==
  \E ms \in 0..MaxClock : IsSize(ms, q) /\
    IF playout.running = c.allowed THEN Unmoved(q, c)
    ELSE IF ~c.allowed THEN StopPlayout(q, c)
    ELSE IF ms >= c.threshold + c.ffwd THEN Start(q, c, ms - c.threshold)
    ELSE Unmoved(q, c)

(* checkPlaybackQueueSize: half as much again as a sample, at most. *)
queueAdjustment(ms, c) ==
  LET diff == c.threshold - ms
      size == IF diff < 0 THEN -diff ELSE diff
      most == (3 * Period) \div 2
  IN IF 2 * size <= 3 * Period THEN 0
     ELSE (IF diff < 0 THEN -1 ELSE 1) * (IF size < most THEN size ELSE most)

-----------------------------------------------------------------------------
Init ==
  /\ queue = {} /\ seen = {}
  /\ control \in {[allowed |-> FALSE, ffwd |-> 0, user |-> u,
                   threshold |-> IF u > MinLevel THEN u ELSE MinLevel] : u \in Levels}
  /\ playout = stopped /\ jitter = fresh /\ timer = "off"
  /\ gop = [valid |-> FALSE, playNo |-> -1]
  /\ shown = <<>> /\ clock = 0 /\ base = 0

(* A frame is assembled: the queue and then PlayoutControl learn of it. *)
OnNewSampleReady(f) ==
  /\ f \notin seen /\ seen' = seen \cup {f}
  /\ CheckPlayout(queue \cup {f}, control)

(* The same, when the interval between two checks of the queue has passed. *)
CheckQueueSize(f) ==
  /\ f \notin seen /\ playout.running
  /\ seen' = seen \cup {f} /\ queue' = queue \cup {f}
  /\ \E ms \in 0..MaxClock : IsSize(ms, queue') /\
       LET adj == queueAdjustment(ms, control)
       IN playout' = [playout EXCEPT !.adjustment = @ + adj] /\ base' = base - adj
  /\ UNCHANGED <<control, jitter, timer, gop, shown, clock>>

(* allowPlayout, called by the state machine *)
AllowPlayout(allow, ffwd) ==
  /\ control.allowed # allow
  /\ CheckPlayout(queue, [control EXCEPT !.allowed = allow, !.ffwd = ffwd])
  /\ UNCHANGED seen

(* setThreshold: asked for by the user or the latency control *)
SetThreshold(t) ==
  /\ control' = [control EXCEPT !.user = t,
                   !.threshold = IF @ > t /\ t < MinLevel THEN MinLevel ELSE t]
  /\ UNCHANGED <<queue, seen, playout, jitter, timer, gop, shown, clock, base>>

(* onOriginalDrdUpdate: the target follows the delay by steps of a tenth. *)
OnOriginalDrdUpdate(target) ==
  /\ target >= MinLevel /\ control.threshold # control.user
  /\ 10 * (control.threshold - target) >= target \/ 10 * (target - control.threshold) >= target
  /\ control' = [control EXCEPT !.threshold = target]
  /\ UNCHANGED <<queue, seen, playout, jitter, timer, gop, shown, clock, base>>

(* The time the timer was set for has come. *)
TimerExpires ==
  /\ timer = "armed" /\ timer' = "expired"
  /\ UNCHANGED <<queue, seen, control, playout, jitter, gop, shown, clock, base>>

(* The handler of the timer runs, late ticks after the expiry. *)
ExtractNext(late) ==
  /\ timer = "expired" /\ playout.running /\ (queue = {} => clock < MaxClock)
  /\ clock' = clock + jitter.playTime * Ms + late
  /\ ExtractSample(queue, playout, startFramePlayout(jitter, late), gop, shown)
  /\ UNCHANGED <<seen, control, base>>

(* The handler runs after stop, which was too late to cancel it. *)
ExtractNothing ==
  /\ timer = "expired" /\ ~playout.running
  /\ timer' = "off"
  /\ UNCHANGED <<queue, seen, control, playout, jitter, gop, shown, clock, base>>

TimerHandler == ExtractNothing \/ \E late \in Lateness : ExtractNext(late)

Next ==
  \/ \E f \in Frames : OnNewSampleReady(f) \/ CheckQueueSize(f)
  \/ \E ffwd \in Ffwds : AllowPlayout(TRUE, ffwd)
  \/ AllowPlayout(FALSE, 0)
  \/ \E t \in Levels : SetThreshold(t) \/ OnOriginalDrdUpdate(t)
  \/ TimerExpires
  \/ TimerHandler

Spec == Init /\ [][Next]_vars

(* A timer that is set expires, and the handler that it queues runs. *)
FairSpec == Spec /\ WF_vars(TimerExpires) /\ WF_vars(TimerHandler)

-----------------------------------------------------------------------------
(* Properties *)

(* Type correctness; JitterTiming's assertions hold: no wait is negative,   *)
(* whatever late frames and checks of the queue add to the adjustment.      *)
PlayoutTypeOK ==
  /\ queue \subseteq seen /\ seen \subseteq Frames
  /\ control \in [allowed : BOOLEAN, ffwd : Nat, user : Nat, threshold : Nat]
  /\ playout \in [running : BOOLEAN, lastTs : Int, lastDelay : Nat \cup {-1}, adjustment : Int]
  /\ jitter \in [playTime : Nat, processing : Nat]
  /\ timer \in {"off", "armed", "expired"}
  /\ gop \in [valid : BOOLEAN, playNo : Frames \cup {-1}]
  /\ shown \in Seq(Frames) /\ clock \in Nat /\ base \in Int

(* The playout is "self-correcting" (playout.hpp): the timer is set for the *)
(* moment at which the next sample is due by its timestamp, but for         *)
(* processing time and adjustments that could not be made up for yet.       *)
(* Frames that come late, queues that run empty, timers that fire late and  *)
(* skipped frames never add up to a drift.                                  *)
OnSchedule ==
  playout.running =>
    clock + jitter.playTime * Ms - jitter.processing
      = Ms * (playout.lastTs + playout.lastDelay - base - playout.adjustment)

(* A playout that runs has set its timer, or the handler is queued. *)
TimerSet == playout.running => timer # "off"

(* A millisecond of processing that has not been made up for means that the *)
(* playout does not wait at all.                                            *)
ProcessingAbsorbed == jitter.processing >= Ms => jitter.playTime = 0

(* The target size never falls below the minimum, and the playout starts    *)
(* with a sample to play: its timestamp is the base of the schedule.        *)
StartsFromSample ==
  /\ control.threshold >= MinLevel
  /\ playout.running => playout.lastDelay >= 0 /\ control.allowed

(* In one session the decoder gets a delta frame only straight after the    *)
(* frame before it, although frames are lost, late, unreadable or taken out *)
(* of order.  (The first frame of a session is taken on trust of the        *)
(* session before it: stop() leaves gopIsValid_ set.)                       *)
DecodesWholeGops ==
  \A i \in 2..Len(shown) : shown[i] \in KeyFrames \/ shown[i] = shown[i - 1] + 1

(* A frame in the queue is taken from it, unless the playout stops: every   *)
(* way through start and extractSample, with an empty queue, an unreadable  *)
(* frame or no time to wait, leaves a timer set for the next sample.        *)
QueueDrains ==
  \A f \in Frames : playout.running /\ f \in queue ~> f \notin queue \/ ~playout.running

(* From its first sample on the playout keeps to the schedule of the        *)
(* timestamps, never waits a negative time and makes up for processing.     *)
KeepsSchedule ==
  /\ PlayoutTypeOK
  /\ OnSchedule
  /\ TimerSet
  /\ ProcessingAbsorbed
  /\ StartsFromSample
=============================================================================
