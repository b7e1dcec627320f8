--------------------------- MODULE PipelineControl ---------------------------
(***************************************************************************)
(* The consumer's control loop: PipelineControl with its state machine     *)
(* (pipeline-control.cpp, pipeline-control-state-machine.cpp), driving     *)
(* InterestControl and driven by SegmentController, BufferControl and      *)
(* LatencyControl.                                                         *)
(*                                                                         *)
(* One step is one callback of SegmentController or one call of the        *)
(* application.  The state machine calls PipelineControl back from within  *)
(* a transition, which stops and starts the machine again, so a step is a  *)
(* chain of functions on a record w of the state.                          *)
(*                                                                         *)
(* Frames are abstracted to what the control asks about them: whether a    *)
(* segment is the first of its sample, carries the packet header, was      *)
(* answered by the producer, and what it is to a bootstrapping machine.    *)
(* The estimators (demand, stability, delay change, time-out of the        *)
(* window) are choices of the environment.                                 *)
(***************************************************************************)
EXTENDS InterestControl, LatencyControl

CONSTANTS
  Kinds,     \* "video", "audio", "seed": the state machines to look at
  SeedSize,  \* FetchingRuleSet::pipelineSize_ of a seed machine
  MaxAsked,  \* bound on the bootstrap Interests outstanding at a time
  Failures   \* what may go wrong: "timeout", "reject", "starvation", "stop"

ASSUME PipelineControlAssumption ==
  /\ Kinds \subseteq {"video", "audio", "seed"}
  /\ SeedSize \in Nat \ {0} /\ SeedSize <= Cap
  /\ MaxAsked \in Nat \ {0}
  /\ 2 * Cap < WordSize  \* a burst of a bounded pipeline does not wrap
  /\ Failures \subseteq {"timeout", "reject", "starvation", "stop"}

VARIABLES
  kind,       \* which state machine the stream builds
  state,      \* currentState_ of the machine
  observers,  \* how often PipelineControl is among the machine's observers
  hasMeta,    \* BootstrappingT::metadata_ is set
  asked,      \* bootstrap Interests (metadata or seed frame) outstanding
  rejected,   \* history: the last one that ended was rejected, and none was sent since
  allowed,    \* PlayoutControl::playoutAllowed_
  latency,    \* LatencyControl: currentCommand_ and waitForChange_
  active,     \* SegmentController::active_
  starved,    \* SegmentController::starvationFired_
  fault       \* the exception that ended the last callback

vars == <<icVars, kind, state, observers, hasMeta, asked, rejected, allowed, latency,
          active, starved, fault>>

World ==
  [ic |-> ic, maxDemand |-> maxDemand, mark |-> mark, state |-> state,
   observers |-> observers, hasMeta |-> hasMeta, asked |-> asked,
   rejected |-> rejected, allowed |-> allowed,
   latency |-> latency, active |-> active, starved |-> starved,
   fault |-> fault]

Become(w) ==
  /\ ic' = w.ic /\ maxDemand' = w.maxDemand /\ mark' = w.mark /\ state' = w.state
  /\ observers' = w.observers /\ hasMeta' = w.hasMeta /\ asked' = w.asked
  /\ rejected' = w.rejected
  /\ allowed' = w.allowed /\ latency' = w.latency /\ active' = w.active
  /\ starved' = w.starved /\ fault' = w.fault
  /\ UNCHANGED kind

(* role: unexpected, expected or at the start-off number of a live stream;  *)
(* for a seed machine a key frame is the start-off.                         *)
Roles == {"unexpected", "expected", "startOff"}
Segment == [first : BOOLEAN, header : BOOLEAN, original : BOOLEAN,
            role : Roles]

-----------------------------------------------------------------------------
(* LatencyControl::sampleArrived *)
sampleArrived(w, e) ==
  LET l == latencyCommand(w.latency, e)
  IN [w EXCEPT !.latency = pipelineChanged(l), !.ic = needPipelineAdjustment(@, l.command)]

-----------------------------------------------------------------------------
(* The states *)

fillUpPipeline(w) == [w EXCEPT !.ic.pipeline = larger(@, w.ic.limit)]

ask(w) == [w EXCEPT !.asked = smaller(@ + 1, MaxAsked), !.rejected = FALSE]

askSeedFrame(w, demand) ==
  ask([w EXCEPT !.ic = markLowerLimit(initialize(@, SeedSize), SeedSize, demand, w.maxDemand)])

(* Fault: Idle keeps the interest control. *)
enterKeepsPipeline(w, s, demand) ==
  LET left == [w EXCEPT !.hasMeta = FALSE, !.state = s]
  IN CASE s = "Idle" -> [left EXCEPT !.latency = latencyReset, !.allowed = FALSE]
       [] s = "Bootstrapping" -> IF kind = "seed" THEN askSeedFrame(left, demand) ELSE ask(left)
       [] s = "Adjusting" -> [left EXCEPT !.mark = w.ic.limit]
       [] OTHER -> left

(* exit() of the state that is left and enter() of the next one. *)
enter(w, s, demand) ==
  LET left == [w EXCEPT !.hasMeta = FALSE, !.state = s]
  IN CASE s = "Idle" -> [left EXCEPT !.latency = latencyReset, !.ic = icReset, !.allowed = FALSE]
       [] s = "Bootstrapping" -> IF kind = "seed" THEN askSeedFrame(left, demand) ELSE ask(left)
       [] s = "Adjusting" -> [left EXCEPT !.mark = w.ic.limit]
       [] OTHER -> left

States == {"Idle", "Bootstrapping", "Fetching"} \cup (IF kind = "seed" THEN {} ELSE {"Adjusting"})

(* A transition to which PipelineControl, the observer, does not react. *)
switchToState(w, s, demand) ==
  IF s \notin States THEN [w EXCEPT !.fault = "Unsupported state"]
  ELSE enter(w, s, demand)

(* PipelineControl::start and stop *)
start(w, demand) ==
  IF w.state # "Idle" THEN [w EXCEPT !.fault = "started already"]
  ELSE switchToState([w EXCEPT !.observers = @ + 1], "Bootstrapping", demand)

stop(w, demand) ==
  LET detached == [w EXCEPT !.observers = IF @ > 0 THEN @ - 1 ELSE 0]
  IN IF w.state = "Idle" THEN detached ELSE switchToState(detached, "Idle", demand)

(* Starvation in Adjusting or Fetching: from within the transition to Idle  *)
(* the observer starts over.                                                *)
revertToIdle(w, demand) ==
  LET idle == enter(w, "Idle", demand)
  IN IF idle.observers > 0 THEN start(stop(idle, demand), demand) ELSE idle

(* BootstrappingT::onSegment for a media segment. *)
bootstrapOnSegment(w, role, demand) ==
  LET filled == fillUpPipeline(w)
  IN IF ~w.hasMeta \/ role = "unexpected" THEN w
     ELSE IF role = "startOff" THEN switchToState([filled EXCEPT !.allowed = TRUE], "Adjusting", demand)
     ELSE filled

seedOnSegment(w, role, demand) ==
  IF role # "startOff" THEN w
  ELSE switchToState([fillUpPipeline(w) EXCEPT !.allowed = TRUE], "Fetching", demand)

(* Fault: the settled pipeline size is not marked. *)
adjustingUnmarked(w, demand) ==
  LET filled == fillUpPipeline(w)
  IN CASE w.latency.command = "Increase" -> switchToState(filled, "Fetching", demand)
       [] w.latency.command = "Decrease" -> [filled EXCEPT !.mark = filled.ic.limit]
       [] OTHER -> filled

adjustingOnSegment(w, demand) ==
  LET filled == fillUpPipeline(w)
  IN CASE w.latency.command = "Increase" ->
            switchToState([filled EXCEPT !.ic = markLowerLimit(@, w.mark, demand, w.maxDemand)],
                          "Fetching", demand)
       [] w.latency.command = "Decrease" -> [filled EXCEPT !.mark = filled.ic.limit]
       [] OTHER -> filled

fetchingOnSegment(w, demand) ==
  LET filled == fillUpPipeline(w)
  IN IF w.latency.command = "Increase" THEN switchToState(filled, "Adjusting", demand) ELSE filled

onSegment(w, role, demand) ==
  CASE w.state = "Bootstrapping" /\ kind = "seed" -> seedOnSegment(w, role, demand)
    [] w.state = "Bootstrapping" /\ kind # "seed" -> bootstrapOnSegment(w, role, demand)
    [] w.state = "Adjusting" -> adjustingOnSegment(w, demand)
    [] w.state = "Fetching" -> fetchingOnSegment(w, demand)
    [] OTHER -> w

(* processMetadata: demand stands for the initial pipeline size. *)
processMetadata(w, demand) ==
  fillUpPipeline([w EXCEPT !.hasMeta = TRUE, !.ic = initialize(@, demand)])

-----------------------------------------------------------------------------
(* BufferControl::segmentArrived for a segment that is in the buffer.  Only *)
(* a live video stream counts samples down when they arrive, only an audio  *)
(* stream tells InterestControl the producer's rate.                        *)
bufferControl(w, seg, e, demand, rateDemand) ==
  LET counted == IF seg.first /\ kind = "video" THEN decrement(w.ic) ELSE w.ic
      measured == IF seg.original THEN onOriginalDrdUpdate(counted, demand, w.maxDemand) ELSE counted
      rated == IF seg.header /\ kind = "audio"
               THEN [w EXCEPT !.ic = targetRateUpdate(measured, demand, rateDemand),
                              !.maxDemand = rateDemand]
               ELSE [w EXCEPT !.ic = measured]
  IN IF seg.first THEN sampleArrived(rated, e) ELSE rated

-----------------------------------------------------------------------------
Init ==
  /\ ICInit /\ kind \in Kinds
  /\ state = "Idle" /\ observers = 0 /\ hasMeta = FALSE /\ asked = 0
  /\ rejected = FALSE /\ allowed = FALSE /\ latency = latencyReset
  /\ active = FALSE /\ starved = FALSE /\ fault = "none"

(* initiateFetching: a new machine enters Idle and is started. *)
Start(demand) ==
  /\ fault = "none" /\ ~active
  /\ Become(start(enter([World EXCEPT !.active = TRUE, !.observers = 0], "Idle", demand), demand))

(* stopFetching *)
Stop(demand) ==
  /\ "stop" \in Failures /\ fault = "none" /\ active
  /\ Become(stop([World EXCEPT !.active = FALSE], demand))

(* A segment of a sample that is in the buffer, which is empty until the    *)
(* first request.  The first segment of a live video frame answers a sample *)
(* that is counted as outstanding.                                          *)
OnSegment(seg, e, demand, rateDemand) ==
  /\ fault = "none" /\ active
  /\ kind = "seed" \/ hasMeta \/ state \in {"Adjusting", "Fetching"}
  /\ kind = "video" /\ seg.first => ic.pipeline > 0
  /\ Become(onSegment(bufferControl([World EXCEPT !.starved = FALSE], seg, e, demand, rateDemand),
                      seg.role, demand))

(* A segment that is no longer in the buffer. *)
OnLateSegment(role, demand) ==
  /\ fault = "none" /\ active
  /\ Become(onSegment([World EXCEPT !.starved = FALSE], role, demand))

(* A seed machine asks for a frame instead, answered by OnSegment. *)
OnMetadata(demand) ==
  /\ fault = "none" /\ active /\ asked > 0 /\ kind # "seed"
  /\ LET w == [World EXCEPT !.asked = @ - 1, !.starved = FALSE]
     IN Become(IF state = "Bootstrapping" THEN processMetadata(w, demand)
               ELSE onSegment(w, "unexpected", demand))

(* Fault: metadata is not asked for again. *)
OnTimeoutForgets(demand) ==
  /\ "timeout" \in Failures /\ fault = "none" /\ asked > 0
  /\ Become([World EXCEPT !.asked = @ - 1])

(* A bootstrap Interest times out: bootstrapping asks again, Adjusting and  *)
(* Fetching re-issue it, an inactive controller ignores it.                 *)
OnTimeout(demand) ==
  /\ "timeout" \in Failures /\ fault = "none" /\ asked > 0
  /\ LET w == [World EXCEPT !.asked = @ - 1]
     IN Become(IF ~active \/ state = "Idle" THEN w
               ELSE IF state = "Bootstrapping" /\ kind = "seed" THEN askSeedFrame(w, demand)
               ELSE ask(w))

(* A network Nack, which dispatchEvent drops, or an application Nack, which *)
(* SegmentController drops.                                                 *)
OnReject ==
  /\ "reject" \in Failures /\ fault = "none" /\ asked > 0
  /\ Become([World EXCEPT !.asked = @ - 1, !.rejected = TRUE])

(* periodicInvocation finds no data: announced once until data arrives.     *)
(* segmentStarvation sends Starvation, then Start.                          *)
OnStarvation(demand) ==
  /\ "starvation" \in Failures /\ fault = "none" /\ active /\ ~starved
  /\ LET w == [World EXCEPT !.starved = TRUE]
         after == IF state \in {"Adjusting", "Fetching"} THEN revertToIdle(w, demand) ELSE w
     IN Become(IF after.state = "Idle" THEN switchToState(after, "Bootstrapping", demand)
               ELSE after)

(* PlaybackObserver: a playback-driven stream makes room for a new sample   *)
(* when the playout has processed or skipped one.                           *)
FramePlayed ==
  /\ kind = "seed" /\ fault = "none" /\ active /\ allowed
  /\ Become(IF ic.pipeline > 0 THEN fillUpPipeline([World EXCEPT !.ic = decrement(@)])
            ELSE [World EXCEPT !.fault = "assert(pipeline_ >= 0)"])

(* The estimators are asked at a new sample, the rate is in a packet header. *)
Estimates(seg) ==
  IF seg.first THEN Estimate ELSE {[stable |-> FALSE, changed |-> FALSE, timeout |-> FALSE]}
Rates(seg) == IF seg.header THEN MaxDemands ELSE {maxDemand}

SegmentArrives(role) ==
  \E seg \in {s \in Segment : s.role = role}, demand \in Demands :
    \E e \in Estimates(seg), rateDemand \in Rates(seg) : OnSegment(seg, e, demand, rateDemand)

MetadataArrives == state = "Bootstrapping" /\ \E demand \in Demands : OnMetadata(demand)

StartOffArrives == state = "Bootstrapping" /\ SegmentArrives("startOff")

Next ==
  \/ \E demand \in Demands :
       \/ Start(demand) \/ Stop(demand) \/ OnMetadata(demand) \/ OnTimeout(demand)
       \/ OnStarvation(demand)
       \/ \E role \in Roles : OnLateSegment(role, demand)
  \/ \E role \in Roles : SegmentArrives(role)
  \/ OnReject \/ FramePlayed

Spec == Init /\ [][Next]_vars

(* The network answers a bootstrapping consumer: metadata that is asked for *)
(* again and again arrives, and so does a frame at or after the start-off   *)
(* number.                                                                  *)
Fairness == WF_vars(MetadataArrives) /\ WF_vars(StartOffArrives)

FairSpec == Spec /\ Fairness

-----------------------------------------------------------------------------
(* Properties *)

(* Type correctness of the control loop. *)
PCTypeOK ==
  /\ ICTypeOK /\ kind \in Kinds
  /\ state \in States /\ observers \in Nat /\ hasMeta \in BOOLEAN
  /\ asked \in 0..MaxAsked /\ rejected \in BOOLEAN /\ allowed \in BOOLEAN
  /\ latency \in [command : Commands, waitForChange : BOOLEAN]
  /\ active \in BOOLEAN /\ starved \in BOOLEAN
  /\ fault \in {"none", "started already", "Unsupported state", "assert(pipeline_ >= 0)"}

(* No callback ends in an exception or a failed assertion: the restart from *)
(* within a transition never finds the machine started already, a frame     *)
(* played by a playback-driven stream always finds a sample counted as      *)
(* outstanding, although its seed frame was requested uncounted, and a live *)
(* stream's states never ask for a state its machine was built without (the *)
(* playback-driven one does: it has no Adjusting, which Bootstrapping asks  *)
(* for, and the exception ends the run of the machine).                     *)
NoFault == fault = "none" \/ (kind = "seed" /\ fault = "Unsupported state")

(* While the stream is running the machine is never left in Idle and        *)
(* PipelineControl is attached to it exactly once, however often starvation *)
(* has stopped and started it from within a transition; a stopped stream    *)
(* has detached it.                                                         *)
RestartsItself ==
  IF active THEN state # "Idle" /\ observers = 1 ELSE state = "Idle" /\ observers = 0

(* The playout runs exactly while the machine adjusts or fetches: a         *)
(* rebuffering pauses it and the start-off frame resumes it.                *)
PlayoutMatchesState == allowed <=> state \in {"Adjusting", "Fetching"}

(* A machine that waits for metadata carries nothing over from the time     *)
(* before: no sample is counted as outstanding, no lower limit is marked    *)
(* and no latency command is pending, whatever arrives late.                *)
BootstrapsFromScratch ==
  state = "Bootstrapping" /\ kind # "seed" /\ ~hasMeta =>
    /\ ic = icReset
    /\ latency = latencyReset

(* Whenever frames are played, the next starvation will be noticed:         *)
(* starvationFired_ is not left set by an earlier one.                      *)
StarvationArmed == state \in {"Adjusting", "Fetching"} => ~starved

(* Adjusting "restores previous pipeline size and transitions to Fetching   *)
(* state": as long as the machine fetches, the size it settled on is marked *)
(* as the lower limit, and neither withholds nor re-measured limits take    *)
(* the pipeline below it, except as far as the upper limit forces it.       *)
SettledSizeIsFloor ==
  state = "Fetching" /\ kind # "seed" =>
    ic.limitSet /\ mark <= ic.lower /\ smaller(mark, ic.upper) <= ic.limit

(* Bootstrapping ends, in spite of lost Interests and starvation: playback  *)
(* starts unless the stream is stopped or its last metadata Interest was    *)
(* rejected by a Nack, which nobody handles.                                *)
BootstrapCompletes ==
  state = "Bootstrapping" ~>
    state \in {"Adjusting", "Fetching"} \/ ~active \/ (rejected /\ asked = 0 /\ ~hasMeta)

(* Restarts from within a transition neither fail nor leave anything        *)
(* behind: the machine runs while the stream does, the playout and the      *)
(* starvation flag follow its state, and a new session starts from scratch. *)
SessionsKeptApart ==
  /\ PCTypeOK
  /\ NoFault
  /\ RestartsItself
  /\ PlayoutMatchesState
  /\ StarvationArmed
  /\ BootstrapsFromScratch
=============================================================================
