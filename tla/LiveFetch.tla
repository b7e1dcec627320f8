------------------------------ MODULE LiveFetch ------------------------------
(***************************************************************************)
(* A live media consumer: Buffer and PlaybackQueue (FrameBuffer) driven by *)
(* Pipeliner, RetransmissionController, BufferObserver, PlayoutControl and *)
(* the pipeline control, over a network that answers, delays, drops and    *)
(* rejects Interests.                                                      *)
(*                                                                         *)
(* One step is one callback of the io_service thread.  A callback calls    *)
(* observers that call back into the buffer, so it is written as a chain   *)
(* of functions on a record w of all the state, in the order in which      *)
(* RemoteVideoStreamImpl attaches the observers: playback queue,           *)
(* retransmission controller, pipeliner, buffer observer, and then, from   *)
(* SegmentController, the pipeline control.  A thrown exception or a       *)
(* failed assertion is recorded in w.fault and ends the callback.          *)
(*                                                                         *)
(* Time is abstracted: which tracked slots are past their retransmission   *)
(* deadline (due), whether a segment is the start-off one and when a       *)
(* starvation is declared are choices of the environment.  The stream is   *)
(* a window of named samples; samples after it are requested (they take up *)
(* pipeline room) but are not produced within the behaviour.               *)
(***************************************************************************)
EXTENDS FrameBuffer, SequencesExt

CONSTANTS
  Media,                 \* "video" or "audio" (whose samples are all delta)
  DeltaNames, KeyNames,  \* the samples of each class, by sequence number
  EstData, EstParity,    \* SampleEstimator's batch size for each class
  Limit,                 \* InterestControl::limit_
  StartLevel,            \* playable ms at which a permitted playout starts
  Positions,             \* <<delta, key>> numbers metadata may tell to fetch from
  MaxCopies,             \* bound on the outstanding copies of an Interest
  Failures,              \* what may go wrong: "timeout", "nack", "starvation"
  SpareSlots             \* bound: slots free of samples awaiting playback at a restart

ASSUME LiveFetchAssumption ==
  /\ Media \in {"video", "audio"}
  /\ DeltaNames \in Seq(Deltas) /\ KeyNames \in Seq(Samples \ Deltas)
  /\ Samples = Range(DeltaNames) \cup Range(KeyNames)
  /\ IsInjective(DeltaNames) /\ IsInjective(KeyNames)
  /\ EstData \in [{"Delta", "Key"} -> Nat] /\ EstParity \in [{"Delta", "Key"} -> Nat]
  /\ Positions \subseteq [{"Delta", "Key"} -> Nat \ {0}]
  /\ Limit \in Nat \ {0} /\ StartLevel \in Nat /\ MaxCopies \in Nat \ {0}
  /\ Failures \subseteq {"timeout", "nack", "starvation"}
  /\ SpareSlots \in Nat

VARIABLES
  pit,          \* outstanding copies of each segment Interest
  metaPending,  \* a metadata Interest is outstanding
  tracked,      \* RetransmissionController::activeSlots_
  seqCounter,   \* Pipeliner::seqCounter_, as indices into the name sequences
  need,         \* Pipeliner::nextSamplePriority_
  pipeline,     \* InterestControl::pipeline_
  state,        \* PipelineControlStateMachine::currentState_
  bootstrap,    \* <<hasMetadata(), bootstrapSeqNums_>>
  allowed,      \* PlayoutControl::playoutAllowed_
  playing,      \* PlayoutImpl::isRunning_ (and RetransmissionController::enabled_)
  lastDelta,    \* history: the delta frame popped last in this session
  fault         \* what ended the last callback, "none" if it returned

vars == <<buf, pit, metaPending, tracked, seqCounter, need, pipeline, state,
          bootstrap, allowed, playing, lastDelta, fault>>

Class == {"Delta", "Key"}
classOf(n) == IF n \in Deltas THEN "Delta" ELSE "Key"
NamesOf(c) == IF c = "Delta" THEN DeltaNames ELSE KeyNames
SeqNo(n) == CHOOSE i \in DOMAIN NamesOf(classOf(n)) : NamesOf(classOf(n))[i] = n

(* Names are ordered, and frames published, by sequence number. *)
ASSUME PublishedInOrder ==
  \A m, n \in Deltas : SeqNo(m) < SeqNo(n) => m \in Earlier[n] /\ Timestamp[m] < Timestamp[n]

(* getBatch: Interests for the estimated numbers of data and parity segments. *)
getBatch(n) ==
  {DataSeg(i) : i \in 0 .. EstData[classOf(n)] - 1}
    \cup {ParitySeg(i) : i \in 0 .. EstParity[classOf(n)] - 1}

Interests == UNION {{n} \X (getBatch(n) \cup SegmentsOf(n)) : n \in Samples}

(* The state as one record, and the step to the state a callback computed. *)
World ==
  [buf |-> buf, pit |-> pit, metaPending |-> metaPending, tracked |-> tracked,
   seqCounter |-> seqCounter, need |-> need, pipeline |-> pipeline, state |-> state,
   bootstrap |-> bootstrap, allowed |-> allowed, playing |-> playing,
   lastDelta |-> lastDelta, fault |-> fault]

Become(w) ==
  /\ buf' = w.buf /\ pit' = w.pit /\ metaPending' = w.metaPending
  /\ tracked' = w.tracked /\ seqCounter' = w.seqCounter /\ need' = w.need
  /\ pipeline' = w.pipeline /\ state' = w.state /\ bootstrap' = w.bootstrap
  /\ allowed' = w.allowed /\ playing' = w.playing /\ lastDelta' = w.lastDelta
  /\ fault' = w.fault

(* Runs the next call of a callback unless an earlier one failed. *)
Then(w, Call(_)) == IF w.fault = "none" THEN Call(w) ELSE w

-----------------------------------------------------------------------------
(* Interests *)

(* copies[i] more copies of Interest i go out. *)
send(w, copies) ==
  [w EXCEPT !.pit = [i \in Interests |-> Min({MaxCopies, @[i] + copies[i]})]]

express(w, n, segs) ==
  send(w, [i \in Interests |-> IF i[1] = n /\ i[2] \in segs THEN 1 ELSE 0])

-----------------------------------------------------------------------------
(* RetransmissionController *)

isOpen(s) == s.state \in {"New", "Assembling"}

(* Entries that are due or whose slot is no longer being fetched are erased; *)
(* for a due one, the Interests pending on its slot are expressed again.  An *)
(* entry may refer to a slot that meanwhile serves another sample.  Placing  *)
(* them in the buffer again changes nothing as long as that sample is active *)
(* (otherwise a slot would be added to the map being iterated: a fault).     *)
checkRetransmissions(w, due) ==
  LET slotOf(n) == w.buf.slot[w.tracked[n]]
      entries == {n \in Samples : w.tracked[n] # NoSlot}
      open == {n \in entries : isOpen(slotOf(n))}
      resent == open \cap due
      copies == [i \in Interests |->
                   Cardinality({n \in resent : /\ slotOf(n).name = i[1]
                                               /\ i[2] \in getPendingInterests(slotOf(n))})]
      rest == [w EXCEPT !.tracked = [n \in Samples |->
                                       IF n \in open \ due THEN @[n] ELSE NoSlot]]
  IN IF resent = {} \/ w.state = "Idle" THEN rest
     ELSE IF \E n \in resent : ~isRequested(w.buf, slotOf(n).name)
          THEN [rest EXCEPT !.fault = "rtx of an inactive sample"]
          ELSE send(rest, copies)

rtxOnNewRequest(w, n, due) ==
  IF ~w.playing THEN w
  ELSE IF w.tracked[n] # NoSlot THEN [w EXCEPT !.fault = "slot is being tracked already"]
  ELSE checkRetransmissions([w EXCEPT !.tracked[n] = w.buf.active[n]], due)

rtxOnNewData(w, due) == IF w.playing THEN checkRetransmissions(w, due) ELSE w

-----------------------------------------------------------------------------
(* Pipeliner *)

(* Fault: observers learn of every batch, not of new slots only. *)
bufferRequestedAlwaysNotifies(w, n, segs, due) ==
  IF requestedFails(w.buf, n) THEN w
  ELSE rtxOnNewRequest([w EXCEPT !.buf = requested(@, n, segs)], n, due)

(* buffer_->requested(batch) with its observers; the callers ignore whether *)
(* it found a slot.                                                         *)
bufferRequested(w, n, segs, due) ==
  IF requestedFails(w.buf, n) THEN w
  ELSE IF isRequested(w.buf, n) /\ segmentsRequestedThrows(w.buf.slot[w.buf.active[n]])
  THEN [w EXCEPT !.fault = "slot is ready or locked"]
  ELSE LET after == [w EXCEPT !.buf = requested(@, n, segs)]
       IN IF isRequested(w.buf, n) THEN after ELSE rtxOnNewRequest(after, n, due)

room(w) == Limit - w.pipeline

(* One iteration of fillUpPipeline's loop. *)
fillUpOne(w, due) ==
  LET c == w.need
      i == w.seqCounter[c]
      more == [w EXCEPT !.pipeline = @ + 1, !.need = "Delta"]
  IN IF room(w) <= 0 \/ w.fault # "none" THEN w
     ELSE IF i > Len(NamesOf(c)) THEN more
     ELSE LET n == NamesOf(c)[i]
          IN bufferRequested(express([more EXCEPT !.seqCounter[c] = i + 1], n, getBatch(n)),
                             n, getBatch(n), due)

(* A turn of the loop that finds no room changes nothing. *)
fillUpPipeline(w, due) ==
  LET filled[i \in 0 .. Limit] == IF i = 0 THEN w ELSE fillUpOne(filled[i - 1], due)
  IN filled[Limit]

(* The slot is the one the segment went to; it may have been locked, and    *)
(* even popped and cleared, by the observers called before the pipeliner.   *)
pipelinerOnNewData(w, x, due) ==
  LET s == w.buf.slot[x]
      missing == IF s.name = NoSample THEN {} ELSE getMissingSegments(s)
  IN IF missing = {} THEN w
     ELSE bufferRequested(express(w, s.name, missing), s.name, missing, due)

(* Fault: no key frame is asked for. *)
bufferObserverForgetsKey(w, x, oldState) ==
  IF Media = "audio" \/ oldState # "New" THEN w ELSE [w EXCEPT !.pipeline = @ - 1]

(* BufferObserver: the first segment of a sample frees its place in the     *)
(* pipeline; that of a key frame asks for the next key frame.  Only         *)
(* RemoteVideoStreamImpl attaches one.                                      *)
bufferObserverOnNewData(w, x, oldState) ==
  LET n == w.buf.slot[x].name IN
  IF Media = "audio" \/ oldState # "New" THEN w
  ELSE [w EXCEPT !.pipeline = @ - 1,
                 !.need = IF n # NoSample /\ n \notin Deltas THEN "Key" ELSE @,
                 !.fault = IF w.pipeline - 1 < 0 THEN "assert(pipeline_ >= 0)" ELSE @]

-----------------------------------------------------------------------------
(* PlayoutControl and Playout *)

extractSample(w) ==
  IF w.buf.queue = {} THEN w
  ELSE LET x == front(w.buf)
           n == w.buf.slot[x].name
       IN [w EXCEPT !.buf = pop(@, x),
                    !.lastDelta = IF n \in Deltas THEN n ELSE @]

checkPlayout(w) ==
  IF w.playing = w.allowed THEN w
  ELSE IF w.allowed
       THEN IF playableSize(w.buf) >= StartLevel
            THEN extractSample([w EXCEPT !.playing = TRUE]) ELSE w
       ELSE [w EXCEPT !.playing = FALSE]

allowPlayout(w, allow) == checkPlayout([w EXCEPT !.allowed = allow])

(* PlaybackQueue::onNewData with its observer. *)
playbackQueueOnNewData(w, n) ==
  LET x == w.buf.active[n]
      queued == [w EXCEPT !.buf = onNewData(@, n)]
  IN IF w.buf.slot[x].state # "Ready" THEN w
     ELSE IF ~hasHeader(w.buf.slot[x]) THEN [queued EXCEPT !.fault = "no header"]
     ELSE checkPlayout(queued)

-----------------------------------------------------------------------------
(* A segment arrives *)

(* Buffer::received *)
bufferReceived(w, n, seg, due) ==
  LET x == w.buf.active[n]
      oldState == w.buf.slot[x].state
      stored == [w EXCEPT !.buf.slot[x] = segmentReceived(@, seg)]
      queue(v) == playbackQueueOnNewData(v, n)
      rtx(v) == rtxOnNewData(v, due)
      missing(v) == pipelinerOnNewData(v, x, due)
      observer(v) == bufferObserverOnNewData(v, x, oldState)
  IN IF segmentReceivedThrows(w.buf.slot[x], seg)
     THEN [w EXCEPT !.fault = "segment not requested"]
     ELSE Then(Then(Then(queue(stored), rtx), missing), observer)

(* BufferControl::segmentArrived: data that is not in the buffer is ignored. *)
bufferControlArrived(w, n, seg, due) ==
  IF isRequested(w.buf, n) THEN bufferReceived(w, n, seg, due) ELSE w

checkSampleIsExpected(w, n) ==
  w.bootstrap.hasMeta /\ SeqNo(n) >= w.bootstrap.seq[classOf(n)]

(* The state machine's onSegment, in each state. *)
onSegment(w, n, startOff, due) ==
  IF w.state = "Running" THEN fillUpPipeline(w, due)
  ELSE IF w.state = "Bootstrapping" /\ checkSampleIsExpected(w, n)
  THEN LET filled == fillUpPipeline(w, due)
       IN IF startOff /\ filled.fault = "none"
          THEN [allowPlayout(filled, TRUE) EXCEPT !.state = "Running",
                                                  !.bootstrap.hasMeta = FALSE]
          ELSE filled
  ELSE w

segmentArrived(w, n, seg, startOff, due) ==
  LET control(v) == onSegment(v, n, startOff, due)
  IN Then(bufferControlArrived(w, n, seg, due), control)

-----------------------------------------------------------------------------
(* Pipeline control *)

(* Idle::enter().  What is queued for playback stays. *)
enterIdle(w) ==
  allowPlayout([w EXCEPT !.buf = reset(@),
                         !.tracked = [n \in Samples |-> NoSlot],
                         !.need = "Delta",
                         !.pipeline = 0,
                         !.state = "Idle",
                         !.bootstrap.hasMeta = FALSE,
                         !.lastDelta = NoSample], FALSE)

enterBootstrapping(w) == [w EXCEPT !.state = "Bootstrapping", !.metaPending = TRUE]

processMetadata(w, p, due) ==
  fillUpPipeline([w EXCEPT !.seqCounter = p,
                           !.need = IF Media = "video" THEN "Key" ELSE "Delta",
                           !.bootstrap = [hasMeta |-> TRUE, seq |-> p]], due)

-----------------------------------------------------------------------------
Init ==
  /\ BufferInit
  /\ pit = [i \in Interests |-> 0]
  /\ metaPending = TRUE
  /\ tracked = [n \in Samples |-> NoSlot]
  /\ seqCounter = [c \in Class |-> 1]
  /\ need = "Delta"
  /\ pipeline = 0
  /\ state = "Bootstrapping"
  /\ bootstrap = [hasMeta |-> FALSE, seq |-> [c \in Class |-> 1]]
  /\ allowed = FALSE /\ playing = FALSE
  /\ lastDelta = NoSample
  /\ fault = "none"

(* The Data satisfies every outstanding copy: one callback for each. *)
OnData(i, startOff, due) ==
  /\ fault = "none" /\ pit[i] > 0 /\ i[2] \in SegmentsOf(i[1])
  /\ LET callback(w) == segmentArrived(w, i[1], i[2], startOff, due)
         answered[j \in 0 .. pit[i]] ==
           IF j = 0 THEN [World EXCEPT !.pit[i] = 0] ELSE Then(answered[j - 1], callback)
     IN Become(answered[pit[i]])

(* Re-issued in Adjusting and Fetching, given up while bootstrapping. *)
OnTimeout(i) ==
  /\ "timeout" \in Failures /\ fault = "none" /\ pit[i] > 0
  /\ Become([World EXCEPT !.pit[i] = IF state = "Running" THEN @ ELSE @ - 1])

(* dispatchEvent has no case for a Nack: no state ever handles one. *)
OnNack(i) ==
  /\ "nack" \in Failures /\ fault = "none" /\ pit[i] > 0
  /\ Become([World EXCEPT !.pit[i] = @ - 1])

(* Metadata is only pending while bootstrapping. *)
OnMetadata(p, due) ==
  /\ fault = "none" /\ metaPending
  /\ Become(processMetadata([World EXCEPT !.metaPending = FALSE], p, due))

OnMetadataNack ==
  /\ "nack" \in Failures /\ fault = "none" /\ metaPending
  /\ Become([World EXCEPT !.metaPending = FALSE])

PlayTick ==
  /\ fault = "none" /\ playing /\ buf.queue # {}
  /\ Become(extractSample(World))

(* segmentStarvation: Idle and, from its observer, Bootstrapping again; it  *)
(* has no effect while bootstrapping.                                       *)
Starvation ==
  /\ "starvation" \in Failures /\ fault = "none" /\ state = "Running"
  /\ Cardinality(buf.pool \cup Entries(buf.active, Samples)) >= SpareSlots
  /\ Become(enterBootstrapping(enterIdle(World)))

(* Samples that are tracked, or that this callback may begin to track. *)
Dues == SUBSET {n \in Samples : \/ tracked[n] # NoSlot
                               \/ SeqNo(n) >= seqCounter[classOf(n)]}

Next ==
  \/ \E i \in Interests, startOff \in BOOLEAN, due \in Dues : OnData(i, startOff, due)
  \/ \E i \in Interests : OnTimeout(i) \/ OnNack(i)
  \/ \E p \in Positions, due \in Dues : OnMetadata(p, due)
  \/ OnMetadataNack
  \/ PlayTick
  \/ Starvation

Spec == Init /\ [][Next]_vars

-----------------------------------------------------------------------------
(* Properties *)

(* Type correctness of the consumer's state. *)
TypeOK ==
  /\ BufferTypeOK
  /\ pit \in [Interests -> 0 .. MaxCopies]
  /\ tracked \in [Samples -> Slots \cup {NoSlot}]
  /\ seqCounter \in [Class -> Nat] /\ need \in Class /\ pipeline \in Int
  /\ state \in {"Bootstrapping", "Running"}
  /\ bootstrap \in [hasMeta : BOOLEAN, seq : [Class -> Nat]]
  /\ {metaPending, allowed, playing} \subseteq BOOLEAN
  /\ lastDelta \in Samples \cup {NoSample}

(* No callback of the consumer throws or fails an assertion: no slot is     *)
(* tracked twice (RetransmissionController::onNewRequest), a ready sample   *)
(* has its header (PlaybackQueue::onNewData), pipeline_ never becomes       *)
(* negative (InterestControl::decrement).  The one exception that does      *)
(* happen is a segment from before a restart, which the fresh slot of its   *)
(* sample has not asked for (BufferSlot::segmentReceived).                  *)
NoFault == fault \in {"none", "segment not requested"}

(* Delta frames of a session are popped in publishing order, however their  *)
(* segments arrive (PlaybackQueue::pop invalidates older delta frames).     *)
DeltaOrder ==
  [][lastDelta' # lastDelta =>
       \/ lastDelta = NoSample \/ lastDelta' = NoSample
       \/ Timestamp[lastDelta] < Timestamp[lastDelta']]_vars

(* Once it has metadata the consumer never stops asking for key frames: the *)
(* next one is wanted, awaited, or after the window (BufferObserver and     *)
(* fillUpPipeline hand the request on from one key frame to the next).      *)
KeyFrameAwaited ==
  (bootstrap.hasMeta \/ state = "Running") =>
    \/ need = "Key"
    \/ seqCounter["Key"] > Len(KeyNames)
    \/ \E n \in Samples \ Deltas :
         isRequested(buf, n) /\ buf.slot[buf.active[n]].state = "New"

Outstanding == {n \in Samples : isRequested(buf, n) /\ buf.slot[buf.active[n]].state = "New"}

(* Fetching never stalls on its own accounting: while room is left for no   *)
(* sample, some sample that will free its place is outstanding (samples     *)
(* dropped by PlaybackQueue::pop before their first segment keep theirs).   *)
NeverStalls ==
  state = "Running" =>
    \/ room(World) > 0
    \/ Outstanding # {}
    \/ \E c \in Class : NamesOf(c) # <<>> /\ seqCounter[c] > Len(NamesOf(c))

(* Through restarts, a slot is held in one place only and its contents      *)
(* agree with that place (Buffer::reset returns active slots only).         *)
SlotsKeptApart == Exclusive(buf) /\ PlaceMatchesState(buf)

(* A slot waiting for playback is never recycled, even when its sample is   *)
(* fetched again after a restart (PlaybackQueue keeps its slots on reset).  *)
QueuedStayLocked == \A x \in buf.queue : buf.slot[x].state = "Locked"

Lost(b) == Slots \ (b.pool \cup Entries(b.active, Samples) \cup Entries(b.reserved, Samples))

(* Buffer::reserveSlot is the only way to lose a slot: the sample it was    *)
(* locked for was fetched a second time before it was played.               *)
LostOnlyWhenRefetched ==
  [][\A x \in Lost(buf') \ Lost(buf) :
       \E n \in Samples : buf.reserved[n] = x /\ isRequested(buf, n)]_vars

(* However callbacks nest and sessions overlap, each of them runs to its    *)
(* end and leaves slots where they belong, those that wait for playback     *)
(* locked.                                                                  *)
CallbacksSucceed ==
  /\ TypeOK
  /\ NoFault
  /\ SlotsKeptApart
  /\ QueuedStayLocked

(* A consumer that knows what to ask for never stops asking, for key frames *)
(* or for anything, on its own accounting.                                  *)
KeepsAsking ==
  /\ KeyFrameAwaited
  /\ NeverStalls
=============================================================================
