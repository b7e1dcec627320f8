--------------------------- MODULE StreamRecorder ---------------------------
(***************************************************************************)
(* Recording a stream and fetching a frame of it afterwards                *)
(* (tools/stream-recorder, then FrameFetching from the same storage).      *)
(*                                                                         *)
(* The recorder fetches the metadata of the stream and of the thread again *)
(* and again, starts at the numbers that the thread's metadata names, and  *)
(* then keeps pipelineSize_ frames under way: when a task ends, for better *)
(* or worse, the next frame of the same class is asked for.  A frame is    *)
(* <<class, number>>; the key frame 0 and the delta frames 1, 2... are the *)
(* GOP of FrameFetching.  Manifests and statistics are left out: nothing   *)
(* depends on them.                                                        *)
(***************************************************************************)
EXTENDS FrameFetching

CONSTANTS
  Pipeline,   \* settings_.pipelineSize_
  Latest,     \* delta frames that may be the latest ones when recording starts
  MaxNumber,  \* bound on frame numbers: what is produced while recording
  MaxLoops,   \* bound on metadata fetches and timers at a time
  MaxStarts   \* bound on starts

ASSUME RecorderAssumption ==
  /\ Pipeline \in Nat \ {0} /\ MaxNumber \in Nat /\ MaxLoops \in Nat /\ MaxStarts \in Nat
  /\ Latest \subseteq Nat

VARIABLES
  rec,    \* isFetching_, isFetchingStream_, pipelineReserve_, fetchIndex_; starts so far
  loops,  \* metadata fetches and timers under way
  rtasks, \* fetchingTasks_ that are not cancelled
  ended,  \* history: frames whose tasks ended in this recording
  seen    \* history: segments of the frames that were completed

rvars == <<rec, loops, rtasks, ended, seen, vars>>

(* What is fetched from the storage was recorded before. *)
RecorderInit ==
  /\ Idle
  /\ stored = IF remote THEN Published ELSE {}
  /\ rec = [fetching |-> FALSE, streaming |-> FALSE, reserve |-> 0, nextKey |-> 0, nextDelta |-> 0,
            first |-> 0, starts |-> 0]
  /\ loops = [stream |-> 0, streamTimer |-> 0, thread |-> 0, threadTimer |-> 0]
  /\ rtasks = {} /\ ended = {} /\ seen = {}

(* requestFrame *)
requestFrame(r, class) ==
  [r EXCEPT !.reserve = @ - 1,
            !.nextKey = IF class = "key" THEN @ + 1 ELSE @,
            !.nextDelta = IF class = "delta" THEN @ + 1 ELSE @]
nextFrame(r, class) == <<class, IF class = "key" THEN r.nextKey ELSE r.nextDelta>>

(* initiateStreamFetching: the key frame, and delta frames for what is left *)
(* of the pipeline                                                          *)
initiateStreamFetching(r, delta) ==
  [r EXCEPT !.streaming = TRUE, !.reserve = 0, !.nextKey = 1,
            !.first = delta, !.nextDelta = delta + r.reserve - 1]

Recording == ~remote /\ fetcher = "Idle"

(* start *)
Start ==
  /\ Recording /\ ~rec.fetching /\ ~rec.streaming /\ rec.starts < MaxStarts
  /\ rec' = [rec EXCEPT !.fetching = TRUE, !.reserve = Pipeline, !.starts = @ + 1]
  /\ loops' = [loops EXCEPT !.stream = @ + 1, !.thread = @ + 1]
  /\ ended' = {}
  /\ UNCHANGED <<rtasks, seen, vars>>

(* stop: the tasks are cancelled. *)
Stop ==
  /\ Recording /\ rec.fetching
  /\ rec' = [rec EXCEPT !.fetching = FALSE, !.streaming = FALSE]
  /\ rtasks' = {}
  /\ UNCHANGED <<loops, ended, seen, vars>>

(* fetchStreamMeta has an answer, or fails. *)
StreamMetaFetched ==
  /\ Recording /\ loops.stream > 0
  /\ loops' = [loops EXCEPT !.stream = @ - 1, !.streamTimer = IF rec.fetching THEN @ + 1 ELSE @]
  /\ UNCHANGED <<rec, rtasks, ended, seen, vars>>

StreamMetaFails ==
  /\ Recording /\ loops.stream > 0 /\ ~rec.fetching
  /\ loops' = [loops EXCEPT !.stream = @ - 1]
  /\ UNCHANGED <<rec, rtasks, ended, seen, vars>>

(* fetchThreadMeta has an answer: it starts the recording, once. *)
ThreadMetaFetched(delta) ==
  /\ Recording /\ loops.thread > 0
  /\ loops' = [loops EXCEPT !.thread = @ - 1, !.threadTimer = IF rec.fetching THEN @ + 1 ELSE @]
  /\ IF rec.fetching /\ ~rec.streaming
     THEN /\ rec' = initiateStreamFetching(rec, delta)
          /\ rtasks' = {<<"key", 0>>} \cup {<<"delta", n>> : n \in delta..rec'.nextDelta - 1}
     ELSE UNCHANGED <<rec, rtasks>>
  /\ UNCHANGED <<ended, seen, vars>>

(* It fails: the metadata of the stream is fetched, not that of the thread. *)
ThreadMetaFails ==
  /\ Recording /\ loops.thread > 0 /\ loops.stream + loops.streamTimer < MaxLoops
  /\ loops' = [loops EXCEPT !.thread = @ - 1, !.stream = IF rec.fetching THEN @ + 1 ELSE @]
  /\ UNCHANGED <<rec, rtasks, ended, seen, vars>>

(* callLater: nobody looks whether the recording was stopped. *)
TimerFires ==
  /\ Recording
  /\ \/ loops.streamTimer > 0 /\ loops' = [loops EXCEPT !.streamTimer = @ - 1, !.stream = @ + 1]
     \/ loops.threadTimer > 0 /\ loops' = [loops EXCEPT !.threadTimer = @ - 1, !.thread = @ + 1]
  /\ UNCHANGED <<rec, rtasks, ended, seen, vars>>

(* requestNextFrame, when the task of x has ended *)
requestNextFrame(x, r) ==
  /\ rec' = requestFrame([r EXCEPT !.reserve = @ + 1], x[1])
  /\ rtasks' = (rtasks \ {x}) \cup {nextFrame(r, x[1])}

InGop(x) == x = <<"key", 0>> \/ (x[1] = "delta" /\ x[2] \in Frames \ {0})

Store(x, segs) == IF InGop(x) THEN {x[2]} \X segs ELSE {}

(* Fault: the segment that came first is not stored. *)
FrameFetchedLater(x, segs) ==
  /\ Recording /\ x \in rtasks /\ x[2] < MaxNumber
  /\ requestNextFrame(x, rec)
  /\ ended' = ended \cup {x}
  /\ seen' = seen \cup Store(x, segs)
  /\ stored' = stored \cup (Store(x, segs) \ {<<0, D(0)>>})
  /\ UNCHANGED <<loops, remote, gop, fetcher, tasks, current, pit, calls, decoded, reports, excused>>

(* onComplete of a task, which has fetched segs *)
FrameFetched(x, segs) ==
  /\ Recording /\ x \in rtasks /\ x[2] < MaxNumber
  /\ requestNextFrame(x, rec)
  /\ ended' = ended \cup {x}
  /\ seen' = seen \cup Store(x, segs)
  /\ stored' = stored \cup Store(x, segs)
  /\ UNCHANGED <<loops, remote, gop, fetcher, tasks, current, pit, calls, decoded, reports, excused>>

(* onFailed of a task *)
FrameFailed(x) ==
  /\ Recording /\ x \in rtasks /\ x[2] < MaxNumber
  /\ requestNextFrame(x, rec)
  /\ ended' = ended \cup {x}
  /\ UNCHANGED <<loops, seen, vars>>

(* The segments a completed task may have, of a frame of the GOP *)
Assembled(x) ==
  IF ~InGop(x) THEN {{}}
  ELSE {s \in SUBSET Segments(x[2]) : isReady([frame |-> x[2], fetched |-> s])}

RecorderNext ==
  \/ Start \/ Stop
  \/ StreamMetaFetched \/ StreamMetaFails \/ ThreadMetaFails \/ TimerFires
  \/ \E d \in Latest : ThreadMetaFetched(d)
  \/ \E x \in rtasks : FrameFailed(x) \/ \E segs \in Assembled(x) : FrameFetched(x, segs)

(* Afterwards a frame is fetched from the storage. *)
Playback == (remote \/ (~rec.fetching /\ rec.starts > 0)) /\ Next /\ UNCHANGED <<rec, loops, rtasks, ended, seen>>

RecorderSpec ==
  /\ RecorderInit /\ [][RecorderNext \/ Playback]_rvars
  /\ WF_rvars(fetcher # "Idle" /\ Playback)

-----------------------------------------------------------------------------
(* Properties *)

(* The pipeline neither leaks nor grows: one key frame and Pipeline - 1     *)
(* delta frames are under way as long as the recording lasts, however many  *)
(* tasks fail, over stops, starts and metadata of an earlier recording.     *)
PipelineKept ==
  /\ rec.streaming => Cardinality(rtasks) + rec.reserve = Pipeline
  /\ rec.streaming => \E k \in 0..MaxNumber : {x \in rtasks : x[1] = "key"} = {<<"key", k>>}

(* No frame is passed over: from the first one on every delta frame below   *)
(* fetchIndex_ is under way or its task has ended.                          *)
NoFrameSkipped ==
  rec.streaming => \A n \in rec.first..rec.nextDelta - 1 : <<"delta", n>> \in rtasks \cup ended

Recorded(f) == {s \in Segments(f) : <<f, s>> \in seen}

(* What was recorded can be fetched: a fetch from the storage succeeds only *)
(* if every frame of the GOP was recorded well enough to be restored, and   *)
(* fails only if one of them was not recorded in full.  (In between, when   *)
(* parity stands for the data segments asked for at first, a frame that was *)
(* recorded as complete cannot be fetched any more.)                        *)
RecordedCanBeFetched ==
  ~remote /\ reports # <<>> /\ ~excused =>
    \/ reports[1] = "fetched" /\ \A f \in Frames : isReady([frame |-> f, fetched |-> Recorded(f)])
    \/ reports[1] = "failed" /\ \E f \in Frames : ~(DataSegments(f) \subseteq Recorded(f))

(* The recorder keeps its pipeline full, skips no frame, and what it has    *)
(* recorded can be fetched.                                                 *)
RecordingIsWhole ==
  /\ PipelineKept
  /\ NoFrameSkipped
  /\ RecordedCanBeFetched
=============================================================================
