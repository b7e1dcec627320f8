---------------------------- MODULE VideoProducer ----------------------------
(***************************************************************************)
(* The producer of a video stream: VideoStreamImpl with its VideoThreads   *)
(* and VideoCoders (video-stream-impl.cpp, video-thread.cpp,               *)
(* video-coder.cpp), the periodic publication of thread metadata           *)
(* (media-stream-base.cpp, periodic.cpp), and what a consumer computes     *)
(* from that metadata (ReceivedMetadataProcessing).                        *)
(*                                                                         *)
(* Three threads, as local-stream.hpp describes them: main adds and        *)
(* removes threads, capture feeds frames, face publishes and runs the      *)
(* timer.  capture holds internalMutex_ during feedFrame while face runs   *)
(* the publishing tasks that feedFrame has dispatched; the timer's state   *)
(* is shared between capture and face without a lock.                      *)
(*                                                                         *)
(* Frames are their numbers; the encoder is an environment that delivers a *)
(* key frame when asked for one, inserts key frames of its own and drops   *)
(* frames.  Segments, parity and manifests do not affect the numbers.      *)
(***************************************************************************)
EXTENDS Integers, Sequences, FiniteSets

CONSTANTS
  Threads,      \* names of the stream's threads
  Gop,          \* VideoCoderParams::gop_
  PosMod,       \* values of an unsigned char, in which metadata carries gopPos
  MaxCaptures,  \* bound on the frames that are captured and not dropped altogether
  MaxFrames,    \* bound on the frames each thread encodes: it drops all others
  Garbage       \* what an uninitialized gopPos_ may hold

ASSUME ProducerAssumption ==
  /\ Gop \in Nat \ {0} /\ PosMod \in Nat \ {0} /\ Gop <= PosMod
  /\ MaxCaptures \in Nat /\ MaxFrames \in [Threads -> Nat]
  /\ Garbage \subseteq 0..(PosMod - 1)

VARIABLES
  threads,   \* "new", "active" (an entry of threads_, seqCounters_ and metaKeepers_) or "removed"
  coder,     \* keyFrameTrigger_ (as a remainder by gop_) and gopPos_ of each coder
  seq,       \* seqCounters_
  playback,  \* playbackCounter_
  busy,      \* busyPublishing_
  capture,   \* where the capture thread is, and the encoded frames it still has to publish
  face,      \* where the face thread is
  tasks,     \* publishing tasks dispatched to the face thread
  keeper,    \* MetaKeeper of each thread
  timer,     \* PeriodicImpl: isRunning_, whether workFunc_ is set, whether timer_ is pending
  frames,    \* history: all frames handed over for publishing
  published, \* frames in the memory cache
  got,       \* the thread metadata that a consumer got last, of each thread
  fault      \* the exception that ended the face thread

vars == <<threads, coder, seq, playback, busy, capture, face, tasks, keeper, timer,
          frames, published, got, fault>>

Outcomes == {"key", "delta", "drop"}

-----------------------------------------------------------------------------
(* VideoCoder, with KeyEnforcement::Gop *)

keyAsked(c) == c.trigger = 0

(* The trigger counts encoded frames; only its remainder by gop_ is used. *)
triggerNext(c) == IF c.trigger + 1 = Gop THEN 0 ELSE c.trigger + 1

(* What the encoder of a thread may do with the next raw frame. *)
encoderMay(t) ==
  IF seq[t].key + seq[t].delta + 2 >= MaxFrames[t] THEN {"drop"}
  ELSE IF keyAsked(coder[t]) THEN {"key", "drop"} ELSE Outcomes

(* Fault: the position of a dropped frame is not taken back. *)
onRawFrameKeepsPosition(c, outcome) ==
  LET pos == IF keyAsked(c) THEN 0 ELSE c.pos + 1
  IN IF outcome = "drop" THEN [trigger |-> c.trigger, pos |-> pos]
     ELSE [trigger |-> triggerNext(c), pos |-> IF outcome = "key" THEN 0 ELSE pos]

(* onRawFrame and the encoder's callback OnEncodedImage, which a dropped    *)
(* frame does not get.                                                      *)
onRawFrame(c, outcome) ==
  LET pos == IF keyAsked(c) THEN 0 ELSE c.pos + 1
  IN IF outcome = "drop" THEN [trigger |-> c.trigger, pos |-> pos - 1]
     ELSE [trigger |-> triggerNext(c), pos |-> IF outcome = "key" THEN 0 ELSE pos]

-----------------------------------------------------------------------------

(* publish: the numbers of the next frame of a thread.  A key frame is      *)
(* paired with the delta frame after it, a delta frame with the key frame   *)
(* before it.                                                               *)
nextFrame(t, isKey) ==
  LET n == IF isKey THEN [seq[t] EXCEPT !.key = @ + 1] ELSE [seq[t] EXCEPT !.delta = @ + 1]
  IN [key |-> isKey, no |-> IF isKey THEN n.key ELSE n.delta,
      paired |-> IF isKey THEN n.delta + 1 ELSE n.key,
      play |-> playback, gop |-> coder[t].pos % PosMod]

(* MetaKeeper::updateMeta *)
updateMeta(k, f) ==
  [delta |-> IF f.key THEN f.paired ELSE f.no, key |-> IF f.key THEN f.no ELSE f.paired,
   gop |-> f.gop, version |-> k.version + 1]

(* Fault: the position in the GOP is counted as if the key frame were a     *)
(* delta frame.                                                             *)
processMetadataFromKey(m, pipelineInitial) ==
  IF 2 * m.gop < Gop
  THEN [startOffDelta |-> m.delta + pipelineInitial, startOffKey |-> m.key,
        delta |-> m.delta - m.gop, key |-> m.key, pipeline |-> pipelineInitial + m.gop]
  ELSE [startOffDelta |-> IF pipelineInitial < Gop - m.gop THEN -1 ELSE m.delta + pipelineInitial,
        startOffKey |-> m.key + 1,
        delta |-> m.delta, key |-> m.key + 1, pipeline |-> pipelineInitial + Gop - m.gop]

(* ReceivedMetadataProcessing::processMetadata for video: the numbers a     *)
(* consumer starts to fetch and to play from.                               *)
processMetadata(m, pipelineInitial) ==
  IF 2 * m.gop < Gop
  THEN [startOffDelta |-> m.delta + pipelineInitial, startOffKey |-> m.key,
        delta |-> IF m.gop > 0 THEN m.delta - (m.gop - 1) ELSE m.delta,
        key |-> m.key, pipeline |-> pipelineInitial + m.gop]
  ELSE [startOffDelta |-> IF pipelineInitial < Gop - m.gop THEN -1 ELSE m.delta + pipelineInitial,
        startOffKey |-> m.key + 1,
        delta |-> m.delta, key |-> m.key + 1, pipeline |-> pipelineInitial + Gop - m.gop]

-----------------------------------------------------------------------------
(* The constructor sets up the first invocation before any thread runs. *)
Init ==
  /\ threads = [t \in Threads |-> "new"]
  /\ coder = [t \in Threads |-> [trigger |-> 0, pos |-> 0]]
  /\ seq = [t \in Threads |-> [key |-> -1, delta |-> -1]]
  /\ playback = 0 /\ busy = 0
  /\ capture = [at |-> "idle", left |-> [t \in Threads |-> "drop"], any |-> FALSE]
  /\ face = "idle" /\ tasks = <<>>
  /\ keeper \in [Threads -> {[delta |-> 0, key |-> 0, gop |-> g, version |-> 0] : g \in Garbage}]
  /\ timer = [running |-> TRUE, work |-> TRUE, armed |-> TRUE]
  /\ frames = [t \in Threads |-> {}] /\ published = [t \in Threads |-> {}]
  /\ got = [t \in Threads |-> [delta |-> 0, key |-> 0, gop |-> 0, version |-> 0]]
  /\ fault = "none"

(* internalMutex_ is free: capture holds it all through feedFrame. *)
Unlocked == capture.at = "idle"

Active == {t \in Threads : threads[t] = "active"}

(* add and remove, on the main thread.  A name is not added a second time:  *)
(* its numbers would start over.                                            *)
Add(t) ==
  /\ Unlocked /\ threads[t] = "new"
  /\ threads' = [threads EXCEPT ![t] = "active"]
  /\ UNCHANGED <<coder, seq, playback, busy, capture, face, tasks, keeper, timer, frames,
                 published, got, fault>>

Remove(t) ==
  /\ Unlocked /\ threads[t] = "active"
  /\ threads' = [threads EXCEPT ![t] = "removed"]
  /\ UNCHANGED <<coder, seq, playback, busy, capture, face, tasks, keeper, timer, frames,
                 published, got, fault>>

(* feedFrame up to the point where all encoders have delivered.  While      *)
(* frames are being published it refuses the frame and changes nothing.     *)
FeedFrame(outcome) ==
  /\ Unlocked /\ busy = 0 /\ Active # {} /\ playback < MaxCaptures
  /\ \A t \in Threads : IF t \in Active THEN outcome[t] \in encoderMay(t)
                         ELSE outcome[t] = "drop"
  /\ coder' = [t \in Threads |-> IF t \in Active THEN onRawFrame(coder[t], outcome[t])
                                 ELSE coder[t]]
  /\ capture' = [at |-> "publish", left |-> outcome,
                 any |-> \E t \in Threads : outcome[t] # "drop"]
  /\ UNCHANGED <<threads, seq, playback, busy, face, tasks, keeper, timer, frames, published,
                 got, fault>>

(* Fault: the metadata is updated when the task is dispatched. *)
PublishEager(t) ==
  LET isKey == capture.left[t] = "key"
      f == nextFrame(t, isKey)
  IN /\ capture.at = "publish" /\ capture.left[t] # "drop"
     /\ seq' = [seq EXCEPT ![t] = IF isKey THEN [@ EXCEPT !.key = f.no]
                                  ELSE [@ EXCEPT !.delta = f.no]]
     /\ frames' = [frames EXCEPT ![t] = @ \cup {f}]
     /\ busy' = busy + 1
     /\ tasks' = Append(tasks, [thread |-> t, frame |-> f])
     /\ capture' = [capture EXCEPT !.left[t] = "drop"]
     /\ keeper' = [keeper EXCEPT ![t] = updateMeta(@, f)]
     /\ UNCHANGED <<threads, coder, playback, face, timer, published, got, fault>>

(* publish for one of the encoded frames: numbers it and dispatches a task. *)
Publish(t) ==
  LET isKey == capture.left[t] = "key"
      f == nextFrame(t, isKey)
  IN /\ capture.at = "publish" /\ capture.left[t] # "drop"
     /\ seq' = [seq EXCEPT ![t] = IF isKey THEN [@ EXCEPT !.key = f.no]
                                  ELSE [@ EXCEPT !.delta = f.no]]
     /\ frames' = [frames EXCEPT ![t] = @ \cup {f}]
     /\ busy' = busy + 1
     /\ tasks' = Append(tasks, [thread |-> t, frame |-> f])
     /\ capture' = [capture EXCEPT !.left[t] = "drop"]
     /\ UNCHANGED <<threads, coder, playback, face, keeper, timer, published, got, fault>>

(* The end of feedFrame: the frame is counted, and the metadata timer is    *)
(* found set up or not.                                                     *)
FinishFeed ==
  /\ capture.at = "publish" /\ \A t \in Threads : capture.left[t] = "drop"
  /\ playback' = IF capture.any THEN playback + 1 ELSE playback
  /\ capture' = [capture EXCEPT !.at = IF timer.running THEN "idle" ELSE "setRunning"]
  /\ UNCHANGED <<threads, coder, seq, busy, face, tasks, keeper, timer, frames, published,
                 got, fault>>

(* setupInvocation, statement by statement *)
SetupStep(from, to, t) ==
  /\ capture.at = from /\ capture' = [capture EXCEPT !.at = to]
  /\ timer' = t
  /\ UNCHANGED <<threads, coder, seq, playback, busy, face, tasks, keeper, frames, published,
                 got, fault>>

SetupInvocation ==
  \/ SetupStep("setRunning", "setWork", [timer EXCEPT !.running = TRUE])
  \/ SetupStep("setWork", "setTimer", [timer EXCEPT !.work = TRUE])
  \/ SetupStep("setTimer", "idle", [timer EXCEPT !.armed = TRUE])

(* Fault: the task does not report that it is done. *)
RunTaskBusy ==
  /\ face = "idle" /\ fault = "none" /\ tasks # <<>>
  /\ LET t == Head(tasks).thread  f == Head(tasks).frame
     IN /\ published' = [published EXCEPT ![t] = @ \cup {f}]
        /\ keeper' = [keeper EXCEPT ![t] = updateMeta(@, f)]
  /\ tasks' = Tail(tasks)
  /\ UNCHANGED <<busy, threads, coder, seq, playback, capture, face, timer, frames, got, fault>>

(* The face thread runs a publishing task.  It does so also for a thread    *)
(* that was removed meanwhile, whose MetaKeeper the task keeps alive.       *)
RunTask ==
  /\ face = "idle" /\ fault = "none" /\ tasks # <<>>
  /\ LET t == Head(tasks).thread  f == Head(tasks).frame
     IN /\ published' = [published EXCEPT ![t] = @ \cup {f}]
        /\ keeper' = [keeper EXCEPT ![t] = updateMeta(@, f)]
  /\ tasks' = Tail(tasks)
  /\ busy' = busy - 1
  /\ UNCHANGED <<threads, coder, seq, playback, capture, face, timer, frames, got, fault>>

(* PeriodicImpl::fire *)
Fire ==
  /\ face = "idle" /\ fault = "none" /\ timer.armed
  /\ timer' = [timer EXCEPT !.armed = FALSE]
  /\ face' = IF timer.running /\ timer.work THEN "updateMeta" ELSE "idle"
  /\ fault' = IF timer.running /\ ~timer.work THEN "bad_function_call" ELSE "none"
  /\ UNCHANGED <<threads, coder, seq, playback, busy, capture, tasks, keeper, frames, published,
                 got>>

(* VideoStreamImpl::updateMeta: waits for the mutex, publishes the metadata *)
(* of all threads and returns false, so that the invocation is cancelled.   *)
(* A consumer may fetch any of it.                                          *)
UpdateMeta ==
  /\ face = "updateMeta" /\ Unlocked
  /\ \E fetched \in SUBSET Active :
       got' = [t \in Threads |-> IF t \in fetched THEN keeper[t] ELSE got[t]]
  /\ face' = "unsetRunning"
  /\ UNCHANGED <<threads, coder, seq, playback, busy, capture, tasks, keeper, timer, frames,
                 published, fault>>

(* cancel, statement by statement *)
CancelStep(from, to, t) ==
  /\ face = from /\ face' = to
  /\ timer' = t
  /\ UNCHANGED <<threads, coder, seq, playback, busy, capture, tasks, keeper, frames, published,
                 got, fault>>

Cancel ==
  \/ CancelStep("unsetRunning", "unsetTimer", [timer EXCEPT !.running = FALSE])
  \/ CancelStep("unsetTimer", "unsetWork", [timer EXCEPT !.armed = FALSE])
  \/ CancelStep("unsetWork", "idle", [timer EXCEPT !.work = FALSE])

Capture == (\E t \in Threads : Publish(t)) \/ FinishFeed \/ SetupInvocation
Face == RunTask \/ Fire \/ UpdateMeta \/ Cancel

Next ==
  \/ \E t \in Threads : Add(t) \/ Remove(t)
  \/ \E outcome \in [Threads -> Outcomes] : FeedFrame(outcome)
  \/ Capture \/ Face

Spec == Init /\ [][Next]_vars

(* feedFrame, once begun, and the io_service keep running. *)
FairSpec == Spec /\ WF_vars(Capture) /\ WF_vars(Face)

-----------------------------------------------------------------------------
(* Properties *)

Keys(t) == {f \in frames[t] : f.key}
Deltas(t) == {f \in frames[t] : ~f.key}

Frame == [key : BOOLEAN, no : Nat, paired : Nat, play : Nat, gop : 0..(PosMod - 1)]
Task == [thread : Threads, frame : Frame]
Meta == [delta : Nat, key : Nat, gop : 0..(PosMod - 1), version : Nat]

(* Type correctness; the counters of frames being published and of          *)
(* playback never go below zero.                                            *)
ProducerTypeOK ==
  /\ threads \in [Threads -> {"new", "active", "removed"}]
  /\ coder \in [Threads -> [trigger : 0..(Gop - 1), pos : Int]]
  /\ seq \in [Threads -> [key : Nat \cup {-1}, delta : Nat \cup {-1}]]
  /\ playback \in Nat /\ busy \in Nat
  /\ capture \in [at : {"idle", "publish", "setRunning", "setWork", "setTimer"},
                  left : [Threads -> Outcomes], any : BOOLEAN]
  /\ face \in {"idle", "updateMeta", "unsetRunning", "unsetTimer", "unsetWork"}
  /\ tasks \in Seq(Task)
  /\ keeper \in [Threads -> Meta]
  /\ timer \in [running : BOOLEAN, work : BOOLEAN, armed : BOOLEAN]
  /\ frames \in [Threads -> SUBSET Frame] /\ published \in [Threads -> SUBSET Frame]
  /\ got \in [Threads -> Meta]
  /\ fault \in {"none", "bad_function_call"}

(* Key and delta frames of a thread are numbered without a gap in the order *)
(* of their playback numbers, no playback number is used twice in a thread, *)
(* and the cache never holds a frame without all that precede it, although  *)
(* frames are numbered on one thread and published on another, and encoders *)
(* drop frames independently.                                               *)
PublishedInOrder ==
  \A t \in Threads :
    /\ {f.no : f \in Keys(t)} = 0..seq[t].key /\ {f.no : f \in Deltas(t)} = 0..seq[t].delta
    /\ \A f, g \in frames[t] :
         /\ f.play = g.play => f = g
         /\ f.key = g.key => (f.no < g.no <=> f.play < g.play)
    /\ \A f \in published[t], g \in frames[t] : g.play <= f.play => g \in published[t]

(* A delta frame names the key frame of its GOP, that key frame names the   *)
(* first delta frame of the GOP, and the position the frame carries is its  *)
(* distance from the key frame, in GOPs cut short by the encoder and GOPs   *)
(* with dropped frames too.                                                 *)
PairedNumbersMeet ==
  \A t \in Threads : \A d \in Deltas(t) : \E k \in Keys(t) :
    /\ k.no = d.paired /\ k.paired <= d.no
    /\ d.gop = d.no - k.paired + 1
    /\ \A later \in Keys(t) : later.no > k.no => later.paired > d.no

(* Metadata never sends a consumer to frames that are not in the cache: the *)
(* key frame it names is published, and so is the delta frame unless the    *)
(* key frame is the last frame.  (Version 0 is published when the thread    *)
(* has not delivered any frame, and describes nothing.)                     *)
MetaDescribesPublished ==
  \A t \in Threads : LET m == got[t] IN m.version > 0 =>
    /\ \E k \in published[t] : k.key /\ k.no = m.key
    /\ m.gop > 0 => \E d \in published[t] : ~d.key /\ d.no = m.delta /\ d.paired = m.key

(* Wherever in the GOP the metadata was published, a consumer that starts   *)
(* from it requests every delta frame of the GOP of the key frame it        *)
(* requests, and in the first half of a GOP no other.                       *)
BootstrapsAtGopStart ==
  \A t \in Threads : LET m == got[t] IN m.version > 0 =>
    LET start == processMetadata(m, 1)
    IN \A k \in Keys(t) : k.no = start.key =>
         IF 2 * m.gop < Gop THEN start.delta = k.paired ELSE start.delta < k.paired

(* Every frame that was numbered gets published and feedFrame accepts       *)
(* frames again, unless a callback of the face thread ended in an           *)
(* exception: waiting for the mutex in updateMeta never blocks the tasks    *)
(* for good.                                                                *)
PublishingDrains == busy > 0 ~> busy = 0 \/ fault # "none"

(* Frames are numbered and published in order, and metadata describes       *)
(* frames that are published, although capture numbers them, the face       *)
(* thread publishes them and main adds and removes threads.                 *)
PublishedAsDescribed ==
  /\ ProducerTypeOK
  /\ PublishedInOrder
  /\ MetaDescribesPublished
=============================================================================
