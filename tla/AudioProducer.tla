--------------------------- MODULE AudioProducer ---------------------------
(***************************************************************************)
(* The audio producer: AudioStreamImpl, its AudioThreads and their         *)
(* capturers, and the audio thread of AudioController that the voice       *)
(* engine is called on (ThreadingCapability).                              *)
(*                                                                         *)
(* Four threads take part: the application's, which starts and stops the   *)
(* stream and adds and removes threads of media; the recording device's,   *)
(* which hands samples over; the audio thread, which works off its queue;  *)
(* and the face thread, which publishes.  internalMutex_ is held over a    *)
(* wait only by start; elsewhere what it protects is one step.             *)
(*                                                                         *)
(* A bundle is as good as the space taken in it.                           *)
(***************************************************************************)
EXTENDS Integers, SequencesExt, FiniteSets

CONSTANTS
  Threads,     \* names of media threads
  Capacity,    \* bytes of a bundle for samples: AudioBundlePacket::payloadLength
  SampleSizes, \* sizes of RTP and RTCP packets
  PoolSize,    \* BUNDLES_POOL_SIZE
  MaxSamples,  \* bound on samples captured
  MaxCalls     \* bound on calls of the application

ASSUME AudioAssumption ==
  /\ Capacity \in Nat /\ SampleSizes \subseteq Nat \ {0} /\ PoolSize \in Nat \ {0}
  /\ MaxSamples \in Nat /\ MaxCalls \in Nat

None == "none"
ASSUME AudioProducerAssumption == None \notin Threads

Bundles == 1..PoolSize

VARIABLES
  threads_,       \* threads of the stream (threads_ and metaKeepers_)
  alive,          \* threads whose AudioThread exists
  isRunning_,     \* of AudioThread
  capturing_,     \* of AudioCapturerImpl
  sending,        \* whether the voice engine sends on the channel of the thread
  bundleNo_, used,\* of AudioThread: number and contents of the bundle being filled
  session,        \* starts of the thread
  streamRunning_, \* of AudioStreamImpl
  periodic,       \* periodic invocation is set up
  bundlePool_,    \* bundles at hand, the last to be taken first
  headerSet,      \* bundles that have a header
  content,        \* whose samples bundles hold, as [thread, session, no]
  raced,          \* a bundle came back to the pool between its reading and the taking of one
  main,           \* what the application's thread is doing
  mutex,          \* internalMutex_ is held by start
  audioQueue,     \* tasks of the audio thread
  audio,          \* delivery under way on the audio thread
  faceQueue,      \* tasks of the face thread
  face,           \* bundle the face thread is about to return, or 0
  published,      \* bundles published, as [thread, session, no, content]
  lastMeta,       \* threads in the stream metadata published last
  failed,         \* the voice engine failed to start an added thread, and no list of threads was queued since
  fault,          \* what ended the program
  captured, calls

threadVars == <<alive, isRunning_, capturing_, sending, bundleNo_, used, session>>
streamVars == <<threads_, streamRunning_, periodic, lastMeta, failed>>
poolVars == <<bundlePool_, headerSet, content, raced, face, published>>
vars == <<threads_, alive, isRunning_, capturing_, sending, bundleNo_, used, session, streamRunning_,
          periodic, bundlePool_, headerSet, content, raced, main, mutex, audioQueue, audio, faceQueue, face,
          published, lastMeta, failed, fault, captured, calls>>

Idle == [op |-> "idle", todo |-> {}, thread |-> None, wait |-> "no", done |-> FALSE, ok |-> TRUE]
NoDelivery == [thread |-> None, no |-> 0, bundle |-> 0, size |-> 0]
Label(r) == [thread |-> r.thread, session |-> r.session, no |-> r.no]
NoLabel == [thread |-> None, session |-> 0, no |-> 0]

Init ==
  /\ threads_ = {} /\ alive = {} /\ streamRunning_ = FALSE /\ periodic = FALSE
  /\ isRunning_ = [t \in Threads |-> FALSE] /\ capturing_ = isRunning_ /\ sending = isRunning_
  /\ bundleNo_ = [t \in Threads |-> 0] /\ used = bundleNo_ /\ session = bundleNo_
  /\ bundlePool_ = [i \in Bundles |-> i] /\ headerSet = {}
  /\ content = [b \in Bundles |-> NoLabel] /\ raced = FALSE
  /\ main = Idle /\ mutex = FALSE /\ audioQueue = <<>> /\ audio = NoDelivery
  /\ faceQueue = <<>> /\ face = 0 /\ published = <<>> /\ lastMeta = {}
  /\ failed = FALSE /\ fault = None /\ captured = 0 /\ calls = 0

Working == fault = None

-----------------------------------------------------------------------------
(* performOnMyThread: the block is queued, and the caller waits for it.     *)
(* The flag is looked at ("check"), and if it is not set the caller goes    *)
(* ("drowsy") to sleep ("asleep").  Only a sleeper is woken by notify_one.  *)
perform(task) == audioQueue' = Append(audioQueue, task)
waiting(m, t) == [m EXCEPT !.thread = t, !.wait = "check", !.done = FALSE, !.ok = TRUE]

CheckFlag ==
  /\ Working /\ main.wait = "check" /\ ~main.done
  /\ main' = [main EXCEPT !.wait = "drowsy"]
  /\ UNCHANGED <<threadVars, streamVars, poolVars, mutex, audioQueue, audio, faceQueue, fault, captured, calls>>

FallAsleep ==
  /\ Working /\ main.wait = "drowsy"
  /\ main' = [main EXCEPT !.wait = "asleep"]
  /\ UNCHANGED <<threadVars, streamVars, poolVars, mutex, audioQueue, audio, faceQueue, fault, captured, calls>>

(* The block was run. *)
notified(ok) ==
  [main EXCEPT !.done = TRUE, !.ok = ok, !.wait = IF @ = "asleep" THEN "check" ELSE @]

Returned == main.wait = "check" /\ main.done

-----------------------------------------------------------------------------
(* Calls of the application *)

Call == Working /\ main = Idle /\ calls < MaxCalls /\ calls' = calls + 1

(* publishMeta: the list of threads is taken now, and published later. *)
publishMeta(queue, ts) == Append(queue, [kind |-> "meta", threads |-> ts, thread |-> None, session |-> 0, no |-> 0, bundle |-> 0])

(* start of AudioStreamImpl *)
Start ==
  /\ Call /\ ~mutex /\ mutex' = TRUE
  /\ main' = [Idle EXCEPT !.op = "start", !.todo = {t \in threads_ : ~isRunning_[t]}]
  /\ UNCHANGED <<threadVars, streamVars, poolVars, audioQueue, audio, faceQueue, fault, captured>>

(* start of AudioThread and startCapture up to the wait *)
StartThread(t) ==
  /\ Working /\ main.op \in {"start", "add"} /\ main.wait = "no" /\ t \in main.todo
  /\ isRunning_' = [isRunning_ EXCEPT ![t] = TRUE] /\ bundleNo_' = [bundleNo_ EXCEPT ![t] = 0]
  /\ session' = [session EXCEPT ![t] = @ + 1]
  /\ perform([kind |-> "startSend", thread |-> t, size |-> 0])
  /\ main' = waiting([main EXCEPT !.todo = @ \ {t}], t)
  /\ UNCHANGED <<alive, capturing_, sending, used, streamVars, poolVars, mutex, audio, faceQueue, fault, captured, calls>>

(* The rest of startCapture; an error of the voice engine is thrown at the  *)
(* caller of start or of addThread.                                         *)
ThreadStarted ==
  /\ Working /\ main.op \in {"start", "add"} /\ Returned
  /\ IF main.ok
     THEN /\ capturing_' = [capturing_ EXCEPT ![main.thread] = TRUE]
          /\ main' = [main EXCEPT !.wait = "no", !.thread = None] /\ UNCHANGED <<mutex, failed>>
     ELSE main' = Idle /\ mutex' = FALSE /\ failed' = (failed \/ main.op = "add") /\ UNCHANGED capturing_
  /\ UNCHANGED <<alive, isRunning_, sending, bundleNo_, used, session, threads_, streamRunning_, periodic, lastMeta, poolVars, audioQueue, audio,
                 faceQueue, fault, captured, calls>>

StartReturns ==
  /\ Working /\ main.op = "start" /\ main.wait = "no" /\ main.todo = {}
  /\ main' = Idle /\ mutex' = FALSE /\ streamRunning_' = TRUE /\ periodic' = TRUE
  /\ UNCHANGED <<threadVars, threads_, lastMeta, failed, poolVars, audioQueue, audio, faceQueue, fault, captured, calls>>

(* stop of AudioStreamImpl: without the lock *)
Stop ==
  /\ Call
  /\ main' = [Idle EXCEPT !.op = "stop", !.todo = threads_]
  /\ UNCHANGED <<threadVars, streamVars, poolVars, mutex, audioQueue, audio, faceQueue, fault, captured>>

(* Fault: the block is queued and not waited for. *)
StopThreadQueued(t) ==
  /\ Working /\ main.op \in {"stop", "remove"} /\ main.wait = "no" /\ t \in main.todo
  /\ isRunning_' = [isRunning_ EXCEPT ![t] = FALSE] /\ capturing_' = [capturing_ EXCEPT ![t] = FALSE]
  /\ main' = [main EXCEPT !.todo = @ \ {t}]
  /\ IF capturing_[t] THEN perform([kind |-> "stopSend", thread |-> t, size |-> 0]) ELSE UNCHANGED audioQueue
  /\ UNCHANGED <<alive, sending, bundleNo_, used, session, streamVars, poolVars, mutex, audio, faceQueue, fault, captured, calls>>

(* stop of AudioThread and stopCapture up to the wait *)
StopThread(t) ==
  /\ Working /\ main.op \in {"stop", "remove"} /\ main.wait = "no" /\ t \in main.todo
  /\ isRunning_' = [isRunning_ EXCEPT ![t] = FALSE] /\ capturing_' = [capturing_ EXCEPT ![t] = FALSE]
  /\ LET rest == [main EXCEPT !.todo = @ \ {t}]
     IN IF isRunning_[t] /\ capturing_[t]
        THEN perform([kind |-> "stopSend", thread |-> t, size |-> 0]) /\ main' = waiting(rest, t)
        ELSE UNCHANGED audioQueue /\ main' = rest
  /\ UNCHANGED <<alive, sending, bundleNo_, used, session, streamVars, poolVars, mutex, audio, faceQueue, fault, captured, calls>>

ThreadStopped ==
  /\ Working /\ main.op \in {"stop", "remove"} /\ Returned
  /\ main' = [main EXCEPT !.wait = "no", !.done = FALSE]
  /\ UNCHANGED <<threadVars, streamVars, poolVars, mutex, audioQueue, audio, faceQueue, fault, captured, calls>>

StopReturns ==
  /\ Working /\ main.op = "stop" /\ main.wait = "no" /\ main.todo = {}
  /\ main' = Idle /\ streamRunning_' = FALSE
  /\ UNCHANGED <<threadVars, threads_, periodic, lastMeta, failed, poolVars, mutex, audioQueue, audio, faceQueue, fault, captured, calls>>

(* addThread: the AudioThread's channel is created on the audio thread.     *)
AddThread(t) ==
  /\ Call /\ t \notin threads_
  /\ main' = waiting([Idle EXCEPT !.op = "create"], t)
  /\ perform([kind |-> "create", thread |-> t, size |-> 0])
  /\ UNCHANGED <<threadVars, streamVars, poolVars, mutex, audio, faceQueue, fault, captured>>

(* A channel that could not be created is thrown at the caller of addThread. *)
CreateFailed ==
  /\ Working /\ main.op = "create" /\ Returned /\ ~main.ok
  /\ main' = Idle
  /\ UNCHANGED <<threadVars, streamVars, poolVars, mutex, audioQueue, audio, faceQueue, fault, captured, calls>>

ThreadCreated ==
  /\ Working /\ main.op = "create" /\ Returned /\ main.ok /\ ~mutex
  /\ LET t == main.thread
     IN /\ alive' = alive \cup {t} /\ threads_' = threads_ \cup {t} /\ used' = [used EXCEPT ![t] = 0]
        /\ main' = [Idle EXCEPT !.op = "add", !.todo = IF streamRunning_ THEN {t} ELSE {}]
  /\ UNCHANGED <<isRunning_, capturing_, sending, bundleNo_, session, streamRunning_, periodic, lastMeta, failed, poolVars, mutex,
                 audioQueue, audio, faceQueue, fault, captured, calls>>

(* Fault: metadata is published only while the stream runs. *)
AddReturnsQuietly ==
  /\ Working /\ main.op = "add" /\ main.wait = "no" /\ main.todo = {}
  /\ main' = Idle /\ faceQueue' = IF streamRunning_ THEN publishMeta(faceQueue, threads_) ELSE faceQueue
  /\ failed' = FALSE
  /\ UNCHANGED <<threadVars, threads_, streamRunning_, periodic, lastMeta, poolVars, mutex, audioQueue, audio, fault, captured, calls>>

AddReturns ==
  /\ Working /\ main.op = "add" /\ main.wait = "no" /\ main.todo = {}
  /\ main' = Idle /\ faceQueue' = publishMeta(faceQueue, threads_)
  /\ failed' = FALSE
  /\ UNCHANGED <<threadVars, threads_, streamRunning_, periodic, lastMeta, poolVars, mutex, audioQueue, audio, fault, captured, calls>>

(* removeThread: erased first, stopped then *)
RemoveThread(t) ==
  /\ Call /\ t \in threads_ /\ ~mutex
  /\ threads_' = threads_ \ {t}
  /\ main' = [Idle EXCEPT !.op = "remove", !.todo = {t}, !.thread = t]
  /\ UNCHANGED <<threadVars, streamRunning_, periodic, lastMeta, failed, poolVars, mutex, audioQueue, audio, faceQueue, fault, captured>>

(* ... and the AudioThread is destroyed; its channel is deleted on the      *)
(* audio thread.                                                            *)
DestroyThread ==
  /\ Working /\ main.op = "remove" /\ main.wait = "no" /\ main.todo = {}
  /\ alive' = alive \ {main.thread}
  /\ streamRunning_' = (streamRunning_ /\ threads_ # {})
  /\ main' = waiting([main EXCEPT !.op = "destroy"], main.thread)
  /\ perform([kind |-> "delete", thread |-> main.thread, size |-> 0])
  /\ UNCHANGED <<isRunning_, capturing_, sending, bundleNo_, used, session, threads_, periodic, lastMeta, failed, poolVars, mutex,
                 audio, faceQueue, fault, captured, calls>>

RemoveReturns ==
  /\ Working /\ main.op = "destroy" /\ Returned
  /\ main' = Idle /\ faceQueue' = publishMeta(faceQueue, threads_)
  /\ failed' = FALSE
  /\ UNCHANGED <<threadVars, threads_, streamRunning_, periodic, lastMeta, poolVars, mutex, audioQueue, audio, fault, captured, calls>>

-----------------------------------------------------------------------------
(* The recording device *)

(* SendRtp and SendRtcp: capturing_ is read under capturingState_. *)
SendRtp(t, size) ==
  /\ Working /\ captured < MaxSamples /\ sending[t] /\ capturing_[t]
  /\ captured' = captured + 1
  /\ perform([kind |-> "frame", thread |-> t, size |-> size])
  /\ UNCHANGED <<threadVars, streamVars, poolVars, main, mutex, audio, faceQueue, fault, calls>>

-----------------------------------------------------------------------------
(* The audio thread *)

Task == Head(audioQueue)
AudioTakes(kinds) ==
  /\ Working /\ audio = NoDelivery /\ audioQueue # <<>> /\ Task.kind \in kinds
  /\ audioQueue' = Tail(audioQueue)

(* Blocks that application's calls wait for *)
RunBlock(ok) ==
  /\ AudioTakes({"startSend", "stopSend", "create", "delete"})
  /\ ok \/ Task.kind \in {"startSend", "create"}
  /\ main' = notified(ok)
  /\ sending' = CASE Task.kind = "startSend" -> [sending EXCEPT ![Task.thread] = ok]
                  [] Task.kind = "stopSend" -> [sending EXCEPT ![Task.thread] = FALSE]
                  [] OTHER -> sending
  /\ UNCHANGED <<alive, isRunning_, capturing_, bundleNo_, used, session, streamVars, poolVars, mutex, audio, faceQueue,
                 fault, captured, calls>>

(* The space a sample takes: its header of one byte and the blob's size *)
wireLength(size) == size + 1 + 2

hasSpace(u, size) == u + wireLength(size) <= Capacity

(* operator<<, of a bundle with u bytes used: throws if there is no space *)
Added(t, u, size) ==
  IF hasSpace(u, size)
  THEN used' = [used EXCEPT ![t] = u + wireLength(size)] /\ UNCHANGED fault
  ELSE used' = [used EXCEPT ![t] = u] /\ fault' = "no space"

(* Fault: the bundle is looked for where the pool was filled first. *)
DeliverFirst ==
  /\ AudioTakes({"frame"})
  /\ LET t == Task.thread
     IN \/ ~isRunning_[t] /\ UNCHANGED <<used, bundleNo_, audio, fault>>
        \/ isRunning_[t] /\ hasSpace(used[t], Task.size) /\ Added(t, used[t], Task.size) /\ UNCHANGED <<bundleNo_, audio>>
        \/ /\ isRunning_[t] /\ ~hasSpace(used[t], Task.size)
           /\ bundleNo_' = [bundleNo_ EXCEPT ![t] = @ + 1]
           /\ IF bundlePool_ = <<>>
              THEN Added(t, 0, Task.size) /\ UNCHANGED audio
              ELSE audio' = [thread |-> t, no |-> bundleNo_[t], bundle |-> Head(bundlePool_), size |-> Task.size]
                   /\ UNCHANGED <<used, fault>>
  /\ UNCHANGED <<alive, isRunning_, capturing_, sending, session, streamVars, poolVars, main, mutex, faceQueue, captured, calls>>

(* onDeliverRtpFrame, deliver, and onSampleBundle up to the lock.  If the   *)
(* pool is drained the bundle is given up, its number is not.               *)
Deliver ==
  /\ AudioTakes({"frame"})
  /\ LET t == Task.thread
     IN \/ ~isRunning_[t] /\ UNCHANGED <<used, bundleNo_, audio, fault>>
        \/ isRunning_[t] /\ hasSpace(used[t], Task.size) /\ Added(t, used[t], Task.size) /\ UNCHANGED <<bundleNo_, audio>>
        \/ /\ isRunning_[t] /\ ~hasSpace(used[t], Task.size)
           /\ bundleNo_' = [bundleNo_ EXCEPT ![t] = @ + 1]
           /\ IF bundlePool_ = <<>>
              THEN Added(t, 0, Task.size) /\ UNCHANGED audio
              ELSE audio' = [thread |-> t, no |-> bundleNo_[t], bundle |-> Last(bundlePool_), size |-> Task.size]
                   /\ UNCHANGED <<used, fault>>
  /\ UNCHANGED <<alive, isRunning_, capturing_, sending, session, streamVars, poolVars, main, mutex, faceQueue, captured, calls>>

bundleTask(l, b) ==
  [kind |-> "bundle", threads |-> {}, thread |-> l.thread, session |-> l.session, no |-> l.no, bundle |-> b]

(* The rest of onSampleBundle, under the lock, and of deliver.  The keeper  *)
(* of a thread that was removed is a null pointer.  The bundle filled is    *)
(* the one that was last when the pool was read, the one taken off is the   *)
(* one that is last now.                                                    *)
BundleTaken ==
  /\ Working /\ audio # NoDelivery /\ ~mutex
  /\ LET t == audio.thread
         l == [thread |-> t, session |-> session[t], no |-> audio.no]
     IN IF t \notin threads_
        THEN fault' = "null keeper" /\ UNCHANGED <<bundlePool_, headerSet, content, faceQueue, audio, used>>
        ELSE /\ bundlePool_' = Front(bundlePool_)
             /\ content' = [content EXCEPT ![audio.bundle] = l]
             /\ headerSet' = headerSet \ {audio.bundle}
             /\ faceQueue' = Append(faceQueue, bundleTask(l, audio.bundle))
             /\ Added(t, 0, audio.size)
             /\ audio' = NoDelivery
  /\ UNCHANGED <<alive, isRunning_, capturing_, sending, bundleNo_, session, streamVars, raced, face, published, main, mutex,
                 audioQueue, captured, calls>>

-----------------------------------------------------------------------------
(* The face thread *)

FaceTakes(kind) ==
  /\ Working /\ face = 0 /\ faceQueue # <<>> /\ Head(faceQueue).kind = kind
  /\ faceQueue' = Tail(faceQueue)

(* Publishing of a bundle; setHeader throws if it is called twice. *)
PublishBundle ==
  /\ FaceTakes("bundle")
  /\ LET task == Head(faceQueue)
     IN IF task.bundle \in headerSet THEN fault' = "header set twice" /\ UNCHANGED <<headerSet, published, face>>
        ELSE /\ headerSet' = headerSet \cup {task.bundle} /\ face' = task.bundle
             /\ published' = Append(published, [thread |-> task.thread, session |-> task.session, no |-> task.no,
                                              content |-> content[task.bundle]])
             /\ UNCHANGED fault
  /\ UNCHANGED <<threadVars, streamVars, bundlePool_, content, raced, main, mutex, audioQueue, audio, captured, calls>>

ReturnBundle ==
  /\ Working /\ face # 0 /\ ~mutex
  /\ bundlePool_' = Append(bundlePool_, face) /\ face' = 0
  /\ raced' = (raced \/ audio # NoDelivery)
  /\ UNCHANGED <<threadVars, streamVars, headerSet, content, published, main, mutex, audioQueue, audio, faceQueue, fault, captured, calls>>

PublishMeta ==
  /\ FaceTakes("meta") /\ lastMeta' = Head(faceQueue).threads
  /\ UNCHANGED <<threadVars, threads_, streamRunning_, periodic, failed, poolVars, main, mutex, audioQueue, audio, fault, captured, calls>>

(* periodicInvocation: metadata of the stream, then of its threads; the     *)
(* invocation ends when the stream does not run.  It waits for start at the *)
(* lock; what can happen while it ends is in VideoProducer.                 *)
PeriodicInvocation ==
  /\ Working /\ periodic /\ face = 0 /\ ~mutex
  /\ lastMeta' = threads_ /\ periodic' = streamRunning_
  /\ UNCHANGED <<threadVars, threads_, streamRunning_, failed, poolVars, main, mutex, audioQueue, audio, faceQueue, fault, captured, calls>>

-----------------------------------------------------------------------------
MainSteps ==
  \/ CheckFlag \/ FallAsleep
  \/ \E t \in Threads : StartThread(t) \/ StopThread(t)
  \/ ThreadStarted \/ StartReturns \/ ThreadStopped \/ StopReturns
  \/ CreateFailed \/ ThreadCreated \/ AddReturns \/ DestroyThread \/ RemoveReturns
AudioSteps == (\E ok \in BOOLEAN : RunBlock(ok)) \/ Deliver \/ BundleTaken
FaceSteps == PublishBundle \/ ReturnBundle \/ PublishMeta

Next ==
  \/ Start \/ Stop
  \/ \E t \in Threads : AddThread(t) \/ RemoveThread(t)
  \/ MainSteps
  \/ \E t \in Threads, size \in SampleSizes : SendRtp(t, size)
  \/ AudioSteps \/ FaceSteps \/ PeriodicInvocation

Spec == Init /\ [][Next]_vars

(* Each of the three threads goes on as long as it can, and the timer fires. *)
FairSpec ==
  /\ Spec
  /\ WF_vars(MainSteps) /\ WF_vars(AudioSteps) /\ WF_vars(FaceSteps) /\ WF_vars(PeriodicInvocation)

-----------------------------------------------------------------------------
(* Properties *)

(* Type correctness of the producer's state. *)
AudioTypeOK ==
  /\ threads_ \subseteq Threads /\ alive \subseteq Threads
  /\ isRunning_ \in [Threads -> BOOLEAN] /\ capturing_ \in [Threads -> BOOLEAN] /\ sending \in [Threads -> BOOLEAN]
  /\ bundleNo_ \in [Threads -> Nat] /\ used \in [Threads -> 0..Capacity] /\ session \in [Threads -> Nat]
  /\ bundlePool_ \in Seq(Bundles) /\ headerSet \subseteq Bundles /\ face \in 0..PoolSize
  /\ content \in [Bundles -> [thread : Threads \cup {None}, session : Nat, no : Nat]] /\ raced \in BOOLEAN
  /\ main.wait \in {"no", "check", "drowsy", "asleep"} /\ mutex \in BOOLEAN
  /\ streamRunning_ \in BOOLEAN /\ periodic \in BOOLEAN /\ lastMeta \subseteq Threads

(* Frames that wait for the audio thread, or that it is delivering *)
Undelivered(t) ==
  (\E i \in DOMAIN audioQueue : audioQueue[i].kind = "frame" /\ audioQueue[i].thread = t) \/ audio.thread = t

(* Frames hold a plain pointer to their AudioThread: it is destroyed when   *)
(* none is left, because stopCapture waits for a block behind them.         *)
DeliversToTheLiving == \A t \in Threads : t \notin alive => ~Undelivered(t)

(* When stop or removeThread has returned nothing is delivered any more     *)
(* from a thread that was stopped.                                          *)
StoppedIsQuiet == main = Idle => \A t \in Threads : ~isRunning_[t] => ~Undelivered(t) /\ ~capturing_[t]

(* Bundles of a thread are published in the order of their numbers,         *)
(* whatever was given up between them.                                      *)
NumberedInOrder ==
  \A i, j \in DOMAIN published :
    LET a == published[i]
        b == published[j]
    IN i < j /\ a.thread = b.thread => a.session < b.session \/ (a.session = b.session /\ a.no < b.no)

BundlesIn(queue) == {i \in DOMAIN queue : queue[i].kind = "bundle"}
InFlight == Cardinality(BundlesIn(faceQueue)) + (IF face = 0 THEN 0 ELSE 1)

(* The pool does not shrink or grow, although it is read without the lock:  *)
(* for each bundle that is not in it one is on its way back.                *)
PoolBalanced == Working => Len(bundlePool_) + InFlight = PoolSize

(* A bundle is in one place: once in the pool, or in one task of the face   *)
(* thread, or in its hands.                                                 *)
BundlesApart ==
  /\ \A i, j \in DOMAIN bundlePool_ : bundlePool_[i] = bundlePool_[j] => i = j
  /\ \A i, j \in BundlesIn(faceQueue) : faceQueue[i].bundle = faceQueue[j].bundle => i = j
  /\ \A i \in DOMAIN bundlePool_, j \in BundlesIn(faceQueue) : bundlePool_[i] # faceQueue[j].bundle
  /\ \A i \in DOMAIN bundlePool_ : bundlePool_[i] # face
  /\ \A j \in BundlesIn(faceQueue) : faceQueue[j].bundle # face

(* What is published under the number of a bundle are the samples that were *)
(* delivered under it.                                                      *)
HoldsItsSamples ==
  /\ \A i \in BundlesIn(faceQueue) : content[faceQueue[i].bundle] = Label(faceQueue[i])
  /\ \A i \in DOMAIN published : published[i].content = Label(published[i])

(* A bundle's header is set once, for all that the code itself expects.     *)
HeaderSetOnce == fault # "header set twice"

(* removeThread may be called while the stream runs.                        *)
KeeperFound == fault # "null keeper"

(* The two ways in which the application's thread can be stuck: start holds *)
(* the lock that the audio thread needs before it gets to start's block;    *)
(* the block was run and its caller has slept through it.                   *)
StartStuck == mutex /\ main.wait # "no" /\ ~main.done /\ audio # NoDelivery
SleptThrough == main.wait = "asleep" /\ main.done

(* Consumers learn of each thread that is added or removed: the metadata    *)
(* published last lists the threads in the end, unless the voice engine's   *)
(* exception ends addThread before it gets to publish them, the             *)
(* application's thread is stuck in one of these two ways, or the program   *)
(* ends in one of the two above: with a bundle of the race for the pool, or *)
(* with one of a thread that is being removed.                              *)
ThreadsAnnounced ==
  lastMeta # threads_ ~>
    (lastMeta = threads_ \/ failed \/ StartStuck \/ SleptThrough \/ ~HeaderSetOnce \/ ~KeeperFound)

(* A bundle meets no keeper only while its thread is being removed: then    *)
(* only can the audio thread be delivering for it.                          *)
KeeperLostInRemove == fault = "null keeper" => main.op = "remove" /\ main.thread = audio.thread

(* Nothing is delivered from a thread that was stopped, nor to one that was *)
(* destroyed; a thread whose keeper is gone delivers until removeThread has *)
(* stopped it, and not after.                                               *)
QuietAfterStop ==
  /\ AudioTypeOK
  /\ DeliversToTheLiving
  /\ StoppedIsQuiet
  /\ KeeperLostInRemove

(* Bundles are published in the order of their numbers and come back to the *)
(* pool, which several threads use.  Until a bundle comes back between the  *)
(* reading of the pool and the taking (raced), each is in one place, is     *)
(* published with the samples that were delivered under its number, and     *)
(* gets its header once.                                                    *)
BundlesKept ==
  /\ PoolBalanced
  /\ NumberedInOrder
  /\ ~raced => BundlesApart /\ HoldsItsSamples /\ HeaderSetOnce
=============================================================================
