# ndnrtc: a model of a real-time media library over Named Data Networking

ndnrtc streams video and audio over Named Data Networking. A producer publishes
every frame as a set of named segments; a consumer asks for them with Interests
ahead of time, reassembles frames in a buffer and plays them. No connection and
no session exists between the two: everything that keeps playback going
(which names to ask for, how many at a time, when to ask again, when to start
over) is decided by the consumer, from the numbers and the metadata that the
producer attaches to its frames. Around the library are a frame fetcher and a
recorder, a command line client and two TouchDesigner operators.
The sources are under `cpp/`; below, file names without a directory are relative to
`cpp/src`.

## 1. Inventory

### Consumer

| Component | State | Operations | Correct when |
|---|---|---|---|
| `BufferSlot`, `SlotPool`, `Buffer`, `PlaybackQueue` (frame-buffer.cpp) | slots with their segments; pool; active and reserved maps; queue by timestamp | requested, received, reset, reserveSlot, releaseSlot, invalidatePrevious, pop | no slot is shared, lost, or recycled while it waits for playback |
| `ManifestValidator` (sample-validator.cpp) | manifest and verdict per slot, pool of fetchers | onNewRequest, onNewData, callbacks of a fetch | a sample is verified by its own manifest only |
| `Pipeliner`, `RetransmissionController`, `BufferControl`, `BufferObserver` | next numbers, class of the next sample, tracked slots | fillUpPipeline, express, missing segments, retransmission | fetching goes on, key frames stay requested |
| `InterestControl`, `LatencyControl`, estimators | pipeline counter and limits, command, windows of arrivals | burst, withhold, mark, setLimits, sampleArrived | limits in range, commands wait for their effect |
| `PipelineControl` and state machine, `SegmentController` | Idle, Bootstrapping, Adjusting, Fetching; active and starvation flags | start, stop; segment, time-out, Nack, starvation | it restarts itself and carries nothing over |
| `PlayoutControl`, `PlayoutImpl`, `VideoPlayoutImpl`, `JitterTiming` | permission, delay adjustment, processing time owed, GOP | allowPlayout, extractSample, processSample, timer | no drift, no delta frame without its predecessor |
| `RemoteStreamImpl` and subclasses, `MetaFetcher`, `SegmentFetcher` | metadata of stream and threads, running and cued flags, fetches | start, stop, setThread, release, fetch loop | metadata whole, a pended start runs, observers of dead sessions gone |
| `InterestQueue` | queue by deadline, draining flag | enqueue, drain, reset | drained, in order |

### Producer

| Component | State | Operations | Correct when |
|---|---|---|---|
| `VideoStreamImpl`, `VideoCoder`, `VideoThread`, `MetaKeeper`, `Periodic` | threads, numbers, GOP position, tasks, metadata, timer | addThread, removeThread, feedFrame, publish, updateMeta | numbers and positions agree, metadata describes what is published |
| `AudioStreamImpl`, `AudioThread`, `AudioCapturer`, `ThreadingCapability` | threads, bundles, pool, mutex, queue of the audio thread | start, stop, addThread, removeThread, deliver, publish | nothing delivered after stop, a bundle is pooled, filled or on its way |
| `PacketPublisher`, packets, names | cache, pending Interests, segment headers | publish, slice, sign, manifest | what is read is what was published |

### Storage and applications

| Component | State | Operations | Correct when |
|---|---|---|---|
| `StorageEngine` | keys | put, read by name or prefix, scanForLongestPrefixes | the scan finds the prefix to register |
| `FrameFetcher`, `FrameFetchingTask` | tasks with progress counters, GOP | fetch, answers, checkMissingSegments, decode | one outcome, whole GOP decoded |
| `StreamRecorder` (tools) | metadata loops, pipeline, tasks | start, stop, requestFrame, store | no frame skipped, recording can be fetched |
| `FaceProcessor`, `KeyChainManager` (helpers) | face, io_service thread, registration | start, stop, performSynchronized, registerPrefix | blocks run on the processor they were meant for |
| `ndnrtcIn`, `ndnrtcOut` (ndnrtcTOP) | parameters, tasks, stream, error | execute, init, initStream, render | stream and settings belong together |
| headless client (client/src) | generators, source, sinks, collector | set-up, run, tear-down | pace kept, nothing used after its end, it returns |

### How they interact

On the consumer's side, all callbacks of the NDN library, the timers and the
playout run on one `io_service` thread. `SegmentController` calls `BufferControl`, then
`PipelineControl`. `Buffer` calls its observers synchronously in the order of
attachment: playback queue, retransmission controller, pipeliner, buffer
observer. Observers call back into the buffer: one arriving segment may lock a
sample, start the playout, pop the queue, invalidate other samples, request
missing segments, re-express Interests and fill the pipeline, all before
`received` returns. `PipelineControl` stops and restarts its state machine from
within a transition of that machine. The user starts and stops a stream from
another thread; the first Interests of a session are enqueued there and drained
on the face thread.

On the producer's side threads meet (local-stream.hpp:125-138): main adds
and removes threads, capture feeds frames, face publishes. `feedFrame` holds
`internalMutex_` while all encoders work and numbers the frames, then dispatches
one publishing task per frame to the face thread; `busyPublishing_` counts those
tasks and refuses further frames. For audio a fourth thread, the voice engine's,
runs the blocks of `performOnMyThread` and delivers samples.

Producer and consumer share names, the layout of packets, the numbers in the
frames (sequence number, paired number, playback number) and metadata. The
applications share the face thread with the library and own a thread of their
own: the main thread of the client, the cooking thread of TouchDesigner.

### What is hard

Nested callbacks that use a slot after somebody else locked, popped or cleared
it; answers to Interests of an earlier session; lost, delayed and rejected
Interests, each handled in another place or not at all; counters kept by one
component on behalf of another, so that a missed call stops the stream; limits
re-measured while other operations move them; unsigned and rounded arithmetic;
frames numbered on one thread and published on another; timers set up on one
thread while another cancels them; plain pointers held by timers and queued
blocks; tasks that fail half-way through a re-initialisation; waits for a block
on another thread under a lock that this thread needs.
`PROJECT.json` lists these hazards line by line with the properties aimed at them.

## 2. Modules

    SampleBuffer          what the buffer promises, without slots
    FrameBuffer           Buffer, SlotPool, BufferSlot, PlaybackQueue     (implements SampleBuffer)
      SampleValidation    the buffer with ManifestValidator attached
        FrameBuffer_proofs
      LiveFetch           the live consumer around the buffer
    InterestControl       the pipeline limits
    LatencyControl        the decision of LatencyControl
      Estimators          InterestControl, LatencyControl and what they measure   (implements InterestControl)
      PipelineControl     state machine with InterestControl and LatencyControl, starvation, start and stop
        PipelineControl_proofs                                            (of the limits and estimators, too)
    VideoPlayout          playout, playout control, jitter timing, GOP tracking
      VideoPlayout_proofs
    RemoteStream          metadata fetchers, start, stop, observers
      InterestQueue       the queue of the stream's sessions              (implements RemoteStream)
        RemoteStream_proofs
    VideoProducer         encoding, numbering, publishing, metadata, periodic timer
      VideoProducer_proofs
    AudioProducer         streams and threads of audio, bundles, waits between threads
      AudioProducer_proofs
    Names, DataPacket     names and packets
      FramePublishing     publisher, cache, consumer's reading, storage
    FrameFetching         fetching one frame and its GOP
      StreamRecorder      recording, then fetching from the recording
    FaceProcessor         face, thread, blocks, registration
      TouchOperator       ndnrtcIn and ndnrtcOut
        Applications_proofs                                               (of StreamRecorder, too)
    HeadlessClient        the command line client
      HeadlessClient_proofs
    MC...                 constants for TLC

**FrameBuffer.** A buffer state is a record of the pool, the two maps, the
contents of all slots and the queue; every method is an operator from state to
state, so that it can be a step of its own (`BufferSpec`) or part of a longer
callback (`LiveFetch`). A slot knows its sample, its state and the sets of
requested and fetched segments; payloads are left out. `Earlier` is the order
of names in `activeSlots_` (key frames sort after delta frames, which is why
playing a key frame must not and does not invalidate by name), `Timestamp` the
order of the queue. Parity segments weigh one half (fec.cpp). `BufferSpec` is
the buffer under a caller that never requests a sample locked for playback;
whether the real caller keeps to that is examined in `LiveFetch`. In `SampleBuffer` a
sample may be stranded: assembled and locked, but never queued, because half-weighted
parity made it Ready without its header, or because a sample of the same timestamp
waits already. Only those samples may be.

**SampleValidation.** Buffer steps with the validator's reaction to each, and
the three ways a manifest's fetch ends (`OnManifest`, `OnUnverifiedManifest`,
`OnManifestError`). A fetch is a fetcher of the pool with the slot and the sample
that the callback carries; two fetches for one slot are two fetchers.

**LiveFetch.** One action per callback: `OnData`, `OnTimeout`, `OnNack`,
`OnMetadata`, `OnMetadataNack`, `PlayTick`, `Starvation`. A callback is a chain
of operators on a record of the whole state, in the order of the observers. An
exception or failed assertion ends the chain and is recorded in `fault`. `pit`
counts the outstanding copies of each Interest; one Data packet answers all of
them with one callback each. Adjusting and Fetching are one state, Running,
here, because they differ only in what they do to the limit. Retransmission
deadlines, the start-off decision and starvation are nondeterministic.

**InterestControl, LatencyControl, Estimators.** The integers of the limits, for any
set of demands that may be measured, with `limit_ - lowerLimit_` modulo the word
size; the command as a function of what the estimators say; sliding averages as
sums over sequences, with time in ticks between arrivals. A delay is
abstracted to what `DrdChangeEstimator` tells apart. Its constructor leaves its
parameters uninitialised: `Garbage` is what they may hold.

**PipelineControl.** The state machine in its three builds (live video, audio,
playback-driven "seed"), `PipelineControl` as its observer, latency commands,
`InterestControl`'s operations, `SegmentController`'s flags, the observers'
bookkeeping. Segments are reduced to their role for the machine. Only live
video decrements the pipeline when a sample arrives (`BufferObserver`), only a
playback-driven stream when one is played (`PlaybackObserver`), and only audio
tells `InterestControl` the rate (remote-audio-stream.cpp:30), as the streams are wired.

**VideoPlayout.** `clock` counts ticks of which `Ms` make a millisecond, so that
rounding to milliseconds shows. A frame is its playback number. `timer` tells whether the
playout's timer is off, set, or has expired with its handler still in the `io_service`'s queue, where
`stop` can no longer cancel it. The handler runs late by any of `Lateness`, processing takes time, frames
arrive late, out of order or never, and may be unreadable. That such a handler has run before the next session
starts is assumed (see `Start`).

**RemoteStream, InterestQueue.** A metadata packet is its version; a fetch collects
`<<version, segment>>` pairs and ends or fails as `SegmentFetcher` does. The objects
of a session are its number, so that observer lists show whom they would
inform. Interests carry the session they belong to and a deadline.

**VideoProducer.** Three threads as interleaved actions: `Add` and `Remove`
(main); `FeedFrame`, `Publish`, `FinishFeed` and `SetupInvocation` (capture, which
holds the mutex from the first to the last of them: `Unlocked` says it is free);
`RunTask`, `Fire`, `UpdateMeta` and `Cancel` (face). Where capture and face share
state without a lock, in `setupInvocation` and `cancel`, every assignment is a step.
The encoder is external: it delivers a key frame when asked for one (or drops
it), otherwise what it likes. `got` is the thread metadata that a consumer
fetched last, from which `processMetadata` computes its first numbers; `frames` and
`published` are histories. A `MetaKeeper` starts with an uninitialized `gopPos_`,
which version 0 of the metadata carries (`Garbage`).

**AudioProducer.** Each wait of the application's thread for a block of the audio
thread is three steps (post, test, sleep), because the flag is set and the waiter
notified without the waiter's mutex. `internalMutex_` is a variable where it is held over
a wait. What is taken in the bundle being filled is a number; the bundles of the pool have an identity, `content` tells
whose samples they hold, `headerSet` which have their header. `onSampleBundle` reads the pool in `Deliver` and
takes from it in `BundleTaken`, under the lock; `raced` is a history variable that tells whether a bundle has come back in between.

**Names, DataPacket, FramePublishing.** Names are sequences of typed components,
packets sequences of bytes below `ByteRange` (16 in the run, so that sizes need both of their
bytes). The consumer makes names from a `NamespaceInfo`, the producer puts them
together from components, and `extractInfo` parses them. The erasure code is
external: it restores what is missing if there is enough parity and if the
symbols it is given are right. Two threads are
recorded, and the storage is scanned for the prefix to register; how its `read` chooses among the keys under a prefix is
not modelled.

**FrameFetching, StreamRecorder.** Handlers call handlers: `calls` is the stack of
those under way, which matters for the local fetch method, whose answers come
before `express` returns. The recorder's frames are stored and then fetched in
the same behaviour. Behaviours that run into a known defect set `excused`.

**FaceProcessor, TouchOperator.** Processors, faces and key chains are numbered. A block that
`performSynchronized` queues is the face it was made for; the caller looks at the flag, goes to sleep and
is woken in steps of its own, as in `AudioProducer`. A block that throws ends the call of `io_.run` and notifies
nobody; the processor then makes a new face, which has no command signing info, or its thread ends.
A cook compares parameters, queues tasks, runs them until one throws, and passes a
picture on; the face thread runs between its steps. Streams and registrations are told apart by their processor, not by
its face: that a stream, or a registration shown as done, belongs to a face that was replaced is not seen.

**HeadlessClient.** The main thread's set-up and tear-down step by step, the io
thread's handlers with the mutex of each generator, the renderer thread's queue. A
generator's time is kept as the distance from an ideal schedule. `ren.writing` tells what has
become of a write under way: `sound`, or the frame or the sink was destroyed under it, after which the
write, and what it does, is undefined (`fault`). The contents of frames are left out.

Operators marked "Fault" are faulty variants of the operator that follows them.
Putting one in place of the operator breaks the property named in
`PROJECT.json`; they have no other use.

Left out in modules that are otherwise complete, because no property would tell: `feedFrame` tests for active threads
before it takes the lock (video-stream-impl.cpp:180), the model inside; a thread removed from a video stream is not added
again under its name; a manifest whose packet is malformed throws in the callback (sample-validator.cpp:78-107); the
recorder's exceptions for audio streams, seed frames and wrong names (stream-recorder.cpp:204-238).

## 3. Runs

| Run | States | Shows |
|---|---|---|
| `frame_buffer` | 490,394 | `SlotsConsistent`: no slot lost, shared, or recycled while it waits for playback, contents agree with the place. `ImplementsSampleBuffer`: refinement of `SampleBuffer`, stranded samples included. `ManifestsKeptApart`: samples are verified by their own manifests only, fetchers return |
| `live_fetch` | 291,215 | `CallbacksSucceed`: nested callbacks run to their end and keep slots apart, over restarts. `KeepsAsking`: key frames stay requested, no stall. `DeltaOrder`: order of delta frames. `LostOnlyWhenRefetched`: the one way to lose a slot |
| `pipeline_control` | 370,873 | `SessionsKeptApart`: restarts from within a transition succeed and leave nothing behind. `SettledSizeIsFloor`: the size settled on is kept. `BootstrapCompletes`: bootstrapping ends. `LimitsSound`: limits bounded, no wrap. `StabilityIsRecent`: windows adjacent and current. `CommandsAwaitEffect`: commands wait for the effect of the one before |
| `video_producer` | 223,576 | `PublishedAsDescribed`: numbered and published in order, metadata names published frames. `PairedNumbersMeet`: paired numbers and GOP positions agree. `BootstrapsAtGopStart`: where a consumer starts. `PublishingDrains`: feeding goes on |
| `video_playout` | 656,187 | `KeepsSchedule`: no drift, no negative wait, processing made up for. `DecodesWholeGops`: no delta frame without its predecessor. `QueueDrains`: queued frames are taken, since every way through the handler sets the timer |
| `remote_stream` | 330,752 | `MetaWholeOrAwaited`: metadata whole, or being fetched. `InformsTheRunning`: observers of the running session only. `WaitingIsDrained`: the Interest queue is drained, in order, for the running session. `PendedStartRuns`: an early start is made up for |
| `frame_fetching` | 482,309 | `FetchesWholeGopOnce`: whole GOP, one outcome, tasks wait for answers to come. `RecordingIsWhole`: recorder's pipeline kept, no frame skipped, recording can be fetched. `OutcomeReported`: every fetch ends |
| `frame_publishing` | 67,665 | `ReadAsPublished`: frames, metadata and manifests intact. `NamesResolve`: names agree, and the scan finds the longest common prefix of the keys. `OriginalForWaiting`: who is told that his Interest fetched the data |
| `audio_producer` | 529,986 | `QuietAfterStop`: nothing delivered from a stopped or to a destroyed thread, a keeper is missed only within `removeThread`. `BundlesKept`: bundles in order; until one comes back between reading and taking, each in one place, with its own samples, one header. `ThreadsAnnounced`: metadata lists the threads in the end |
| `touch_operator` | 557,582 | `StreamAsSet`: the stream is the one asked for, on what the operator holds. `InformationIsTrue`: key chain, registration, certificates and pictures belong together. `TasksRun`: tasks are run |
| `headless_client` | 1,469,818 | `SourcesOnPace`: pace and order of sourcing. `UsesTheLiving`: lifetimes of what the generators' tasks point to. `SinkServes`: no write without a sink; frames go to the sink of their resolution until it changes. `ClientReturns`: the client ends |
| `audio_pool_race` | | Violates `HeaderSetOnce` ("Sample header has been already added to the packet", network-data.hpp:468): the bundle filled is not the one taken off the pool |

The last run is expected to fail: it checks what the quoted line says, and finds that the code does otherwise.
The invariants are conjunctions of named parts, each stated and explained where it
is defined; the type invariant of a module is one of the parts.

Bounds, and why they are enough.
`frame_buffer`: two delta frames and a key frame with one or two data and up to
one parity segment, two slots for three samples, so that samples compete for
slots and every segment order occurs; one fetcher in the pool, two manifests at
a time, so that a manifest outlives its slot's sample.
`live_fetch`: a window k1 d1 k2 d2, a pipeline of two samples, key frames larger
than the first batch (missing segments are asked for), two copies of an
Interest (a retransmission beside the original), metadata that names either
frame of each class. Samples after the window take up room but are not
produced. A starvation may happen any number of times while `SpareSlots` slots are
not taken by samples awaiting playback; the code's pool is far larger than its
pipeline, so that a restart with an empty pool is left out.
`pipeline_control`: minimum 2, demands 1 and 5, largest demands 2 and 5, so that limits cross in both
directions and a mark lies above and below
a later upper limit; at most two bootstrap Interests at a time
(one of an earlier session beside the present one); windows of two samples; two parameter sets for the
uninitialised estimator. `InterestControl` has the state machine above it and the estimators beside it, and
the run looks at each of the two with the other left to the environment: the machine under whatever the
estimators may say, the estimators under whatever the machine may ask for.
`video_producer`: two threads, GOPs of three frames, four captured frames, so that
GOPs end regularly, are cut short and lose frames while the second thread is
added and removed at any time.
`video_playout`: two key frames with two delta frames between them, lateness and
thresholds on both sides of a frame's duration.
`remote_stream`: two threads, versions of two and of three segments, two failures,
two sessions, a queue that is drained by force beyond two entries (ten in the code).
`frame_fetching`: three GOPs (see `MCFrameFetching`), one retransmission, a storage that lacks up to two
segments (`MaxLost`; the network and so the recorder may lose any), a recording pipeline of two, two starts.
`frame_publishing`: three frames, segments of seven bytes, a prefix that contains the
library's own component, a header longer than a byte can count, two recorded threads.
`audio_producer`: two threads, a pool of two bundles, three samples, four calls of the application; the two
runs that fail have one thread and more samples.
`touch_operator`: two hosts, two good settings and a bad one, three edits, three faces.
`headless_client`: intervals with and without a remainder in milliseconds, a timer that
is late by more than two intervals, files that are empty, torn and whole, two resolutions and three
frames rendered, so that one comes after the sink has changed.

Fairness. `BootstrapCompletes` assumes weak fairness of the arrival of
metadata and of a frame at or after the start-off number while bootstrapping:
the code asks for metadata again after every time-out, so that an Interest is
outstanding all the time, and that one of infinitely many is answered is an
assumption on the network, without which no consumer can start; a stopped stream
and one whose last metadata Interest was rejected are excepted.
`PendedStartRuns` assumes the same of metadata (failures are bounded by
`MaxFailures`) and that posted blocks run. `PublishingDrains`,
`ThreadsAnnounced` and `TasksRun` assume weak fairness of the threads involved, which the
operating system schedules; no frame has to be captured and no call made.
`TasksRun` excepts the three ways in which `performSynchronized` never returns.
`QueueDrains` assumes that a timer that is set expires and that the handler it queues runs; nothing is assumed of a timer
that is not set. `OutcomeReported` assumes that an Interest
is answered or times out. `ClientReturns` needs strong fairness for steps that wait for a
mutex another thread takes and releases again and again, and weak fairness for the rest, except
that nobody is assumed to read from the pipe of a sink: a write to it may never end (`Stalled`), and the client
is then excused.

`CHECK_DEADLOCK FALSE` is given where the system may stop: windows of samples,
captures, calls and sessions are bounded, a playback-driven machine ends in an
exception, the client returns, and the operators hang in `performSynchronized`.

### What the models do that comments or callers do not expect

These came up while modelling. Where a model contains the behaviour, the properties except exactly
these cases; what is marked "not modelled" is told for the reader only.

Consumer:
* After a restart an answer to an Interest of the session before makes
  `BufferSlot::segmentReceived` throw (frame-buffer.cpp:187), for a segment beyond the
  batch that was asked for anew; `Buffer::received` does not catch it.
* Half-weighted parity makes a slot Ready without its header segment
  (frame-buffer.cpp:330); `PlaybackQueue::onNewData` throws and the slot stays locked.
* "timeout in BOOTSTRAPPING causes re-entering of this state"
  (pipeline-control-state-machine.hpp:156): media time-outs are ignored there (:235 of the
  .cpp); when all first frames are lost the consumer waits for ever.
* Nothing decrements the pipeline of an audio stream (remote-audio-stream.cpp:30, against
  interest-control.hpp:114): it requests `limit_` bundles and stops.
* The playback-driven machine "has no Adjusting state" (pipeline-control-state-machine.hpp:193),
  but its Fetching state asks for it, and `dispatch` throws.
* `dispatchEvent` has no case for a Nack, so that the handlers `onNack` of Adjusting
  and Fetching are never called; application Nacks are dropped by `SegmentController`.
* A key frame of one segment that starts playback is popped, and its slot cleared,
  by the queue's observer before `BufferObserver` reads its name: the next key frame is
  then not asked for. When the pool is empty at a restart, the key frame is counted and never requested.
* Fetching a sample again while it waits for playback loses its first slot
  (frame-buffer.cpp:792); a late key frame is played after later delta frames;
  `Pipeliner::onNewData` may request segments of a sample already locked.
* `releasePipelineControl` leaves the destroyed `PipelineControl` with the retransmission
  controller (remote-video-stream.cpp:290); `setThread` only stores the name.
  A stream destroyed while its start is pended still starts a session when the metadata comes.
* `VideoPlayoutImpl::stop` leaves `gopIsValid_` set (video-playout-impl.cpp:53): after a
  rebuffering a delta frame may pass for a member of the GOP played before.
* A manifest that comes late marks a recycled slot Failed (sample-validator.cpp:89).
* `SegmentFetcher` reports a failed verification and goes on to process the segment
  (segment-fetcher.cpp:97-101); `MetaFetcher` strips the header of the first segment only.
* `burst()` lowers the limit when the upper limit was re-measured below it;
  `needPipelineAdjustment` answers true although the pipeline did not change; bursts and
  withholds have no effect on live video, whose `InterestControl` is never given a rate;
  one starvation increments `RebufferingsNum` twice.

Producer and formats:
* `Periodic::cancel` on the face thread clears `isRunning_`, then cancels the timer: a timer that
  capture sets up in between is cancelled too, the flag stays set, and metadata is never
  published again, although periodic.hpp:20 calls the class thread-safe (periodic.cpp:121).
* `AudioStreamImpl::start` holds the mutex that the audio thread needs while it waits for that
  thread (audio-stream-impl.cpp:58); `performOnMyThread` can miss its notification
  (threading-capability.cpp:66), which its `doneFlag` does not prevent. These are `StartStuck` and `SleptThrough`.
  A channel or a capturer that cannot be created throws out of `addThread` after the thread was entered, and its
  metadata is not published (`failed`); an error of `CreateChannel` itself leaves nothing behind (`CreateFailed`).
* `onSampleBundle` reads the last bundle of the pool before it takes the lock and calls `pop_back` after
  (audio-stream-impl.cpp:178, :187): a bundle that comes back in between is taken off in place of the one that is filled, which
  is then in the pool and in flight, is filled again, and has its header set twice: `setHeader` throws on the face
  thread (run `audio_pool_race`). `BundlesKept` excepts what follows such a race, `ThreadsAnnounced` the exception.
* A bundle of a thread that is being removed finds no metadata keeper, and the null pointer is used in spite of
  `threadRemoved` (audio-stream-impl.cpp:182-186; fault "null keeper", within `removeThread` only: `KeeperLostInRemove`), although
  test-local-media-stream.cc:718 expects that a thread of a running stream can be removed. `ThreadsAnnounced` excepts this end, too: with
  the failed `addThread`, `StartStuck` and `SleptThrough` its list is complete.
* Bundle numbers start over when a thread is started again (audio-thread.cpp:51).
* A frame restored by parity is wrong when its last segment is short, another segment is
  missing and the storage still holds an earlier frame (frame-buffer.cpp:402):
  the code decodes what is left there with it. `AudioBundleSlot::readBundle` inserts each
  segment before the ones already there (:511).
* `cleanPit` answers Interests for segments that were not published only of the
  prefix just published, and for all every now and then (packet-publisher.hpp:194).
* GOP positions are truncated to a byte; more than 255 blobs wrap their counter;
  a thread called "sync:..." would be read as a synchronized stream.

Storage and applications:
* A frame with a second task, a null buffer of the user, an unreadable frame and Data of type NACK
  leave a fetch with two outcomes or none (fetching-task.cpp:91, frame-fetcher.cpp:366).
* Timers of a stopped recording go on in the next one, as a second loop.
* `read` of the storage matches prefixes as strings (storage-engine.cpp:294-296): an Interest for a prefix under thread `hi` may be
  answered with Data of thread `high`, one for sample 1 with Data of a later sample (not modelled).
* `performSynchronized` hangs in three ways, all of which leave the cook of an operator waiting for ever and are excepted
  from `TasksRun`: it misses its notification (face-processor.cpp:233-239, `SleptThrough`); its block throws, and nobody
  notifies; its block is left in the queue of a thread that has ended (`BlockLost`). A block that registers a prefix does throw
  when the face was made by recovery (:292-294), which does not call `setCommandSigningInfo`. This is why the run does not check
  for deadlock.
* `registerPrefixBlocking` waits for a flag that nobody sets (face-processor.cpp:147-163),
  although "calller will block until receiving either" callback; a processor that is stopped and started again does not
  run, because its `io_service` stays stopped (both not modelled: nobody calls the one, the operators make new processors).
* The information page of the operators reads the key chain when there is none
  (ndnrtcTOP_base.cpp:211); `ndnrtcOut` uses `begin()` of a map that may be empty (ndnrtcOut.cpp:222).
* The client's "blocking call. will return after runTimeSec seconds" does not return when a
  source file holds no whole frame: `sourceFrame` rewinds for ever (video-source.cpp:82-92).
* After a change of resolution nothing is written any more, because `isDumping_` is not set again
  (renderer.cpp:107), where the client's README speaks of a file for each resolution (client/README.md:137-144). At that change, and only then (`SinkServes`): the frame is replaced (:40) and the old sink
  destroyed (:90) whether or not a write to them is under way; writes that wait go to the new sink, and the
  reset that was meant for the old one takes the new one away, before or while `getFrameBuffer` uses it
  (:32, :47: fault "no sink").
* The renderer is destroyed while blocks that use it may still be queued, or the io thread still be in it (renderer.cpp:24; fault
  "freed"). `ClientReturns` excepts the crashes of this and of the last item.
* `PipeSink` repeats a write for ever while its pipe is full (frame-io.cpp:124-135): when the reader stalls, the client does not end.
  `ClientReturns` excepts this (`Stalled`).
* A frame waiting to be written is overwritten by the next (renderer.cpp:50; not modelled: contents of frames are left out).

## 4. Proofs

TLAPS proves the following for every value of the constants that satisfies the
named assumptions, which TLC evaluates in the runs: a finite set of slots and functions of the
right types (`BufferAssumption`); a validator with at least one fetcher (`PoolAssumption`); a
positive minimum, demands within the cap, rates that allow at least the minimum pipeline
(`InterestControlAssumption`); `MinOccurrences <= WindowSize` (`EstimatorsAssumption`; the code
has 4 and 10); twice the largest demand fits in a word (`PipelineControlAssumption`); later
frames have later timestamps, period and unit of time are positive (`PlayoutAssumption`);
threads, versions and segments are finitely many and numbered (`StreamAssumption`,
`QueueAssumption`); a GOP whose positions fit in a byte (`ProducerAssumption`); the names of each class listed once, in
order, and room for one sample at least in the pipeline (`LiveFetchAssumption`);
delta frames whose names are ordered and whose timestamps grow by sequence number (`PublishedInOrder`: a name
ends in its number, and two frames are never published in one millisecond); sizes and bounds are
numbers (`AudioAssumption`, `ClientAssumption`); a GOP lists its frames up to the target, each with a
data segment at least, and batches hold one (`FetcherAssumption`, `RecorderAssumption`); `None` is no host,
setting, stream, error or number (`FaceAssumption`, `OperatorAssumption`, `NoneAssumption`). Bounds that only keep the runs small (`MaxCalls`,
`MaxSessions`, ...) are arbitrary in the theorems.

| Module | Theorem | Property of the runs |
|---|---|---|
| `FrameBuffer_proofs` | `SlotsStayConsistent` | `SlotsConsistent` |
| | `BufferImplementsSamples` | `ImplementsSampleBuffer` |
| | `VerdictsStayApart` | `ManifestsKeptApart` |
| | `SlotsSurviveCallbacks` | (parts of `CallbacksSucceed`, with parity) |
| | `CallbacksReturn` | `CallbacksSucceed` |
| | `DeltasPlayInOrder`, `SlotsLostToRefetching` | `DeltaOrder`, `LostOnlyWhenRefetched` |
| `PipelineControl_proofs` | `LimitsStaySound`, `MarkSurvivesMeasurements` | `LimitsSound`, (`MarkedLowerLimitStays`: no run checks it) |
| | `ControlledByLatency` | (`LCSpec` implements `ICSpec`) |
| | `CommandsWait`, `OldArrivalsDoNotCount` | `CommandsAwaitEffect`, `StabilityIsRecent` |
| | `SessionsStayApart`, `SettledSizeStaysFloor` | `SessionsKeptApart`, `SettledSizeIsFloor` |
| `VideoPlayout_proofs` | `PlayoutKeepsSchedule`, `DecoderGetsWholeGops` | `KeepsSchedule`, `DecodesWholeGops` |
| `RemoteStream_proofs` | `RunningIsInformed`, `MetaStaysWhole`, `WaitingGetsDrained` | `InformsTheRunning`, `MetaWholeOrAwaited`, `WaitingIsDrained` |
| `VideoProducer_proofs` | `NumbersMeet`, `BootstrapStartsRight`, `PublishedStaysAsDescribed` | `PairedNumbersMeet`, `BootstrapsAtGopStart`, `PublishedAsDescribed` |
| `AudioProducer_proofs` | `StoppedStaysQuiet`, `BundlesStayKept` | `QuietAfterStop`, `BundlesKept` |
| `HeadlessClient_proofs` | `ThreadsUseTheLiving`, `RendererServes`, `FramesOnPace` | `UsesTheLiving`, `SinkServes`, `SourcesOnPace` |
| `Applications_proofs` | `FetchedOnce`, `RecordedFetchedOnce` | `FetchesWholeGopOnce` |
| | `WhatIsRecordedIsWhole` | `RecordingIsWhole` |
| | `StreamStaysAsSet`, `InformationStaysTrue` | `StreamAsSet`, `InformationIsTrue` |

*FrameBuffer_proofs.* `BufferInvariant` is the inductive invariant `BInv`: type
correctness, a form of exclusiveness that distinguishes the places, the
agreement of contents with place, conservation, and that every queued slot is
reserved under the name it carries. The last is needed because `pop` releases
by the name found in the slot: without it, a step from a state with a queued
pool slot would break everything. One lemma per operation (`RequestedKeeps`,
`ReceivedKeeps`, `PopKeeps`, `ResetKeeps`, and below them `InvalidateKeeps`,
`ReleaseKeeps`, `PoolPush`) shows it preserved; conservation and exclusiveness
together bound the pool, which is why `push` is never refused. `SlotsStayConsistent`
follows.
The refinement of `SampleBuffer` takes each operation to a step or a stutter by what it does to
the two maps and the queue (`PopFields`, `ResetFields`, ...); that the abstract bound on
held samples permits a request is a matter of counting: places are injective, so that a slot in the
pool leaves fewer samples than slots. The attempt to prove it without stranded samples failed
and showed that the refinement had held only for the constants of the run.
For the validator, `VInv` adds to `BInv` that verified slots are assembled and carry the
sample of their manifest, and that fetchers at work and in the pool add up to its capacity.

*FrameBuffer_proofs, the live consumer.* Conservation is lost here, since a sample that is fetched a
second time may lose the slot of the first: `Placed` says what remains. The state of a slot tells where it is
(`StateTellsPlace`), also when it is in no map, and queued slots are locked and of different timestamps, so that
`pop` never returns one to the pool that is still queued. A callback hands on a record of the state, so that `LInv` is a
predicate on that record and `Going` what holds between two calls; one lemma per call follows (`BufferRequested`, `Retransmits`, `Queues`,
`BufferReceives`, `Controls`, ...). That no slot is tracked twice needs `AskedInOrder`: what is active or
tracked comes before the counter of its class, so that the next sample to be asked for is neither, and a sample that is both is
tracked in the slot it has. That retransmission finds the sample of a tracked slot active is
`StateTellsPlace` again. That `pipeline_` never goes below zero needs
`Full`: whenever the session knows where to fetch, the pipeline is filled up before the callback returns, and one segment frees
one place. `fillUpPipeline` and the answers to the copies of an Interest are recursive functions; that they exist
and what they preserve is shown over the set of indices (`SetInduction`). `CallbacksReturn` assumes that no sample has
more than one parity segment (`Recoverable = {}`), because half-weighted parity can make a slot ready without its
header; `SlotsSurviveCallbacks` does without, and names that as the only other way to fail.

Two properties of steps follow from what each call does beyond keeping `LInv` (`Follows`). For `DeltasPlayInOrder`, `InTurn` says that
whatever is active or queued is not older than the delta frame played last. Playing drops older frames; the danger is the pipeliner,
which asks for the next one in the middle of a callback that played a frame. The sample's first segment frees
one place, which goes to a key frame if the sample was one, and otherwise to a delta frame after it: `Ahead` states this, and it is why a
key frame that starts the playout does not need a counter to compare with. For `SlotsLostToRefetching`, one Data
packet is handed on once for every copy of its Interest, so that a second copy could lose a slot that the first one had put in
place. It cannot: after the first the segment is `Settled`, fetched or not requested by the slot, and so makes no sample ready again.

*PipelineControl_proofs, the limits and estimators.* `ICInvariant` bounds all limits by the cap and orders
lower limit, limit and upper limit while nothing is marked. After a mark the
limits may cross, and only the bounds remain: this is why the wrap-around of
`withhold` is harmless there (the result is clamped) and absent before.
`ControlledByLatency` carries this over to the specification with latency control and estimators.
`CommandsWait` rests on `WaitInv`: a change the estimator has not reported yet came after the last
command, and the time-out does not run ahead of the time since then. It holds for any content
of the uninitialised parameters. `OldArrivalsDoNotCount` rests on `StableInv`, which relates the two averages to a history
of the last arrivals: each window holds those it should (`WindowsSlide`), the second is fed what
the first drops, the kept sums are the sums of the samples (`TotalOfAppend`, `TotalOfTail`), and every
irregular arrival beyond a whole window of them was counted, which is why
stability ends within two windows.

*PipelineControl_proofs, the machine.* Callbacks hand on a record of the state, and one of them may
restart the machine in the middle of another; the invariant `WInv` is therefore a predicate on
that record, kept by every operator in a chain. `Session` says what each state of the machine
implies for observers, flags and, while bootstrapping, for the limits, which must be fresh. `Settled` says
that Fetching rests on the mark (`Floor`) and that Adjusting has not fallen below it, except
under an upper limit that crossed an earlier mark. `2 * Cap < WordSize` is needed: a burst that
wrapped would lower the limit.

*VideoProducer_proofs.* That paired numbers and positions meet is not inductive:
whether the next delta frame will carry the right position depends on the coder,
which runs ahead of the numbers between encoding and `publish`. `PInv` adds, per
thread, that the coder's position is the distance of the last numbered frame
from its key frame when nothing is waiting to be numbered, one more when a delta
frame is, and zero when a key frame is (`PositionFits`); after a dropped key
frame the position is wrong, but then the trigger asks for a key frame again.
It also says that position and trigger stay below the GOP length, that
`busyPublishing_` is the number of tasks, and that tasks and metadata are
copies of numbered frames. `KeyNumbered`, `DeltaNumbered` and `FrameEncoded` are the
lemmas on one thread, `PublishKeeps`, `FeedKeeps`, `RunTaskKeeps`, `UpdateMetaKeeps` and
`OthersKeep` the actions. A second invariant, `OInv`, is about publication: numbers are without gaps, in
the order of playback numbers, each numbered frame is published or queued, the queue is in order, and metadata
describes a published frame. `PublishedStaysAsDescribed` follows from both.

*VideoPlayout_proofs.* `SInv` is the run's `KeepsSchedule` and one fact more, `EmptyAfterPeriod`: when the
queue is empty the last sample was given the default duration. It is needed because an extraction from
an empty queue advances the timestamp by that duration, whatever the sample before it was played for.
`OneExtraction` is the arithmetic of one step: what `adjustDelay` and `updatePlayoutTime` do not wait for stays
in the adjustment or in the processing time. `CorrectionKeepsDue` shows that `correctAdjustment` moves a late
frame's gap into the adjustment without moving the moment at which it is due; one lemma per
action follows, and `PlayoutKeepsSchedule`. That a running playout has its timer set (`TimerSet`) is part of it. For `DecoderGetsWholeGops`, `GInv` adds that, while the GOP is valid,
the number the playout remembers is that of the last frame shown.

*RemoteStream_proofs.* `SInv` relates running, cued and released flags to the session and to the
observers' lists. `MInv` says of each fetch that the segments collected are a prefix of
one version (`Prefix`), and that missing metadata is being fetched. The stream with its queue implements the stream
alone (`QueueIsAStream`), so that both carry over. `QInv` tells queued Interests apart by
their numbers and lets a drain be to come for them. What a drain expresses is an arrangement of
the queue by deadline, chosen among all that fit; that there is one is proved by looking at a smallest queue
without (`Sortable`).

*AudioProducer_proofs.* `QInv` follows the audio thread's queue: it holds at most one block, the one
the application waits for, and the block that stops a thread is queued behind all of its frames. A
thread that captures exists, or is being stopped. For `BundlesStayKept`, bundles of one thread are ordered by the session of the thread and their
numbers in it; published ones come before queued ones, and those before any to come (`OrderInv`). As long as
no bundle came back between reading the pool's last one and taking the last one off (`~raced`), the two are the same, and each
bundle is in one place: pooled, being filled, or in one queued block (`Places`). `PoolTaken` and `PoolReturned` are
the facts about sequences that this rests on.

*HeadlessClient_proofs.* `Lives` relates where the main thread is to what tasks point to: a generator that
runs has its source, stream or collector, and tasks run for running generators only. `Dumps` says that
the renderer's tasks of writing find an open sink, since dumping ends for good with the first task that
resets it. `Whole` says of the time in which it dumps that the sink, if it has one, is that of the frame it shows, that no write
goes on without one, and that neither fault nor torn write is known before the resolution changes, when dumping is
being ended (`closeSink`). The two together are `RendererServes`. `Schedules` is the pace: what a timer was set for and what is carried over as drift make up the interval and the
lag, also through truncation to milliseconds (`CastMs`). `Passes` counts whole passes over the file.

*Applications_proofs, fetching.* Handlers call each other, so that the stack may hold several unfinished ones:
`FetchInv` says which may be above which (`Nested`), and that what a handler has not yet done is told by the
stack. That a task gives up only when nothing can come any more is about a count: `progress_` is at least
the requests made and `nRtx` times the answers had, where what the stack is still going to ask for is left
out and what the network still owes is not yet an answer (`Counted`). That the GOP is whole when it is decoded needs
`Learns`: the target names the key frame, the key frame the delta frames, and once the first segment of a frame
has come, the frames it names have tasks or the loop that makes them is on the stack. At most one outcome follows
because a fetch that is not cancelled decodes only when all tasks have ended (`AllEnded`).

*Applications_proofs, recording.* From the storage a request is answered before the next one is made. `LocalInv` adds
that the count is exact, that requests on the stack are for different segments, that data is asked for before
parity (`DataFirst`) and that what was asked for and is stored was received (`AsksAll`); so a task that fails has asked for all
data segments, and one that completes has what makes a frame `isReady`. The last conjunct of `AsksAll` is what keeps parity from standing for
data segments that are stored but would be asked for later. `RecInv` counts the tasks of the recorder: the first ones fill the
pipeline (`PipelineFilled`) and each end starts one of the same class. `StoredAsSeen` joins the two.

*Applications_proofs, operators.* What the operator holds is not told by its fields alone: after an edit it holds what is to
be replaced by tasks that wait. `OperatorInv` therefore says for each kind of task what is
so unless it is queued (`Applied`, `Held`), that the queue is in the order of `Rank`, that a processor
is asked to register at most once (`Registered`), and that certificates are served or going to be (`Verifiable`). Errors are the only way out, which is
why `StreamAsSet` and `InformationIsTrue` mention them.

Where an induction over numbers was needed (sums over windows, arrangements of a queue, segments in ascending order), the library's
rules, which take an operator, are of no use; it goes over sets instead, with `SetInduction` or a
smallest counterexample. What stays with TLC, and why:
* all liveness (`BootstrapCompletes`, `PendedStartRuns`, `PublishingDrains`, `QueueDrains`,
  `OutcomeReported`, `ThreadsAnnounced`, `TasksRun`, `ClientReturns`): fairness and ENABLED are out of the prover's reach;
* `KeepsAsking`, which is true within the bounds only: it needs a pool that is never empty and
  key frames of more than one segment;
* `FramePublishing`: packets are put together and parsed by folds over sequences of bytes, and what such a
  fold computes for every input is an induction over data.

## 5. Plan

Done: the buffer, the live consumer with restarts, validation, the control loop with
its estimators, the playout, the remote stream with fetchers and queue, both producers,
wire formats, publishing, storage, frame fetcher, recorder, operators, client; and proofs of
their safety, but for the modules listed last in section 4.

Next, proofs: `FramePublishing` with names as records.

## 6. Not modelled

Codecs, capturing devices, drawing, logging, configuration files, the formats of statistics, the C wrapper, audio and video
synchronisation (compiled, used by no stream), data-validator.cpp (used by nobody) and the benchmark programs:
they keep no state that another component's control depends on. The TouchDesigner SDK headers are third-party code.
Floating-point estimators of rates and sizes are replaced by any value they may return.
`Buffer::invalidate` has no caller. `AudioBundleSlot` and `AudioPlayoutImpl::processSample` hand
bytes to WebRTC. The mutex of `SegmentController`, under which observers are called, matters
only to a user who stops a stream from within one of its callbacks, which no
program here does. The erasure code, RocksDB, the voice engine, the key storage and the
forwarder are external.
