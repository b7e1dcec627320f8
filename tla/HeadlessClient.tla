--------------------------- MODULE HeadlessClient ---------------------------
(***************************************************************************)
(* The command line client (client/src): the main thread sets streams up,  *)
(* waits, and tears them down in order; the io thread runs the timers of   *)
(* the video source and of the statistics collector (PreciseGenerator) and *)
(* renders fetched frames; the renderer thread writes frames to sinks.     *)
(* Time is counted in units of which Ms make a millisecond, and a          *)
(* generator's time is kept as its distance from an ideal schedule.        *)
(***************************************************************************)
EXTENDS Integers, Sequences

CONSTANTS
  Ms,            \* units of time in a millisecond
  Interval,      \* for each generator, the time between two firings
  Lateness,      \* for each generator, how late an iteration can be
  FrameSize,     \* bytes of a raw frame
  FileSizes,     \* sizes of source files
  Resolutions,   \* resolutions of fetched frames
  MaxFrames,     \* bound on the frames sourced
  MaxRendered    \* bound on the frames rendered

Generators == {"video", "stats"}

ASSUME ClientAssumption ==
  /\ Ms \in Nat \ {0} /\ FrameSize \in Nat \ {0} /\ FileSizes \subseteq Nat
  /\ Interval \in [Generators -> Nat] /\ Lateness \in [Generators -> SUBSET Nat]
  /\ MaxFrames \in Nat /\ MaxRendered \in Nat /\ 0 \notin Resolutions

VARIABLES
  params,     \* what the configuration asks for
  main,       \* where the main thread is
  work,       \* whether the io thread has been asked to go on
  io,         \* what the io thread is running
  gen,        \* the generators
  source,     \* the video source: its file or pipe, and the frame read last
  stream,     \* whether the local stream exists
  collector,  \* whether the statistics collector exists
  fetching,   \* whether the remote stream has been started and not stopped
  ren,        \* the renderer of the remote stream
  tasks,      \* tasks of the renderer thread
  writer,     \* [external] whether somebody writes into the source pipe
  fault       \* use of a missing sink or of a freed renderer

vars == <<params, main, work, io, gen, source, stream, collector, fetching, ren, tasks, writer, fault>>

-----------------------------------------------------------------------------
(* PreciseGenerator: lag is lagNs_, interval is lastIterIntervalMs_, drift  *)
(* is the start of the last iteration less its place in the schedule.       *)

NewGenerator == [running |-> FALSE, timer |-> "off", lag |-> 0, interval |-> 0, drift |-> 0]

castMs(t) == IF t >= 0 THEN Ms * (t \div Ms) ELSE -(Ms * ((-t) \div Ms))

(* Fault: the part of the interval below a millisecond is forgotten. *)
getAdjustedIntervalRounded(g, lag) ==
  LET original == castMs(Interval[g])
  IN IF lag > original THEN [interval |-> 0, lag |-> lag - original]
     ELSE [interval |-> original - castMs(lag), lag |-> lag - castMs(lag)]

(* getAdjustedInterval, once an iteration has passed: lag is what has       *)
(* accumulated, the last iteration included.                                *)
getAdjustedInterval(g, lag) ==
  LET original == castMs(Interval[g])
      accumulated == lag - (Interval[g] - original)
  IN IF accumulated > original THEN [interval |-> 0, lag |-> accumulated - original]
     ELSE [interval |-> original - castMs(accumulated), lag |-> accumulated - castMs(accumulated)]

(* setupTimer of start, when there is no last iteration *)
startGenerator(g) ==
  [running |-> TRUE, timer |-> "armed", drift |-> 0, interval |-> castMs(Interval[g]),
   lag |-> castMs(Interval[g]) - Interval[g]]

(* setupTimer of onFire *)
setupTimer(g, late) ==
  LET adjusted == getAdjustedInterval(g, gen[g].lag + late)
  IN [gen EXCEPT ![g].timer = "armed", ![g].lag = adjusted.lag, ![g].interval = adjusted.interval,
                 ![g].drift = @ + gen[g].interval + late - Interval[g]]

(* stop: a wait that has expired is not taken back by cancel. *)
stopGenerator(g) ==
  [gen EXCEPT ![g].running = FALSE, ![g].timer = IF @ = "armed" THEN "off" ELSE @]

(* setupMutex_ is held while the task runs. *)
InTask(g) ==
  io.at \in IF g = "video" THEN {"source", "reopen", "deliver"} ELSE {"query"}

IoRuns(at) == fault = "none" /\ io.at = at
Idle == [at |-> "idle", res |-> 0]

(* [external] the timer *)
Expire(g) ==
  /\ fault = "none" /\ gen[g].timer = "armed"
  /\ g = "video" => source.framesSourced < MaxFrames
  /\ gen' = [gen EXCEPT ![g].timer = "expired"]
  /\ UNCHANGED <<params, main, work, io, source, stream, collector, fetching, ren, tasks, writer, fault>>

OnFire(g) ==
  /\ IoRuns("idle") /\ gen[g].timer = "expired"
  /\ gen' = [gen EXCEPT ![g].timer = "off"]
  /\ io' = IF gen[g].running
           THEN [Idle EXCEPT !.at = IF g = "video" THEN "source" ELSE "query"]
           ELSE io
  /\ UNCHANGED <<params, main, work, source, stream, collector, fetching, ren, tasks, writer, fault>>

-----------------------------------------------------------------------------
(* VideoSource, over a file or a pipe *)

NoSource == [alive |-> FALSE, pos |-> 0, eof |-> FALSE, frame |-> 0, framesSourced |-> 0]

checkSourceForFrame(size) == size % FrameSize = 0

rewind(s) == [s EXCEPT !.pos = 0, !.eof = FALSE]

(* FileFrameSource: the end of the file is met by the read after the last   *)
(* frame, which leaves the frame as it was.                                 *)
readFile(s) ==
  IF s.pos + FrameSize <= params.size
  THEN [s EXCEPT !.pos = @ + FrameSize, !.frame = (s.pos \div FrameSize) + 1]
  ELSE [s EXCEPT !.eof = TRUE]

(* One pass of the loop of sourceFrame *)
SourceFrame ==
  /\ IoRuns("source") /\ params.source = "file"
  /\ LET s == readFile(IF source.eof THEN rewind(source) ELSE source)
     IN /\ source' = IF s.eof THEN s ELSE [s EXCEPT !.framesSourced = @ + 1]
        /\ io' = IF s.eof THEN io ELSE [io EXCEPT !.at = "deliver"]
  /\ UNCHANGED <<params, main, work, gen, stream, collector, fetching, ren, tasks, writer, fault>>

(* PipeFrameSource: pos counts the bytes of the frame read so far. *)
ReadPipe ==
  /\ IoRuns("source") /\ params.source = "pipe"
  /\ LET whole == source.pos + 1 = FrameSize
     IN IF ~writer THEN io' = [io EXCEPT !.at = "reopen"] /\ UNCHANGED source
        ELSE /\ source' = IF whole THEN [source EXCEPT !.pos = 0, !.framesSourced = @ + 1]
                          ELSE [source EXCEPT !.pos = @ + 1]
             /\ io' = IF whole THEN [io EXCEPT !.at = "deliver"] ELSE io
  /\ UNCHANGED <<params, main, work, gen, stream, collector, fetching, ren, tasks, writer, fault>>

(* The pipe is opened for reading when somebody opens it for writing. *)
ReopenReadPipe ==
  /\ IoRuns("reopen") /\ writer
  /\ io' = [io EXCEPT !.at = "source"]
  /\ UNCHANGED <<params, main, work, gen, source, stream, collector, fetching, ren, tasks, writer, fault>>

(* [external] a process opens or closes the pipe. *)
PipeWriter ==
  /\ fault = "none" /\ params.source = "pipe" /\ main # "returned"
  /\ writer' = ~writer
  /\ UNCHANGED <<params, main, work, io, gen, source, stream, collector, fetching, ren, tasks, fault>>

(* deliverFrame, after which onFire sets the timer up again *)
DeliverFrame(late) ==
  /\ IoRuns("deliver")
  /\ io' = Idle /\ gen' = setupTimer("video", late)
  /\ UNCHANGED <<params, main, work, source, stream, collector, fetching, ren, tasks, writer, fault>>

(* queryStats locks the mutex that the destructor of the collector locks. *)
QueryStats(late) ==
  /\ IoRuns("query") /\ main # "dropStats"
  /\ io' = Idle /\ gen' = setupTimer("stats", late)
  /\ UNCHANGED <<params, main, work, source, stream, collector, fetching, ren, tasks, writer, fault>>

-----------------------------------------------------------------------------
(* RendererInternal.  sink and res are the resolutions of sink_ and frame_, *)
(* 0 for none.  A write that is under way is "sound", or on a frame or a    *)
(* sink that has been destroyed since it began.                             *)

NewRenderer == [alive |-> TRUE, sink |-> 0, isDumping |-> TRUE, res |-> 0, writing |-> "no", rendered |-> 0]

isBusy == params.sink = "pipe" /\ ren.sink # 0 /\ ren.writing \in {"sound", "frame"}

torn(what) == IF ren.writing = "no" THEN "no" ELSE what

(* feedFrame, up to the return of getFrameBuffer or the change of the frame *)
GetFrameBuffer(res) ==
  /\ IoRuns("idle") /\ fetching /\ ren.rendered < MaxRendered
  /\ ~isBusy /\ io' = [at |-> IF res = ren.res THEN "render" ELSE "resize", res |-> res]
  /\ UNCHANGED <<params, main, work, gen, source, stream, collector, fetching, ren, tasks, writer, fault>>

(* The sink that getFrameBuffer asks is let go of by the renderer thread    *)
(* between the test for it and its use.                                     *)
SinkVanishes ==
  /\ IoRuns("idle") /\ fetching /\ ren.rendered < MaxRendered
  /\ ren.sink # 0 /\ tasks # <<>> /\ Head(tasks) = "reset"
  /\ fault' = "no sink"
  /\ UNCHANGED <<params, main, work, io, gen, source, stream, collector, fetching, ren, tasks, writer>>

(* The frame is replaced by one of the new resolution, written or not. *)
ResizeFrame ==
  /\ IoRuns("resize") /\ ren.alive
  /\ io' = [io EXCEPT !.at = "close"] /\ ren' = [ren EXCEPT !.res = io.res, !.writing = torn("frame")]
  /\ UNCHANGED <<params, main, work, gen, source, stream, collector, fetching, tasks, writer, fault>>

(* closeSink: waits while the sink is busy, then leaves the sink to the     *)
(* renderer thread.                                                         *)
closeSink ==
  IF ren.isDumping /\ ren.sink # 0
  THEN ~isBusy /\ ren' = [ren EXCEPT !.isDumping = FALSE] /\ tasks' = Append(tasks, "reset")
  ELSE UNCHANGED <<ren, tasks>>

CloseSink ==
  /\ IoRuns("close") /\ ren.alive
  /\ closeSink /\ io' = [io EXCEPT !.at = "open"]
  /\ UNCHANGED <<params, main, work, gen, source, stream, collector, fetching, writer, fault>>

(* Fault: dumping goes on with the new sink, which the reset is still to get. *)
OpenSinkDumping ==
  /\ IoRuns("open") /\ ren.alive
  /\ ren' = [ren EXCEPT !.sink = io.res, !.writing = torn("sink"), !.isDumping = TRUE]
  /\ io' = [io EXCEPT !.at = "log"]
  /\ UNCHANGED <<params, main, work, gen, source, stream, collector, fetching, tasks, writer, fault>>

(* openSink: the new sink takes the place of the old one, which is          *)
(* destroyed whether or not writes to it wait or are under way; what waits  *)
(* is written, and reset, to the new one.  A sink that cannot be created    *)
(* throws through the io thread.                                            *)
OpenSink ==
  /\ IoRuns("open") /\ ren.alive
  /\ \/ /\ ren' = [ren EXCEPT !.sink = io.res, !.writing = torn("sink")]
        /\ io' = [io EXCEPT !.at = "log"]
     \/ ren' = ren /\ io' = [Idle EXCEPT !.at = "ended"]
  /\ UNCHANGED <<params, main, work, gen, source, stream, collector, fetching, tasks, writer, fault>>

(* The message at the end of getFrameBuffer asks the sink. *)
LogSink ==
  /\ IoRuns("log") /\ ren.alive
  /\ fault' = IF ren.sink = 0 THEN "no sink" ELSE fault
  /\ io' = [io EXCEPT !.at = "render"]
  /\ UNCHANGED <<params, main, work, gen, source, stream, collector, fetching, ren, tasks, writer>>

(* renderFrame with dumpFrame *)
RenderFrame ==
  /\ IoRuns("render") /\ ren.alive
  /\ io' = Idle /\ ren' = [ren EXCEPT !.rendered = @ + 1]
  /\ tasks' = IF ren.isDumping /\ ~isBusy THEN Append(tasks, "write") ELSE tasks
  /\ UNCHANGED <<params, main, work, gen, source, stream, collector, fetching, writer, fault>>

(* The renderer is destroyed by the main thread without waiting for either  *)
(* thread: what the io thread and the renderer thread do with it then is    *)
(* undefined.                                                               *)
RenderFreed ==
  /\ fault = "none" /\ ~ren.alive
  /\ io.at \in {"resize", "close", "open", "log", "render"} /\ io' = Idle
  /\ fault' \in {"none", "freed"}
  /\ UNCHANGED <<params, main, work, gen, source, stream, collector, fetching, ren, tasks, writer>>

TaskFreed ==
  /\ fault = "none" /\ ~ren.alive
  /\ main # "returned" /\ tasks # <<>> /\ tasks' = Tail(tasks) /\ ren' = [ren EXCEPT !.writing = "no"]
  /\ fault' \in {"none", "freed"}
  /\ UNCHANGED <<params, main, work, io, gen, source, stream, collector, fetching, writer>>

(* rendererIo.run() returns when it has no task left and no work.           *)
RendererRuns(task) ==
  /\ fault = "none" /\ ren.alive /\ main # "returned" /\ main # "destroyClient"
  /\ tasks # <<>> /\ Head(tasks) = task

StartWrite ==
  /\ RendererRuns("write") /\ ren.writing = "no"
  /\ ren' = [ren EXCEPT !.writing = "sound"]
  /\ UNCHANGED <<params, main, work, io, gen, source, stream, collector, fetching, tasks, writer, fault>>

(* A write on what was destroyed under it is undefined.  A write to a pipe  *)
(* is repeated as long as the pipe is full.                                 *)
FinishWrite ==
  /\ RendererRuns("write") /\ ren.writing # "no"
  /\ ren' = [ren EXCEPT !.writing = "no"] /\ tasks' = Tail(tasks)
  /\ fault' \in IF ren.writing = "sound" THEN {"none"} ELSE {"none", "freed"}
  /\ UNCHANGED <<params, main, work, io, gen, source, stream, collector, fetching, writer>>

ResetSink ==
  /\ RendererRuns("reset")
  /\ ren' = [ren EXCEPT !.sink = 0] /\ tasks' = Tail(tasks)
  /\ UNCHANGED <<params, main, work, io, gen, source, stream, collector, fetching, writer, fault>>

-----------------------------------------------------------------------------
(* The main thread *)

At(phase) == fault = "none" /\ main = phase

Init ==
  /\ params \in [consuming : BOOLEAN, sink : {"file", "pipe"}, source : {"none", "audio", "pipe"},
                 size : {0}, stats : BOOLEAN]
       \cup [consuming : BOOLEAN, sink : {"file", "pipe"}, source : {"file"}, size : FileSizes, stats : BOOLEAN]
  /\ params.consuming \/ params.sink = "file"
  /\ main = "setupConsumer" /\ work = TRUE /\ io = Idle
  /\ gen = [g \in Generators |-> NewGenerator]
  /\ source = NoSource /\ stream = FALSE /\ collector = FALSE
  /\ fetching = FALSE /\ ren = [NewRenderer EXCEPT !.alive = FALSE] /\ tasks = <<>>
  /\ writer = FALSE /\ fault = "none"

(* initRemoteStream; setupRenderer throws for a sink the build lacks. *)
SetupConsumer ==
  /\ At("setupConsumer")
  /\ \/ /\ ~params.consuming
        /\ main' = "setupProducer" /\ UNCHANGED <<ren, fetching>>
     \/ /\ params.consuming
        /\ main' = "setupProducer" /\ ren' = NewRenderer /\ fetching' = TRUE
     \/ /\ params.consuming
        /\ main' = "joinRenderer" /\ UNCHANGED <<ren, fetching>>
  /\ UNCHANGED <<params, work, io, gen, source, stream, collector, tasks, writer, fault>>

(* initLocalStream for the source of the stream *)
SetupProducer ==
  /\ At("setupProducer")
  /\ \/ /\ params.source \in {"none", "audio"}
        /\ stream' = (params.source = "audio")
        /\ main' = IF params.source = "none" /\ ~params.consuming THEN "shutdown" ELSE "setupStats"
        /\ UNCHANGED <<gen, source>>
     \/ /\ params.source = "file" /\ ~checkSourceForFrame(params.size)
        /\ main' = "joinRenderer" /\ UNCHANGED <<gen, source, stream>>
     \/ /\ \/ params.source = "file" /\ checkSourceForFrame(params.size)
           \/ params.source = "pipe" /\ writer
        /\ source' = [NoSource EXCEPT !.alive = TRUE] /\ stream' = TRUE
        /\ gen' = [gen EXCEPT !["video"] = startGenerator("video")]
        /\ main' = "setupStats"
  /\ UNCHANGED <<params, work, io, collector, fetching, ren, tasks, writer, fault>>

(* addStream throws when two streams have one prefix. *)
SetupStatGathering ==
  /\ At("setupStats")
  /\ \/ /\ ~params.stats
        /\ main' = "loop" /\ UNCHANGED <<gen, collector>>
     \/ /\ params.stats
        /\ main' = "loop" /\ collector' = TRUE
        /\ gen' = [gen EXCEPT !["stats"] = startGenerator("stats")]
     \/ /\ params.stats
        /\ main' = "joinRenderer" /\ collector' = TRUE /\ UNCHANGED gen
  /\ UNCHANGED <<params, work, io, source, stream, fetching, ren, tasks, writer, fault>>

RunProcessLoop ==
  /\ At("loop")
  /\ main' = IF params.stats THEN "stopStats" ELSE "stopSource"
  /\ UNCHANGED <<params, work, io, gen, source, stream, collector, fetching, ren, tasks, writer, fault>>

(* Fault: the collector is destroyed without having been stopped. *)
StopStatsAtOnce ==
  /\ At("stopStats")
  /\ main' = "dropStats"
  /\ UNCHANGED <<params, work, io, gen, source, stream, collector, fetching, ren, tasks, writer, fault>>

(* tearDownStatGathering: stop, and then the destructor with its mutex *)
StopStats ==
  /\ At("stopStats") /\ ~InTask("stats")
  /\ gen' = stopGenerator("stats") /\ main' = "dropStats"
  /\ UNCHANGED <<params, work, io, source, stream, collector, fetching, ren, tasks, writer, fault>>

DropStats ==
  /\ At("dropStats")
  /\ gen["stats"].running => ~InTask("stats")
  /\ gen' = stopGenerator("stats") /\ collector' = FALSE /\ main' = "stopSource"
  /\ UNCHANGED <<params, work, io, source, stream, fetching, ren, tasks, writer, fault>>

(* Fault: the source is stopped under the task that runs. *)
StopSourceAtOnce ==
  /\ At("stopSource")
  /\ gen' = stopGenerator("video") /\ main' = "clearLocal"
  /\ UNCHANGED <<params, work, io, source, stream, collector, fetching, ren, tasks, writer, fault>>

(* tearDownProducer: the sources are stopped, and the streams destroyed. *)
StopSource ==
  /\ At("stopSource")
  /\ gen["video"].running => ~InTask("video")
  /\ gen' = stopGenerator("video") /\ main' = "clearLocal"
  /\ UNCHANGED <<params, work, io, source, stream, collector, fetching, ren, tasks, writer, fault>>

ClearLocal ==
  /\ At("clearLocal")
  /\ source' = [source EXCEPT !.alive = FALSE] /\ stream' = FALSE
  /\ main' = IF params.consuming THEN "stopRemote" ELSE "shutdown"
  /\ UNCHANGED <<params, work, io, gen, collector, fetching, ren, tasks, writer, fault>>

(* tearDownConsumer: the remote stream is stopped, the renderer destroyed. *)
StopRemote ==
  /\ At("stopRemote")
  /\ fetching' = FALSE /\ main' = "clearRemote"
  /\ UNCHANGED <<params, work, io, gen, source, stream, collector, ren, tasks, writer, fault>>

ClearRemote ==
  /\ At("clearRemote")
  /\ ren.isDumping /\ ren.sink # 0 => ~isBusy
  /\ ren' = [ren EXCEPT !.alive = FALSE, !.isDumping = FALSE, !.writing = torn("sink")]
  /\ tasks' = IF ren.isDumping /\ ren.sink # 0 THEN Append(tasks, "reset") ELSE tasks
  /\ main' = "shutdown"
  /\ UNCHANGED <<params, work, io, gen, source, stream, collector, fetching, writer, fault>>

(* run of main.cpp: the face is shut down and the io thread left to end. *)
Shutdown ==
  /\ At("shutdown")
  /\ work' = FALSE /\ main' = "join"
  /\ UNCHANGED <<params, io, gen, source, stream, collector, fetching, ren, tasks, writer, fault>>

IoEnds ==
  /\ IoRuns("idle") /\ ~work /\ \A g \in Generators : gen[g].timer = "off"
  /\ io' = [Idle EXCEPT !.at = "ended"]
  /\ UNCHANGED <<params, main, work, gen, source, stream, collector, fetching, ren, tasks, writer, fault>>

Join ==
  /\ At("join") /\ io.at = "ended"
  /\ main' = "joinRenderer"
  /\ UNCHANGED <<params, work, io, gen, source, stream, collector, fetching, ren, tasks, writer, fault>>

(* The renderer thread ends as soon as it has nothing to do; an exception   *)
(* of the client leads here with the streams still alive.                   *)
JoinRenderer ==
  /\ At("joinRenderer") /\ tasks = <<>>
  /\ main' = IF work THEN "destroyClient" ELSE "returned"
  /\ UNCHANGED <<params, work, io, gen, source, stream, collector, fetching, ren, tasks, writer, fault>>

(* After an exception: the destructors of Client, LocalStream, VideoSource  *)
DestroyClient ==
  /\ At("destroyClient")
  /\ gen["video"].running => ~InTask("video")
  /\ gen' = stopGenerator("video")
  /\ source' = [source EXCEPT !.alive = FALSE] /\ stream' = FALSE /\ collector' = FALSE
  /\ fetching' = FALSE /\ ren' = [ren EXCEPT !.alive = FALSE]
  /\ main' = "returned"
  /\ UNCHANGED <<params, work, io, tasks, writer, fault>>

MainSteps ==
  \/ SetupConsumer \/ SetupProducer \/ SetupStatGathering \/ RunProcessLoop
  \/ StopStats \/ DropStats \/ StopSource \/ ClearLocal \/ StopRemote \/ ClearRemote
  \/ Shutdown \/ Join \/ JoinRenderer \/ DestroyClient

GeneratorSteps ==
  \/ \E g \in Generators : OnFire(g)
  \/ SourceFrame \/ ReadPipe \/ ReopenReadPipe
  \/ \E late \in Lateness["video"] : DeliverFrame(late)
  \/ \E late \in Lateness["stats"] : QueryStats(late)

RenderSteps == ResizeFrame \/ CloseSink \/ OpenSink \/ LogSink \/ RenderFrame \/ RenderFreed

RendererSteps == StartWrite \/ FinishWrite \/ ResetSink \/ TaskFreed

Next ==
  \/ MainSteps \/ GeneratorSteps \/ RenderSteps \/ RendererSteps \/ IoEnds \/ SinkVanishes
  \/ \E g \in Generators : Expire(g)
  \/ \E res \in Resolutions : GetFrameBuffer(res)
  \/ PipeWriter

Spec == Init /\ [][Next]_vars

(* The reader of the pipe leaves it full. *)
Stalled ==
  /\ params.sink = "pipe" /\ tasks # <<>> /\ Head(tasks) = "write"
  /\ ren.writing # "no" \/ ~ren.alive

(* Threads that can go on do, and a mutex that is released again and again  *)
(* is obtained in the end.  Nobody has to write into the source pipe, or to *)
(* read from the pipe of a sink.                                            *)
FairSpec ==
  /\ Spec /\ WF_vars(MainSteps) /\ SF_vars(StopStats) /\ SF_vars(StopSource) /\ SF_vars(DestroyClient)
  /\ WF_vars(GeneratorSteps) /\ WF_vars(RenderSteps) /\ WF_vars(~Stalled /\ RendererSteps)
  /\ WF_vars(IoEnds)

-----------------------------------------------------------------------------
Frames == params.size \div FrameSize

(* Type correctness. *)
ClientTypeOK ==
  /\ gen \in [Generators -> [running : BOOLEAN, timer : {"off", "armed", "expired"},
                             lag : Int, interval : Nat, drift : Int]]
  /\ io \in [at : {"idle", "source", "reopen", "deliver", "query", "resize", "close", "open", "log", "render", "ended"},
             res : Resolutions \cup {0}]
  /\ source \in [alive : BOOLEAN, pos : Nat, eof : BOOLEAN, frame : Nat, framesSourced : 0..MaxFrames]
  /\ ren.sink \in Resolutions \cup {0} /\ tasks \in Seq({"write", "reset"})

(* A generator does not drift: its next timer is due at its place in the    *)
(* schedule but for lagNs_, which is above a negative millisecond, and a    *)
(* millisecond or more only while it is set to fire at once.                *)
OnPace ==
  \A g \in Generators : gen[g].timer # "off" =>
    /\ gen[g].drift + gen[g].interval = Interval[g] + gen[g].lag
    /\ gen[g].lag > -Ms
    /\ gen[g].lag >= Ms => gen[g].interval = 0

(* The tasks of the generators run only while the source, the stream and    *)
(* the collector they have raw pointers to exist, whichever way the client  *)
(* ends.                                                                    *)
TasksOnLiving ==
  /\ InTask("video") => source.alive /\ stream
  /\ InTask("stats") => collector

(* A file is published frame by frame, from the first again after the last: *)
(* the read that meets the end of the file is not delivered.                *)
SourcedInOrder ==
  params.source = "file" /\ Frames > 0 /\ source.framesSourced > 0 /\ io.at # "source"
    => source.frame = ((source.framesSourced - 1) % Frames) + 1

(* A frame that waits to be written finds a sink, though not always the one *)
(* it was meant for: no write follows the task that lets go of the sink.    *)
WritesToOpenSink ==
  ren.alive => \A i \in DOMAIN tasks :
    tasks[i] = "write" => ren.sink # 0 /\ \A j \in 1..(i - 1) : tasks[j] # "reset"

(* As long as frames keep their resolution and the renderer is there,       *)
(* frames are written from a living frame to the sink of that resolution.   *)
(* From the change of the frame on, which ends dumping, and from the end of *)
(* the renderer on, sink and frame may be destroyed in use.                 *)
DumpsToOneSink ==
  ren.alive /\ ren.isDumping /\ io.at # "close" =>
    /\ fault = "none" /\ ren.writing \in {"no", "sound"}
    /\ tasks # <<>> => ren.sink = ren.res
    /\ \A i \in DOMAIN tasks : tasks[i] = "write"

(* The client ends, whatever the threads were doing when its time was up,   *)
(* but in three cases: a source that has nothing to read; a pipe whose      *)
(* reader stalls for good in a write; a crash over a sink, a frame or a     *)
(* renderer that is gone, when the resolution has changed or the renderer   *)
(* was destroyed (DumpsToOneSink).                                          *)
ClientReturns ==
  (params.source \in {"none", "audio"} \/ params.size > 0)
    => \/ <>(main = "returned" \/ fault # "none")
       \/ <>[]Stalled

(* Frames are sourced at the pace of the generator and in the order of the  *)
(* file.                                                                    *)
SourcesOnPace ==
  /\ OnPace
  /\ SourcedInOrder

(* The blocks of the generators, which hold raw pointers, run only while    *)
(* what they point to exists.                                               *)
UsesTheLiving ==
  /\ ClientTypeOK
  /\ TasksOnLiving

(* The renderer thread never writes to a missing sink; it writes what it    *)
(* was given to where it belongs until the first change of resolution.      *)
SinkServes ==
  /\ WritesToOpenSink
  /\ DumpsToOneSink
=============================================================================
