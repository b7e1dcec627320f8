----------------------- MODULE HeadlessClient_proofs -----------------------
(***************************************************************************)
(* Proofs about HeadlessClient, for all values of the constants: what the  *)
(* io thread and the renderer thread work on exists while they do, and     *)
(* frames are sourced at the pace of the generator and in their order.     *)
(*                                                                         *)
(* Three parts of the state are independent and get an invariant each:     *)
(* where the main thread is against the generators and the objects that    *)
(* their tasks point to; the renderer with its tasks; the schedule of the  *)
(* generators.                                                             *)
(***************************************************************************)
EXTENDS HeadlessClient, TLAPS, SequenceTheorems

Phases ==
  {"setupConsumer", "setupProducer", "setupStats", "loop", "stopStats", "dropStats", "stopSource",
   "clearLocal", "stopRemote", "clearRemote", "shutdown", "join", "joinRenderer", "destroyClient",
   "returned"}

Places == {"idle", "source", "reopen", "deliver", "query", "resize", "close", "open", "log", "render", "ended"}
Timers == {"off", "armed", "expired"}
Sizes == Resolutions \cup {0}
Writings == {"no", "sound", "frame", "sink"}
SourcedCounts == 0..MaxFrames

GenState == [running : BOOLEAN, timer : Timers, lag : Int, interval : Nat, drift : Int]
IoState == [at : Places, res : Sizes]
SourceState == [alive : BOOLEAN, pos : Nat, eof : BOOLEAN, frame : Nat, framesSourced : SourcedCounts]
RenState ==
  [alive : BOOLEAN, sink : Sizes, isDumping : BOOLEAN, res : Sizes, writing : Writings, rendered : Nat]

(* The parts of the state that ClientTypeOK types, and those it leaves out. *)
Typed ==
  /\ params.size \in Nat
  /\ gen \in [Generators -> GenState]
  /\ io \in IoState
  /\ source \in SourceState
  /\ ren \in RenState
  /\ tasks \in Seq({"write", "reset"})

(* Tasks run for running generators only, whose timers are off meanwhile;   *)
(* a generator that runs has what its task points to, which the main thread *)
(* takes away after stopping it; the source is not asked for more than      *)
(* MaxFrames frames.                                                        *)
Lives ==
  /\ \A g \in Generators : InTask(g) => gen[g].running /\ gen[g].timer = "off"
  /\ gen["video"].running =>
       /\ source.alive /\ stream
       /\ main \notin {"setupConsumer", "setupProducer", "clearLocal"}
       /\ params.source = "file" => checkSourceForFrame(params.size)
  /\ gen["stats"].running => collector /\ params.stats /\ main \in {"loop", "stopStats"}
  /\ gen["video"].timer = "expired" \/ io.at \in {"source", "reopen"} =>
       source.framesSourced < MaxFrames
  /\ main \in {"setupConsumer", "setupProducer"} =>
       \A g \in Generators : gen[g].timer = "off"

(* Nothing is rendered before the renderer exists. *)
Unborn ==
  main = "setupConsumer" => ~ren.alive /\ ~fetching /\ work /\ tasks = <<>> /\ io = Idle

(* Dumping ends for good with the first task that resets the sink; as long  *)
(* as it goes on, frames are rendered to an open sink.                      *)
Dumps ==
  /\ io.at \in {"resize", "close", "open"} => io.res # 0
  /\ ren.alive =>
       /\ \A i \in DOMAIN tasks : tasks[i] = "reset" => ~ren.isDumping
       /\ ren.isDumping /\ ren.res # 0 /\ io.at \notin {"close", "open", "ended"} => ren.sink # 0
       /\ io.at \in {"close", "open", "log", "render"} => ren.res # 0
       /\ io.at \in {"close", "open"} => io.res = ren.res
       /\ WritesToOpenSink

(* While it dumps, the renderer has no sink, and then nothing to write, or  *)
(* that of the frame; between the change of the frame and closeSink nothing *)
(* is known.                                                                *)
Whole ==
  ren.alive /\ ren.isDumping =>
    /\ ren.sink = 0 => tasks = <<>> /\ ren.writing = "no"
    /\ io.at = "open" => ren.sink = 0
    /\ io.at # "close" => fault = "none" /\ ren.writing \in {"no", "sound"} /\ ren.sink \in {0, ren.res}

(* The next iteration is due at its place in the schedule but for the lag.  *)
Paced(g) ==
  /\ gen[g].drift + gen[g].interval = Interval[g] + gen[g].lag
  /\ gen[g].lag > -Ms
  /\ gen[g].lag >= Ms => gen[g].interval = 0

Schedules == \A g \in Generators : gen[g].timer # "off" \/ InTask(g) => Paced(g)

(* q frames of the file were read in the pass that is under way, after k    *)
(* whole passes.                                                            *)
Passes ==
  params.source = "file" /\ Frames > 0 =>
    \E k \in Nat, q \in 0..Frames :
      /\ source.pos = FrameSize * q
      /\ source.framesSourced = k * Frames + q
      /\ source.framesSourced > 0 => q > 0 /\ source.frame = q
      /\ source.eof => q = Frames
-----------------------------------------------------------------------------
(* Generators *)

(* Truncating to milliseconds takes less than one away, towards zero. *)
LEMMA CastMs ==
  ASSUME NEW t \in Int
  PROVE  /\ castMs(t) \in Int
         /\ t - castMs(t) < Ms /\ t - castMs(t) > -Ms
         /\ t >= 0 => 0 <= castMs(t) /\ castMs(t) <= t
         /\ t < 0 => castMs(t) <= 0
<1> DEFINE q == t \div Ms
           r == (-t) \div Ms
<1>1. Ms \in Nat /\ Ms > 0
  BY ClientAssumption
<1>2. CASE t >= 0
  <2>1. q \in Nat /\ Ms * q <= t /\ t < Ms * q + Ms /\ Ms * q \in Nat
    BY <1>1, <1>2
  <2>2. castMs(t) = Ms * q
    BY <1>2 DEF castMs
  <2> DEFINE x == Ms * q
  <2> HIDE DEF q
  <2> HIDE DEF x
  <2> QED
    BY <1>1, <1>2, <2>1, <2>2 DEF x
<1>3. CASE t < 0
  <2>1. r \in Nat /\ Ms * r <= -t /\ -t < Ms * r + Ms /\ Ms * r \in Nat
    BY <1>1, <1>3
  <2>2. castMs(t) = -(Ms * r)
    BY <1>3 DEF castMs
  <2> DEFINE x == Ms * r
  <2> HIDE DEF r
  <2> HIDE DEF x
  <2> QED
    BY <1>1, <1>3, <2>1, <2>2 DEF x
<1> QED
  BY <1>2, <1>3

(* getAdjustedInterval hands on what the timer cannot make up for. *)
LEMMA Adjusted ==
  ASSUME NEW g \in Generators, NEW lag \in Int
  PROVE  /\ getAdjustedInterval(g, lag).interval \in Nat
         /\ getAdjustedInterval(g, lag).lag \in Int
         /\ lag + getAdjustedInterval(g, lag).interval = Interval[g] + getAdjustedInterval(g, lag).lag
         /\ getAdjustedInterval(g, lag).lag > -Ms
         /\ getAdjustedInterval(g, lag).lag >= Ms => getAdjustedInterval(g, lag).interval = 0
<1> DEFINE interval == Interval[g]
           original == castMs(interval)
           accumulated == lag - (interval - original)
           a == castMs(accumulated)
           new == getAdjustedInterval(g, lag)
<1>1. interval \in Nat /\ Ms \in Nat /\ Ms > 0
  BY ClientAssumption
<1>2. original \in Int /\ original >= 0
  <2>1. interval \in Int /\ interval >= 0
    BY <1>1
  <2> QED
    BY <2>1, CastMs
<1> HIDE DEF interval, original
<1>3. accumulated \in Int
  BY <1>1, <1>2
<1>4. new = IF accumulated > original THEN [interval |-> 0, lag |-> accumulated - original]
            ELSE [interval |-> original - a, lag |-> accumulated - a]
  BY DEF getAdjustedInterval, interval, original
<1>5. accumulated = lag - (interval - original)
  OBVIOUS
<1> HIDE DEF accumulated
<1>6. /\ a \in Int /\ accumulated - a < Ms /\ accumulated - a > -Ms
      /\ accumulated >= 0 => a <= accumulated
      /\ accumulated < 0 => a <= 0
  BY <1>3, CastMs
<1> HIDE DEF a, new
<1>7. CASE accumulated > original
  <2>1. new.interval = 0 /\ new.lag = accumulated - original
    BY <1>4, <1>7
  <2> QED
    BY <1>1, <1>2, <1>3, <1>5, <1>7, <2>1 DEF new, interval
<1>8. CASE ~(accumulated > original)
  <2>1. new.interval = original - a /\ new.lag = accumulated - a
    BY <1>4, <1>8
  <2> QED
    BY <1>1, <1>2, <1>3, <1>5, <1>6, <1>8, <2>1 DEF new, interval
<1> QED
  BY <1>7, <1>8

(* A generator starts on its schedule. *)
LEMMA StartGenerator ==
  ASSUME NEW g \in Generators
  PROVE  /\ startGenerator(g) \in GenState
         /\ startGenerator(g).running /\ startGenerator(g).timer = "armed"
         /\ startGenerator(g).drift + startGenerator(g).interval = Interval[g] + startGenerator(g).lag
         /\ startGenerator(g).lag > -Ms /\ startGenerator(g).lag < Ms
<1> DEFINE interval == Interval[g]
           c == castMs(interval)
           lag == c - interval
           new == startGenerator(g)
<1>1. interval \in Nat /\ Ms \in Nat /\ Ms > 0
  BY ClientAssumption
<1>2. c \in Int /\ c >= 0 /\ interval - c < Ms /\ interval - c > -Ms
  <2>1. interval \in Int /\ interval >= 0
    BY <1>1
  <2> QED
    BY <2>1, CastMs
<1>3. new = [running |-> TRUE, timer |-> "armed", drift |-> 0, interval |-> c, lag |-> lag]
  BY DEF startGenerator
<1> HIDE DEF interval, c
<1>4. c \in Nat /\ lag \in Int /\ lag > -Ms /\ lag < Ms /\ 0 + c = interval + lag
  BY <1>1, <1>2
<1> HIDE DEF lag, new
<1>5. new \in GenState
  BY <1>3, <1>4 DEF GenState, Timers
<1>6. new.running /\ new.timer = "armed" /\ new.drift = 0 /\ new.interval = c /\ new.lag = lag
  BY <1>3
<1> QED
  BY <1>4, <1>5, <1>6 DEF new, interval

(* Setting up the timer keeps the generator on its schedule. *)
LEMMA SetupTimer ==
  ASSUME NEW g \in Generators, gen \in [Generators -> GenState], NEW late \in Lateness[g]
  PROVE  /\ setupTimer(g, late) \in [Generators -> GenState]
         /\ \A h \in Generators : h # g => setupTimer(g, late)[h] = gen[h]
         /\ setupTimer(g, late)[g].running = gen[g].running
         /\ setupTimer(g, late)[g].timer = "armed"
         /\ Paced(g) =>
              /\ setupTimer(g, late)[g].drift + setupTimer(g, late)[g].interval
                   = Interval[g] + setupTimer(g, late)[g].lag
              /\ setupTimer(g, late)[g].lag > -Ms
              /\ setupTimer(g, late)[g].lag >= Ms => setupTimer(g, late)[g].interval = 0
<1> DEFINE s == gen[g]
           adjusted == getAdjustedInterval(g, s.lag + late)
           drift == s.drift + s.interval + late - Interval[g]
           lag == adjusted.lag
           interval == adjusted.interval
           one == [s EXCEPT !.timer = "armed", !.lag = lag, !.interval = interval, !.drift = drift]
           new == setupTimer(g, late)
<1>1. s \in GenState /\ late \in Nat /\ Interval[g] \in Nat /\ Ms \in Nat
  BY ClientAssumption
<1>2. s.lag \in Int /\ s.drift \in Int /\ s.interval \in Nat
  BY <1>1 DEF GenState
<1>3. s.lag + late \in Int
  BY <1>1, <1>2
<1>4. /\ interval \in Nat /\ lag \in Int /\ (s.lag + late) + interval = Interval[g] + lag
      /\ lag > -Ms /\ (lag >= Ms => interval = 0)
  BY <1>3, Adjusted
<1>5. drift \in Int
  BY <1>1, <1>2
<1>6. new = [gen EXCEPT ![g] = one]
  BY DEF setupTimer
<1> HIDE DEF adjusted, interval, lag
<1>7. /\ drift = s.drift + s.interval + late - Interval[g]
      /\ Paced(g) => s.drift + s.interval = Interval[g] + s.lag
  BY DEF Paced
<1> HIDE DEF drift
<1>8. Paced(g) => drift + interval = Interval[g] + lag
  BY <1>1, <1>2, <1>4, <1>5, <1>7
<1>9. /\ one \in GenState /\ one.running = s.running /\ one.timer = "armed"
      /\ one.lag = lag /\ one.interval = interval /\ one.drift = drift
  BY <1>1, <1>4, <1>5 DEF GenState, Timers
<1> HIDE DEF one, new
<1>10. new \in [Generators -> GenState] /\ new[g] = one /\ \A h \in Generators : h # g => new[h] = gen[h]
  BY <1>6, <1>9
<1> QED
  BY <1>4, <1>8, <1>9, <1>10 DEF new

(* A generator that is stopped does not run and its timer is not armed; it  *)
(* may have expired.                                                        *)
LEMMA StopGenerator ==
  ASSUME NEW g \in Generators, gen \in [Generators -> GenState]
  PROVE  /\ stopGenerator(g) \in [Generators -> GenState]
         /\ \A h \in Generators : h # g => stopGenerator(g)[h] = gen[h]
         /\ stopGenerator(g)[g].running = FALSE
         /\ stopGenerator(g)[g].timer \in {"off", gen[g].timer}
         /\ stopGenerator(g)[g].lag = gen[g].lag
         /\ stopGenerator(g)[g].interval = gen[g].interval
         /\ stopGenerator(g)[g].drift = gen[g].drift
<1> DEFINE s == gen[g]
           timer == IF s.timer = "armed" THEN "off" ELSE s.timer
           one == [s EXCEPT !.running = FALSE, !.timer = timer]
           new == stopGenerator(g)
<1>1. s \in GenState
  OBVIOUS
<1>2. timer \in Timers /\ timer \in {"off", s.timer}
  BY <1>1 DEF GenState, Timers
<1>3. new = [gen EXCEPT ![g] = one]
  BY DEF stopGenerator
<1> HIDE DEF timer
<1>4. /\ one \in GenState /\ one.running = FALSE /\ one.timer = timer
      /\ one.lag = s.lag /\ one.interval = s.interval /\ one.drift = s.drift
  BY <1>1, <1>2 DEF GenState
<1> HIDE DEF one, new
<1>5. new \in [Generators -> GenState] /\ new[g] = one /\ \A h \in Generators : h # g => new[h] = gen[h]
  BY <1>3, <1>4
<1> QED
  BY <1>2, <1>4, <1>5 DEF new
-----------------------------------------------------------------------------
(* Who changes what *)

(* The steps that change each part of the state *)
LEMMA Changes ==
  ASSUME [Next]_vars
  PROVE  /\ UNCHANGED params
         /\ \/ UNCHANGED gen
            \/ SetupProducer \/ SetupStatGathering \/ StopStats \/ DropStats \/ StopSource \/ DestroyClient
            \/ \E g \in Generators : OnFire(g) \/ Expire(g)
            \/ \E late \in Lateness["video"] : DeliverFrame(late)
            \/ \E late \in Lateness["stats"] : QueryStats(late)
         /\ \/ UNCHANGED io
            \/ SourceFrame \/ ReadPipe \/ ReopenReadPipe \/ CloseSink \/ OpenSink \/ LogSink \/ RenderFrame
            \/ ResizeFrame \/ IoEnds \/ RenderFreed
            \/ \E g \in Generators : OnFire(g)
            \/ \E late \in Lateness["video"] : DeliverFrame(late)
            \/ \E late \in Lateness["stats"] : QueryStats(late)
            \/ \E res \in Resolutions : GetFrameBuffer(res)
         /\ \/ UNCHANGED source
            \/ SourceFrame \/ ReadPipe \/ SetupProducer \/ ClearLocal \/ DestroyClient
         /\ \/ UNCHANGED ren
            \/ SetupConsumer \/ ResizeFrame \/ CloseSink \/ OpenSink \/ RenderFrame \/ StartWrite
            \/ FinishWrite \/ ResetSink \/ TaskFreed \/ ClearRemote \/ DestroyClient
         /\ \/ UNCHANGED tasks
            \/ CloseSink \/ RenderFrame \/ TaskFreed \/ FinishWrite \/ ResetSink \/ ClearRemote
<1>1. ASSUME MainSteps PROVE UNCHANGED <<params, io>>
  BY <1>1 DEF MainSteps, SetupConsumer, SetupProducer, SetupStatGathering, RunProcessLoop, StopStats,
    DropStats, StopSource, ClearLocal, StopRemote, ClearRemote, Shutdown, Join, JoinRenderer, DestroyClient
<1>2. ASSUME SetupConsumer \/ RunProcessLoop \/ ClearLocal \/ StopRemote \/ ClearRemote \/ Shutdown \/ Join
             \/ JoinRenderer
      PROVE  UNCHANGED gen
  BY <1>2 DEF SetupConsumer, RunProcessLoop, ClearLocal, StopRemote, ClearRemote, Shutdown, Join, JoinRenderer
<1>3. ASSUME SetupConsumer \/ SetupStatGathering \/ RunProcessLoop \/ StopStats \/ DropStats \/ StopSource
             \/ StopRemote \/ ClearRemote \/ Shutdown \/ Join \/ JoinRenderer
      PROVE  UNCHANGED source
  BY <1>3 DEF SetupConsumer, SetupStatGathering, RunProcessLoop, StopStats, DropStats, StopSource,
    StopRemote, ClearRemote, Shutdown, Join, JoinRenderer
<1>4. ASSUME SetupProducer \/ SetupStatGathering \/ RunProcessLoop \/ StopStats \/ DropStats \/ StopSource
             \/ ClearLocal \/ StopRemote \/ Shutdown \/ Join \/ JoinRenderer
      PROVE  UNCHANGED <<ren, tasks>>
  BY <1>4 DEF SetupProducer, SetupStatGathering, RunProcessLoop, StopStats, DropStats, StopSource,
    ClearLocal, StopRemote, Shutdown, Join, JoinRenderer
<1>5. ASSUME SetupConsumer \/ DestroyClient PROVE UNCHANGED tasks
  BY <1>5 DEF SetupConsumer, DestroyClient
<1>6. ASSUME SourceFrame \/ ReadPipe PROVE UNCHANGED <<params, gen, ren, tasks>>
  BY <1>6 DEF SourceFrame, ReadPipe
<1>7. ASSUME ReopenReadPipe \/ LogSink \/ RenderFreed \/ IoEnds \/ SinkVanishes \/ PipeWriter \/ UNCHANGED vars
      PROVE  UNCHANGED <<params, gen, source, ren, tasks>>
  BY <1>7 DEF ReopenReadPipe, LogSink, RenderFreed, IoEnds, SinkVanishes, PipeWriter, vars
<1>8. ASSUME ResizeFrame \/ CloseSink \/ OpenSink \/ RenderFrame \/ StartWrite \/ FinishWrite \/ ResetSink
             \/ TaskFreed
      PROVE  UNCHANGED <<params, gen, source>>
  BY <1>8 DEF ResizeFrame, CloseSink, OpenSink, RenderFrame, StartWrite, FinishWrite, ResetSink, TaskFreed
<1>9. ASSUME StartWrite \/ FinishWrite \/ ResetSink \/ TaskFreed \/ SinkVanishes \/ PipeWriter \/ UNCHANGED vars
      PROVE  UNCHANGED io
  BY <1>9 DEF StartWrite, FinishWrite, ResetSink, TaskFreed, SinkVanishes, PipeWriter, vars
<1>10. ASSUME ResizeFrame \/ OpenSink \/ StartWrite PROVE UNCHANGED tasks
  BY <1>10 DEF ResizeFrame, OpenSink, StartWrite
<1>12. ASSUME NEW g \in Generators, OnFire(g) \/ Expire(g)
       PROVE  UNCHANGED <<params, source, ren, tasks>> /\ (Expire(g) => UNCHANGED io)
  BY <1>12 DEF OnFire, Expire
<1>13. ASSUME NEW late, DeliverFrame(late) \/ QueryStats(late)
       PROVE  UNCHANGED <<params, source, ren, tasks>>
  BY <1>13 DEF DeliverFrame, QueryStats
<1>14. ASSUME NEW res \in Resolutions, GetFrameBuffer(res)
       PROVE  UNCHANGED <<params, gen, source, ren, tasks>>
  BY <1>14 DEF GetFrameBuffer
<1>15. UNCHANGED params
  BY <1>1, <1>6, <1>7, <1>8, <1>12, <1>13, <1>14
    DEF Next, GeneratorSteps, RenderSteps, RendererSteps
<1>16. \/ UNCHANGED gen
       \/ SetupProducer \/ SetupStatGathering \/ StopStats \/ DropStats \/ StopSource \/ DestroyClient
       \/ \E g \in Generators : OnFire(g) \/ Expire(g)
       \/ \E late \in Lateness["video"] : DeliverFrame(late)
       \/ \E late \in Lateness["stats"] : QueryStats(late)
  BY <1>2, <1>6, <1>7, <1>8, <1>14 DEF Next, MainSteps, GeneratorSteps, RenderSteps, RendererSteps
<1>17. \/ UNCHANGED io
       \/ SourceFrame \/ ReadPipe \/ ReopenReadPipe \/ CloseSink \/ OpenSink \/ LogSink \/ RenderFrame
       \/ ResizeFrame \/ IoEnds \/ RenderFreed
       \/ \E g \in Generators : OnFire(g)
       \/ \E late \in Lateness["video"] : DeliverFrame(late)
       \/ \E late \in Lateness["stats"] : QueryStats(late)
       \/ \E res \in Resolutions : GetFrameBuffer(res)
  BY <1>1, <1>9, <1>12 DEF Next, GeneratorSteps, RenderSteps, RendererSteps
<1>18. \/ UNCHANGED source
       \/ SourceFrame \/ ReadPipe \/ SetupProducer \/ ClearLocal \/ DestroyClient
  BY <1>3, <1>7, <1>8, <1>12, <1>13, <1>14 DEF Next, MainSteps, GeneratorSteps, RenderSteps, RendererSteps
<1>19. \/ UNCHANGED ren
       \/ SetupConsumer \/ ResizeFrame \/ CloseSink \/ OpenSink \/ RenderFrame \/ StartWrite
       \/ FinishWrite \/ ResetSink \/ TaskFreed \/ ClearRemote \/ DestroyClient
  BY <1>4, <1>6, <1>7, <1>12, <1>13, <1>14
    DEF Next, MainSteps, GeneratorSteps, RenderSteps, RendererSteps
<1>20. \/ UNCHANGED tasks
       \/ CloseSink \/ RenderFrame \/ TaskFreed \/ FinishWrite \/ ResetSink \/ ClearRemote
  BY <1>4, <1>5, <1>6, <1>7, <1>10, <1>12, <1>13, <1>14
    DEF Next, MainSteps, GeneratorSteps, RenderSteps, RendererSteps
<1> QED
  BY <1>15, <1>16, <1>17, <1>18, <1>19, <1>20
-----------------------------------------------------------------------------
(* Types *)

(* What a generator is after any step of it. *)
LEMMA GenTyped ==
  ASSUME Typed, [Next]_vars
  PROVE  gen' \in [Generators -> GenState]
<1>1. gen \in [Generators -> GenState] /\ "video" \in Generators /\ "stats" \in Generators
  BY DEF Typed, Generators
<1>2. ASSUME NEW g \in Generators, NEW s \in GenState
      PROVE  [gen EXCEPT ![g] = s] \in [Generators -> GenState]
  BY <1>1
<1>3. ASSUME NEW g \in Generators, NEW t \in Timers
      PROVE  [gen EXCEPT ![g].timer = t] \in [Generators -> GenState]
  <2>1. gen[g] \in GenState
    BY <1>1
  <2>2. [gen[g] EXCEPT !.timer = t] \in GenState
    BY <2>1 DEF GenState
  <2> QED
    BY <1>2, <2>2
<1>4. ASSUME NEW g \in Generators, OnFire(g) \/ Expire(g) PROVE gen' \in [Generators -> GenState]
  BY <1>3, <1>4 DEF OnFire, Expire, Timers
<1>5. ASSUME NEW late \in Lateness["video"], DeliverFrame(late) PROVE gen' \in [Generators -> GenState]
  BY <1>1, <1>5, SetupTimer DEF DeliverFrame
<1>6. ASSUME NEW late \in Lateness["stats"], QueryStats(late) PROVE gen' \in [Generators -> GenState]
  BY <1>1, <1>6, SetupTimer DEF QueryStats
<1>7. ASSUME StopStats \/ DropStats \/ StopSource \/ DestroyClient PROVE gen' \in [Generators -> GenState]
  BY <1>1, <1>7, StopGenerator DEF StopStats, DropStats, StopSource, DestroyClient
<1>8. ASSUME SetupProducer \/ SetupStatGathering PROVE gen' \in [Generators -> GenState]
  BY <1>1, <1>2, <1>8, StartGenerator DEF SetupProducer, SetupStatGathering
<1> QED
  BY <1>1, <1>4, <1>5, <1>6, <1>7, <1>8, Changes

(* The io thread stays at one of its places, with one of the sizes at hand. *)
LEMMA IoTyped ==
  ASSUME Typed, [Next]_vars
  PROVE  io' \in IoState
<1>1. io \in IoState
  BY DEF Typed
<1>2. ASSUME NEW at \in Places PROVE [io EXCEPT !.at = at] \in IoState /\ [Idle EXCEPT !.at = at] \in IoState
  <2>1. Idle \in IoState
    BY DEF Idle, IoState, Places, Sizes
  <2> QED
    BY <1>1, <2>1 DEF IoState
<1>3. /\ "source" \in Places /\ "reopen" \in Places /\ "deliver" \in Places /\ "query" \in Places
      /\ "close" \in Places /\ "open" \in Places /\ "log" \in Places /\ "render" \in Places
      /\ "ended" \in Places /\ "idle" \in Places /\ "resize" \in Places
  BY DEF Places
<1>4. Idle \in IoState
  BY DEF Idle, IoState, Places, Sizes
<1>5. ASSUME NEW at \in Places, NEW res \in Resolutions PROVE [at |-> at, res |-> res] \in IoState
  BY DEF IoState, Sizes
<1>6. CASE SourceFrame \/ ReadPipe \/ ReopenReadPipe
  BY <1>1, <1>2, <1>3, <1>6 DEF SourceFrame, ReadPipe, ReopenReadPipe
<1>7. CASE ResizeFrame \/ CloseSink \/ OpenSink \/ LogSink \/ RenderFrame
  BY <1>1, <1>2, <1>3, <1>4, <1>7 DEF ResizeFrame, CloseSink, OpenSink, LogSink, RenderFrame
<1>8. CASE IoEnds \/ RenderFreed
  BY <1>1, <1>2, <1>3, <1>4, <1>8 DEF IoEnds, RenderFreed
<1>9. ASSUME NEW g \in Generators, OnFire(g) PROVE io' \in IoState
  BY <1>1, <1>2, <1>3, <1>9 DEF OnFire
<1>10. ASSUME NEW late, DeliverFrame(late) \/ QueryStats(late) PROVE io' \in IoState
  BY <1>4, <1>10 DEF DeliverFrame, QueryStats
<1>11. ASSUME NEW res \in Resolutions, GetFrameBuffer(res) PROVE io' \in IoState
  BY <1>1, <1>3, <1>5, <1>11 DEF GetFrameBuffer
<1> QED
  BY <1>1, <1>6, <1>7, <1>8, <1>9, <1>10, <1>11, Changes

(* The source reads whole frames or, from a pipe, bytes. *)
LEMMA SourceTyped ==
  ASSUME Typed, Lives, [Next]_vars
  PROVE  source' \in SourceState
<1>1. source \in SourceState /\ params.size \in Nat /\ FrameSize \in Nat /\ FrameSize > 0 /\ MaxFrames \in Nat
  BY ClientAssumption DEF Typed
<1>2. NoSource \in SourceState
  BY <1>1 DEF NoSource, SourceState, SourcedCounts
<1>3. [source EXCEPT !.alive = FALSE] \in SourceState /\ [NoSource EXCEPT !.alive = TRUE] \in SourceState
  BY <1>1, <1>2 DEF SourceState
<1>4. CASE SetupProducer \/ ClearLocal \/ DestroyClient
  BY <1>1, <1>3, <1>4 DEF SetupProducer, ClearLocal, DestroyClient
<1>5. ASSUME io.at = "source" PROVE source.framesSourced + 1 \in SourcedCounts
  <2>1. source.framesSourced \in SourcedCounts /\ source.framesSourced < MaxFrames
    BY <1>1, <1>5 DEF Lives, SourceState
  <2> QED
    BY <1>1, <2>1 DEF SourcedCounts
<1>6. CASE SourceFrame
  <2> DEFINE s == IF source.eof THEN rewind(source) ELSE source
             r == readFile(s)
  <2>1. s \in SourceState /\ s.framesSourced = source.framesSourced
    BY <1>1 DEF rewind, SourceState
  <2> HIDE DEF s
  <2>2. s.pos + FrameSize \in Nat /\ (s.pos \div FrameSize) + 1 \in Nat
    BY <1>1, <2>1 DEF SourceState
  <2>3. r \in SourceState /\ r.framesSourced = source.framesSourced
    <3> DEFINE pos == s.pos + FrameSize
               frame == (s.pos \div FrameSize) + 1
    <3>1. r = IF pos <= params.size THEN [s EXCEPT !.pos = pos, !.frame = frame] ELSE [s EXCEPT !.eof = TRUE]
      BY DEF readFile
    <3> HIDE DEF pos, frame, r
    <3> QED
      BY <2>1, <2>2, <3>1 DEF SourceState, pos, frame
  <2> HIDE DEF r
  <2>4. source' = IF r.eof THEN r ELSE [r EXCEPT !.framesSourced = @ + 1]
    BY <1>6 DEF SourceFrame, r, s
  <2>5. r.framesSourced + 1 \in SourcedCounts
    BY <1>5, <1>6, <2>3 DEF SourceFrame, IoRuns
  <2> DEFINE n == r.framesSourced + 1
  <2>6. [r EXCEPT !.framesSourced = n] \in SourceState
    <3> HIDE DEF n
    <3> QED
      BY <2>3, <2>5 DEF SourceState, n
  <2> QED
    BY <2>3, <2>4, <2>6
<1>7. CASE ReadPipe
  <2> DEFINE n == source.framesSourced + 1
             p == source.pos + 1
  <2>1. n \in SourcedCounts /\ p \in Nat
    BY <1>1, <1>5, <1>7 DEF ReadPipe, IoRuns, SourceState
  <2>2. \/ source' = source
        \/ source' = [source EXCEPT !.pos = 0, !.framesSourced = n]
        \/ source' = [source EXCEPT !.pos = p]
    BY <1>7 DEF ReadPipe
  <2> HIDE DEF n, p
  <2>3. [source EXCEPT !.pos = 0, !.framesSourced = n] \in SourceState
    <3>1. 0 \in Nat
      OBVIOUS
    <3> QED
      BY <1>1, <2>1, <3>1 DEF SourceState
  <2>4. [source EXCEPT !.pos = p] \in SourceState
    BY <1>1, <2>1 DEF SourceState
  <2> QED
    BY <1>1, <2>2, <2>3, <2>4
<1> QED
  BY <1>1, <1>4, <1>6, <1>7, Changes

(* The renderer's sizes are resolutions, or 0 for none.                     *)
LEMMA RenTyped ==
  ASSUME Typed, [Next]_vars
  PROVE  ren' \in RenState
<1>1. ren \in RenState /\ 0 \in Sizes /\ Resolutions \subseteq Sizes
  BY DEF Typed, Sizes
<1>2. NewRenderer \in RenState
  BY <1>1 DEF NewRenderer, RenState, Writings
<1>t. torn("frame") \in Writings /\ torn("sink") \in Writings /\ "no" \in Writings /\ "sound" \in Writings
  BY DEF torn, Writings
<1>3. CASE SetupConsumer
  BY <1>1, <1>2, <1>3 DEF SetupConsumer
<1>4. CASE CloseSink
  <2>1. ren' = ren \/ ren' = [ren EXCEPT !.isDumping = FALSE]
    BY <1>4 DEF CloseSink, closeSink
  <2> QED
    BY <1>1, <2>1 DEF RenState
<1>5. CASE OpenSink
  <2>1. io.res \in Sizes
    BY DEF Typed, IoState
  <2> QED
    BY <1>1, <1>5, <1>t, <2>1 DEF OpenSink, RenState
<1>6. CASE RenderFrame
  <2> DEFINE n == ren.rendered + 1
  <2>1. n \in Nat
    BY <1>1 DEF RenState
  <2>2. ren' = [ren EXCEPT !.rendered = n]
    BY <1>6 DEF RenderFrame
  <2> HIDE DEF n
  <2> QED
    BY <1>1, <2>1, <2>2 DEF RenState
<1>7. CASE StartWrite \/ FinishWrite
  BY <1>1, <1>7, <1>t DEF StartWrite, FinishWrite, RenState
<1>8. CASE ResetSink
  BY <1>1, <1>8 DEF ResetSink, RenState
<1>9. CASE ClearRemote \/ DestroyClient
  BY <1>1, <1>9, <1>t DEF ClearRemote, DestroyClient, RenState
<1>10. CASE ResizeFrame
  <2>1. io.res \in Sizes
    BY DEF Typed, IoState
  <2> QED
    BY <1>1, <1>10, <1>t, <2>1 DEF ResizeFrame, RenState
<1>11. CASE TaskFreed
  BY <1>1, <1>11, <1>t DEF TaskFreed, RenState
<1> QED
  BY <1>1, <1>3, <1>4, <1>5, <1>6, <1>7, <1>8, <1>9, <1>10, <1>11, Changes

Tasks == {"write", "reset"}

(* A task more at the end, or the first one taken away *)
LEMMA TasksTyped ==
  ASSUME Typed, [Next]_vars
  PROVE  /\ tasks' \in Seq(Tasks)
         /\ \/ tasks' = tasks
            \/ \E t \in Tasks : tasks' = Append(tasks, t)
            \/ tasks # <<>> /\ tasks' = Tail(tasks)
<1>1. tasks \in Seq(Tasks)
  BY DEF Typed, Tasks
<1>2. \/ tasks' = tasks
      \/ \E t \in Tasks : tasks' = Append(tasks, t)
      \/ tasks # <<>> /\ tasks' = Tail(tasks)
  <2>1. CASE CloseSink
    BY <2>1 DEF CloseSink, closeSink, Tasks
  <2>2. CASE RenderFrame \/ ClearRemote
    BY <2>2 DEF RenderFrame, ClearRemote, Tasks
  <2>3. CASE TaskFreed \/ FinishWrite \/ ResetSink
    BY <2>3 DEF TaskFreed, FinishWrite, ResetSink, RendererRuns
  <2> QED
    BY <2>1, <2>2, <2>3, Changes
<1>3. tasks' \in Seq(Tasks)
  BY <1>1, <1>2, AppendProperties, HeadTailProperties
<1> QED
  BY <1>2, <1>3

(* Every step keeps the types, with Lives, which bounds the frames sourced. *)
LEMMA TypedNext == Typed /\ Lives /\ [Next]_vars => Typed'
<1> SUFFICES ASSUME Typed, Lives, [Next]_vars PROVE Typed'
  OBVIOUS
<1>1. params' = params
  BY Changes
<1> QED
  BY <1>1, GenTyped, IoTyped, SourceTyped, RenTyped, TasksTyped DEF Typed, Tasks
-----------------------------------------------------------------------------
(* Tasks of the generators *)

NoTasks == {"idle", "resize", "close", "open", "log", "render", "ended"}

(* Steps that start no task of a generator, and take nothing from one. *)
LEMMA LivesKept ==
  ASSUME Lives, UNCHANGED <<params, gen, source, stream, collector, main>>,
         io' = io \/ io'.at \in NoTasks
  PROVE  Lives'
<1>1. \A g \in Generators : InTask(g)' => InTask(g)
  BY DEF InTask, Generators, NoTasks
<1>2. io'.at \in {"source", "reopen"} => io.at \in {"source", "reopen"}
  BY DEF NoTasks
<1>3. /\ gen' = gen /\ params' = params /\ source' = source /\ stream' = stream
      /\ collector' = collector /\ main' = main
  OBVIOUS
<1> QED
  BY <1>1, <1>2, <1>3 DEF Lives

(* The main thread passes on; what it leaves behind is not needed. *)
LEMMA MainMoves ==
  ASSUME Lives, UNCHANGED <<params, gen, source, stream, collector, io>>,
         gen["video"].running => main' \notin {"setupConsumer", "setupProducer", "clearLocal"},
         gen["stats"].running => main' \in {"loop", "stopStats"},
         main' \in {"setupConsumer", "setupProducer"} => main \in {"setupConsumer", "setupProducer"}
  PROVE  Lives'
<1>1. \A g \in Generators : InTask(g)' <=> InTask(g)
  BY DEF InTask, Generators
<1>2. /\ gen' = gen /\ params' = params /\ source' = source /\ stream' = stream
      /\ collector' = collector /\ io' = io
  OBVIOUS
<1> QED
  BY <1>1, <1>2 DEF Lives

(* Lives is kept: an object is dropped only after the tasks that use it.    *)
LEMMA LivesNext == Typed /\ Lives /\ [Next]_vars => Lives'
<1> SUFFICES ASSUME Typed, Lives, [Next]_vars PROVE Lives'
  OBVIOUS
<1>0. /\ gen \in [Generators -> GenState] /\ "video" \in Generators /\ "stats" \in Generators
      /\ Generators = {"video", "stats"} /\ Idle.at = "idle" /\ io \in IoState
      /\ \A at \in Places : [io EXCEPT !.at = at].at = at /\ [Idle EXCEPT !.at = at].at = at
  BY DEF Typed, Generators, Idle, IoState
<1>1. CASE SetupConsumer
  <2>1. main = "setupConsumer" /\ main' \in {"setupProducer", "joinRenderer"}
        /\ UNCHANGED <<params, gen, source, stream, collector, io>>
    BY <1>1 DEF SetupConsumer, At
  <2>2. ~gen["video"].running /\ ~gen["stats"].running
    BY <2>1 DEF Lives
  <2> QED
    BY <2>1, <2>2, MainMoves
<1>2. CASE RunProcessLoop
  <2>1. main = "loop" /\ main' = (IF params.stats THEN "stopStats" ELSE "stopSource")
        /\ UNCHANGED <<params, gen, source, stream, collector, io>>
    BY <1>2 DEF RunProcessLoop, At
  <2>2. gen["stats"].running => params.stats
    BY DEF Lives
  <2> QED
    BY <2>1, <2>2, MainMoves
<1>3. CASE StopRemote \/ ClearRemote \/ Shutdown \/ Join \/ JoinRenderer
  <2>1. /\ main \in {"stopRemote", "clearRemote", "shutdown", "join", "joinRenderer"}
        /\ main' \in {"clearRemote", "shutdown", "join", "joinRenderer", "destroyClient", "returned"}
        /\ UNCHANGED <<params, gen, source, stream, collector, io>>
    BY <1>3 DEF StopRemote, ClearRemote, Shutdown, Join, JoinRenderer, At
  <2>2. ~gen["stats"].running
    BY <2>1 DEF Lives
  <2> QED
    BY <2>1, <2>2, MainMoves
<1>4. CASE SetupProducer
  <2>1. /\ main = "setupProducer" /\ main' \in {"setupStats", "shutdown", "joinRenderer"}
        /\ params' = params /\ io' = io /\ collector' = collector
    BY <1>4 DEF SetupProducer, At
  <2>2. ~gen["video"].running /\ ~gen["stats"].running
    BY <2>1 DEF Lives
  <2>3. \A g \in Generators : ~InTask(g)
    BY <1>0, <2>2 DEF Lives
  <2>4. \A g \in Generators : ~InTask(g)'
    BY <2>1, <2>3 DEF InTask
  <2>5. io.at \notin {"source", "reopen"}
    BY <1>0, <2>3 DEF InTask
  <2>6. CASE gen' = gen /\ source' = source
    <3>1. \A g \in Generators : gen[g].timer = "off"
      BY <2>1 DEF Lives
    <3> QED
      BY <1>0, <2>1, <2>2, <2>4, <2>5, <2>6, <3>1 DEF Lives
  <2>7. CASE /\ params.source = "file" => checkSourceForFrame(params.size)
             /\ source' = [NoSource EXCEPT !.alive = TRUE] /\ stream' = TRUE
             /\ gen' = [gen EXCEPT !["video"] = startGenerator("video")]
             /\ main' = "setupStats"
    <3>1. gen'["video"].timer = "armed" /\ gen'["stats"] = gen["stats"]
      BY <1>0, <2>7, StartGenerator
    <3>2. source'.alive
      BY <2>7 DEF NoSource
    <3>3. (params.source = "file" => checkSourceForFrame(params.size))'
      BY <2>1, <2>7 DEF checkSourceForFrame
    <3>4. gen'["video"].timer # "expired" /\ ~gen'["stats"].running
      BY <2>2, <3>1
    <3> QED
      BY <1>0, <2>1, <2>4, <2>5, <2>7, <3>2, <3>3, <3>4 DEF Lives
  <2> QED
    BY <1>4, <2>6, <2>7 DEF SetupProducer
<1>5. CASE SetupStatGathering
  <2>1. /\ main = "setupStats" /\ main' \in {"loop", "joinRenderer"}
        /\ UNCHANGED <<params, io, source, stream>>
    BY <1>5 DEF SetupStatGathering, At
  <2>2. ~gen["stats"].running
    BY <2>1 DEF Lives
  <2>3. \A g \in Generators : InTask(g)' <=> InTask(g)
    BY <2>1 DEF InTask
  <2>4. CASE gen' = gen
    BY <1>0, <2>1, <2>2, <2>3, <2>4 DEF Lives
  <2>5. CASE /\ params.stats /\ collector' = TRUE /\ main' = "loop"
             /\ gen' = [gen EXCEPT !["stats"] = startGenerator("stats")]
    <3>1. gen'["video"] = gen["video"]
      BY <1>0, <2>5
    <3>2. ~InTask("stats")
      BY <1>0, <2>2 DEF Lives
    <3> QED
      BY <1>0, <2>1, <2>3, <2>5, <3>1, <3>2 DEF Lives
  <2> QED
    BY <1>5, <2>4, <2>5 DEF SetupStatGathering
<1>6. CASE StopStats \/ DropStats
  <2>1. /\ main \in {"stopStats", "dropStats"} /\ main' \in {"dropStats", "stopSource"}
        /\ UNCHANGED <<params, io, source, stream>> /\ gen' = stopGenerator("stats")
        /\ gen["stats"].running => ~InTask("stats")
    BY <1>6 DEF StopStats, DropStats, At
  <2>2. gen'["video"] = gen["video"] /\ ~gen'["stats"].running
    BY <1>0, <2>1, StopGenerator
  <2>3. \A g \in Generators : InTask(g)' <=> InTask(g)
    BY <2>1 DEF InTask
  <2>4. ~InTask("stats")
    BY <1>0, <2>1 DEF Lives
  <2> QED
    BY <1>0, <2>1, <2>2, <2>3, <2>4 DEF Lives
<1>7. CASE StopSource \/ DestroyClient
  <2>1. /\ main \in {"stopSource", "destroyClient"} /\ main' \in {"clearLocal", "returned"}
        /\ UNCHANGED <<params, io>> /\ gen' = stopGenerator("video")
        /\ gen["video"].running => ~InTask("video")
        /\ source'.framesSourced = source.framesSourced
    BY <1>7 DEF StopSource, DestroyClient, At, Typed, SourceState
  <2>2. gen'["stats"] = gen["stats"] /\ ~gen'["video"].running
        /\ gen'["video"].timer \in {"off", gen["video"].timer}
    BY <1>0, <2>1, StopGenerator
  <2>3. \A g \in Generators : InTask(g)' <=> InTask(g)
    BY <2>1 DEF InTask
  <2>4. ~InTask("video")
    BY <1>0, <2>1 DEF Lives
  <2>5. ~gen["stats"].running
    BY <2>1 DEF Lives
  <2> QED
    BY <1>0, <2>1, <2>2, <2>3, <2>4, <2>5 DEF Lives
<1>8. CASE ClearLocal
  <2>1. /\ main = "clearLocal" /\ main' \in {"stopRemote", "shutdown"}
        /\ UNCHANGED <<params, io, gen, collector>>
        /\ source'.framesSourced = source.framesSourced
    BY <1>8 DEF ClearLocal, At, Typed, SourceState
  <2>2. \A g \in Generators : InTask(g)' <=> InTask(g)
    BY <2>1 DEF InTask
  <2>3. ~gen["video"].running /\ ~gen["stats"].running
    BY <2>1 DEF Lives
  <2> QED
    BY <1>0, <2>1, <2>2, <2>3 DEF Lives
<1>9. ASSUME NEW g \in Generators, OnFire(g) PROVE Lives'
  <2>1. /\ io.at = "idle" /\ gen[g].timer = "expired"
        /\ gen' = [gen EXCEPT ![g].timer = "off"]
        /\ io' = IF gen[g].running
                 THEN [Idle EXCEPT !.at = IF g = "video" THEN "source" ELSE "query"] ELSE io
        /\ UNCHANGED <<params, main, source, stream, collector>>
    BY <1>9 DEF OnFire, IoRuns
  <2>2. /\ gen'[g].timer = "off" /\ gen'[g].running = gen[g].running
        /\ \A h \in Generators : h # g => gen'[h] = gen[h]
    <3>1. gen[g] \in GenState
      BY <1>0
    <3>2. gen'[g] = [gen[g] EXCEPT !.timer = "off"]
      BY <1>0, <2>1
    <3> QED
      BY <1>0, <2>1, <3>1, <3>2 DEF GenState
  <2>3. /\ gen[g].running => io'.at = IF g = "video" THEN "source" ELSE "query"
        /\ ~gen[g].running => io'.at = "idle"
    BY <1>0, <2>1 DEF Places
  <2>4. \A h \in Generators : InTask(h)' => h = g /\ gen[g].running
    BY <1>0, <2>3 DEF InTask
  <2>5. gen'["video"].running = gen["video"].running /\ gen'["stats"].running = gen["stats"].running
    BY <1>0, <2>2
  <2>6. \A h \in Generators : InTask(h)' => gen'[h].running /\ gen'[h].timer = "off"
    BY <2>2, <2>4
  <2>7. gen'["video"].timer = "expired" \/ io'.at \in {"source", "reopen"} => gen["video"].timer = "expired"
    BY <1>0, <2>1, <2>2, <2>3
  <2>8. main' \in {"setupConsumer", "setupProducer"} => \A h \in Generators : gen'[h].timer = "off"
    BY <2>1, <2>2 DEF Lives
  <2>9. gen'["stats"].running => collector' /\ params'.stats /\ main' \in {"loop", "stopStats"}
    BY <2>1, <2>5 DEF Lives
  <2>10. gen'["video"].running =>
           /\ source'.alive /\ stream' /\ main' \notin {"setupConsumer", "setupProducer", "clearLocal"}
           /\ params'.source = "file" => checkSourceForFrame(params'.size)
    BY <2>1, <2>5 DEF Lives
  <2>11. gen'["video"].timer = "expired" \/ io'.at \in {"source", "reopen"} =>
           source'.framesSourced < MaxFrames
    BY <2>1, <2>7 DEF Lives
  <2> QED
    BY <2>6, <2>8, <2>9, <2>10, <2>11 DEF Lives, checkSourceForFrame
<1>10. ASSUME NEW g \in Generators, Expire(g) PROVE Lives'
  <2>1. /\ gen[g].timer = "armed" /\ gen' = [gen EXCEPT ![g].timer = "expired"]
        /\ g = "video" => source.framesSourced < MaxFrames
        /\ UNCHANGED <<params, main, io, source, stream, collector>>
    BY <1>10 DEF Expire
  <2>2. /\ gen'[g].timer = "expired" /\ gen'[g].running = gen[g].running
        /\ \A h \in Generators : h # g => gen'[h] = gen[h]
    <3>1. gen[g] \in GenState
      BY <1>0
    <3>2. gen'[g] = [gen[g] EXCEPT !.timer = "expired"]
      BY <1>0, <2>1
    <3> QED
      BY <1>0, <2>1, <3>1, <3>2 DEF GenState
  <2>3. \A h \in Generators : InTask(h)' <=> InTask(h)
    BY <2>1 DEF InTask
  <2>4. ~InTask(g) /\ main \notin {"setupConsumer", "setupProducer"}
    BY <2>1 DEF Lives
  <2>5. gen'["video"].running = gen["video"].running /\ gen'["stats"].running = gen["stats"].running
    BY <1>0, <2>2
  <2>6. \A h \in Generators : InTask(h)' => gen'[h].running /\ gen'[h].timer = "off"
    BY <2>2, <2>3, <2>4 DEF Lives
  <2>7. gen'["stats"].running => collector' /\ params'.stats /\ main' \in {"loop", "stopStats"}
    BY <2>1, <2>5 DEF Lives
  <2>8. gen'["video"].running =>
           /\ source'.alive /\ stream' /\ main' \notin {"setupConsumer", "setupProducer", "clearLocal"}
           /\ params'.source = "file" => checkSourceForFrame(params'.size)
    BY <2>1, <2>5 DEF Lives
  <2>9. gen'["video"].timer = "expired" \/ io'.at \in {"source", "reopen"} =>
           source'.framesSourced < MaxFrames
    BY <1>0, <2>1, <2>2 DEF Lives
  <2> QED
    BY <2>1, <2>4, <2>6, <2>7, <2>8, <2>9 DEF Lives, checkSourceForFrame
<1>11. ASSUME NEW g \in Generators, NEW late \in Lateness[g], InTask(g),
              gen' = setupTimer(g, late), io' = Idle,
              UNCHANGED <<params, main, source, stream, collector>>
       PROVE  Lives'
  <2>1. /\ gen'[g].timer = "armed" /\ gen'[g].running = gen[g].running
        /\ \A h \in Generators : h # g => gen'[h] = gen[h]
    BY <1>0, <1>11, SetupTimer
  <2>2. \A h \in Generators : ~InTask(h)' /\ io'.at = "idle"
    BY <1>0, <1>11 DEF InTask
  <2>3. gen[g].running /\ main \notin {"setupConsumer", "setupProducer"}
    BY <1>0, <1>11 DEF Lives
  <2>4. gen'["video"].running = gen["video"].running /\ gen'["stats"].running = gen["stats"].running
    BY <1>0, <2>1
  <2>5. gen'["stats"].running => collector' /\ params'.stats /\ main' \in {"loop", "stopStats"}
    BY <1>11, <2>4 DEF Lives
  <2>6. gen'["video"].running =>
           /\ source'.alive /\ stream' /\ main' \notin {"setupConsumer", "setupProducer", "clearLocal"}
           /\ params'.source = "file" => checkSourceForFrame(params'.size)
    BY <1>11, <2>4 DEF Lives
  <2>7. gen'["video"].timer = "expired" \/ io'.at \in {"source", "reopen"} =>
           source'.framesSourced < MaxFrames
    BY <1>0, <1>11, <2>1, <2>2 DEF Lives
  <2> QED
    BY <1>11, <2>2, <2>3, <2>5, <2>6, <2>7 DEF Lives, checkSourceForFrame
<1>12. ASSUME NEW late \in Lateness["video"], DeliverFrame(late) PROVE Lives'
  <2>1. InTask("video") /\ gen' = setupTimer("video", late) /\ io' = Idle
        /\ UNCHANGED <<params, main, source, stream, collector>>
    BY <1>12 DEF DeliverFrame, IoRuns, InTask
  <2> QED
    BY <1>0, <1>11, <2>1
<1>13. ASSUME NEW late \in Lateness["stats"], QueryStats(late) PROVE Lives'
  <2>1. InTask("stats") /\ gen' = setupTimer("stats", late) /\ io' = Idle
        /\ UNCHANGED <<params, main, source, stream, collector>>
    BY <1>13 DEF QueryStats, IoRuns, InTask
  <2> QED
    BY <1>0, <1>11, <2>1
<1>14. CASE SourceFrame \/ ReadPipe \/ ReopenReadPipe
  <2>1. /\ UNCHANGED <<params, gen, main, stream, collector>>
        /\ io.at \in {"source", "reopen"} /\ io'.at \in {"source", "reopen", "deliver"}
    <3>1. UNCHANGED <<params, gen, main, stream, collector>> /\ io.at \in {"source", "reopen"}
      BY <1>14 DEF SourceFrame, ReadPipe, ReopenReadPipe, IoRuns
    <3>2. "source" \in Places /\ "reopen" \in Places /\ "deliver" \in Places
      BY DEF Places
    <3>3. \/ io' = io \/ io' = [io EXCEPT !.at = "deliver"]
          \/ io' = [io EXCEPT !.at = "source"] \/ io' = [io EXCEPT !.at = "reopen"]
      BY <1>14 DEF SourceFrame, ReadPipe, ReopenReadPipe
    <3> QED
      BY <1>0, <3>1, <3>2, <3>3
  <2>2. source' \in SourceState
    BY SourceTyped
  <2>3. source'.alive = source.alive
    BY <1>14 DEF SourceFrame, ReadPipe, ReopenReadPipe, readFile, rewind, Typed, SourceState
  <2>4. io'.at \in {"source", "reopen"} => source'.framesSourced = source.framesSourced
    <3>1. "reopen" \in Places /\ "deliver" \in Places /\ source \in SourceState
      BY DEF Places, Typed
    <3>2. CASE SourceFrame
      <4> DEFINE s == readFile(IF source.eof THEN rewind(source) ELSE source)
      <4>1. s.framesSourced = source.framesSourced
        BY <3>1 DEF readFile, rewind, SourceState
      <4>2. /\ source' = IF s.eof THEN s ELSE [s EXCEPT !.framesSourced = @ + 1]
            /\ io' = IF s.eof THEN io ELSE [io EXCEPT !.at = "deliver"]
        BY <3>2 DEF SourceFrame
      <4> HIDE DEF s
      <4>3. ~s.eof => io'.at = "deliver"
        BY <1>0, <3>1, <4>2
      <4> QED
        BY <4>1, <4>2, <4>3
    <3>3. CASE ReadPipe
      <4>1. \/ source' = source \/ io' = [io EXCEPT !.at = "deliver"]
            \/ source' = [source EXCEPT !.pos = @ + 1]
        BY <3>3 DEF ReadPipe
      <4>2. [io EXCEPT !.at = "deliver"].at = "deliver"
        BY <1>0, <3>1
      <4>3. [source EXCEPT !.pos = @ + 1].framesSourced = source.framesSourced
        BY <3>1 DEF SourceState
      <4> QED
        BY <4>1, <4>2, <4>3
    <3>4. CASE ReopenReadPipe
      BY <3>4 DEF ReopenReadPipe
    <3> QED
      BY <1>14, <3>2, <3>3, <3>4
  <2>5. InTask("video") /\ gen["video"].timer = "off"
    BY <1>0, <2>1 DEF InTask, Lives
  <2>6. \A h \in Generators : InTask(h)' => InTask(h)
    BY <1>0, <2>1 DEF InTask
  <2>7. source.framesSourced < MaxFrames
    BY <2>1 DEF Lives
  <2> QED
    BY <1>0, <2>1, <2>3, <2>4, <2>5, <2>6, <2>7 DEF Lives, checkSourceForFrame
<1>15. CASE ResizeFrame \/ CloseSink \/ OpenSink \/ LogSink \/ RenderFrame \/ IoEnds \/ RenderFreed
  <2>1. UNCHANGED <<params, gen, source, stream, collector, main>>
    BY <1>15 DEF ResizeFrame, CloseSink, OpenSink, LogSink, RenderFrame, IoEnds, RenderFreed
  <2>2. io' = io \/ io'.at \in NoTasks
    BY <1>0, <1>15 DEF ResizeFrame, CloseSink, OpenSink, LogSink, RenderFrame, IoEnds, RenderFreed, NoTasks, Places
  <2> QED
    BY <2>1, <2>2, LivesKept
<1>16. ASSUME NEW res \in Resolutions, GetFrameBuffer(res) PROVE Lives'
  <2>1. UNCHANGED <<params, gen, source, stream, collector, main>> /\ (io' = io \/ io'.at \in NoTasks)
    BY <1>16 DEF GetFrameBuffer, NoTasks
  <2> QED
    BY <2>1, LivesKept
<1>17. CASE StartWrite \/ FinishWrite \/ ResetSink \/ TaskFreed \/ SinkVanishes \/ PipeWriter \/ UNCHANGED vars
  <2>1. UNCHANGED <<params, gen, source, stream, collector, main, io>>
    BY <1>17 DEF StartWrite, FinishWrite, ResetSink, TaskFreed, SinkVanishes, PipeWriter, vars
  <2> QED
    BY <2>1, LivesKept
<1> QED
  BY <1>1, <1>2, <1>3, <1>4, <1>5, <1>6, <1>7, <1>8, <1>9, <1>10, <1>12, <1>13, <1>14, <1>15, <1>16, <1>17
    DEF Next, MainSteps, GeneratorSteps, RenderSteps, RendererSteps
-----------------------------------------------------------------------------
(* The renderer *)

(* Until the renderer is set up no thread has anything to do. *)
LEMMA UnbornNext == Lives /\ Unborn /\ [Next]_vars => Unborn'
<1> SUFFICES ASSUME Lives, Unborn, [Next]_vars, main' = "setupConsumer" PROVE Unborn'
  BY DEF Unborn
<1>1. ~MainSteps
  BY DEF MainSteps, SetupConsumer, SetupProducer, SetupStatGathering, RunProcessLoop, StopStats,
    DropStats, StopSource, ClearLocal, StopRemote, ClearRemote, Shutdown, Join, JoinRenderer, DestroyClient
<1>2. main = "setupConsumer"
  <2>1. CASE GeneratorSteps
    BY <2>1 DEF GeneratorSteps, OnFire, SourceFrame, ReadPipe, ReopenReadPipe, DeliverFrame, QueryStats
  <2>2. CASE RenderSteps \/ RendererSteps
    BY <2>2 DEF RenderSteps, RendererSteps, ResizeFrame, CloseSink, OpenSink, LogSink, RenderFrame,
      RenderFreed, StartWrite, FinishWrite, ResetSink, TaskFreed
  <2>3. CASE IoEnds \/ SinkVanishes \/ PipeWriter \/ UNCHANGED vars
    BY <2>3 DEF IoEnds, SinkVanishes, PipeWriter, vars
  <2>4. ASSUME NEW g \in Generators, Expire(g) PROVE main = "setupConsumer"
    BY <2>4 DEF Expire
  <2>5. ASSUME NEW res \in Resolutions, GetFrameBuffer(res) PROVE main = "setupConsumer"
    BY <2>5 DEF GetFrameBuffer
  <2> QED
    BY <1>1, <2>1, <2>2, <2>3, <2>4, <2>5 DEF Next
<1>3. /\ ~ren.alive /\ ~fetching /\ work /\ tasks = <<>> /\ io = Idle /\ io.at = "idle"
      /\ \A g \in Generators : gen[g].timer = "off"
  BY <1>2 DEF Unborn, Lives, Idle
<1>4. ~GeneratorSteps
  BY <1>3 DEF GeneratorSteps, OnFire, SourceFrame, ReadPipe, ReopenReadPipe, DeliverFrame, QueryStats, IoRuns
<1>5. ~RenderSteps /\ ~RendererSteps
  BY <1>3 DEF RenderSteps, RendererSteps, ResizeFrame, CloseSink, OpenSink, LogSink, RenderFrame,
    RenderFreed, StartWrite, FinishWrite, ResetSink, TaskFreed, IoRuns, RendererRuns
<1>6. ~IoEnds /\ ~SinkVanishes /\ \A res \in Resolutions : ~GetFrameBuffer(res)
  BY <1>3 DEF IoEnds, SinkVanishes, GetFrameBuffer
<1>7. PipeWriter \/ UNCHANGED vars \/ \E g \in Generators : Expire(g)
  BY <1>1, <1>4, <1>5, <1>6 DEF Next
<1>8. UNCHANGED <<ren, fetching, work, tasks, io>>
  BY <1>7 DEF PipeWriter, vars, Expire
<1> QED
  BY <1>3, <1>8 DEF Unborn

(* A write that waits is still meant for the open sink after a task more... *)
LEMMA WritesAppend ==
  ASSUME NEW s \in Seq(Tasks), NEW t \in Tasks, NEW P, NEW Q,
         \A i \in DOMAIN s : s[i] = "reset" => P,
         \A i \in DOMAIN s : s[i] = "write" => Q /\ \A j \in 1..(i - 1) : s[j] # "reset",
         t = "reset" => P, t = "write" => Q /\ ~P
  PROVE  /\ \A i \in DOMAIN Append(s, t) : Append(s, t)[i] = "reset" => P
         /\ \A i \in DOMAIN Append(s, t) : Append(s, t)[i] = "write" =>
              Q /\ \A j \in 1..(i - 1) : Append(s, t)[j] # "reset"
<1> DEFINE u == Append(s, t)
           n == Len(s)
<1>1. /\ n \in Nat /\ DOMAIN s = 1..n /\ u \in Seq(Tasks) /\ Len(u) = n + 1 /\ DOMAIN u = 1..(n + 1)
      /\ u[n + 1] = t /\ \A i \in 1..n : u[i] = s[i]
  <2>1. u \in Seq(Tasks) /\ Len(u) = n + 1 /\ u[n + 1] = t /\ \A i \in 1..n : u[i] = s[i]
    BY AppendProperties
  <2> HIDE DEF u
  <2>2. n \in Nat /\ DOMAIN s = 1..n /\ DOMAIN u = 1..Len(u)
    BY <2>1
  <2> QED
    BY <2>1, <2>2
<1> HIDE DEF u, n
<1>2. ASSUME NEW i \in DOMAIN u, u[i] = "reset" PROVE P
  <2>1. CASE i = n + 1
    BY <1>1, <1>2, <2>1
  <2>2. CASE i # n + 1
    <3>1. i \in 1..n
      BY <1>1, <2>2
    <3> QED
      BY <1>1, <1>2, <3>1
  <2> QED
    BY <2>1, <2>2
<1>3. ASSUME NEW i \in DOMAIN u, u[i] = "write" PROVE Q /\ \A j \in 1..(i - 1) : u[j] # "reset"
  <2>1. CASE i = n + 1
    <3>1. t = "write" /\ Q /\ ~P
      BY <1>1, <1>3, <2>1
    <3>2. \A j \in 1..(i - 1) : j \in 1..n /\ u[j] = s[j]
      BY <1>1, <2>1
    <3> QED
      BY <1>1, <3>1, <3>2
  <2>2. CASE i # n + 1
    <3>1. i \in 1..n
      BY <1>1, <2>2
    <3>2. Q /\ \A j \in 1..(i - 1) : s[j] # "reset"
      BY <1>1, <1>3, <3>1
    <3>3. \A j \in 1..(i - 1) : j \in 1..n
      BY <1>1, <3>1
    <3> QED
      BY <1>1, <3>2, <3>3
  <2> QED
    BY <2>1, <2>2
<1> QED
  BY <1>2, <1>3 DEF u

(* ...and after the first one was taken away. *)
LEMMA WritesTail ==
  ASSUME NEW s \in Seq(Tasks), s # <<>>, NEW P, NEW Q,
         \A i \in DOMAIN s : s[i] = "reset" => P,
         \A i \in DOMAIN s : s[i] = "write" => Q /\ \A j \in 1..(i - 1) : s[j] # "reset"
  PROVE  /\ \A i \in DOMAIN Tail(s) : Tail(s)[i] = "reset" => P
         /\ \A i \in DOMAIN Tail(s) : Tail(s)[i] = "write" =>
              s[1] # "reset" /\ Q /\ \A j \in 1..(i - 1) : Tail(s)[j] # "reset"
<1> DEFINE u == Tail(s)
           n == Len(u)
<1>1. /\ n \in Nat /\ DOMAIN s = 1..(n + 1) /\ u \in Seq(Tasks) /\ DOMAIN u = 1..n
      /\ \A i \in 1..n : u[i] = s[i + 1]
  <2>1. u \in Seq(Tasks) /\ n = Len(s) - 1 /\ \A i \in 1..n : u[i] = s[i + 1]
    BY HeadTailProperties
  <2> HIDE DEF u
  <2>2. n \in Nat /\ Len(s) \in Nat /\ DOMAIN s = 1..Len(s) /\ DOMAIN u = 1..n
    BY <2>1
  <2> QED
    BY <2>1, <2>2
<1> HIDE DEF u, n
<1>2. ASSUME NEW i \in DOMAIN u, u[i] = "reset" PROVE P
  <2>1. i + 1 \in DOMAIN s /\ u[i] = s[i + 1]
    BY <1>1
  <2> QED
    BY <1>2, <2>1
<1>3. ASSUME NEW i \in DOMAIN u, u[i] = "write"
      PROVE  s[1] # "reset" /\ Q /\ \A j \in 1..(i - 1) : u[j] # "reset"
  <2>1. i + 1 \in DOMAIN s /\ u[i] = s[i + 1] /\ i \in Nat /\ (i + 1) - 1 = i /\ 1 \in 1..i
    BY <1>1
  <2>2. Q /\ \A j \in 1..i : s[j] # "reset"
    BY <1>3, <2>1
  <2>3. \A j \in 1..(i - 1) : j + 1 \in 1..i /\ u[j] = s[j + 1]
    BY <1>1, <2>1
  <2> QED
    BY <2>1, <2>2, <2>3
<1> QED
  BY <1>2, <1>3 DEF u
(* Steps of the io thread that are not the renderer's leave it dumping. *)
LEMMA DumpsKept ==
  ASSUME Dumps, UNCHANGED <<ren, tasks>>,
         \/ io' = io
         \/ io.at \notin {"close", "open", "ended"} /\ io'.at \notin {"resize", "close", "open", "log", "render"}
         \/ io'.at = "ended"
  PROVE  Dumps'
<1>1. ren' = ren /\ tasks' = tasks
  OBVIOUS
<1>2. CASE io' = io
  BY <1>1, <1>2 DEF Dumps, WritesToOpenSink
<1>3. CASE io.at \notin {"close", "open", "ended"} /\ io'.at \notin {"resize", "close", "open", "log", "render"}
  BY <1>1, <1>3 DEF Dumps, WritesToOpenSink
<1>4. CASE io'.at = "ended"
  BY <1>1, <1>4 DEF Dumps, WritesToOpenSink
<1> QED
  BY <1>2, <1>3, <1>4

(* Dumps is kept: the renderer's tasks are queued and run in order.         *)
LEMMA DumpsNext == Typed /\ Unborn /\ Dumps /\ [Next]_vars => Dumps'
<1> SUFFICES ASSUME Typed, Unborn, Dumps, [Next]_vars PROVE Dumps'
  OBVIOUS
<1>0. /\ io \in IoState /\ ren \in RenState /\ tasks \in Seq(Tasks)
      /\ Idle.at = "idle" /\ \A res \in Resolutions : res # 0
  BY ClientAssumption DEF Typed, Tasks, Idle
<1>1. CASE SetupConsumer
  <2>1. /\ tasks = <<>> /\ io.at = "idle" /\ ~ren.alive
        /\ tasks' = tasks /\ io' = io /\ (ren' = ren \/ ren' = NewRenderer)
    BY <1>1, <1>0 DEF SetupConsumer, At, Unborn
  <2>2. DOMAIN tasks = {}
    BY <2>1
  <2>3. NewRenderer.res = 0
    BY DEF NewRenderer
  <2> QED
    BY <2>1, <2>2, <2>3 DEF Dumps, WritesToOpenSink
<1>2. CASE CloseSink
  <2>1. /\ io.at = "close" /\ io' = [io EXCEPT !.at = "open"] /\ ren.alive
    BY <1>2 DEF CloseSink, IoRuns
  <2>2. io'.at = "open" /\ io'.res = io.res /\ io'.res # 0 /\ ren.res # 0 /\ io.res = ren.res
    BY <1>0, <2>1 DEF IoState, Dumps
  <2>3. CASE ren' = ren /\ tasks' = tasks
    BY <2>1, <2>2, <2>3 DEF Dumps, WritesToOpenSink
  <2>4. CASE ren' = [ren EXCEPT !.isDumping = FALSE] /\ tasks' = Append(tasks, "reset")
    <3>1. ~ren'.isDumping /\ ren'.sink = ren.sink /\ ren'.res = ren.res
      BY <1>0, <2>4 DEF RenState
    <3>2. \A i \in DOMAIN tasks : tasks[i] = "write" => ren.sink # 0 /\ \A j \in 1..(i - 1) : tasks[j] # "reset"
      BY <2>1 DEF Dumps, WritesToOpenSink
    <3>3. \A i \in DOMAIN tasks : tasks[i] = "reset" => TRUE
      OBVIOUS
    <3>4. "reset" \in Tasks /\ ("reset" = "reset" => TRUE) /\ ("reset" = "write" => ren.sink # 0 /\ ~TRUE)
      BY DEF Tasks
    <3>5. \A i \in DOMAIN tasks' : tasks'[i] = "write" =>
            ren.sink # 0 /\ \A j \in 1..(i - 1) : tasks'[j] # "reset"
      BY <1>0, <2>4, <3>2, <3>3, <3>4, WritesAppend
    <3> QED
      BY <2>2, <3>1, <3>5 DEF Dumps, WritesToOpenSink
  <2> QED
    BY <1>2, <2>3, <2>4 DEF CloseSink, closeSink
<1>3. CASE OpenSink
  <2>1. io.at = "open" /\ ren.alive /\ io.res # 0 /\ tasks' = tasks
    BY <1>3 DEF OpenSink, IoRuns, Dumps
  <2>2. CASE ren' = [ren EXCEPT !.sink = io.res, !.writing = torn("sink")] /\ io' = [io EXCEPT !.at = "log"]
    <3>1. ren'.sink # 0 /\ ren'.isDumping = ren.isDumping /\ ren'.res = ren.res /\ io'.at = "log"
      BY <1>0, <2>1, <2>2 DEF RenState, IoState
    <3> QED
      BY <2>1, <3>1 DEF Dumps, WritesToOpenSink
  <2>3. CASE ren' = ren /\ io' = [Idle EXCEPT !.at = "ended"]
    <3>1. io'.at = "ended"
      BY <2>3 DEF Idle
    <3> QED
      BY <2>1, <2>3, <3>1, DumpsKept
  <2> QED
    BY <1>3, <2>2, <2>3 DEF OpenSink
<1>4. CASE LogSink
  <2>1. io.at = "log" /\ io'.at = "render" /\ ren' = ren /\ tasks' = tasks
    BY <1>0, <1>4 DEF LogSink, IoRuns, IoState
  <2> QED
    BY <2>1 DEF Dumps, WritesToOpenSink
<1>5. CASE RenderFrame
  <2>1. io.at = "render" /\ io'.at = "idle" /\ ren.alive
    BY <1>0, <1>5 DEF RenderFrame, IoRuns
  <2>2. ren'.sink = ren.sink /\ ren'.isDumping = ren.isDumping /\ ren'.res = ren.res
    BY <1>0, <1>5 DEF RenderFrame, RenState
  <2>3. CASE tasks' = tasks
    BY <2>1, <2>2, <2>3 DEF Dumps, WritesToOpenSink
  <2>4. CASE ren.isDumping /\ tasks' = Append(tasks, "write")
    <3>1. ren.sink # 0
      BY <2>1, <2>4 DEF Dumps
    <3>2. /\ \A i \in DOMAIN tasks : tasks[i] = "write" =>
               ren.sink # 0 /\ \A j \in 1..(i - 1) : tasks[j] # "reset"
          /\ \A i \in DOMAIN tasks : tasks[i] = "reset" => ~ren.isDumping
      BY <2>1 DEF Dumps, WritesToOpenSink
    <3>3. /\ "write" \in Tasks /\ ("write" = "reset" => ~ren.isDumping)
          /\ ("write" = "write" => ren.sink # 0 /\ ~(~ren.isDumping))
      BY <2>4, <3>1 DEF Tasks
    <3>4. /\ \A i \in DOMAIN tasks' : tasks'[i] = "reset" => ~ren.isDumping
          /\ \A i \in DOMAIN tasks' : tasks'[i] = "write" =>
               ren.sink # 0 /\ \A j \in 1..(i - 1) : tasks'[j] # "reset"
      BY <1>0, <2>4, <3>2, <3>3, WritesAppend
    <3> QED
      BY <2>1, <2>2, <3>1, <3>4 DEF Dumps, WritesToOpenSink
  <2> QED
    BY <1>5, <2>3, <2>4 DEF RenderFrame
<1>6. ASSUME NEW res \in Resolutions, GetFrameBuffer(res) PROVE Dumps'
  <2>1. io.at = "idle" /\ tasks' = tasks /\ ren' = ren
    BY <1>6 DEF GetFrameBuffer, IoRuns
  <2>2. \/ res = ren.res /\ io' = [at |-> "render", res |-> res]
        \/ io' = [at |-> "resize", res |-> res]
    BY <1>6 DEF GetFrameBuffer
  <2>3. \/ io'.res # 0 /\ io'.at = "render" /\ ren.res # 0
        \/ io'.res # 0 /\ io'.at = "resize"
    BY <1>0, <2>2
  <2> QED
    BY <2>1, <2>3 DEF Dumps, WritesToOpenSink
<1>18. CASE ResizeFrame
  <2>1. io.at = "resize" /\ ren.alive /\ io.res # 0 /\ tasks' = tasks
    BY <1>18 DEF ResizeFrame, IoRuns, Dumps
  <2>2. io'.at = "close" /\ io'.res = io.res
    BY <1>0, <1>18 DEF ResizeFrame, IoState
  <2>3. ren'.res = io.res /\ ren'.sink = ren.sink /\ ren'.isDumping = ren.isDumping /\ ren'.alive = ren.alive
    BY <1>0, <1>18 DEF ResizeFrame, RenState
  <2> QED
    BY <2>1, <2>2, <2>3 DEF Dumps, WritesToOpenSink
<1>7. CASE StartWrite
  <2>1. /\ io' = io /\ tasks' = tasks /\ ren'.sink = ren.sink /\ ren'.isDumping = ren.isDumping
        /\ ren'.alive = ren.alive /\ ren'.res = ren.res
    BY <1>0, <1>7 DEF StartWrite, RenState
  <2> QED
    BY <2>1 DEF Dumps, WritesToOpenSink
<1>8. CASE FinishWrite \/ ResetSink
  <2>1. ren.alive /\ tasks # <<>> /\ tasks' = Tail(tasks) /\ io' = io
    BY <1>8 DEF FinishWrite, ResetSink, RendererRuns
  <2>2. /\ \A i \in DOMAIN tasks : tasks[i] = "write" =>
             ren.sink # 0 /\ \A j \in 1..(i - 1) : tasks[j] # "reset"
        /\ \A i \in DOMAIN tasks : tasks[i] = "reset" => ~ren.isDumping
    BY <2>1 DEF Dumps, WritesToOpenSink
  <2>3. /\ \A i \in DOMAIN tasks' : tasks'[i] = "reset" => ~ren.isDumping
        /\ \A i \in DOMAIN tasks' : tasks'[i] = "write" =>
             tasks[1] # "reset" /\ ren.sink # 0 /\ \A j \in 1..(i - 1) : tasks'[j] # "reset"
    BY <1>0, <2>1, <2>2, WritesTail
  <2>4. CASE FinishWrite
    <3>1. ren'.sink = ren.sink /\ ren'.isDumping = ren.isDumping /\ ren'.alive = ren.alive /\ ren'.res = ren.res
      BY <1>0, <2>4 DEF FinishWrite, RenState
    <3> QED
      BY <2>1, <2>3, <3>1 DEF Dumps, WritesToOpenSink
  <2>5. CASE ResetSink
    <3>1. /\ ren'.isDumping = ren.isDumping /\ ren'.alive = ren.alive /\ ren'.res = ren.res
          /\ tasks[1] = "reset" /\ 1 \in DOMAIN tasks
      <4>1. Head(tasks) = "reset" /\ ren' = [ren EXCEPT !.sink = 0]
        BY <2>5 DEF ResetSink, RendererRuns
      <4>2. Head(tasks) = tasks[1] /\ 1 \in DOMAIN tasks
        <5>1. Len(tasks) \in Nat \ {0} /\ DOMAIN tasks = 1..Len(tasks)
          BY <1>0, <2>1, EmptySeq
        <5> QED
          BY <1>0, <2>1, <5>1
      <4> QED
        BY <1>0, <4>1, <4>2 DEF RenState
    <3>2. ~ren.isDumping
      BY <2>2, <3>1
    <3> QED
      BY <2>1, <2>3, <3>1, <3>2 DEF Dumps, WritesToOpenSink
  <2> QED
    BY <1>8, <2>4, <2>5
<1>9. CASE ClearRemote \/ DestroyClient
  <2>1. ~ren'.alive /\ io' = io
    BY <1>0, <1>9 DEF ClearRemote, DestroyClient, RenState
  <2> QED
    BY <2>1 DEF Dumps
<1>10. CASE RenderFreed \/ TaskFreed
  <2>1. ~ren'.alive /\ (io' = io \/ io'.at = "idle")
    BY <1>0, <1>10 DEF RenderFreed, TaskFreed, RenState
  <2> QED
    BY <2>1 DEF Dumps
<1>11. CASE IoEnds
  <2>1. io'.at = "ended" /\ UNCHANGED <<ren, tasks>>
    BY <1>11 DEF IoEnds, Idle
  <2> QED
    BY <2>1, DumpsKept
<1>12. CASE SourceFrame \/ ReadPipe \/ ReopenReadPipe
  <2>1. io.at \in {"source", "reopen"} /\ UNCHANGED <<ren, tasks>>
        /\ \/ io' = io \/ io' = [io EXCEPT !.at = "deliver"]
           \/ io' = [io EXCEPT !.at = "source"] \/ io' = [io EXCEPT !.at = "reopen"]
    BY <1>12 DEF SourceFrame, ReadPipe, ReopenReadPipe, IoRuns
  <2>2. io' = io \/ io'.at \in {"source", "reopen", "deliver"}
    BY <1>0, <2>1 DEF IoState
  <2> QED
    BY <2>1, <2>2, DumpsKept
<1>13. ASSUME NEW g \in Generators, OnFire(g) PROVE Dumps'
  <2>1. io.at = "idle" /\ UNCHANGED <<ren, tasks>>
        /\ \/ io' = io \/ io' = [Idle EXCEPT !.at = "source"] \/ io' = [Idle EXCEPT !.at = "query"]
    BY <1>13 DEF OnFire, IoRuns
  <2>2. io' = io \/ io'.at \in {"source", "query"}
    BY <2>1 DEF Idle
  <2> QED
    BY <2>1, <2>2, DumpsKept
<1>14. ASSUME NEW late, DeliverFrame(late) \/ QueryStats(late) PROVE Dumps'
  <2>1. io.at \in {"deliver", "query"} /\ UNCHANGED <<ren, tasks>> /\ io'.at = "idle"
    BY <1>0, <1>14 DEF DeliverFrame, QueryStats, IoRuns
  <2> QED
    BY <2>1, DumpsKept
<1>15. ASSUME UNCHANGED <<io, ren, tasks>> PROVE Dumps'
  BY <1>15, DumpsKept
<1>16. ASSUME NEW g \in Generators, Expire(g) PROVE UNCHANGED <<io, ren, tasks>>
  BY <1>16 DEF Expire
<1>17. ASSUME SetupProducer \/ SetupStatGathering \/ RunProcessLoop \/ StopStats \/ DropStats \/ StopSource
              \/ ClearLocal \/ StopRemote \/ Shutdown \/ Join \/ JoinRenderer \/ SinkVanishes \/ PipeWriter
              \/ UNCHANGED vars
       PROVE  UNCHANGED <<io, ren, tasks>>
  BY <1>17 DEF SetupProducer, SetupStatGathering, RunProcessLoop, StopStats, DropStats, StopSource,
    ClearLocal, StopRemote, Shutdown, Join, JoinRenderer, SinkVanishes, PipeWriter, vars
<1> QED
  BY <1>1, <1>2, <1>3, <1>4, <1>5, <1>6, <1>7, <1>8, <1>9, <1>10, <1>11, <1>12, <1>13, <1>14, <1>15, <1>16, <1>17, <1>18
    DEF Next, MainSteps, GeneratorSteps, RenderSteps, RendererSteps

(* Whole is kept: as long as it dumps the renderer has one sink.            *)
LEMMA WholeNext == Typed /\ Unborn /\ Dumps /\ Whole /\ [Next]_vars => Whole'
<1> SUFFICES ASSUME Typed, Unborn, Dumps, Whole, [Next]_vars, ren'.alive, ren'.isDumping PROVE Whole'
  BY DEF Whole
<1>0. io \in IoState /\ ren \in RenState /\ tasks \in Seq(Tasks) /\ Idle.at = "idle"
  BY DEF Typed, Tasks, Idle
<1>1. CASE SetupConsumer
  <2>1. /\ ~ren.alive /\ tasks' = <<>> /\ io'.at = "idle" /\ fault' = "none"
        /\ ren' = ren \/ ren' = NewRenderer
    BY <1>0, <1>1 DEF SetupConsumer, At, Unborn
  <2>2. NewRenderer.sink = 0 /\ NewRenderer.writing = "no"
    BY DEF NewRenderer
  <2> QED
    BY <2>1, <2>2 DEF Whole
<1>2. CASE ResizeFrame
  <2>1. ren.alive /\ ren.isDumping /\ tasks' = tasks /\ ren'.sink = ren.sink
        /\ (ren.writing = "no" => ren'.writing = "no")
    BY <1>0, <1>2 DEF ResizeFrame, RenState, torn
  <2>2. io'.at = "close"
    BY <1>0, <1>2 DEF ResizeFrame, IoState
  <2> QED
    BY <2>1, <2>2 DEF Whole
<1>3. CASE CloseSink
  <2>1. ren' = ren /\ tasks' = tasks /\ ren.sink = 0 /\ ren.alive /\ fault = "none" /\ fault' = "none"
    <3>1. ren' # [ren EXCEPT !.isDumping = FALSE]
      BY <1>0 DEF RenState
    <3> QED
      BY <1>3, <3>1 DEF CloseSink, closeSink, IoRuns
  <2> QED
    BY <2>1 DEF Whole
<1>4. CASE OpenSink
  <2>1. io.at = "open" /\ ren.alive /\ tasks' = tasks /\ fault' = "none"
    BY <1>4 DEF OpenSink, IoRuns
  <2>2. CASE ren' = [ren EXCEPT !.sink = io.res, !.writing = torn("sink")] /\ io' = [io EXCEPT !.at = "log"]
    <3>1. ren.isDumping /\ ren'.sink = io.res /\ ren'.res = ren.res /\ ren'.writing = torn("sink") /\ io'.at = "log"
      BY <1>0, <2>2 DEF RenState, IoState
    <3>2. tasks = <<>> /\ ren.writing = "no" /\ io.res = ren.res
      BY <2>1, <3>1 DEF Whole, Dumps
    <3> QED
      BY <2>1, <3>1, <3>2 DEF Whole, torn
  <2>3. CASE ren' = ren /\ io' = [Idle EXCEPT !.at = "ended"]
    <3>1. io'.at = "ended"
      BY <2>3 DEF Idle
    <3> QED
      BY <2>1, <2>3, <3>1 DEF Whole
  <2> QED
    BY <1>4, <2>2, <2>3 DEF OpenSink
<1>5. CASE LogSink
  <2>1. io.at = "log" /\ io'.at = "render" /\ ren' = ren /\ tasks' = tasks /\ ren.alive
        /\ (ren.sink # 0 => fault' = fault)
    BY <1>0, <1>5 DEF LogSink, IoRuns, IoState
  <2>2. ren.sink # 0
    BY <2>1 DEF Dumps
  <2> QED
    BY <2>1, <2>2 DEF Whole
<1>6. CASE RenderFrame
  <2>1. io.at = "render" /\ io'.at = "idle" /\ ren.alive /\ fault' = fault
    BY <1>0, <1>6 DEF RenderFrame, IoRuns
  <2>2. ren'.sink = ren.sink /\ ren'.isDumping = ren.isDumping /\ ren'.res = ren.res /\ ren'.writing = ren.writing
    BY <1>0, <1>6 DEF RenderFrame, RenState
  <2>3. ren.sink # 0
    BY <2>1, <2>2 DEF Dumps
  <2> QED
    BY <2>1, <2>2, <2>3 DEF Whole
<1>7. ASSUME NEW res \in Resolutions, GetFrameBuffer(res) PROVE Whole'
  <2>1. io.at = "idle" /\ tasks' = tasks /\ ren' = ren /\ fault' = fault /\ io'.at \in {"render", "resize"}
    BY <1>7 DEF GetFrameBuffer, IoRuns
  <2> QED
    BY <2>1 DEF Whole
<1>8. CASE StartWrite
  <2>1. /\ io' = io /\ tasks' = tasks /\ tasks # <<>> /\ fault' = fault
        /\ ren'.sink = ren.sink /\ ren'.isDumping = ren.isDumping
        /\ ren'.alive = ren.alive /\ ren'.res = ren.res /\ ren'.writing = "sound"
    BY <1>0, <1>8 DEF StartWrite, RendererRuns, RenState
  <2> QED
    BY <2>1 DEF Whole
<1>9. CASE FinishWrite
  <2>1. /\ io' = io /\ tasks # <<>> /\ fault = "none"
        /\ ren'.sink = ren.sink /\ ren'.isDumping = ren.isDumping
        /\ ren'.alive = ren.alive /\ ren'.res = ren.res /\ ren'.writing = "no" /\ ren.writing # "no"
        /\ (ren.writing = "sound" => fault' = "none")
    BY <1>0, <1>9 DEF FinishWrite, RendererRuns, RenState
  <2> QED
    BY <2>1 DEF Whole
<1>10. CASE ResetSink \/ SinkVanishes
  <2>1. ren.isDumping /\ tasks # <<>> /\ Head(tasks) = "reset"
        /\ (ResetSink => ren.alive) /\ (SinkVanishes => ren' = ren)
    BY <1>0, <1>10 DEF ResetSink, SinkVanishes, RendererRuns, RenState
  <2>2. Head(tasks) = tasks[1] /\ 1 \in DOMAIN tasks
    <3>1. Len(tasks) \in Nat \ {0} /\ DOMAIN tasks = 1..Len(tasks)
      BY <1>0, <2>1, EmptySeq
    <3> QED
      BY <1>0, <2>1, <3>1
  <2> QED
    BY <1>10, <2>1, <2>2 DEF Dumps
<1>11. CASE ClearRemote \/ DestroyClient \/ RenderFreed \/ TaskFreed
  <2>1. ~ren'.alive
    BY <1>0, <1>11 DEF ClearRemote, DestroyClient, RenderFreed, TaskFreed, RenState
  <2> QED
    BY <2>1
<1>12. CASE SourceFrame \/ ReadPipe \/ ReopenReadPipe
  <2>1. io.at \in {"source", "reopen"} /\ UNCHANGED <<ren, tasks, fault>>
        /\ \/ io' = io \/ io' = [io EXCEPT !.at = "deliver"]
           \/ io' = [io EXCEPT !.at = "source"] \/ io' = [io EXCEPT !.at = "reopen"]
    BY <1>12 DEF SourceFrame, ReadPipe, ReopenReadPipe, IoRuns
  <2>2. io.at # "close" /\ io'.at # "open"
    BY <1>0, <2>1 DEF IoState
  <2> QED
    BY <2>1, <2>2 DEF Whole
<1>13. ASSUME NEW g \in Generators, OnFire(g) PROVE Whole'
  <2>1. io.at = "idle" /\ UNCHANGED <<ren, tasks, fault>>
        /\ \/ io' = io \/ io' = [Idle EXCEPT !.at = "source"] \/ io' = [Idle EXCEPT !.at = "query"]
    BY <1>13 DEF OnFire, IoRuns
  <2>2. io.at # "close" /\ io'.at # "open"
    BY <2>1 DEF Idle
  <2> QED
    BY <2>1, <2>2 DEF Whole
<1>14. ASSUME NEW late, DeliverFrame(late) \/ QueryStats(late) PROVE Whole'
  <2>1. io.at \in {"deliver", "query"} /\ UNCHANGED <<ren, tasks, fault>> /\ io'.at = "idle"
    BY <1>0, <1>14 DEF DeliverFrame, QueryStats, IoRuns
  <2> QED
    BY <2>1 DEF Whole
<1>15. CASE IoEnds
  <2>1. io.at = "idle" /\ io'.at = "ended" /\ UNCHANGED <<ren, tasks, fault>>
    BY <1>15 DEF IoEnds, IoRuns, Idle
  <2> QED
    BY <2>1 DEF Whole
<1>16. ASSUME UNCHANGED <<io, ren, tasks, fault>> PROVE Whole'
  <2>1. io' = io /\ ren' = ren /\ tasks' = tasks /\ fault' = fault
    BY <1>16
  <2> QED
    BY <2>1 DEF Whole
<1>17. ASSUME NEW g \in Generators, Expire(g) PROVE UNCHANGED <<io, ren, tasks, fault>>
  BY <1>17 DEF Expire
<1>18. ASSUME SetupProducer \/ SetupStatGathering \/ RunProcessLoop \/ StopStats \/ DropStats \/ StopSource
              \/ ClearLocal \/ StopRemote \/ Shutdown \/ Join \/ JoinRenderer \/ PipeWriter \/ UNCHANGED vars
       PROVE  UNCHANGED <<io, ren, tasks, fault>>
  BY <1>18 DEF SetupProducer, SetupStatGathering, RunProcessLoop, StopStats, DropStats, StopSource,
    ClearLocal, StopRemote, Shutdown, Join, JoinRenderer, PipeWriter, vars
<1> QED
  BY <1>1, <1>2, <1>3, <1>4, <1>5, <1>6, <1>7, <1>8, <1>9, <1>10, <1>11, <1>12, <1>13, <1>14, <1>15,
     <1>16, <1>17, <1>18
    DEF Next, MainSteps, GeneratorSteps, RenderSteps, RendererSteps

(* The client starts with nothing set up.                                   *)
LEMMA ClientInit == Init => Typed /\ Lives /\ Unborn /\ Dumps /\ Whole
<1> SUFFICES ASSUME Init PROVE Typed /\ Lives /\ Unborn /\ Dumps /\ Whole
  OBVIOUS
<1>1. /\ main = "setupConsumer" /\ work = TRUE /\ io = Idle /\ tasks = <<>> /\ fetching = FALSE
      /\ gen = [g \in Generators |-> NewGenerator] /\ source = NoSource
      /\ ren = [NewRenderer EXCEPT !.alive = FALSE]
  BY DEF Init
<1>2. params.size \in Nat
  BY ClientAssumption DEF Init
<1>3. NewGenerator \in GenState /\ NewGenerator.timer = "off" /\ NewGenerator.running = FALSE
  BY DEF NewGenerator, GenState, Timers
<1>4. gen \in [Generators -> GenState] /\ \A g \in Generators : gen[g] = NewGenerator
  BY <1>1, <1>3
<1>5. io \in IoState /\ io.at = "idle"
  BY <1>1 DEF Idle, IoState, Places, Sizes
<1>6. source \in SourceState
  BY <1>1, ClientAssumption DEF NoSource, SourceState, SourcedCounts
<1>7. ren \in RenState /\ ~ren.alive
  <2>1. NewRenderer \in RenState
    BY DEF NewRenderer, RenState, Sizes, Writings
  <2> QED
    BY <1>1, <2>1 DEF RenState
<1>8. tasks \in Seq({"write", "reset"})
  BY <1>1
<1>9. Typed
  BY <1>2, <1>4, <1>5, <1>6, <1>7, <1>8 DEF Typed
<1>10. Lives
  <2>1. "video" \in Generators /\ "stats" \in Generators /\ \A g \in Generators : ~InTask(g)
    BY <1>5 DEF Generators, InTask
  <2> QED
    BY <1>3, <1>4, <1>5, <2>1 DEF Lives
<1>11. Unborn
  BY <1>1, <1>7 DEF Unborn
<1>12. Dumps /\ Whole
  BY <1>5, <1>7 DEF Dumps, Whole
<1> QED
  BY <1>9, <1>10, <1>11, <1>12

ClientInv == Typed /\ Lives /\ Unborn /\ Dumps /\ Whole

(* Types, lifetimes and the renderer's tasks, proved together.              *)
LEMMA ClientInvariant == Spec => []ClientInv
<1>1. ClientInv /\ [Next]_vars => ClientInv'
  BY TypedNext, LivesNext, UnbornNext, DumpsNext, WholeNext DEF ClientInv
<1>2. Init => ClientInv
  BY ClientInit DEF ClientInv
<1> QED
  BY <1>1, <1>2, PTL DEF Spec

(* Whatever the configuration, the ends it comes to and the pace of the     *)
(* threads: tasks of a generator run only while the source, the stream and  *)
(* the collector they point to exist.                                       *)
THEOREM ThreadsUseTheLiving == Spec => []UsesTheLiving
<1>1. ClientInv => UsesTheLiving
  <2> SUFFICES ASSUME ClientInv PROVE UsesTheLiving
    OBVIOUS
  <2>1. ClientTypeOK
    BY DEF ClientInv, Typed, ClientTypeOK, GenState, IoState, SourceState, RenState, Places, Timers,
      Sizes, SourcedCounts
  <2>2. TasksOnLiving
    <3>1. "video" \in Generators /\ "stats" \in Generators
      BY DEF Generators
    <3> QED
      BY <3>1 DEF ClientInv, Lives, TasksOnLiving
  <2> QED
    BY <2>1, <2>2 DEF UsesTheLiving
<1> QED
  BY <1>1, ClientInvariant, PTL

(* Whatever the resolutions of the frames and the pace of the threads: no   *)
(* write finds the sink gone, and until the first change of resolution each *)
(* is from a living frame to the sink of its resolution, without a fault of *)
(* the renderer.                                                            *)
THEOREM RendererServes == Spec => []SinkServes
<1>1. ClientInv => SinkServes
  <2> SUFFICES ASSUME ClientInv PROVE SinkServes
    OBVIOUS
  <2>1. WritesToOpenSink
    BY DEF ClientInv, Dumps, WritesToOpenSink
  <2>2. DumpsToOneSink
    <3> SUFFICES ASSUME ren.alive, ren.isDumping, io.at # "close"
                 PROVE  /\ fault = "none" /\ ren.writing \in {"no", "sound"}
                        /\ tasks # <<>> => ren.sink = ren.res
                        /\ \A i \in DOMAIN tasks : tasks[i] = "write"
      BY DEF DumpsToOneSink
    <3>1. /\ fault = "none" /\ ren.writing \in {"no", "sound"} /\ ren.sink \in {0, ren.res}
          /\ ren.sink = 0 => tasks = <<>>
      BY DEF ClientInv, Whole
    <3>2. \A i \in DOMAIN tasks : tasks[i] \in {"write", "reset"} /\ tasks[i] # "reset"
      BY DEF ClientInv, Typed, Dumps
    <3> QED
      BY <3>1, <3>2
  <2> QED
    BY <2>1, <2>2 DEF SinkServes
<1> QED
  BY <1>1, ClientInvariant, PTL

-----------------------------------------------------------------------------
(* The pace of the generators *)

(* Schedules is kept: a generator's lag and drift change in its own task    *)
(* only.                                                                    *)
LEMMA SchedulesNext == Typed /\ Lives /\ Schedules /\ [Next]_vars => Schedules'
<1> SUFFICES ASSUME Typed, Lives, Schedules, [Next]_vars,
                    NEW g \in Generators, (gen[g].timer # "off" \/ InTask(g))'
             PROVE  Paced(g)'
  BY DEF Schedules
<1>0. gen \in [Generators -> GenState] /\ gen[g] \in GenState /\ io \in IoState
      /\ "video" \in Generators /\ "stats" \in Generators /\ "deliver" \in Places /\ "reopen" \in Places
      /\ "source" \in Places
  BY DEF Typed, Generators, Places
<1>1. ASSUME gen'[g].lag = gen[g].lag, gen'[g].interval = gen[g].interval, gen'[g].drift = gen[g].drift,
             Paced(g)
      PROVE  Paced(g)'
  BY <1>1 DEF Paced
<1>2. ASSUME gen' = gen, InTask(g)' => InTask(g) PROVE Paced(g)'
  BY <1>2 DEF Schedules, Paced
<1>3. ASSUME NEW h \in Generators, OnFire(h) PROVE Paced(g)'
  <2>1. gen[h].timer = "expired" /\ gen' = [gen EXCEPT ![h].timer = "off"] /\ io.at = "idle"
        /\ io' = (IF gen[h].running
                  THEN [Idle EXCEPT !.at = IF h = "video" THEN "source" ELSE "query"] ELSE io)
    BY <1>3 DEF OnFire, IoRuns
  <2>2. gen'[g].lag = gen[g].lag /\ gen'[g].interval = gen[g].interval /\ gen'[g].drift = gen[g].drift
    BY <1>0, <2>1 DEF GenState
  <2>3. g # h => gen'[g] = gen[g] /\ ~InTask(g)'
    BY <1>0, <2>1 DEF InTask, Idle, Generators
  <2>4. gen[g].timer # "off"
    BY <2>1, <2>3
  <2> QED
    BY <1>1, <2>2, <2>4 DEF Schedules
<1>4. ASSUME NEW h \in Generators, Expire(h) PROVE Paced(g)'
  <2>1. gen[h].timer = "armed" /\ gen' = [gen EXCEPT ![h].timer = "expired"] /\ io' = io
    BY <1>4 DEF Expire
  <2>2. gen'[g].lag = gen[g].lag /\ gen'[g].interval = gen[g].interval /\ gen'[g].drift = gen[g].drift
    BY <1>0, <2>1 DEF GenState
  <2>3. g # h => gen'[g] = gen[g]
    BY <1>0, <2>1
  <2>4. InTask(g)' => InTask(g)
    BY <2>1 DEF InTask
  <2>5. gen[g].timer # "off" \/ InTask(g)
    BY <2>1, <2>3, <2>4
  <2> QED
    BY <1>1, <2>2, <2>5 DEF Schedules
<1>5. ASSUME NEW h \in Generators, NEW late \in Lateness[h], InTask(h), gen' = setupTimer(h, late), io' = Idle
      PROVE  Paced(g)'
  <2>1. CASE g = h
    <3>1. Paced(h)
      BY <1>5 DEF Schedules
    <3> QED
      BY <1>0, <1>5, <2>1, <3>1, SetupTimer DEF Paced
  <2>2. CASE g # h
    <3>1. gen'[g] = gen[g]
      BY <1>0, <1>5, <2>2, SetupTimer
    <3>2. ~InTask(g)'
      BY <1>5 DEF InTask, Idle
    <3> QED
      BY <1>1, <3>1, <3>2 DEF Schedules
  <2> QED
    BY <2>1, <2>2
<1>6. ASSUME NEW late \in Lateness["video"], DeliverFrame(late) PROVE Paced(g)'
  <2>1. InTask("video") /\ gen' = setupTimer("video", late) /\ io' = Idle
    BY <1>6 DEF DeliverFrame, IoRuns, InTask
  <2> QED
    BY <1>0, <1>5, <2>1
<1>7. ASSUME NEW late \in Lateness["stats"], QueryStats(late) PROVE Paced(g)'
  <2>1. InTask("stats") /\ gen' = setupTimer("stats", late) /\ io' = Idle
    BY <1>7 DEF QueryStats, IoRuns, InTask
  <2> QED
    BY <1>0, <1>5, <2>1
<1>8. ASSUME NEW h \in Generators, gen' = stopGenerator(h), io' = io PROVE Paced(g)'
  <2>1. gen'[g].lag = gen[g].lag /\ gen'[g].interval = gen[g].interval /\ gen'[g].drift = gen[g].drift
        /\ (gen'[g].timer # "off" => gen[g].timer # "off")
    BY <1>0, <1>8, StopGenerator
  <2>2. InTask(g)' => InTask(g)
    BY <1>8 DEF InTask
  <2> QED
    BY <1>1, <2>1, <2>2 DEF Schedules
<1>9. CASE StopStats \/ DropStats \/ StopSource \/ DestroyClient
  <2>1. io' = io /\ (gen' = stopGenerator("stats") \/ gen' = stopGenerator("video"))
    BY <1>9 DEF StopStats, DropStats, StopSource, DestroyClient
  <2> QED
    BY <1>0, <1>8, <2>1
<1>10. CASE SetupProducer \/ SetupStatGathering
  <2>1. io' = io /\ (gen' = gen \/ \E h \in Generators : gen' = [gen EXCEPT ![h] = startGenerator(h)])
    BY <1>0, <1>10 DEF SetupProducer, SetupStatGathering
  <2>2. InTask(g)' => InTask(g)
    BY <2>1 DEF InTask
  <2>3. ASSUME NEW h \in Generators, gen' = [gen EXCEPT ![h] = startGenerator(h)] PROVE Paced(g)'
    <3>1. CASE g = h
      <4>1. gen'[g] = startGenerator(g)
        BY <1>0, <2>3, <3>1
      <4> DEFINE s == startGenerator(g)
      <4>2. s \in GenState /\ s.drift + s.interval = Interval[g] + s.lag /\ s.lag > -Ms /\ s.lag < Ms
        BY StartGenerator
      <4> HIDE DEF s
      <4>3. s.lag \in Int /\ Ms \in Nat
        BY <4>2, ClientAssumption DEF GenState
      <4>4. ~(s.lag >= Ms)
        BY <4>2, <4>3
      <4> QED
        BY <4>1, <4>2, <4>4 DEF Paced, s
    <3>2. CASE g # h
      <4>1. gen'[g] = gen[g]
        BY <1>0, <2>3, <3>2
      <4> QED
        BY <1>1, <2>2, <4>1 DEF Schedules
    <3> QED
      BY <3>1, <3>2
  <2> QED
    BY <1>2, <2>1, <2>2, <2>3
<1>11. ASSUME gen' = gen, ~\E h \in Generators : OnFire(h) PROVE Paced(g)'
  <2>1. InTask(g)' => InTask(g)
    <3>1. CASE UNCHANGED io
      BY <3>1 DEF InTask
    <3>2. CASE SourceFrame \/ ReadPipe \/ ReopenReadPipe
      <4>1. io.at \in {"source", "reopen"}
            /\ \/ io' = io \/ io' = [io EXCEPT !.at = "deliver"]
               \/ io' = [io EXCEPT !.at = "source"] \/ io' = [io EXCEPT !.at = "reopen"]
        BY <3>2 DEF SourceFrame, ReadPipe, ReopenReadPipe, IoRuns
      <4>2. io' = io \/ io'.at \in {"source", "reopen", "deliver"}
        BY <1>0, <4>1 DEF IoState
      <4> QED
        BY <4>1, <4>2 DEF InTask
    <3>3. CASE ResizeFrame \/ CloseSink \/ OpenSink \/ LogSink \/ RenderFrame \/ IoEnds \/ RenderFreed
      <4>0. \/ io' = io \/ io' = Idle \/ io' = [Idle EXCEPT !.at = "ended"]
            \/ io' = [io EXCEPT !.at = "open"] \/ io' = [io EXCEPT !.at = "log"]
            \/ io' = [io EXCEPT !.at = "render"] \/ io' = [io EXCEPT !.at = "close"]
        BY <3>3 DEF ResizeFrame, CloseSink, OpenSink, LogSink, RenderFrame, IoEnds, RenderFreed
      <4>1. io' = io \/ io'.at \in NoTasks
        BY <1>0, <4>0 DEF NoTasks, IoState, Idle
      <4> QED
        BY <4>1 DEF InTask, NoTasks, Generators
    <3>4. ASSUME NEW late, DeliverFrame(late) \/ QueryStats(late) PROVE ~InTask(g)'
      BY <3>4 DEF DeliverFrame, QueryStats, InTask, Idle
    <3>5. ASSUME NEW res \in Resolutions, GetFrameBuffer(res) PROVE io' = io \/ ~InTask(g)'
      BY <3>5 DEF GetFrameBuffer, InTask
    <3>6. io' = io => (InTask(g)' => InTask(g))
      BY DEF InTask
    <3> QED
      BY <1>11, <3>1, <3>2, <3>3, <3>4, <3>5, <3>6, Changes
  <2> QED
    BY <1>2, <1>11, <2>1
<1> QED
  BY <1>3, <1>4, <1>6, <1>7, <1>9, <1>10, <1>11, Changes
-----------------------------------------------------------------------------
(* The order of the frames of a file *)

(* Multiples *)
LEMMA Multiples ==
  ASSUME NEW n \in Nat, n > 0, NEW q \in Nat
  PROVE  /\ n * q \in Nat
         /\ n * (q + 1) = n * q + n
         /\ (n * q) \div n = q
         /\ \A m \in Nat : q < m => n * q + n <= n * m
<1>1. n * q \in Nat /\ n * (q + 1) = n * q + n
  OBVIOUS
<1>2. (n * q) \div n = q
  OBVIOUS
<1>3. ASSUME NEW m \in Nat, q < m PROVE n * q + n <= n * m
  <2>1. m - (q + 1) \in Nat
    BY <1>3
  <2>2. n * (m - (q + 1)) >= 0
    BY <2>1
  <2>3. n * (m - (q + 1)) = n * m - n * (q + 1)
    OBVIOUS
  <2> DEFINE a == n * (m - (q + 1))
             b == n * m
             c == n * (q + 1)
             d == n * q
  <2>4. a >= 0 /\ a = b - c /\ c = d + n /\ b \in Int /\ c \in Int /\ d \in Int
    BY <1>1, <2>2, <2>3
  <2> HIDE DEF a, b, c, d
  <2>5. d + n <= b
    BY <2>4
  <2> QED
    BY <2>5 DEF b, d
<1> QED
  BY <1>1, <1>2, <1>3

(* What is left of k whole passes and r more *)
LEMMA Remainder ==
  ASSUME NEW n \in Nat, n > 0, NEW k \in Nat, NEW r \in Nat, r < n
  PROVE  (k * n + r) % n = r
<1> DEFINE x == k * n + r
           d == x \div n
           m == x % n
<1>1. x \in Nat /\ k * n \in Nat /\ k * n = n * k
  OBVIOUS
<1>2. d \in Nat /\ x = n * d + m /\ m \in Nat /\ m < n
  BY <1>1
<1> HIDE DEF d, m
<1>3. ~(d < k)
  <2> SUFFICES ASSUME d < k PROVE FALSE
    OBVIOUS
  <2>1. n * d + n <= n * k
    BY <1>2, Multiples
  <2> DEFINE a == n * d
             b == n * k
  <2>2. a + n <= b /\ x = a + m /\ x = b + r /\ a \in Nat /\ b \in Nat
    BY <1>1, <1>2, <2>1, Multiples
  <2> HIDE DEF a, b, x
  <2> QED
    BY <1>2, <2>2
<1>4. ~(k < d)
  <2> SUFFICES ASSUME k < d PROVE FALSE
    OBVIOUS
  <2>1. n * k + n <= n * d
    BY <1>2, Multiples
  <2> DEFINE a == n * d
             b == n * k
  <2>2. b + n <= a /\ x = a + m /\ x = b + r /\ a \in Nat /\ b \in Nat
    BY <1>1, <1>2, <2>1, Multiples
  <2> HIDE DEF a, b, x
  <2> QED
    BY <1>2, <2>2
<1>5. d = k
  BY <1>2, <1>3, <1>4
<1>6. n * k + r = n * k + m
  BY <1>1, <1>2, <1>5
<1>7. m = r
  <2> DEFINE b == n * k
  <2>1. b + r = b + m /\ b \in Nat
    BY <1>1, <1>6
  <2> HIDE DEF b
  <2> QED
    BY <1>2, <2>1
<1> QED
  BY <1>7 DEF m
(* The frames that were read in this pass and the passes before it *)
Read(s, k, q) ==
  /\ s.pos = FrameSize * q
  /\ s.framesSourced = k * Frames + q
  /\ s.framesSourced > 0 => q > 0 /\ s.frame = q
  /\ s.eof => q = Frames

(* One pass of the loop of sourceFrame reads the next frame, or the first   *)
(* one again.                                                               *)
LEMMA SourceFrameReads ==
  ASSUME Typed, SourceFrame, Frames \in Nat, Frames > 0, params.size = FrameSize * Frames,
         NEW k \in Nat, NEW q \in 0..Frames, Read(source, k, q)
  PROVE  \E i \in Nat, j \in 0..Frames :
           /\ source'.pos = FrameSize * j
           /\ source'.framesSourced = i * Frames + j
           /\ source'.framesSourced > 0 => j > 0 /\ source'.frame = j
           /\ source'.eof => j = Frames
<1> DEFINE n == FrameSize
           F == Frames
           s == IF source.eof THEN rewind(source) ELSE source
           r == readFile(s)
<1>1. n \in Nat /\ n > 0 /\ F \in Nat /\ F > 0 /\ source \in SourceState /\ params.size = n * F
  BY ClientAssumption DEF Typed
<1>2. source' = IF r.eof THEN r ELSE [r EXCEPT !.framesSourced = @ + 1]
  BY DEF SourceFrame
<1> DEFINE p == IF source.eof THEN 0 ELSE q
           c == IF source.eof THEN k + 1 ELSE k
<1>3. /\ s \in SourceState /\ ~s.eof /\ s.pos = n * p /\ s.framesSourced = source.framesSourced
      /\ s.frame = source.frame /\ p \in 0..F /\ c \in Nat
      /\ s.framesSourced = c * F + p
      /\ s.framesSourced > 0 => s.frame = q /\ q > 0 /\ (p = q \/ p = 0)
  <2>1. CASE source.eof
    <3>1. q = F /\ source.framesSourced = k * F + F
      BY <2>1 DEF Read
    <3>2. (k + 1) * F + 0 = k * F + F
      BY <1>1
    <3>3. n * 0 = 0
      BY <1>1
    <3>4. s = [source EXCEPT !.pos = 0, !.eof = FALSE]
      BY <2>1 DEF rewind
    <3>5. /\ s \in SourceState /\ s.pos = 0 /\ s.eof = FALSE /\ s.framesSourced = source.framesSourced
          /\ s.frame = source.frame
      <4> DEFINE z == 0
      <4>1. s = [source EXCEPT !.pos = z, !.eof = FALSE] /\ z \in Nat
        BY <3>4
      <4> HIDE DEF s, z
      <4>2. s \in SourceState /\ s.pos = z /\ s.eof = FALSE /\ s.framesSourced = source.framesSourced
            /\ s.frame = source.frame
        BY <1>1, <4>1 DEF SourceState
      <4> QED
        BY <4>2 DEF z
    <3>6. p = 0 /\ c = k + 1 /\ c \in Nat /\ p \in 0..F
      BY <1>1, <2>1
    <3>7. source.framesSourced > 0 => source.frame = q /\ q > 0
      BY DEF Read
    <3> HIDE DEF s, p, c
    <3> QED
      BY <3>1, <3>2, <3>3, <3>5, <3>6, <3>7
  <2>2. CASE ~source.eof
    BY <1>1, <2>2 DEF Read
  <2> QED
    BY <2>1, <2>2
<1> HIDE DEF s, p, c
<1>4. n * p \in Nat /\ n * (p + 1) = n * p + n /\ (n * p) \div n = p /\ (p < F => n * p + n <= n * F)
  BY <1>1, <1>3, Multiples
<1>5. CASE p < F
  <2> DEFINE pos == s.pos + n
             frame == (s.pos \div n) + 1
             count == s.framesSourced + 1
             j == p + 1
  <2>1. pos <= params.size /\ pos = n * j /\ frame = j
    BY <1>1, <1>3, <1>4, <1>5
  <2>2. count = c * F + j
    BY <1>1, <1>3
  <2>3. j \in 0..F /\ j > 0
    BY <1>1, <1>3, <1>5
  <2>4. r = [s EXCEPT !.pos = pos, !.frame = frame]
    BY <2>1 DEF readFile
  <2> HIDE DEF pos, frame, r, j
  <2>5. r.eof = FALSE /\ r.pos = pos /\ r.frame = frame /\ r.framesSourced = s.framesSourced
    BY <1>3, <2>4 DEF SourceState
  <2>6. source' = [r EXCEPT !.framesSourced = count]
    BY <1>2, <2>5
  <2> HIDE DEF count
  <2>7. source'.eof = FALSE /\ source'.pos = pos /\ source'.frame = frame /\ source'.framesSourced = count
    BY <1>3, <2>4, <2>6 DEF SourceState
  <2>8. /\ source'.pos = n * j /\ source'.framesSourced = c * F + j /\ source'.frame = j
        /\ (source'.eof => j = F)
    BY <2>1, <2>2, <2>7
  <2> QED
    BY <1>3, <2>3, <2>8
<1>6. CASE p = F
  <2>1. ~(s.pos + n <= params.size)
    <3> DEFINE x == n * F
    <3>1. s.pos = x /\ params.size = x /\ x \in Nat
      BY <1>1, <1>3, <1>4, <1>6
    <3> HIDE DEF x
    <3> QED
      BY <1>1, <3>1
  <2>2. r = [s EXCEPT !.eof = TRUE]
    BY <2>1 DEF readFile
  <2> HIDE DEF r
  <2>3. r.eof /\ r.pos = s.pos /\ r.frame = s.frame /\ r.framesSourced = s.framesSourced
    BY <1>3, <2>2 DEF SourceState
  <2>4. source' = r
    BY <1>2, <2>3
  <2>5. s.framesSourced > 0 => s.frame = p /\ p > 0
    BY <1>1, <1>3, <1>6
  <2>6. /\ source'.pos = n * p /\ source'.framesSourced = c * F + p
        /\ (source'.framesSourced > 0 => p > 0 /\ source'.frame = p) /\ (source'.eof => p = F)
    BY <1>3, <1>6, <2>3, <2>4, <2>5
  <2> QED
    BY <1>3, <2>6
<1> QED
  BY <1>1, <1>3, <1>5, <1>6

(* Passes is kept: a file is read frame by frame, then from its beginning   *)
(* again.                                                                   *)
LEMMA PassesNext == Typed /\ Lives /\ Passes /\ [Next]_vars => Passes'
<1> SUFFICES ASSUME Typed, Lives, Passes, [Next]_vars PROVE Passes'
  OBVIOUS
<1>1. params' = params /\ Frames' = Frames /\ source \in SourceState
  BY Changes DEF Frames, Typed
<1> SUFFICES ASSUME params.source = "file", Frames > 0
             PROVE  \E k \in Nat, q \in 0..Frames :
                      /\ source'.pos = FrameSize * q
                      /\ source'.framesSourced = k * Frames + q
                      /\ source'.framesSourced > 0 => q > 0 /\ source'.frame = q
                      /\ source'.eof => q = Frames
  BY <1>1 DEF Passes
<1>2. PICK k \in Nat, q \in 0..Frames : Read(source, k, q)
  BY DEF Passes, Read
<1>3. CASE SourceFrame
  <2>1. gen["video"].running
    <3>1. InTask("video") /\ "video" \in Generators
      BY <1>3 DEF SourceFrame, IoRuns, InTask, Generators
    <3> QED
      BY <3>1 DEF Lives
  <2>2. params.size % FrameSize = 0 /\ params.size \in Nat /\ FrameSize \in Nat /\ FrameSize > 0
    BY <2>1, ClientAssumption DEF Lives, checkSourceForFrame, Typed
  <2>3. Frames \in Nat /\ params.size = FrameSize * Frames
    BY <2>2 DEF Frames
  <2> QED
    BY <1>2, <1>3, <2>3, SourceFrameReads
<1>4. ASSUME source'.pos = source.pos, source'.framesSourced = source.framesSourced,
             source'.frame = source.frame, source'.eof = source.eof
      PROVE  Read(source', k, q)
  BY <1>2, <1>4 DEF Read
<1>5. CASE UNCHANGED source
  BY <1>2, <1>5 DEF Read
<1>6. CASE ClearLocal \/ DestroyClient
  <2>1. source' = [source EXCEPT !.alive = FALSE]
    BY <1>6 DEF ClearLocal, DestroyClient
  <2>2. /\ source'.pos = source.pos /\ source'.framesSourced = source.framesSourced
        /\ source'.frame = source.frame /\ source'.eof = source.eof
    BY <1>1, <2>1 DEF SourceState
  <2> QED
    BY <1>2, <1>4, <2>2 DEF Read
<1>7. CASE SetupProducer
  <2>1. source' = source \/ source' = [NoSource EXCEPT !.alive = TRUE]
    BY <1>7 DEF SetupProducer
  <2>2. CASE source' = [NoSource EXCEPT !.alive = TRUE]
    <3>1. source'.pos = 0 /\ source'.framesSourced = 0 /\ source'.eof = FALSE
      BY <2>2 DEF NoSource
    <3>2. Frames \in Nat /\ FrameSize \in Nat
      BY ClientAssumption DEF Typed, Frames
    <3>3. FrameSize * 0 = 0 /\ 0 * Frames + 0 = 0 /\ 0 \in 0..Frames /\ ~(0 > 0) /\ 0 \in Nat
      BY <3>2
    <3> QED
      BY <3>1, <3>3
  <2> QED
    BY <1>5, <2>1, <2>2
<1>8. CASE ReadPipe
  BY <1>8 DEF ReadPipe
<1> QED
  BY <1>3, <1>5, <1>6, <1>7, <1>8, Changes

PaceInv == ClientInv /\ Schedules /\ Passes

(* Schedules and passes hold in every state.                                *)
LEMMA PaceInvariant == Spec => []PaceInv
<1>1. PaceInv /\ [Next]_vars => PaceInv'
  BY TypedNext, LivesNext, UnbornNext, DumpsNext, WholeNext, SchedulesNext, PassesNext DEF PaceInv, ClientInv
<1>2. Init => PaceInv
  <2> SUFFICES ASSUME Init PROVE Schedules /\ Passes
    BY ClientInit DEF PaceInv, ClientInv
  <2>1. \A g \in Generators : gen[g].timer = "off" /\ ~InTask(g)
    BY DEF Init, NewGenerator, InTask, Idle
  <2>2. source.pos = 0 /\ source.framesSourced = 0 /\ source.eof = FALSE
    BY DEF Init, NoSource
  <2>3. Frames \in Nat /\ FrameSize \in Nat
    <3>1. params.size \in Nat
      BY ClientInit DEF Typed
    <3> QED
      BY <3>1, ClientAssumption DEF Frames
  <2>4. FrameSize * 0 = 0 /\ 0 * Frames + 0 = 0 /\ 0 \in 0..Frames /\ ~(0 > 0) /\ 0 \in Nat
    BY <2>3
  <2> QED
    BY <2>1, <2>2, <2>4 DEF Schedules, Passes
<1> QED
  BY <1>1, <1>2, PTL DEF Spec

(* Frames are sourced at the pace of the generator, whatever its interval   *)
(* and however late the thread is, and in the order of the file, from its   *)
(* first frame again after the last.                                        *)
THEOREM FramesOnPace == Spec => []SourcesOnPace
<1>1. PaceInv => SourcesOnPace
  <2> SUFFICES ASSUME PaceInv PROVE SourcesOnPace
    OBVIOUS
  <2>1. OnPace
    BY DEF PaceInv, Schedules, OnPace, Paced
  <2>2. SourcedInOrder
    <3> SUFFICES ASSUME params.source = "file", Frames > 0, source.framesSourced > 0
                 PROVE  source.frame = ((source.framesSourced - 1) % Frames) + 1
      BY DEF SourcedInOrder
    <3> DEFINE F == Frames
    <3>1. F \in Nat /\ F > 0
      BY ClientAssumption DEF PaceInv, ClientInv, Typed, Frames
    <3>2. PICK k \in Nat, q \in 0..Frames :
            source.framesSourced = k * Frames + q /\ q > 0 /\ source.frame = q
      BY DEF PaceInv, Passes
    <3> HIDE DEF F
    <3>3. q \in Nat /\ q - 1 \in Nat /\ q - 1 < F /\ k * F \in Nat
      BY <3>1, <3>2 DEF F
    <3>4. source.framesSourced - 1 = k * F + (q - 1)
      <4> DEFINE x == k * F
      <4>1. source.framesSourced = x + q /\ x \in Nat
        BY <3>2, <3>3 DEF F
      <4> HIDE DEF x
      <4>2. source.framesSourced - 1 = x + (q - 1)
        BY <3>3, <4>1
      <4> QED
        BY <4>2 DEF x
    <3>5. (k * F + (q - 1)) % F = q - 1
      BY <3>1, <3>3, Remainder
    <3>6. (source.framesSourced - 1) % F = q - 1
      BY <3>4, <3>5
    <3>7. ((source.framesSourced - 1) % F) + 1 = q
      BY <3>3, <3>6
    <3> QED
      BY <3>2, <3>7 DEF F
  <2> QED
    BY <2>1, <2>2 DEF SourcesOnPace
<1> QED
  BY <1>1, PaceInvariant, PTL
=============================================================================
