---------------------------- MODULE RemoteStream ----------------------------
(***************************************************************************)
(* The life of a remote stream (remote-stream-impl.cpp,                    *)
(* remote-video-stream.cpp, remote-audio-stream.cpp): its metadata is      *)
(* fetched segment by segment (segment-fetcher.cpp, meta-fetcher.cpp),     *)
(* first that of the stream, then that of each of its threads; the user    *)
(* may start and stop it at any time, and a start waits for the metadata.  *)
(*                                                                         *)
(* Every step is a callback or a call on the io_service thread.  A segment *)
(* is <<version, number>>.  Objects created for a session are numbered by  *)
(* the session, so that an observer list shows whether what it refers to   *)
(* still exists.                                                           *)
(***************************************************************************)
EXTENDS Integers, Sequences, FiniteSets

CONSTANTS
  Threads,      \* media threads of the stream, as numbers in the order of their names
  Unknown,      \* a thread name that the stream does not have
  Kinds,        \* "audio", "live" and "seed" (playback-driven video)
  Versions,     \* versions of a metadata packet that may be in caches
  Segments,     \* number of segments of each version
  MaxFailures,  \* bound on time-outs and malformed answers
  MaxSessions   \* bound on successful starts

ASSUME StreamAssumption ==
  /\ Threads \subseteq Nat \ {0} /\ Threads # {} /\ IsFiniteSet(Threads)
  /\ Unknown \in Nat \ (Threads \cup {0})
  /\ Kinds \subseteq {"audio", "live", "seed"}
  /\ Versions \subseteq Nat \ {0} /\ Versions # {}
  /\ Segments \in [Versions -> Nat \ {0}]
  /\ MaxFailures \in Nat /\ MaxSessions \in Nat

VARIABLES
  kind,         \* which class of stream
  stream,       \* needMeta_, isRunning_, cuedToRun_, threadName_ (0: empty), released by its user
  pending,      \* MetaFetcher::isPending_
  fetch,        \* the SegmentFetcher at work for each metadata packet
  streamMeta,   \* segments that streamMeta_ was made of
  threadsMeta,  \* those of each thread of threadsMeta_
  pc,           \* session whose PipelineControl pipelineControl_ holds (0: none)
  session,      \* history: number of sessions so far
  attached,     \* observers by the component that informs them
  failures      \* history: failed fetches so far

vars == <<kind, stream, pending, fetch, streamMeta, threadsMeta, pc, session, attached, failures>>

Names == Threads \cup {0}   \* 0: the metadata of the stream itself
Nothing == <<>>
NoFetch == [active |-> FALSE, version |-> 0, want |-> 0, parts |-> <<>>]

-----------------------------------------------------------------------------
(* SegmentFetcher *)

(* fetchFirstSegment: any version, any segment *)
firstSegment == [active |-> TRUE, version |-> 0, want |-> 0, parts |-> <<>>]

(* What the network may answer to the Interest of a fetcher. *)
Answers(f) ==
  IF f.version = 0 THEN {<<v, s>> : v \in Versions, s \in 0..2}
  ELSE {<<f.version, f.want>>}

Published(d) == d[2] < Segments[d[1]]

(* Fault: the next segment is asked for without the version. *)
fetchNextUnversioned(f, d, n) == [f EXCEPT !.want = n]

(* fetchNextSegment: of the version of the segment at hand *)
fetchNextSegment(f, d, n) == [f EXCEPT !.version = d[1], !.want = n]

(* processSegment: a segment out of turn is dropped and the right one asked for. *)
isExpected(f, d) == d[2] = Len(f.parts)
isFinal(d) == d[2] = Segments[d[1]] - 1
processSegment(f, d) ==
  IF isExpected(f, d)
  THEN fetchNextSegment([f EXCEPT !.parts = Append(@, d)], d, d[2] + 1)
  ELSE fetchNextSegment(f, d, Len(f.parts))

-----------------------------------------------------------------------------
(* RemoteStreamImpl, RemoteVideoStreamImpl, RemoteAudioStreamImpl *)

Init ==
  /\ kind \in Kinds
  /\ stream \in [needMeta : {TRUE}, running : {FALSE}, cued : {FALSE}, released : {FALSE},
                 thread : IF kind = "seed" THEN Threads \cup {Unknown} ELSE {0}]
  /\ pending = TRUE
  /\ fetch = [n \in Names |-> IF n = 0 THEN firstSegment ELSE NoFetch]
  /\ streamMeta = Nothing
  /\ threadsMeta = [t \in Threads |-> Nothing]
  /\ pc = 0 /\ session = 0 /\ failures = 0
  /\ attached = [segments |-> {}, rtx |-> {}, latency |-> {}, playback |-> {}]

Known(meta) == {t \in Threads : meta[t] # Nothing}

(* setupPipelineControl: the PipelineControl of session n is attached to    *)
(* the segment, retransmission and latency controllers, the playout control *)
(* of audio and the observer of video to the queue, playout or buffer.      *)
setupPipelineControl(a, n) ==
  [segments |-> a.segments \cup {n}, rtx |-> a.rtx \cup {n},
   latency |-> {n}, playback |-> a.playback \cup {n}]

(* Fault: the controllers keep the released PipelineControl. *)
releasePipelineControlHalf(a, p) == [a EXCEPT !.latency = {}, !.playback = {}]

(* releasePipelineControl; the retransmission controller is not told. *)
releasePipelineControl(a, p) ==
  [a EXCEPT !.segments = @ \ {p}, !.latency = {}, !.playback = @ \ {session}]

(* initiateFetching with the thread asked for; a thread that the stream     *)
(* does not have is an exception.                                           *)
initiateFetching(s, meta) ==
  LET first == CHOOSE t \in Known(meta) : \A u \in Known(meta) : t <= u
      thread == IF s.thread = 0 THEN first ELSE s.thread
  IN IF thread \notin Known(meta)
     THEN stream' = s /\ UNCHANGED <<pc, session, attached>>
     ELSE /\ session < MaxSessions
          /\ session' = session + 1 /\ pc' = session'
          /\ stream' = [s EXCEPT !.running = TRUE, !.thread = thread]
          /\ attached' = setupPipelineControl(attached, session')

(* start, of a stream that is not running (an exception otherwise) *)
Start(t) ==
  /\ ~stream.running /\ ~stream.released
  /\ t \in IF kind = "seed" THEN {stream.thread} ELSE Threads \cup {Unknown, 0}
  /\ LET s == [stream EXCEPT !.cued = TRUE, !.thread = t]
     IN IF s.needMeta THEN stream' = s /\ UNCHANGED <<pc, session, attached>>
        ELSE initiateFetching(s, threadsMeta)
  /\ UNCHANGED <<kind, pending, fetch, streamMeta, threadsMeta, failures>>

(* setThread: the running session stays with its thread. *)
SetThread(t) ==
  /\ ~stream.released
  /\ stream' = [stream EXCEPT !.thread = t]
  /\ UNCHANGED <<kind, pending, fetch, streamMeta, threadsMeta, pc, session, attached, failures>>

(* stopFetching.  Releasing happens whether or not the stream was running;  *)
(* video drops its PipelineControl, audio keeps it until the next session.  *)
stopFetching(s) ==
  /\ stream' = [s EXCEPT !.running = FALSE, !.needMeta = @ /\ ~s.running]
  /\ pc' = IF kind = "audio" THEN pc ELSE 0
  /\ attached' = releasePipelineControl(attached, pc)

(* The playout of a playback-driven stream detaches its observer without    *)
(* looking whether it is attached: such a stream is stopped while running.  *)
Stop ==
  /\ ~stream.released
  /\ kind = "seed" => stream.running
  /\ stopFetching([stream EXCEPT !.cued = FALSE])
  /\ UNCHANGED <<kind, pending, fetch, streamMeta, threadsMeta, session, failures>>

(* streamMetaFetched: all threads' metadata is asked for. *)
streamMetaFetched(parts) ==
  /\ streamMeta' = parts /\ pending' = TRUE
  /\ fetch' = [n \in Names |-> IF n = 0 THEN NoFetch ELSE firstSegment]
  /\ UNCHANGED <<stream, threadsMeta, pc, session, attached>>

(* Fault: a start that waits is forgotten. *)
threadMetaFetchedOnly(t, parts) ==
  /\ threadsMeta' = [threadsMeta EXCEPT ![t] = parts]
  /\ fetch' = [fetch EXCEPT ![t] = NoFetch] /\ pending' = FALSE
  /\ stream' = [stream EXCEPT !.needMeta = @ /\ Known(threadsMeta') # Threads]
  /\ UNCHANGED <<streamMeta, pc, session, attached>>

(* threadMetaFetched: with the last thread a start that waits is made up for. *)
threadMetaFetched(t, parts) ==
  /\ threadsMeta' = [threadsMeta EXCEPT ![t] = parts]
  /\ fetch' = [fetch EXCEPT ![t] = NoFetch] /\ pending' = FALSE
  /\ IF Known(threadsMeta') # Threads THEN UNCHANGED <<stream, pc, session, attached>>
     ELSE LET s == [stream EXCEPT !.needMeta = FALSE]
          IN IF s.cued /\ ~s.running THEN initiateFetching(s, threadsMeta')
             ELSE stream' = s /\ UNCHANGED <<pc, session, attached>>
  /\ UNCHANGED streamMeta

(* A segment arrives, verified or not: one that cannot be verified is noted *)
(* and processed all the same (onSegmentReceived, onVerifyFailed).          *)
OnSegmentReceived(n, d) ==
  /\ fetch[n].active /\ Published(d)
  /\ LET f == processSegment(fetch[n], d)
     IN IF ~isExpected(fetch[n], d) \/ ~isFinal(d)
        THEN /\ fetch' = [fetch EXCEPT ![n] = f]
             /\ UNCHANGED <<stream, pending, streamMeta, threadsMeta, pc, session, attached>>
        ELSE IF n = 0 THEN streamMetaFetched(f.parts) ELSE threadMetaFetched(n, f.parts)
  /\ UNCHANGED <<kind, failures>>

(* The error callbacks of MetaFetcher and of RemoteStreamImpl: isPending_   *)
(* is cleared before the stream looks at it.                                *)
onError(n) == IF stream.needMeta THEN firstSegment ELSE NoFetch

(* A time-out, or an answer without a segment number. *)
OnFetchError(n) ==
  /\ fetch[n].active /\ failures < MaxFailures
  /\ failures' = failures + 1
  /\ fetch' = [fetch EXCEPT ![n] = onError(n)]
  /\ pending' = stream.needMeta
  /\ UNCHANGED <<kind, stream, streamMeta, threadsMeta, pc, session, attached>>

(* ~RemoteStream: the user lets go of a stream that is not running; its     *)
(* fetchers live on, and a start that waits is still made up for.           *)
Release ==
  /\ ~stream.running /\ ~stream.released
  /\ stream' = [stream EXCEPT !.needMeta = FALSE, !.released = TRUE]
  /\ UNCHANGED <<kind, pending, fetch, streamMeta, threadsMeta, pc, session, attached, failures>>

Answer == \E n \in Names : \E d \in Answers(fetch[n]) : OnSegmentReceived(n, d)

(* Steps that leave the session's Interests alone; Stop flushes them. *)
StreamStep ==
  \/ Answer
  \/ \E n \in Names : OnFetchError(n)
  \/ \E t \in Threads \cup {Unknown, 0} : Start(t)
  \/ \E t \in Threads \cup {Unknown} : SetThread(t)
  \/ Release

Next == StreamStep \/ Stop

Spec == Init /\ [][Next]_vars

-----------------------------------------------------------------------------
(* Properties *)

(* Type correctness of the stream, its fetchers and its observers. *)
RSTypeOK ==
  /\ kind \in Kinds
  /\ stream \in [needMeta : BOOLEAN, running : BOOLEAN, cued : BOOLEAN,
                 released : BOOLEAN, thread : Threads \cup {Unknown, 0}]
  /\ stream.running => stream.cued /\ stream.thread # 0
  /\ pending \in BOOLEAN
  /\ \A n \in Names : fetch[n].active \in BOOLEAN /\ fetch[n].want \in Nat
  /\ pc \in 0..session /\ session \in 0..MaxSessions

Whole(parts) ==
  \E v \in Versions : parts = [i \in 1..Segments[v] |-> <<v, i - 1>>]

(* Metadata is put together from all segments of one version, in order,     *)
(* although versions are published meanwhile, the first answer may be any   *)
(* segment, and fetches fail half-way and are begun again. And as long as   *)
(* metadata is needed, a fetcher is at work for every packet that is        *)
(* missing: no failure ends the attempts, although one isPending_ flag      *)
(* stands for all fetchers.                                                 *)
MetaWholeOrAwaited ==
  /\ RSTypeOK
  /\ streamMeta # Nothing => Whole(streamMeta)
  /\ \A t \in Known(threadsMeta) : Whole(threadsMeta[t])
  /\ stream.needMeta =>
       IF streamMeta = Nothing THEN fetch[0].active
       ELSE \A t \in Threads : threadsMeta[t] = Nothing => fetch[t].active

(* The segment and latency controllers inform the PipelineControl of the    *)
(* session that runs, and nothing else: not one that stop() has released,   *)
(* not one of an earlier session, however starts and stops follow upon each *)
(* other and upon metadata.                                                 *)
InformsTheRunning ==
  /\ attached.segments = IF stream.running THEN {session} ELSE {}
  /\ attached.latency = attached.segments /\ attached.playback = attached.segments
  /\ stream.running => pc = session

(* "call is pended until metadata fetched completely and then, fetching is  *)
(* inititated" (remote-stream.hpp): a start is made up for, unless the user *)
(* stops or releases the stream or asks for a thread that it does not have. *)
PendedStartRuns ==
  stream.cued /\ stream.needMeta ~>
    \/ stream.running \/ ~stream.cued \/ stream.released
    \/ stream.thread = Unknown \/ session = MaxSessions
=============================================================================
