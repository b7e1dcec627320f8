------------------------- MODULE RemoteStream_proofs -------------------------
(***************************************************************************)
(* A remote stream informs the session that runs and no other, its         *)
(* metadata is whole or is being fetched, and its Interest queue is        *)
(* drained in the order of deadlines, for every number of threads, versions*)
(* and segments and whatever limit the queue has.                          *)
(*                                                                         *)
(* The invariants of the stream are those of RemoteStream's Spec, which    *)
(* the stream with its queue implements.  What a drain expresses is chosen *)
(* among the orderings of the queue; that there is one is proved by        *)
(* looking at a smallest queue without.                                    *)
(***************************************************************************)
EXTENDS InterestQueue, TLAPS, FiniteSetTheorems, FunctionTheorems, SequenceTheorems,
        WellFoundedInduction

StreamType ==
  [needMeta : BOOLEAN, running : BOOLEAN, cued : BOOLEAN, released : BOOLEAN,
   thread : Threads \cup {Unknown, 0}]

(* What the stream and its observers say about each other. *)
SInv ==
  /\ stream \in StreamType
  /\ stream.running => stream.cued /\ stream.thread # 0 /\ session >= 1
  /\ session \in 0..MaxSessions /\ pc \in 0..session
  /\ attached \in [segments : SUBSET Nat, rtx : SUBSET Nat, latency : SUBSET Nat,
                   playback : SUBSET Nat]
  /\ InformsTheRunning

(* A session begins: nobody was informed before. *)
LEMMA InitiateKeeps ==
  ASSUME SInv, NEW s \in StreamType, s.cued, ~s.running, ~stream.running, NEW meta,
         initiateFetching(s, meta)
  PROVE  SInv'
<1>1. /\ session \in Nat /\ pc \in 0..session /\ session <= MaxSessions /\ MaxSessions \in Nat
      /\ attached \in [segments : SUBSET Nat, rtx : SUBSET Nat, latency : SUBSET Nat,
                       playback : SUBSET Nat]
      /\ attached.segments = {} /\ attached.playback = {}
  BY StreamAssumption DEF SInv, InformsTheRunning
<1>2. \/ stream' = s /\ UNCHANGED <<pc, session, attached>>
      \/ /\ session < MaxSessions
         /\ session' = session + 1 /\ pc' = session'
         /\ \E t \in Threads : stream' = [s EXCEPT !.running = TRUE, !.thread = t]
         /\ attached' = setupPipelineControl(attached, session')
  BY DEF initiateFetching, Known
<1>3. CASE stream' = s /\ UNCHANGED <<pc, session, attached>>
  BY <1>1, <1>3 DEF SInv, InformsTheRunning
<1>4. ASSUME session < MaxSessions, session' = session + 1, pc' = session',
             NEW t \in Threads, stream' = [s EXCEPT !.running = TRUE, !.thread = t],
             attached' = setupPipelineControl(attached, session')
      PROVE  SInv'
  <2>1. t # 0 /\ t \in Threads \cup {Unknown, 0}
    BY StreamAssumption
  <2>2. stream' \in StreamType /\ stream'.running /\ stream'.cued /\ stream'.thread = t
    BY <1>4, <2>1 DEF StreamType
  <2>3. session' \in 0..MaxSessions /\ pc' \in 0..session' /\ session' >= 1 /\ session' \in Nat
    BY <1>1, <1>4
  <2>4. /\ attached' \in [segments : SUBSET Nat, rtx : SUBSET Nat, latency : SUBSET Nat,
                          playback : SUBSET Nat]
        /\ attached'.segments = {session'} /\ attached'.latency = {session'}
        /\ attached'.playback = {session'}
    BY <1>1, <1>4, <2>3 DEF setupPipelineControl
  <2> QED
    BY <1>4, <2>1, <2>2, <2>3, <2>4 DEF SInv, InformsTheRunning
<1> QED
  BY <1>2, <1>3, <1>4

(* Stopping leaves nobody informed. *)
LEMMA StopKeepsSession == SInv /\ Stop => SInv'
<1> SUFFICES ASSUME SInv, Stop PROVE SInv'
  OBVIOUS
<1> DEFINE s == [stream EXCEPT !.cued = FALSE]
<1>1. /\ session \in Nat /\ pc \in 0..session /\ stream \in StreamType
      /\ attached \in [segments : SUBSET Nat, rtx : SUBSET Nat, latency : SUBSET Nat,
                       playback : SUBSET Nat]
  BY DEF SInv
<1>2. /\ s \in StreamType /\ s.running = stream.running
      /\ stream' = [s EXCEPT !.running = FALSE, !.needMeta = @ /\ ~s.running]
      /\ pc' = (IF kind = "audio" THEN pc ELSE 0) /\ session' = session
      /\ attached' = releasePipelineControl(attached, pc)
  BY <1>1 DEF Stop, stopFetching, StreamType
<1> HIDE DEF s
<1>3. stream' \in StreamType /\ ~stream'.running
  BY <1>2 DEF StreamType
<1>4. pc' \in 0..session'
  BY <1>1, <1>2
<1>5. /\ attached' \in [segments : SUBSET Nat, rtx : SUBSET Nat, latency : SUBSET Nat,
                        playback : SUBSET Nat]
      /\ attached'.segments = {} /\ attached'.latency = {} /\ attached'.playback = {}
  <2>1. /\ attached.segments = IF stream.running THEN {session} ELSE {}
        /\ attached.playback = attached.segments /\ (stream.running => pc = session)
    BY DEF SInv, InformsTheRunning
  <2>2. /\ attached.segments \ {pc} = {} /\ attached.playback \ {session} = {}
    BY <2>1
  <2> QED
    BY <1>1, <1>2, <2>2 DEF releasePipelineControl
<1> QED
  BY <1>2, <1>3, <1>4, <1>5 DEF SInv, InformsTheRunning

(* The last metadata makes up for a start that waits. *)
LEMMA MetaKeepsSession ==
  ASSUME SInv, NEW t, NEW parts, threadMetaFetched(t, parts)
  PROVE  SInv'
<1> DEFINE s == [stream EXCEPT !.needMeta = FALSE]
<1>1. stream \in StreamType
  BY DEF SInv
<1>2. /\ s \in StreamType /\ s.running = stream.running /\ s.cued = stream.cued
      /\ s.thread = stream.thread
  BY <1>1 DEF StreamType
<1>3. \/ UNCHANGED <<stream, pc, session, attached>>
      \/ s.cued /\ ~s.running /\ initiateFetching(s, threadsMeta')
      \/ stream' = s /\ UNCHANGED <<pc, session, attached>>
  BY DEF threadMetaFetched
<1> HIDE DEF s
<1>4. CASE UNCHANGED <<stream, pc, session, attached>>
  BY <1>4 DEF SInv, InformsTheRunning
<1>5. CASE s.cued /\ ~s.running /\ initiateFetching(s, threadsMeta')
  BY <1>2, <1>5, InitiateKeeps
<1>6. CASE stream' = s /\ UNCHANGED <<pc, session, attached>>
  BY <1>2, <1>6 DEF SInv, InformsTheRunning
<1> QED
  BY <1>3, <1>4, <1>5, <1>6

(* The bookkeeping of observers is kept by every step.                      *)
LEMMA SInvNext == SInv /\ [Next]_vars => SInv'
<1> SUFFICES ASSUME SInv, [Next]_vars PROVE SInv'
  OBVIOUS
<1>1. CASE UNCHANGED <<stream, pc, session, attached>>
  BY <1>1 DEF SInv, InformsTheRunning
<1>2. ASSUME NEW n \in Names, NEW d, OnSegmentReceived(n, d) PROVE SInv'
  <2>1. \/ UNCHANGED <<stream, pc, session, attached>>
        \/ threadMetaFetched(n, processSegment(fetch[n], d).parts)
    BY <1>2 DEF OnSegmentReceived, streamMetaFetched
  <2> QED
    BY <1>1, <2>1, MetaKeepsSession
<1>3. ASSUME NEW t \in Threads \cup {Unknown, 0}, Start(t) PROVE SInv'
  <2> DEFINE s == [stream EXCEPT !.cued = TRUE, !.thread = t]
  <2>1. /\ ~stream.running
        /\ \/ stream' = s /\ UNCHANGED <<pc, session, attached>>
           \/ initiateFetching(s, threadsMeta)
    BY <1>3 DEF Start
  <2>2. s \in StreamType /\ s.cued /\ ~s.running
    BY <2>1 DEF SInv, StreamType
  <2> HIDE DEF s
  <2>3. CASE stream' = s /\ UNCHANGED <<pc, session, attached>>
    BY <2>1, <2>2, <2>3 DEF SInv, InformsTheRunning
  <2> QED
    BY <2>1, <2>2, <2>3, InitiateKeeps
<1>4. ASSUME NEW t \in Threads \cup {Unknown}, SetThread(t) PROVE SInv'
  <2>1. stream' = [stream EXCEPT !.thread = t] /\ UNCHANGED <<pc, session, attached>>
    BY <1>4 DEF SetThread
  <2>2. t # 0
    BY StreamAssumption
  <2>3. /\ stream' \in StreamType /\ stream'.running = stream.running
        /\ stream'.cued = stream.cued /\ stream'.thread # 0
    BY <2>1, <2>2 DEF SInv, StreamType
  <2> QED
    BY <2>1, <2>3 DEF SInv, InformsTheRunning
<1>5. CASE Release
  <2>1. /\ ~stream.running /\ UNCHANGED <<pc, session, attached>>
        /\ stream' = [stream EXCEPT !.needMeta = FALSE, !.released = TRUE]
    BY <1>5 DEF Release
  <2>2. stream' \in StreamType /\ ~stream'.running
    BY <2>1 DEF SInv, StreamType
  <2> QED
    BY <2>1, <2>2 DEF SInv, InformsTheRunning
<1>6. ASSUME NEW n \in Names, OnFetchError(n) PROVE SInv'
  BY <1>1, <1>6 DEF OnFetchError
<1>7. CASE Stop
  BY <1>7, StopKeepsSession
<1>8. CASE UNCHANGED vars
  BY <1>1, <1>8 DEF vars
<1> QED
  BY <1>2, <1>3, <1>4, <1>5, <1>6, <1>7, <1>8 DEF Next, StreamStep, Answer

(* A new stream has no session and no observers.                            *)
LEMMA SInvInit == Init => SInv
<1> SUFFICES ASSUME Init PROVE SInv
  OBVIOUS
<1>1. /\ stream \in [needMeta : {TRUE}, running : {FALSE}, cued : {FALSE}, released : {FALSE},
                     thread : IF kind = "seed" THEN Threads \cup {Unknown} ELSE {0}]
      /\ pc = 0 /\ session = 0
      /\ attached = [segments |-> {}, rtx |-> {}, latency |-> {}, playback |-> {}]
  BY DEF Init
<1>2. stream \in StreamType /\ ~stream.running
  BY <1>1 DEF StreamType
<1>3. /\ attached \in [segments : SUBSET Nat, rtx : SUBSET Nat, latency : SUBSET Nat,
                       playback : SUBSET Nat]
      /\ attached.segments = {} /\ attached.latency = {} /\ attached.playback = {}
  BY <1>1
<1> QED
  BY <1>1, <1>2, <1>3, StreamAssumption DEF SInv, InformsTheRunning

(* The stream with its Interest queue behaves like the stream.              *)
LEMMA QueueIsAStream == IQSpec => Spec
<1>1. IQInit => Init
  BY DEF IQInit
<1>2. [IQNext]_iqVars => [Next]_vars
  BY DEF IQNext, iqVars, StopFlushes, Request, SafeDrain, Next
<1> QED
  BY <1>1, <1>2, PTL DEF IQSpec, Spec

(* The controllers inform the PipelineControl of the session that runs, and *)
(* nothing else.                                                            *)
THEOREM RunningIsInformed == IQSpec => []InformsTheRunning
<1>1. SInv => InformsTheRunning
  BY DEF SInv
<1> QED
  BY <1>1, SInvInit, SInvNext, QueueIsAStream, PTL DEF Spec

-----------------------------------------------------------------------------
(* Metadata                                                                 *)

FetchType ==
  [active : BOOLEAN, version : Versions \cup {0}, want : Nat, parts : Seq(Versions \X Nat)]

(* The first k segments of version v *)
Prefix(v, k) == [i \in 1..k |-> <<v, i - 1>>]

(* A fetcher holds the first segments of one version and asks for the next. *)
FetchInv(f) ==
  f \in FetchType /\ f.parts = Prefix(f.version, f.want) /\ (f.version = 0 => f.want = 0)

MInv ==
  /\ kind \in Kinds /\ pending \in BOOLEAN
  /\ DOMAIN fetch = Names /\ \A n \in Names : FetchInv(fetch[n])
  /\ streamMeta # Nothing => Whole(streamMeta)
  /\ DOMAIN threadsMeta = Threads
  /\ \A t \in Threads : threadsMeta[t] # Nothing => Whole(threadsMeta[t])
  /\ stream.needMeta =>
       IF streamMeta = Nothing THEN fetch[0].active
       ELSE \A t \in Threads : threadsMeta[t] = Nothing => fetch[t].active

(* A segment in its turn makes a prefix longer.                             *)
LEMMA PrefixGrows ==
  ASSUME NEW v \in Versions, NEW k \in Nat
  PROVE  /\ Prefix(v, k) \in Seq(Versions \X Nat) /\ Len(Prefix(v, k)) = k
         /\ Append(Prefix(v, k), <<v, k>>) = Prefix(v, k + 1)
<1>1. /\ Prefix(v, k) \in Seq(Versions \X Nat) /\ Len(Prefix(v, k)) = k
      /\ \A i \in 1..k : Prefix(v, k)[i] = <<v, i - 1>>
  <2>1. \A i \in 1..k : <<v, i - 1>> \in Versions \X Nat
    OBVIOUS
  <2> QED
    BY <2>1 DEF Prefix
<1> DEFINE a == Append(Prefix(v, k), <<v, k>>)
<1>2. <<v, k>> \in Versions \X Nat
  OBVIOUS
<1>3. /\ a \in Seq(Versions \X Nat) /\ Len(a) = k + 1 /\ a[k + 1] = <<v, k>>
      /\ \A i \in 1..k : a[i] = Prefix(v, k)[i]
  BY <1>1, <1>2, AppendProperties
<1>4. DOMAIN a = 1..(k + 1)
  BY <1>3
<1> HIDE DEF a
<1>5. \A i \in 1..(k + 1) : a[i] = <<v, i - 1>>
  <2> TAKE i \in 1..(k + 1)
  <2>1. CASE i \in 1..k
    BY <1>1, <1>3, <2>1
  <2>2. CASE i = k + 1
    <3>1. i - 1 = k
      BY <2>2
    <3> QED
      BY <1>3, <2>2, <3>1
  <2>3. i \in 1..k \/ i = k + 1
    OBVIOUS
  <2> QED
    BY <2>1, <2>2, <2>3
<1>6. a = [i \in 1..(k + 1) |-> a[i]]
  BY <1>3, <1>4
<1> QED
  BY <1>1, <1>5, <1>6 DEF Prefix, a

(* A fetcher that begins has nothing.                                       *)
LEMMA NewFetch == FetchInv(firstSegment) /\ FetchInv(NoFetch) /\ firstSegment.active
<1>1. firstSegment \in FetchType /\ NoFetch \in FetchType
  BY DEF firstSegment, NoFetch, FetchType
<1>2. Prefix(0, 0) = <<>>
  BY DEF Prefix
<1> QED
  BY <1>1, <1>2 DEF FetchInv, firstSegment, NoFetch

(* Whatever the network answers, a fetcher keeps a prefix of one version,   *)
(* and a final segment in its turn completes it.                            *)
LEMMA SegmentKeepsPrefix ==
  ASSUME NEW f, FetchInv(f), NEW d \in Answers(f), Published(d)
  PROVE  /\ FetchInv(processSegment(f, d)) /\ processSegment(f, d).active = f.active
         /\ isExpected(f, d) /\ isFinal(d) =>
              /\ Whole(processSegment(f, d).parts) /\ processSegment(f, d).parts # Nothing
<1>1. f \in FetchType /\ f.parts = Prefix(f.version, f.want)
  BY DEF FetchInv
<1>2. f.version \in Versions \cup {0} /\ f.want \in Nat /\ 0 \notin Versions
  BY <1>1, StreamAssumption DEF FetchType
<1>3. PICK v \in Versions, s \in Nat : d = <<v, s>> /\ (f.version # 0 => v = f.version /\ s = f.want)
  BY <1>2 DEF Answers
<1>4. d[1] = v /\ d[2] = s
  BY <1>3
<1> DEFINE k == f.want
           new == processSegment(f, d)
<1>5. f.parts = Prefix(v, k)
  <2>1. CASE f.version = 0
    BY <1>1, <2>1 DEF FetchInv, Prefix
  <2>2. CASE f.version # 0
    BY <1>1, <1>3, <2>2
  <2> QED
    BY <2>1, <2>2
<1>6. Len(f.parts) = k /\ k \in Nat /\ f.parts \in Seq(Versions \X Nat)
  BY <1>2, <1>5, PrefixGrows
<1>7. CASE ~isExpected(f, d)
  <2>1. new = [f EXCEPT !.version = v, !.want = k]
    BY <1>4, <1>6, <1>7 DEF processSegment, fetchNextSegment
  <2>2. /\ new \in FetchType /\ new.active = f.active /\ new.version = v /\ new.want = k
        /\ new.parts = f.parts
    BY <1>1, <1>2, <2>1 DEF FetchType
  <2>3. v # 0
    BY <1>2
  <2> HIDE DEF new
  <2>4. FetchInv(new)
    BY <1>5, <2>2, <2>3 DEF FetchInv
  <2> QED
    BY <1>7, <2>2, <2>4 DEF new
<1>8. CASE isExpected(f, d)
  <2> DEFINE p == Append(f.parts, d)
  <2>1. s = k
    BY <1>4, <1>6, <1>8 DEF isExpected
  <2>2. p = Prefix(v, k + 1)
    BY <1>3, <1>5, <1>6, <2>1, PrefixGrows
  <2> DEFINE l == k + 1
  <2>0. l \in Nat
    BY <1>6
  <2>3. p \in Seq(Versions \X Nat) /\ Len(p) = k + 1
    <3>1. Prefix(v, l) \in Seq(Versions \X Nat) /\ Len(Prefix(v, l)) = l
      <4> HIDE DEF l
      <4> QED
        BY <2>0, PrefixGrows
    <3> QED
      BY <2>2, <3>1
  <2>4. new = [f EXCEPT !.parts = p, !.version = v, !.want = k + 1]
    BY <1>1, <1>4, <1>8, <2>1 DEF processSegment, fetchNextSegment, FetchType
  <2> HIDE DEF p
  <2>5. /\ new \in FetchType /\ new.active = f.active /\ new.version = v /\ new.want = k + 1
        /\ new.parts = p
    <3> HIDE DEF l
    <3>1. new = [f EXCEPT !.parts = p, !.version = v, !.want = l]
      BY <2>4 DEF l
    <3>2. /\ new \in FetchType /\ new.active = f.active /\ new.version = v /\ new.want = l
          /\ new.parts = p
      BY <1>1, <2>0, <2>3, <3>1 DEF FetchType
    <3> QED
      BY <3>2 DEF l
  <2>6. v # 0
    BY <1>2
  <2> HIDE DEF new
  <2>7. FetchInv(new)
    BY <2>2, <2>5, <2>6 DEF FetchInv
  <2>8. ASSUME isFinal(d) PROVE Whole(p) /\ p # Nothing
    <3>1. k + 1 = Segments[v]
      <4>1. Segments[v] \in Nat
        BY StreamAssumption
      <4>2. k = Segments[v] - 1
        BY <1>4, <2>1, <2>8 DEF isFinal
      <4> QED
        BY <1>6, <4>1, <4>2
    <3>2. Whole(p)
      BY <2>2, <3>1 DEF Whole, Prefix
    <3> QED
      BY <1>6, <2>3, <3>2 DEF Nothing
  <2> QED
    BY <1>8, <2>5, <2>7, <2>8 DEF new
<1> QED
  BY <1>7, <1>8

(* A packet of metadata is complete when its fetcher says so: the next ones *)
(* are asked for, or the start is made up for.                              *)
LEMMA SegmentKeepsMeta ==
  ASSUME MInv, SInv, NEW n \in Names, NEW d \in Answers(fetch[n]), OnSegmentReceived(n, d)
  PROVE  MInv'
<1> DEFINE f == processSegment(fetch[n], d)
<1>1. /\ fetch[n].active /\ Published(d) /\ kind' = kind /\ kind \in Kinds
      /\ FetchInv(fetch[n]) /\ DOMAIN fetch = Names /\ \A m \in Names : FetchInv(fetch[m])
  BY DEF OnSegmentReceived, MInv
<1>2. /\ FetchInv(f) /\ f.active
      /\ isExpected(fetch[n], d) /\ isFinal(d) => Whole(f.parts) /\ f.parts # Nothing
  BY <1>1, SegmentKeepsPrefix
<1>3. \/ /\ fetch' = [fetch EXCEPT ![n] = f]
         /\ UNCHANGED <<stream, pending, streamMeta, threadsMeta>>
      \/ /\ isExpected(fetch[n], d) /\ isFinal(d)
         /\ \/ n = 0 /\ streamMetaFetched(f.parts)
            \/ n # 0 /\ threadMetaFetched(n, f.parts)
  BY DEF OnSegmentReceived
<1> HIDE DEF f
<1>4. CASE fetch' = [fetch EXCEPT ![n] = f] /\ UNCHANGED <<stream, pending, streamMeta, threadsMeta>>
  <2>1. DOMAIN fetch' = Names /\ \A m \in Names : fetch'[m] = IF m = n THEN f ELSE fetch[m]
    BY <1>1, <1>4
  <2>2. \A m \in Names : fetch[m].active => fetch'[m].active
    BY <1>2, <2>1
  <2>3. 0 \in Names /\ Threads \subseteq Names
    BY DEF Names
  <2> QED
    BY <1>1, <1>2, <1>4, <2>1, <2>2, <2>3 DEF MInv
<1>5. CASE isExpected(fetch[n], d) /\ isFinal(d) /\ n = 0 /\ streamMetaFetched(f.parts)
  <2>1. /\ streamMeta' = f.parts /\ pending' = TRUE
        /\ fetch' = [m \in Names |-> IF m = 0 THEN NoFetch ELSE firstSegment]
        /\ UNCHANGED <<stream, threadsMeta>>
    BY <1>5 DEF streamMetaFetched
  <2>2. /\ DOMAIN fetch' = Names /\ \A m \in Names : FetchInv(fetch'[m])
        /\ \A t \in Threads : fetch'[t].active
    <3>1. \A t \in Threads : t \in Names /\ t # 0
      BY StreamAssumption DEF Names
    <3> QED
      BY <2>1, <3>1, NewFetch
  <2> QED
    BY <1>1, <1>2, <1>5, <2>1, <2>2 DEF MInv
<1>6. CASE isExpected(fetch[n], d) /\ isFinal(d) /\ n # 0 /\ threadMetaFetched(n, f.parts)
  <2>1. /\ threadsMeta' = [threadsMeta EXCEPT ![n] = f.parts]
        /\ fetch' = [fetch EXCEPT ![n] = NoFetch] /\ pending' = FALSE
        /\ streamMeta' = streamMeta
    BY <1>6 DEF threadMetaFetched
  <2>2. stream'.needMeta => stream.needMeta
    <3>1. stream \in StreamType
      BY DEF SInv
    <3> DEFINE s == [stream EXCEPT !.needMeta = FALSE]
    <3>2. s \in StreamType /\ ~s.needMeta
      BY <3>1 DEF StreamType
    <3>3. \/ stream' = stream \/ stream' = s
          \/ initiateFetching(s, threadsMeta')
      BY <1>6 DEF threadMetaFetched
    <3> HIDE DEF s
    <3>4. ASSUME initiateFetching(s, threadsMeta') PROVE ~stream'.needMeta
      <4>1. stream' = s \/ \E t : stream' = [s EXCEPT !.running = TRUE, !.thread = t]
        BY <3>4 DEF initiateFetching
      <4>2. ASSUME NEW t, stream' = [s EXCEPT !.running = TRUE, !.thread = t]
            PROVE  stream'.needMeta = s.needMeta
        BY <3>2, <4>2 DEF StreamType
      <4> QED
        BY <3>2, <4>1, <4>2
    <3> QED
      BY <3>2, <3>3, <3>4
  <2>3. n \in Threads
    BY <1>6 DEF Names
  <2>4. /\ DOMAIN threadsMeta' = Threads
        /\ \A t \in Threads : threadsMeta'[t] = IF t = n THEN f.parts ELSE threadsMeta[t]
    BY <2>1, <2>3 DEF MInv
  <2>5. /\ DOMAIN fetch' = Names
        /\ \A m \in Names : fetch'[m] = IF m = n THEN NoFetch ELSE fetch[m]
    BY <1>1, <2>1
  <2>6. \A m \in Names : FetchInv(fetch'[m])
    BY <1>1, <2>5, NewFetch
  <2>7. 0 \in Names /\ Threads \subseteq Names
    BY DEF Names
  <2>8. \A t \in Threads : threadsMeta'[t] # Nothing => Whole(threadsMeta'[t])
    BY <1>2, <1>6, <2>4 DEF MInv
  <2>9. stream'.needMeta =>
          IF streamMeta' = Nothing THEN fetch'[0].active
          ELSE \A t \in Threads : threadsMeta'[t] = Nothing => fetch'[t].active
    BY <1>2, <1>6, <2>1, <2>2, <2>4, <2>5, <2>7 DEF MInv
  <2> QED
    BY <1>1, <2>1, <2>4, <2>5, <2>6, <2>8, <2>9 DEF MInv
<1> QED
  BY <1>3, <1>4, <1>5, <1>6

(* Metadata stays whole or awaited: a step that drops or completes a fetch  *)
(* says so in what is pending.                                              *)
LEMMA MInvNext == MInv /\ SInv /\ [Next]_vars => MInv'
<1> SUFFICES ASSUME MInv, SInv, [Next]_vars PROVE MInv'
  OBVIOUS
<1>1. ASSUME UNCHANGED <<kind, pending, fetch, streamMeta, threadsMeta>>,
             stream'.needMeta => stream.needMeta
      PROVE  MInv'
  BY <1>1 DEF MInv
<1>2. stream \in StreamType
  BY DEF SInv
<1>3. ASSUME NEW n \in Names, NEW d \in Answers(fetch[n]), OnSegmentReceived(n, d) PROVE MInv'
  BY <1>3, SegmentKeepsMeta
<1>4. ASSUME NEW t \in Threads \cup {Unknown, 0}, Start(t) PROVE MInv'
  <2> DEFINE s == [stream EXCEPT !.cued = TRUE, !.thread = t]
  <2>1. /\ UNCHANGED <<kind, pending, fetch, streamMeta, threadsMeta>>
        /\ stream' = s \/ initiateFetching(s, threadsMeta)
    BY <1>4 DEF Start
  <2>2. s \in StreamType /\ s.needMeta = stream.needMeta
    BY <1>2, <1>4 DEF StreamType
  <2> HIDE DEF s
  <2>3. stream' = s \/ \E u : stream' = [s EXCEPT !.running = TRUE, !.thread = u]
    BY <2>1 DEF initiateFetching
  <2>4. ASSUME NEW u, stream' = [s EXCEPT !.running = TRUE, !.thread = u]
        PROVE  stream'.needMeta = s.needMeta
    BY <2>2, <2>4 DEF StreamType
  <2> QED
    BY <1>1, <2>1, <2>2, <2>3, <2>4
<1>5. ASSUME NEW t \in Threads \cup {Unknown}, SetThread(t) PROVE MInv'
  <2>1. stream'.needMeta = stream.needMeta
    BY <1>2, <1>5 DEF SetThread, StreamType
  <2> QED
    BY <1>1, <1>5, <2>1 DEF SetThread
<1>6. CASE Release
  <2>1. ~stream'.needMeta
    BY <1>2, <1>6 DEF Release, StreamType
  <2> QED
    BY <1>1, <1>6, <2>1 DEF Release
<1>7. ASSUME NEW n \in Names, OnFetchError(n) PROVE MInv'
  <2>1. /\ fetch' = [fetch EXCEPT ![n] = onError(n)] /\ pending' = stream.needMeta
        /\ UNCHANGED <<kind, stream, streamMeta, threadsMeta>>
    BY <1>7 DEF OnFetchError
  <2>2. FetchInv(onError(n)) /\ (stream.needMeta => onError(n).active)
    BY NewFetch DEF onError
  <2>3. /\ DOMAIN fetch' = Names
        /\ \A m \in Names : fetch'[m] = IF m = n THEN onError(n) ELSE fetch[m]
    BY <2>1 DEF MInv
  <2>4. \A m \in Names : FetchInv(fetch'[m]) /\ (stream.needMeta /\ fetch[m].active => fetch'[m].active)
    BY <2>2, <2>3 DEF MInv
  <2>5. 0 \in Names /\ Threads \subseteq Names
    BY DEF Names
  <2>6. pending' \in BOOLEAN
    BY <1>2, <2>1 DEF StreamType
  <2> QED
    BY <2>1, <2>3, <2>4, <2>5, <2>6 DEF MInv
<1>8. CASE Stop
  <2> DEFINE s == [stream EXCEPT !.cued = FALSE]
  <2>1. /\ UNCHANGED <<kind, pending, fetch, streamMeta, threadsMeta>>
        /\ stream' = [s EXCEPT !.running = FALSE, !.needMeta = @ /\ ~s.running]
    BY <1>8 DEF Stop, stopFetching
  <2>2. s \in StreamType /\ s.needMeta = stream.needMeta
    BY <1>2 DEF StreamType
  <2> HIDE DEF s
  <2>3. stream'.needMeta => s.needMeta
    BY <2>1, <2>2 DEF StreamType
  <2> QED
    BY <1>1, <2>1, <2>2, <2>3
<1>9. CASE UNCHANGED vars
  BY <1>1, <1>9 DEF vars
<1> QED
  BY <1>3, <1>4, <1>5, <1>6, <1>7, <1>8, <1>9 DEF Next, StreamStep, Answer

(* A new stream fetches its own metadata.                                   *)
LEMMA MInvInit == Init => MInv
<1> SUFFICES ASSUME Init PROVE MInv
  OBVIOUS
<1>1. /\ kind \in Kinds /\ pending = TRUE /\ streamMeta = Nothing
      /\ fetch = [n \in Names |-> IF n = 0 THEN firstSegment ELSE NoFetch]
      /\ threadsMeta = [t \in Threads |-> Nothing]
  BY DEF Init
<1>2. 0 \in Names
  BY DEF Names
<1>3. /\ DOMAIN fetch = Names /\ \A n \in Names : FetchInv(fetch[n])
      /\ fetch[0].active
  BY <1>1, <1>2, NewFetch
<1> QED
  BY <1>1, <1>3 DEF MInv

(* Metadata is made of all segments of one version, and while any is        *)
(* missing a fetcher is at work for it.                                     *)
THEOREM MetaStaysWhole == IQSpec => []MetaWholeOrAwaited
<1>1. SInv /\ MInv => MetaWholeOrAwaited
  <2> SUFFICES ASSUME SInv, MInv PROVE MetaWholeOrAwaited
    OBVIOUS
  <2>1. \A n \in Names : fetch[n].active \in BOOLEAN /\ fetch[n].want \in Nat
    BY DEF MInv, FetchInv, FetchType
  <2>2. RSTypeOK
    BY <2>1 DEF SInv, MInv, StreamType, RSTypeOK
  <2> QED
    BY <2>2 DEF MInv, MetaWholeOrAwaited, Known
<1> QED
  BY <1>1, SInvInit, SInvNext, MInvInit, MInvNext, QueueIsAStream, PTL DEF Spec

-----------------------------------------------------------------------------
(* The Interest queue                                                       *)

(* Entries are told apart by their number. *)
Numbered(q) ==
  /\ q \subseteq Entry /\ IsFiniteSet(q)
  /\ \A a, b \in q : a.no = b.no => a = b

QInv ==
  /\ enqueued \in 0..MaxInterests /\ scheduled \in Nat /\ draining \in BOOLEAN
  /\ Numbered(queue) /\ \A e \in queue : e.no <= enqueued
  /\ WaitingIsDrained

(* Every non-empty set of naturals has a least element. *)
LEMMA LeastNumber ==
  ASSUME NEW T \in SUBSET Nat, T # {}
  PROVE  \E x \in T : \A y \in T : x <= y
<1> DEFINE R == OpToRel(<, Nat)
<1>1. IsWellFoundedOn(R, Nat)
  BY NatLessThanWellFounded
<1>2. \A x, y \in Nat : y < x => <<y, x>> \in R
  BY DEF OpToRel
<1> HIDE DEF R
<1>3. PICK x \in T : \A y \in T : ~(<<y, x>> \in R)
  BY <1>1, WFMin
<1>4. \A y \in T : ~(y < x)
  BY <1>2, <1>3
<1> QED
  BY <1>4

(* The number and the deadline of a queued Interest are numbers.            *)
LEMMA EntryNumbers ==
  ASSUME NEW e \in Entry
  PROVE  e.no \in Nat /\ e.deadline \in Nat
<1> DEFINE n == e.no
           d == e.deadline
<1>1. n \in 1..MaxInterests /\ d \in Deadlines
  BY DEF Entry
<1>2. MaxInterests \in Nat /\ Deadlines \subseteq Nat
  BY QueueAssumption
<1> HIDE DEF n, d
<1>3. n \in Nat /\ d \in Nat
  BY <1>1, <1>2
<1> QED
  BY <1>3 DEF n, d

(* One of the entries is expressed before all others. *)
LEMMA FirstEntry ==
  ASSUME NEW q, Numbered(q), q # {}
  PROVE  \E m \in q : \A e \in q \ {m} : ExpressedBefore(m, e)
<1>1. \A e \in q : e.no \in Nat /\ e.deadline \in Nat
  BY EntryNumbers DEF Numbered
<1> DEFINE D == {e.deadline : e \in q}
<1>2. D \in SUBSET Nat /\ D # {}
  BY <1>1
<1>3. PICK d \in D : \A x \in D : d <= x
  <2> HIDE DEF D
  <2> QED
    BY <1>2, LeastNumber
<1> DEFINE N == {e.no : e \in {x \in q : x.deadline = d}}
<1>4. N \in SUBSET Nat /\ N # {}
  BY <1>1
<1>5. PICK k \in N : \A x \in N : k <= x
  <2> HIDE DEF N
  <2> QED
    BY <1>4, LeastNumber
<1>6. PICK m \in q : m.deadline = d /\ m.no = k
  OBVIOUS
<1>7. ASSUME NEW e \in q \ {m} PROVE ExpressedBefore(m, e)
  <2>1. d <= e.deadline /\ d \in Nat /\ e.deadline \in Nat /\ e.no \in Nat /\ k \in Nat
    BY <1>1, <1>3, <1>6
  <2>2. e.no # k
    BY <1>6, <1>7 DEF Numbered
  <2>3. e.deadline = d => k <= e.no
    BY <1>5
  <2> QED
    BY <1>6, <2>1, <2>2, <2>3 DEF ExpressedBefore
<1> QED
  BY <1>7

(* So a queue of any length can be put in order: a shortest one that cannot *)
(* would have a first entry and a rest that can.                            *)
LEMMA Sortable ==
  ASSUME NEW q, Numbered(q)
  PROVE  \E s \in [1..Cardinality(q) -> q] : InOrder(s)
<1> DEFINE Bad == {n \in Nat : \E r \in SUBSET Entry :
                     Numbered(r) /\ Cardinality(r) = n /\ ~\E s \in [1..n -> r] : InOrder(s)}
<1>1. Bad = {}
  <2> SUFFICES ASSUME Bad # {} PROVE FALSE
    OBVIOUS
  <2>1. PICK n \in Bad : \A k \in Bad : n <= k
    <3>1. Bad \in SUBSET Nat
      OBVIOUS
    <3> HIDE DEF Bad
    <3> QED
      BY <3>1, LeastNumber
  <2>2. PICK r \in SUBSET Entry :
          Numbered(r) /\ Cardinality(r) = n /\ ~\E s \in [1..n -> r] : InOrder(s)
    BY <2>1
  <2>3. n \in Nat /\ IsFiniteSet(r)
    BY <2>1, <2>2 DEF Numbered
  <2>4. r # {}
    <3> SUFFICES ASSUME r = {} PROVE FALSE
      OBVIOUS
    <3>1. n = 0
      BY <2>2, FS_EmptySet
    <3> DEFINE s == [i \in 1..n |-> i]
    <3>2. s \in [1..n -> r] /\ DOMAIN s = {}
      BY <3>1
    <3> HIDE DEF s
    <3>3. InOrder(s)
      BY <3>2 DEF InOrder
    <3> QED
      BY <2>2, <3>2, <3>3
  <2>5. PICK m \in r : \A e \in r \ {m} : ExpressedBefore(m, e)
    BY <2>2, <2>4, FirstEntry
  <2> DEFINE rest == r \ {m}
             k == n - 1
  <2>6. IsFiniteSet(rest) /\ Cardinality(rest) = k
    BY <2>2, <2>3, FS_RemoveElement
  <2>7. Numbered(rest) /\ rest \in SUBSET Entry
    BY <2>2, <2>6 DEF Numbered
  <2>8. k \in Nat /\ k < n
    <3>1. k \in Nat
      BY <2>6, FS_CardinalityType
    <3> QED
      BY <2>3, <3>1
  <2>9. k \notin Bad
    <3> HIDE DEF Bad, k
    <3> QED
      BY <2>1, <2>3, <2>8
  <2>10. PICK t \in [1..k -> rest] : InOrder(t)
    <3> HIDE DEF rest, k
    <3> QED
      BY <2>6, <2>7, <2>8, <2>9
  <2> DEFINE s == [i \in 1..n |-> IF i = 1 THEN m ELSE t[i - 1]]
  <2>11. \A i \in 1..n : i # 1 => i - 1 \in 1..k
    BY <2>3
  <2>12. s \in [1..n -> r]
    BY <2>10, <2>11
  <2>13. ASSUME NEW i \in 1..n, NEW j \in 1..n, i < j PROVE ExpressedBefore(s[i], s[j])
    <3>1. j # 1 /\ j - 1 \in 1..k /\ s[j] = t[j - 1]
      BY <2>3, <2>11, <2>13
    <3>2. CASE i = 1
      <4>1. t[j - 1] \in rest
        BY <2>10, <3>1
      <4> QED
        BY <2>5, <3>1, <3>2, <4>1
    <3>3. CASE i # 1
      <4> DEFINE a == i - 1
                 b == j - 1
      <4>1. a \in 1..k /\ b \in 1..k /\ a < b
        BY <2>3, <2>11, <2>13, <3>1, <3>3
      <4>2. s[i] = t[a] /\ s[j] = t[b]
        BY <3>1, <3>3
      <4> HIDE DEF a, b, s, k, rest
      <4>3. DOMAIN t = 1..k
        BY <2>10
      <4>4. ExpressedBefore(t[a], t[b])
        BY <2>10, <4>1, <4>3 DEF InOrder
      <4> QED
        BY <4>2, <4>4
    <3> QED
      BY <3>2, <3>3
  <2>14. InOrder(s)
    <3> HIDE DEF s
    <3>1. DOMAIN s = 1..n
      BY <2>12
    <3> QED
      BY <2>13, <3>1 DEF InOrder
  <2> HIDE DEF s
  <2> QED
    BY <2>2, <2>12, <2>14
<1>2. Cardinality(q) \in Nat /\ q \in SUBSET Entry
  BY FS_CardinalityType DEF Numbered
<1> QED
  BY <1>1, <1>2

(* What is expressed by a drain. *)
Sorted(s) ==
  \A i, j \in DOMAIN s : i < j => s[i].deadline <= s[j].deadline /\ s[i].no # s[j].no

(* A drain empties the queue into a batch ordered by deadline.              *)
LEMMA DrainSorts ==
  ASSUME NEW q, Numbered(q), drainQueue(q)
  PROVE  Sorted(batch') /\ queue' = {} /\ ~draining' /\ draining' \in BOOLEAN
<1>1. PICK s \in [1..Cardinality(q) -> q] : InOrder(s)
  BY Sortable
<1>2. batch' \in [1..Cardinality(q) -> q] /\ InOrder(batch')
  BY <1>1 DEF drainQueue
<1>3. \A e \in q : e.no \in Nat /\ e.deadline \in Nat
  BY EntryNumbers DEF Numbered
<1>4. ASSUME NEW i \in DOMAIN batch', NEW j \in DOMAIN batch', i < j
      PROVE  batch'[i].deadline <= batch'[j].deadline /\ batch'[i].no # batch'[j].no
  <2> DEFINE a == batch'[i]
             b == batch'[j]
  <2>1. a \in q /\ b \in q
    BY <1>2
  <2>2. ExpressedBefore(a, b)
    BY <1>2, <1>4 DEF InOrder
  <2> HIDE DEF a, b
  <2>3. a.no \in Nat /\ a.deadline \in Nat /\ b.no \in Nat /\ b.deadline \in Nat
    BY <1>3, <2>1
  <2>4. a.deadline <= b.deadline /\ a # b
    BY <2>2, <2>3 DEF ExpressedBefore
  <2> QED
    BY <2>1, <2>4 DEF a, b, Numbered
<1> QED
  BY <1>4 DEF drainQueue, Sorted

(* An Interest of the session that runs is put in. *)
LEMMA RequestKeepsQueue ==
  ASSUME QInv, SInv, NEW thread, NEW deadline \in Deadlines, Request(thread, deadline)
  PROVE  QInv'
<1> DEFINE n == enqueued + 1
           e == [no |-> n, session |-> session, deadline |-> deadline]
           q == queue \cup {e}
<1>1. /\ stream.running /\ enqueued < MaxInterests /\ enqueued' = n
      /\ enqueueInterest(thread, e) /\ UNCHANGED vars
  BY DEF Request
<1>2. /\ enqueued \in 0..MaxInterests /\ MaxInterests \in Nat /\ scheduled \in Nat
      /\ draining \in BOOLEAN /\ Numbered(queue) /\ \A x \in queue : x.no <= enqueued
      /\ queue # {} => draining /\ scheduled > 0
      /\ draining => scheduled > 0
      /\ \A x \in queue : stream.running /\ x.session = session
      /\ Sorted(batch)
  BY QueueAssumption DEF QInv, WaitingIsDrained, Sorted
<1>3. n \in 1..MaxInterests /\ n \in 0..MaxInterests /\ n > enqueued
  BY <1>1, <1>2
<1>4. session \in 1..MaxSessions
  BY <1>1, StreamAssumption DEF SInv
<1> HIDE DEF n
<1>5. e \in Entry /\ e.no = n /\ e.session = session
  BY <1>3, <1>4 DEF Entry
<1> HIDE DEF e
<1>6. \A x \in queue : x.no \in Nat /\ x.no # n
  <2>1. \A x \in queue : x.no \in 1..MaxInterests
    BY <1>2 DEF Numbered, Entry
  <2> QED
    BY <1>2, <1>3, <2>1
<1>7. Numbered(q)
  <2>1. IsFiniteSet(q)
    BY <1>2, FS_AddElement DEF Numbered
  <2> QED
    BY <1>2, <1>5, <1>6, <2>1 DEF Numbered
<1>8. \A x \in q : x.no <= n
  BY <1>2, <1>3, <1>5, <1>6
<1>9. \A x \in q : stream.running /\ x.session = session
  BY <1>1, <1>2, <1>5
<1>10. \/ drainQueue(q) /\ UNCHANGED scheduled
       \/ /\ queue' = q /\ draining' = TRUE
          /\ scheduled' = IF draining THEN scheduled ELSE scheduled + 1
          /\ UNCHANGED batch
  BY <1>1 DEF enqueueInterest
<1>11. stream' = stream /\ session' = session
  BY <1>1 DEF vars
<1> HIDE DEF q
<1>12. CASE drainQueue(q) /\ UNCHANGED scheduled
  <2>1. Sorted(batch') /\ queue' = {} /\ ~draining' /\ draining' \in BOOLEAN
    BY <1>7, <1>12, DrainSorts
  <2>2. Numbered({})
    BY FS_EmptySet DEF Numbered
  <2> QED
    BY <1>1, <1>2, <1>3, <1>12, <2>1, <2>2 DEF QInv, WaitingIsDrained, Sorted
<1>13. CASE /\ queue' = q /\ draining' = TRUE
            /\ scheduled' = IF draining THEN scheduled ELSE scheduled + 1
            /\ UNCHANGED batch
  <2>1. scheduled' \in Nat /\ scheduled' > 0
    BY <1>2, <1>13
  <2>2. Numbered(queue') /\ queue' \subseteq Entry /\ Sorted(batch')
    BY <1>2, <1>7, <1>13 DEF Numbered
  <2> QED
    BY <1>1, <1>3, <1>8, <1>9, <1>11, <1>13, <2>1, <2>2 DEF QInv, WaitingIsDrained, Sorted
<1> QED
  BY <1>10, <1>12, <1>13

(* Nothing ends a session but Stop, and another begins only after it. *)
LEMMA SessionLasts ==
  ASSUME SInv, stream.running, StreamStep
  PROVE  stream'.running /\ session' = session
<1>1. stream \in StreamType
  BY DEF SInv
<1>2. ASSUME NEW n \in Names, NEW d, OnSegmentReceived(n, d)
      PROVE  stream'.running /\ session' = session
  <2> DEFINE s == [stream EXCEPT !.needMeta = FALSE]
  <2>1. s.running
    BY <1>1 DEF StreamType
  <2>2. (stream' = stream \/ stream' = s) /\ session' = session
    <3>1. \/ UNCHANGED <<stream, pc, session, attached>>
          \/ threadMetaFetched(n, processSegment(fetch[n], d).parts)
      BY <1>2 DEF OnSegmentReceived, streamMetaFetched
    <3> QED
      BY <2>1, <3>1 DEF threadMetaFetched
  <2> QED
    BY <2>1, <2>2
<1>3. ASSUME NEW t, SetThread(t) PROVE stream'.running /\ session' = session
  BY <1>1, <1>3 DEF SetThread, StreamType
<1> QED
  BY <1>2, <1>3 DEF StreamStep, Answer, Start, Release, OnFetchError

(* What is queued belongs to the running session; starting, stopping and    *)
(* draining keep it so.                                                     *)
LEMMA QInvNext == QInv /\ SInv /\ [IQNext]_iqVars => QInv'
<1> SUFFICES ASSUME QInv, SInv, [IQNext]_iqVars PROVE QInv'
  OBVIOUS
<1>1. Numbered({})
  BY FS_EmptySet DEF Numbered
<1>2. CASE StreamStep /\ UNCHANGED queueVars
  <2>1. UNCHANGED <<queue, draining, scheduled, enqueued, batch>>
    BY <1>2 DEF queueVars
  <2>2. \A e \in queue : stream'.running /\ e.session = session'
    BY <1>2, SessionLasts DEF QInv, WaitingIsDrained
  <2> QED
    BY <2>1, <2>2 DEF QInv, WaitingIsDrained
<1>3. CASE StopFlushes
  <2>1. queue' = {}
    BY <1>3 DEF StopFlushes, reset, queueVars, QInv, WaitingIsDrained
  <2>2. UNCHANGED <<draining, scheduled, enqueued, batch>>
    BY <1>3 DEF StopFlushes, reset, queueVars
  <2> QED
    BY <1>1, <2>1, <2>2 DEF QInv, WaitingIsDrained
<1>4. ASSUME NEW thread \in {"face", "app"}, NEW d \in Deadlines, Request(thread, d) PROVE QInv'
  BY <1>4, RequestKeepsQueue
<1>5. CASE SafeDrain
  <2>1. /\ scheduled > 0 /\ scheduled' = scheduled - 1 /\ drainQueue(queue)
        /\ enqueued' = enqueued
    BY <1>5 DEF SafeDrain
  <2>2. Sorted(batch') /\ queue' = {} /\ ~draining' /\ draining' \in BOOLEAN
    BY <2>1, DrainSorts DEF QInv
  <2>3. scheduled' \in Nat
    BY <2>1 DEF QInv
  <2> QED
    BY <1>1, <2>1, <2>2, <2>3 DEF QInv, WaitingIsDrained, Sorted
<1>6. CASE UNCHANGED iqVars
  BY <1>6 DEF iqVars, vars, queueVars, QInv, WaitingIsDrained
<1> QED
  BY <1>2, <1>3, <1>4, <1>5, <1>6 DEF IQNext

(* The queue starts empty.                                                  *)
LEMMA QInvInit == IQInit => QInv
<1> SUFFICES ASSUME IQInit PROVE QInv
  OBVIOUS
<1>1. Numbered({})
  BY FS_EmptySet DEF Numbered
<1>2. queue = {} /\ draining = FALSE /\ scheduled = 0 /\ enqueued = 0 /\ batch = <<>>
  BY DEF IQInit
<1>3. enqueued \in 0..MaxInterests
  BY <1>2, QueueAssumption
<1>4. DOMAIN batch = {}
  BY <1>2
<1> QED
  BY <1>1, <1>2, <1>3, <1>4 DEF QInv, WaitingIsDrained

(* Interests wait only while a drain is to come and their session runs, and *)
(* are expressed in the order of deadlines, each once, however long the     *)
(* queue.                                                                   *)
THEOREM WaitingGetsDrained == IQSpec => []WaitingIsDrained
<1>1. QInv => WaitingIsDrained
  BY DEF QInv
<1>2. IQInit => SInv
  BY SInvInit DEF IQInit
<1>3. [IQNext]_iqVars => [Next]_vars
  BY DEF IQNext, iqVars, StopFlushes, Request, SafeDrain, Next
<1> QED
  BY <1>1, <1>2, <1>3, SInvNext, QInvInit, QInvNext, PTL DEF IQSpec
=============================================================================
