---------------------------- MODULE FrameFetching ----------------------------
(***************************************************************************)
(* Fetching one frame by name (persistent-storage/frame-fetcher.cpp,       *)
(* fetching-task.cpp): a task fetches the segments of a frame; the first   *)
(* segment of a delta frame names its key frame, the first segment of the  *)
(* key frame names the first delta frame of the GOP, and when the tasks of *)
(* all frames up to the target are completed the GOP is decoded.           *)
(*                                                                         *)
(* Frames are numbers: 0 is the key frame of the GOP, n its nth delta      *)
(* frame, target the frame asked for.  Interests are answered on the face  *)
(* thread (FetchMethodRemote), or from the storage before express()        *)
(* returns (FetchMethodLocal).  calls is the stack of handlers that are    *)
(* under way; the next answer is handled when it is empty.                 *)
(***************************************************************************)
EXTENDS Integers, FiniteSetsExt, SequencesExt

CONSTANTS
  Gops,      \* what may be published: the target, and the segments of each frame
  GuessKey,  \* NSEGMENTS_GUESS_KEY
  GuessDelta,\* NSEGMENTS_GUESS_DELTA
  ParityKey, ParityDelta, \* a fifth of these, rounded
  nRtx,      \* fetchSettings_.nRtx_
  MaxLost    \* how many segments the storage may lack (the network may lose any)

ASSUME FetcherAssumption ==
  /\ \A g \in Gops :
       /\ g.target \in Nat
       /\ g.nData \in [0..g.target -> Nat \ {0}] /\ g.nParity \in [0..g.target -> Nat]
  /\ GuessKey \in Nat \ {0} /\ GuessDelta \in Nat \ {0} /\ ParityKey \in Nat /\ ParityDelta \in Nat
  /\ nRtx \in Nat /\ MaxLost \in Nat

VARIABLES
  remote,    \* which IFetchMethod
  stored,    \* segments that are in the storage, as <<frame, segment>>
  gop,       \* frameNameInfo_, and the GOP of that frame
  fetcher,   \* state_ of FrameFetcherImpl
  tasks,     \* FrameFetchingTask objects in the order of their creation
  current,   \* fetchingTasks_: the task of each frame (0: none)
  pit,       \* outstanding Interests, as <<task, segment>>
  calls,     \* handlers under way, the innermost first
  decoded,   \* history: frames given to the decoder
  reports,   \* history: outcomes reported to the user
  excused    \* history: an answer was an application NACK, or decoding ended without a report

vars == <<remote, stored, gop, fetcher, tasks, current, pit, calls, decoded, reports, excused>>

target == gop.target
NData == gop.nData
NParity == gop.nParity
Frames == DOMAIN NData

D(i) == <<"data", i>>
P(i) == <<"parity", i>>
DataSegments(f) == {D(i) : i \in 0..NData[f] - 1}
ParitySegments(f) == {P(i) : i \in 0..NParity[f] - 1}
Segments(f) == DataSegments(f) \cup ParitySegments(f)

(* The elements of a finite set of numbers in ascending order. *)
ascending(S) ==
  CHOOSE s \in [1..Cardinality(S) -> S] : \A i, j \in DOMAIN s : i < j => s[i] < s[j]

(* prepareBatch *)
prepareBatch(f) ==
  [i \in 1..(IF f = 0 THEN GuessKey ELSE GuessDelta) |-> D(i - 1)]
    \o [i \in 1..(IF f = 0 THEN ParityKey ELSE ParityDelta) |-> P(i - 1)]

-----------------------------------------------------------------------------
(* BufferSlot of a task *)

fetchedData(t) == t.fetched \cap DataSegments(t.frame)
isNew(t) == fetchedData(t) = {}
isReady(t) ==
  ~isNew(t) /\ 2 * Cardinality(fetchedData(t)) + Cardinality(t.fetched \ fetchedData(t)) >= 2 * NData[t.frame]

(* getMissingSegments, in the order of the code *)
getMissingSegments(t) ==
  LET data == IF isNew(t) THEN <<>> ELSE [i \in 1..NData[t.frame] |-> D(i - 1)]
      parity == IF t.fetched = fetchedData(t) THEN <<>> ELSE [i \in 1..NParity[t.frame] |-> P(i - 1)]
      all == data \o parity
      missing == ascending({i \in DOMAIN all : all[i] \notin t.requested})
  IN [i \in 1..Len(missing) |-> all[missing[i]]]

-----------------------------------------------------------------------------
(* FrameFetchingTask *)

(* The constructor and start(), up to the loop *)
newTask(f) ==
  [frame |-> f, state |-> "Fetching", progress |-> 0, fetched |-> {},
   requested |-> Range(prepareBatch(f)), completion |-> Len(prepareBatch(f)) * (1 + nRtx)]

(* Handlers on the stack *)
Request(t, segs, start) == [op |-> "request", task |-> t, segs |-> segs, start |-> start]
CheckMissing(t) == [op |-> "missing", task |-> t]
CheckCompletion(t) == [op |-> "completion", task |-> t]
FetchDelta(n) == [op |-> "delta", frame |-> n]
Decode == [op |-> "decode"]

(* A new task for frame f is created, entered into the maps and started,    *)
(* before the handlers rest.                                                *)
Spawn(f, rest) ==
  /\ tasks' = Append(tasks, newTask(f))
  /\ current' = [current EXCEPT ![f] = Len(tasks')]
  /\ calls' = <<Request(Len(tasks'), prepareBatch(f), TRUE)>> \o rest

(* onData: as long as no data segment is there the slot is New and the      *)
(* segment counts as the first one.  FetchDelta(0) stands for fetchGopKey.  *)
onData(t, segment) ==
  LET f == tasks[t].frame
  IN (IF isNew(tasks[t]) /\ target # 0 /\ f \in {0, target}
      THEN <<FetchDelta(IF f = 0 THEN 1 ELSE 0)>> ELSE <<>>)
       \o <<CheckMissing(t), CheckCompletion(t)>>

receive(ts, t, segment) ==
  [ts EXCEPT ![t].progress = @ + nRtx, ![t].fetched = @ \cup {segment}]

(* onNetworkNack: the segment will not be asked for again. *)
nacked(ts, t) == [ts EXCEPT ![t].progress = @ + nRtx]

(* reset of FrameFetcherImpl *)
canceled(ts) == [t \in DOMAIN ts |-> IF t \in Range(current) THEN [ts[t] EXCEPT !.state = "Canceled"] ELSE ts[t]]

Reset(ts) ==
  /\ tasks' = canceled(ts)
  /\ current' = [f \in Frames |-> 0]

(* Fault: every failure is reported. *)
HaltAgain(ts) == fetcher' = "Failed" /\ reports' = Append(reports, "failed") /\ Reset(ts)

(* Fault: the user is not told of a failure. *)
HaltQuietly(ts) == fetcher' = "Failed" /\ UNCHANGED reports /\ Reset(ts)

(* halt *)
Halt(ts) ==
  IF fetcher = "Failed" THEN tasks' = ts /\ UNCHANGED <<fetcher, current, reports>>
  ELSE fetcher' = "Failed" /\ reports' = Append(reports, "failed") /\ Reset(ts)

-----------------------------------------------------------------------------
Published == UNION {{f} \X Segments(f) : f \in Frames}

(* Nothing is asked for yet; the storage may lack some segments. *)
Idle ==
  /\ remote \in BOOLEAN
  /\ gop \in Gops
  /\ fetcher = "Idle" /\ tasks = <<>> /\ current = [f \in Frames |-> 0]
  /\ pit = {} /\ calls = <<>> /\ decoded = <<>> /\ reports = <<>> /\ excused = FALSE

Init ==
  /\ Idle
  /\ stored \in {Published \ lost : lost \in UNION {kSubset(k, Published) : k \in 0..IF remote THEN 0 ELSE MaxLost}}

(* fetch *)
Fetch ==
  /\ fetcher = "Idle" /\ fetcher' = "Fetching"
  /\ Spawn(target, <<>>)
  /\ UNCHANGED <<remote, stored, gop, pit, decoded, reports, excused>>

Top(op) == calls # <<>> /\ Head(calls).op = op

(* requestSegment over the face, for all segments of a batch *)
RequestRemote ==
  /\ remote /\ Top("request")
  /\ LET c == Head(calls)
     IN /\ pit' = pit \cup {<<c.task, s>> : s \in Range(c.segs)}
        /\ tasks' = [tasks EXCEPT ![c.task].progress = @ + Len(c.segs)]
  /\ calls' = Tail(calls)
  /\ UNCHANGED <<remote, stored, gop, fetcher, current, decoded, reports, excused>>

(* requestSegment from the storage: the answer comes before express returns. *)
RequestLocal ==
  /\ ~remote /\ Top("request")
  /\ LET c == Head(calls)
         s == Head(c.segs)
         rest == <<[c EXCEPT !.segs = Tail(@)]>> \o Tail(calls)
         asked == [tasks EXCEPT ![c.task].progress = @ + 1]
     IN IF c.segs = <<>> \/ (c.start /\ tasks[c.task].state # "Fetching")
        THEN calls' = Tail(calls) /\ UNCHANGED tasks
        ELSE IF <<tasks[c.task].frame, s>> \in stored
        THEN tasks' = receive(asked, c.task, s) /\ calls' = onData(c.task, s) \o rest
        ELSE tasks' = nacked(asked, c.task) /\ calls' = <<CheckCompletion(c.task)>> \o rest
  /\ UNCHANGED <<remote, stored, gop, fetcher, current, pit, decoded, reports, excused>>

(* An answer arrives from the network, also for a task that was cancelled. *)
OnData(t, s) ==
  /\ calls = <<>> /\ <<t, s>> \in pit /\ pit' = pit \ {<<t, s>>}
  /\ <<tasks[t].frame, s>> \in stored
  /\ tasks' = receive(tasks, t, s) /\ calls' = onData(t, s)
  /\ UNCHANGED <<remote, stored, gop, fetcher, current, decoded, reports, excused>>

(* Data of type NACK: ignored altogether (one such answer is enough) *)
OnApplicationNack(t, s) ==
  /\ ~excused /\ calls = <<>> /\ <<t, s>> \in pit /\ pit' = pit \ {<<t, s>>}
  /\ excused' = TRUE
  /\ UNCHANGED <<remote, stored, gop, fetcher, tasks, current, calls, decoded, reports>>

(* onTimeout: the number of requests of a segment, which getRtxNum returns, *)
(* is not increased by a retry; what ends the retries is the progress.      *)
OnTimeout(t, s) ==
  /\ calls = <<>> /\ <<t, s>> \in pit
  /\ IF tasks[t].state = "Fetching" /\ nRtx > 0
     THEN tasks' = [tasks EXCEPT ![t].progress = @ + 1] /\ UNCHANGED pit
     ELSE pit' = pit \ {<<t, s>>} /\ UNCHANGED tasks
  /\ calls' = <<CheckCompletion(t)>>
  /\ UNCHANGED <<remote, stored, gop, fetcher, current, decoded, reports, excused>>

OnNetworkNack(t, s) ==
  /\ calls = <<>> /\ <<t, s>> \in pit /\ pit' = pit \ {<<t, s>>}
  /\ tasks' = nacked(tasks, t) /\ calls' = <<CheckCompletion(t)>>
  /\ UNCHANGED <<remote, stored, gop, fetcher, current, decoded, reports, excused>>

(* fetchGopKey, and the loop of fetchGopDelta *)
FetchGop ==
  /\ Top("delta")
  /\ LET n == Head(calls).frame
     IN IF n = 0 THEN Spawn(0, Tail(calls))
        ELSE IF n < target THEN Spawn(n, <<FetchDelta(n + 1)>> \o Tail(calls))
        ELSE calls' = Tail(calls) /\ UNCHANGED <<tasks, current>>
  /\ UNCHANGED <<remote, stored, gop, fetcher, pit, decoded, reports, excused>>

(* checkMissingSegments *)
CheckMissingSegments ==
  /\ Top("missing")
  /\ LET t == Head(calls).task
         missing == getMissingSegments(tasks[t])
     IN /\ tasks' = [tasks EXCEPT ![t].requested = @ \cup Range(missing),
                                  ![t].completion = @ + Len(missing) * (1 + nRtx)]
        /\ calls' = (IF missing = <<>> THEN <<>> ELSE <<Request(t, missing, FALSE)>>) \o Tail(calls)
  /\ UNCHANGED <<remote, stored, gop, fetcher, current, pit, decoded, reports, excused>>

(* checkReadyDecode, with the tasks ts *)
readyToDecode(ts) ==
  fetcher = "Fetching" /\ \A f \in Frames : current[f] # 0 => ts[current[f]].state = "Completed"

(* checkCompletion, and the callback that it makes *)
CheckTaskCompletion ==
  /\ Top("completion")
  /\ LET t == Head(calls).task
         done(state) == [tasks EXCEPT ![t].state = state]
     IN IF tasks[t].state # "Fetching"
        THEN calls' = Tail(calls) /\ UNCHANGED <<fetcher, tasks, current, reports>>
        ELSE IF isReady(tasks[t])
        THEN /\ tasks' = done("Completed")
             /\ IF readyToDecode(tasks')
                THEN fetcher' = "Decoding" /\ calls' = <<Decode>> \o Tail(calls)
                ELSE calls' = Tail(calls) /\ UNCHANGED fetcher
             /\ UNCHANGED <<current, reports>>
        ELSE /\ calls' = Tail(calls)
             /\ IF tasks[t].progress >= tasks[t].completion THEN Halt(done("Failed"))
                ELSE UNCHANGED <<fetcher, tasks, current, reports>>
  /\ UNCHANGED <<remote, stored, gop, pit, decoded, excused>>

(* Frames in the order in which decode takes them: the key frame, the map   *)
(* of delta frames in the order of their names, the target.                 *)
decodeOrder == ascending({f \in Frames : current[f] # 0})

(* decode, when all frames can be read and decoded.  Without a buffer from  *)
(* the user nothing is reported.                                            *)
DecodeGop(buffer) ==
  /\ Top("decode") /\ calls' = Tail(calls)
  /\ decoded' = decodeOrder
  /\ fetcher' = IF buffer THEN "Completed" ELSE fetcher
  /\ reports' = IF buffer THEN Append(reports, "fetched") ELSE reports
  /\ excused' = (excused \/ ~buffer)
  /\ Reset(tasks)
  /\ UNCHANGED <<remote, stored, gop, pit>>

(* decode, when a frame cannot be restored from its parity segments.  For   *)
(* another frame than the key frame an assertion fails after that.          *)
DecodeFails(f) ==
  /\ Top("decode") /\ calls' = Tail(calls)
  /\ current[f] # 0 /\ ~(DataSegments(f) \subseteq tasks[current[f]].fetched)
  /\ Halt(tasks)
  /\ excused' = (excused \/ f # 0)
  /\ UNCHANGED <<remote, stored, gop, pit, decoded>>

Return ==
  \/ RequestRemote \/ RequestLocal \/ FetchGop \/ CheckMissingSegments \/ CheckTaskCompletion
  \/ DecodeGop(TRUE) \/ DecodeGop(FALSE) \/ \E f \in Frames : DecodeFails(f)

Answer(t, s) == OnData(t, s) \/ OnApplicationNack(t, s) \/ OnTimeout(t, s) \/ OnNetworkNack(t, s)

Next ==
  \/ Fetch
  \/ Return
  \/ \E x \in pit : Answer(x[1], x[2])

(* Every Interest is answered or times out (expressInterest promises one of *)
(* the callbacks), and handlers return.                                     *)
Spec ==
  /\ Init /\ [][Next]_vars
  /\ WF_vars(Fetch) /\ WF_vars(Return) /\ WF_vars(\E x \in pit : Answer(x[1], x[2]))

-----------------------------------------------------------------------------
(* Properties *)

(* Type correctness of fetcher, tasks and storage. *)
FetchingTypeOK ==
  /\ fetcher \in {"Idle", "Fetching", "Decoding", "Failed", "Completed"}
  /\ \A t \in DOMAIN tasks :
       /\ tasks[t].state \in {"Fetching", "Canceled", "Completed", "Failed"}
       /\ tasks[t].fetched \subseteq tasks[t].requested
  /\ \A f \in Frames : current[f] \in 0..Len(tasks)
  /\ \A x \in pit : x[1] \in DOMAIN tasks /\ x[2] \in tasks[x[1]].requested

(* "19 preceding delta frames and 1 key frame must be fetched before        *)
(* decoding of #20 can be started" (frame-fetcher.hpp): the frames decoded  *)
(* are the whole GOP up to the target, in order, although the key frame and *)
(* the delta frames are learnt of one after the other while other tasks     *)
(* complete.                                                                *)
DecodesWholeGop == decoded # <<>> => decoded = [i \in 1..target + 1 |-> i - 1]

(* "Callback which is called when first segment (regardless of its' number) *)
(* arrives" (fetching-task.hpp): each frame of the GOP gets one task.       *)
OneTaskPerFrame ==
  \A t, u \in DOMAIN tasks : tasks[t].frame = tasks[u].frame => t = u

(* The user hears of a fetch at most once, although cancelled tasks go on   *)
(* to receive answers, start further tasks, complete and fail; unless a     *)
(* frame was given a second task.                                           *)
OneOutcome == OneTaskPerFrame => Len(reports) <= 1 /\ (reports # <<>> => fetcher \in {"Failed", "Completed"})

(* The count of progress, which tasks give up by, matches the answers: a    *)
(* task that is still fetching waits for an Interest.  (Data of type NACK   *)
(* is not counted.)                                                         *)
FetchingAwaitsAnswer ==
  \A t \in DOMAIN tasks :
    tasks[t].state = "Fetching" /\ calls = <<>> /\ ~excused => \E s \in tasks[t].requested : <<t, s>> \in pit

(* Every fetch comes to an end that is reported to the user. *)
OutcomeReported == fetcher # "Idle" ~> reports # <<>> \/ excused

(* A fetch decodes the whole GOP and is reported once, and its tasks wait   *)
(* only for answers that can still come.                                    *)
FetchesWholeGopOnce ==
  /\ FetchingTypeOK
  /\ DecodesWholeGop
  /\ OneOutcome
  /\ FetchingAwaitsAnswer
=============================================================================
