---------------------------- MODULE InterestQueue ----------------------------
(***************************************************************************)
(* The Interest queue of a remote stream (interest-queue.cpp), through     *)
(* which the pipeliner of a session expresses its Interests: ordered by    *)
(* deadline, drained on the face thread.  start() runs on a thread of the  *)
(* application, and so do the first requests of a session; what follows    *)
(* from segments runs on the face thread, where io_service::dispatch runs  *)
(* a block at once.                                                        *)
(***************************************************************************)
EXTENDS RemoteStream

CONSTANTS
  QueueLimit,    \* entries beyond which the caller drains the queue itself
  Deadlines,     \* arrival deadlines of Interests
  MaxInterests   \* bound on Interests enqueued

ASSUME QueueAssumption ==
  QueueLimit \in Nat /\ Deadlines \subseteq Nat /\ MaxInterests \in Nat

VARIABLES
  queue,      \* queue_
  draining,   \* isDrainingQueue_
  scheduled,  \* calls of safeDrain that wait in the io_service
  enqueued,   \* history: number of Interests enqueued
  batch       \* history: what was expressed by the last call that drained

queueVars == <<queue, draining, scheduled, enqueued, batch>>
iqVars == <<vars, queueVars>>

Entry == [no : 1..MaxInterests, session : 1..MaxSessions, deadline : Deadlines]

IQInit ==
  /\ Init
  /\ queue = {} /\ draining = FALSE /\ scheduled = 0 /\ enqueued = 0 /\ batch = <<>>

(* The inverted comparator puts the earliest deadline on top; of two equal  *)
(* ones either may come first, here the older.                              *)
ExpressedBefore(a, b) ==
  a.deadline < b.deadline \/ (a.deadline = b.deadline /\ a.no < b.no)

InOrder(s) == \A i, j \in DOMAIN s : i < j => ExpressedBefore(s[i], s[j])

(* drainQueue: all entries are expressed, from the top. *)
drainQueue(q) ==
  /\ batch' = CHOOSE s \in [1..Cardinality(q) -> q] : InOrder(s)
  /\ queue' = {} /\ draining' = FALSE

(* enqueueInterest by a thread.  The first entry schedules a drain, which   *)
(* runs at once on the face thread; an entry beyond the limit makes the     *)
(* caller drain.                                                            *)
enqueueInterest(thread, entry) ==
  LET q == queue \cup {entry}
  IN IF (~draining /\ thread = "face") \/ (draining /\ Cardinality(q) > QueueLimit)
     THEN drainQueue(q) /\ UNCHANGED scheduled
     ELSE /\ queue' = q /\ draining' = TRUE
          /\ scheduled' = IF draining THEN scheduled ELSE scheduled + 1
          /\ UNCHANGED batch

(* The pipeliner requests a segment for the running session. *)
Request(thread, deadline) ==
  /\ stream.running /\ enqueued < MaxInterests
  /\ enqueued' = enqueued + 1
  /\ enqueueInterest(thread, [no |-> enqueued', session |-> session, deadline |-> deadline])
  /\ UNCHANGED vars

(* safeDrain, by the face thread *)
SafeDrain ==
  /\ scheduled > 0 /\ scheduled' = scheduled - 1
  /\ drainQueue(queue)
  /\ UNCHANGED <<vars, enqueued>>

(* Fault: entries stay. *)
resetNothing == UNCHANGED queueVars

(* reset: entries are thrown away; a drain that is scheduled will find none. *)
reset == queue' = {} /\ UNCHANGED <<draining, scheduled, enqueued, batch>>

(* stopFetching flushes the queue of a stream that ran. *)
StopFlushes == Stop /\ (IF stream.running THEN reset ELSE UNCHANGED queueVars)

IQNext ==
  \/ StreamStep /\ UNCHANGED queueVars
  \/ StopFlushes
  \/ \E thread \in {"face", "app"}, d \in Deadlines : Request(thread, d)
  \/ SafeDrain

AnswersInTheEnd(n, v, s) ==
  /\ <<v, s>> \in Answers(fetch[n]) /\ (fetch[n].version = 0 => s = 0)
  /\ OnSegmentReceived(n, <<v, s>>) /\ UNCHANGED queueVars

(* The network answers in the end; the io_service runs what is posted. *)
IQSpec ==
  /\ IQInit /\ [][IQNext]_iqVars
  /\ WF_iqVars(SafeDrain)
  /\ \A n \in Names, v \in Versions, s \in 0..2 : WF_iqVars(AnswersInTheEnd(n, v, s))

-----------------------------------------------------------------------------
(* Interests wait only while a drain is to come, and only those of the      *)
(* session that runs: however the application and the face thread enqueue,  *)
(* drain by force and flush, none is left behind, and none of a stopped     *)
(* session is expressed later on behalf of the next.  What a drain          *)
(* expresses is in the order of deadlines, each Interest once.              *)
WaitingIsDrained ==
  /\ queue \subseteq Entry
  /\ queue # {} => draining /\ scheduled > 0
  /\ draining => scheduled > 0
  /\ \A e \in queue : stream.running /\ e.session = session
  /\ \A i, j \in DOMAIN batch :
       i < j => batch[i].deadline <= batch[j].deadline /\ batch[i].no # batch[j].no
=============================================================================
