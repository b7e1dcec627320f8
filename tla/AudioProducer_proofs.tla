------------------------- MODULE AudioProducer_proofs -------------------------
(***************************************************************************)
(* Nothing is delivered from a thread of an audio stream that was stopped, *)
(* nor to one that was destroyed, for every set of threads and however the *)
(* application's calls, the recording device and the audio thread          *)
(* interleave.                                                             *)
(*                                                                         *)
(* The argument follows the queue of the audio thread: it holds at most    *)
(* one block, the one the application waits for, and the block that stops  *)
(* a thread is queued behind all of its frames.                            *)
(*                                                                         *)
(* Then bundles: each is in the pool, with the audio thread or with the    *)
(* face thread, and those of one thread come in the order of its sessions  *)
(* and of their numbers.                                                   *)
(***************************************************************************)
EXTENDS AudioProducer, TLAPS, SequenceTheorems, FiniteSetTheorems, FunctionTheorems

Ops == {"idle", "start", "add", "stop", "remove", "create", "destroy"}
Blocks == {"startSend", "stopSend", "create", "delete"}

(* The block that a call of the application waits for. *)
BlockOf(op) ==
  CASE op \in {"start", "add"} -> "startSend" [] op \in {"stop", "remove"} -> "stopSend"
    [] op = "create" -> "create" [] OTHER -> "delete"

AudioTask == [kind : Blocks \cup {"frame"}, thread : Threads, size : Nat]
MainType ==
  [op : Ops, todo : SUBSET Threads, thread : Threads \cup {None},
   wait : {"no", "check", "drowsy", "asleep"}, done : BOOLEAN, ok : BOOLEAN]

(* Queues of the audio thread: with frames of t, with frames only, with one *)
(* block only, with all frames of t before position k.                      *)
HasFrame(q, t) == \E i \in DOMAIN q : q[i].kind = "frame" /\ q[i].thread = t
FramesOnly(q) == \A i \in DOMAIN q : q[i].kind = "frame"
BlockAt(q, k, b, t) ==
  /\ k \in DOMAIN q /\ q[k].kind = b /\ q[k].thread = t
  /\ \A i \in DOMAIN q : i # k => q[i].kind = "frame"
Behind(q, k, t) == \A i \in DOMAIN q : q[i].kind = "frame" /\ q[i].thread = t => i < k

Waits == main.wait # "no" /\ ~main.done

(* The application's thread waits for the one block that is queued; what it *)
(* is about to do is in keeping with the threads there are.                 *)
MainInv ==
  /\ main \in MainType /\ audioQueue \in Seq(AudioTask)
  /\ main.op = "idle" => main = Idle
  /\ main.wait # "no" => main.thread \in Threads
  /\ main.op \in {"create", "destroy"} => main.wait # "no"
  /\ IF Waits THEN \E k \in DOMAIN audioQueue : BlockAt(audioQueue, k, BlockOf(main.op), main.thread)
     ELSE FramesOnly(audioQueue)

(* The life of threads: AudioThreads exist for the threads of the stream    *)
(* and for the one that is being removed, run while they exist and capture  *)
(* while they run.                                                          *)
LifeInv ==
  /\ isRunning_ \in [Threads -> BOOLEAN] /\ capturing_ \in [Threads -> BOOLEAN]
  /\ threads_ \subseteq Threads
  /\ alive = threads_ \cup (IF main.op = "remove" THEN {main.thread} ELSE {})
  /\ \A t \in Threads : (isRunning_[t] => t \in alive) /\ (capturing_[t] => isRunning_[t])
  /\ main.op \in {"remove", "create"} => main.thread \in Threads \ threads_
  /\ main.op = "remove" => main.todo \subseteq {main.thread} /\ (main.todo = {} => ~isRunning_[main.thread])
  /\ main.op \in {"start", "add"} =>
       /\ \A t \in main.todo : t \in threads_ /\ ~isRunning_[t]
       /\ main.wait # "no" => isRunning_[main.thread]

(* A thread is being stopped, by a block behind all of its frames.          *)
StopPending(t) ==
  /\ main.op \in {"stop", "remove"} /\ main.thread = t /\ Waits
  /\ \E k \in DOMAIN audioQueue :
       BlockAt(audioQueue, k, "stopSend", t) /\ Behind(audioQueue, k, t)

(* Frames are of threads that exist and capture, or that are being stopped. *)
QuietInv ==
  /\ audio.thread \in Threads \cup {None}
  /\ \A t \in Threads : Undelivered(t) => t \in alive /\ (capturing_[t] \/ StopPending(t))

QInv == MainInv /\ LifeInv /\ QuietInv

-----------------------------------------------------------------------------
(* The queue                                                                *)

(* A task at the end of a queue moves nothing else.                         *)
LEMMA Pushed ==
  ASSUME NEW q \in Seq(AudioTask), NEW e \in AudioTask
  PROVE  /\ Append(q, e) \in Seq(AudioTask) /\ Len(q) \in Nat
         /\ DOMAIN q = 1..Len(q) /\ DOMAIN Append(q, e) = 1..(Len(q) + 1)
         /\ \A i \in 1..Len(q) : Append(q, e)[i] = q[i]
         /\ Append(q, e)[Len(q) + 1] = e
BY AppendProperties, LenProperties

(* A frame at the end *)
LEMMA PushFrame ==
  ASSUME NEW q \in Seq(AudioTask), NEW e \in AudioTask, e.kind = "frame"
  PROVE  LET p == Append(q, e) IN
         /\ p \in Seq(AudioTask)
         /\ \A t : HasFrame(p, t) => HasFrame(q, t) \/ t = e.thread
         /\ FramesOnly(q) => FramesOnly(p)
         /\ \A k, b, t : b # "frame" /\ BlockAt(q, k, b, t) => BlockAt(p, k, b, t)
         /\ \A k \in DOMAIN q : \A t : t # e.thread /\ Behind(q, k, t) => Behind(p, k, t)
<1> DEFINE p == Append(q, e)
           n == Len(q)
<1>1. /\ p \in Seq(AudioTask) /\ n \in Nat /\ DOMAIN q = 1..n /\ DOMAIN p = 1..(n + 1)
      /\ \A i \in 1..n : p[i] = q[i]
      /\ p[n + 1] = e
  BY Pushed
<1> HIDE DEF p, n
<1>2. \A i \in DOMAIN p : (i \in DOMAIN q /\ p[i] = q[i]) \/ p[i] = e
  BY <1>1
<1>3. \A i \in DOMAIN q : i \in DOMAIN p /\ p[i] = q[i]
  BY <1>1
<1> QED
  BY <1>1, <1>2, <1>3 DEF HasFrame, FramesOnly, BlockAt, Behind, p

(* A block at the end of a queue of frames is behind all of them.           *)
LEMMA PushBlock ==
  ASSUME NEW q \in Seq(AudioTask), FramesOnly(q), NEW e \in AudioTask, e.kind # "frame"
  PROVE  LET p == Append(q, e) IN
         /\ p \in Seq(AudioTask)
         /\ \A t : HasFrame(p, t) => HasFrame(q, t)
         /\ \E k \in DOMAIN p : BlockAt(p, k, e.kind, e.thread) /\ \A t : Behind(p, k, t)
<1> DEFINE p == Append(q, e)
           n == Len(q)
           k == n + 1
<1>1. /\ p \in Seq(AudioTask) /\ n \in Nat /\ DOMAIN q = 1..n /\ DOMAIN p = 1..k
      /\ \A i \in 1..n : p[i] = q[i]
      /\ p[k] = e
  BY Pushed
<1>2. k \in 1..k /\ \A i \in 1..k : i # k => i \in 1..n /\ i < k
  BY <1>1
<1> HIDE DEF p, n, k
<1>3. BlockAt(p, k, e.kind, e.thread)
  BY <1>1, <1>2 DEF BlockAt, FramesOnly
<1>4. \A t : Behind(p, k, t)
  BY <1>1, <1>2 DEF Behind
<1>5. \A t : HasFrame(p, t) => HasFrame(q, t)
  BY <1>1, <1>2 DEF HasFrame
<1> QED
  BY <1>1, <1>2, <1>3, <1>4, <1>5 DEF p

(* Taking a task off the queue moves the others up.                         *)
LEMMA Popped ==
  ASSUME NEW q \in Seq(AudioTask), q # <<>>
  PROVE  /\ Tail(q) \in Seq(AudioTask) /\ Len(q) \in Nat /\ Head(q) = q[1] /\ Head(q) \in AudioTask
         /\ DOMAIN q = 1..Len(q) /\ DOMAIN Tail(q) = 1..(Len(q) - 1) /\ 1 \in DOMAIN q
         /\ \A i \in 1..(Len(q) - 1) : Tail(q)[i] = q[i + 1]
<1>1. Len(q) \in Nat /\ Len(q) # 0 /\ DOMAIN q = 1..Len(q)
  BY LenProperties, EmptySeq
<1>2. /\ Tail(q) \in Seq(AudioTask) /\ Len(Tail(q)) = Len(q) - 1 /\ Head(q) \in AudioTask
      /\ \A i \in 1..Len(Tail(q)) : Tail(q)[i] = q[i + 1]
  BY HeadTailProperties
<1>3. Head(q) = q[1]
  BY <1>1
<1> QED
  BY <1>1, <1>2, <1>3

(* If it is a frame the block stays where it was among the others.          *)
LEMMA PopFrame ==
  ASSUME NEW q \in Seq(AudioTask), q # <<>>, Head(q).kind = "frame"
  PROVE  LET p == Tail(q) IN
         /\ p \in Seq(AudioTask)
         /\ \A t : HasFrame(p, t) => HasFrame(q, t)
         /\ HasFrame(q, Head(q).thread) /\ Head(q).thread \in Threads
         /\ FramesOnly(q) => FramesOnly(p)
         /\ \A k, b, t : b # "frame" /\ BlockAt(q, k, b, t) => BlockAt(p, k - 1, b, t)
         /\ \A k \in DOMAIN q : \A t : Behind(q, k, t) => Behind(p, k - 1, t)
<1> DEFINE p == Tail(q)
           n == Len(q)
<1>1. /\ p \in Seq(AudioTask) /\ n \in Nat /\ Head(q) = q[1] /\ Head(q) \in AudioTask
      /\ DOMAIN q = 1..n /\ DOMAIN p = 1..(n - 1) /\ 1 \in DOMAIN q
      /\ \A i \in 1..(n - 1) : p[i] = q[i + 1]
  BY Popped
<1> HIDE DEF p, n
<1>2. \A i \in DOMAIN p : i \in Int /\ i + 1 \in DOMAIN q /\ p[i] = q[i + 1]
  BY <1>1
<1>3. \A t : HasFrame(p, t) => HasFrame(q, t)
  BY <1>2 DEF HasFrame
<1>4. HasFrame(q, Head(q).thread) /\ Head(q).thread \in Threads
  BY <1>1 DEF HasFrame, AudioTask
<1>5. FramesOnly(q) => FramesOnly(p)
  BY <1>2 DEF FramesOnly
<1>6. ASSUME NEW k, NEW b, NEW t, b # "frame", BlockAt(q, k, b, t)
      PROVE  BlockAt(p, k - 1, b, t)
  <2>1. k \in 1..n /\ k # 1 /\ q[k].kind = b /\ q[k].thread = t
    BY <1>1, <1>6 DEF BlockAt
  <2>2. k - 1 \in DOMAIN p /\ p[k - 1] = q[k]
    <3>1. k - 1 \in 1..(n - 1) /\ (k - 1) + 1 = k
      BY <1>1, <2>1
    <3> QED
      BY <1>1, <3>1
  <2>3. \A i \in DOMAIN p : i # k - 1 => p[i].kind = "frame"
    <3>1. \A i \in DOMAIN p : i # k - 1 => i + 1 # k
      BY <1>2, <2>1
    <3> QED
      BY <1>2, <1>6, <3>1 DEF BlockAt
  <2> QED
    BY <2>1, <2>2, <2>3 DEF BlockAt
<1>7. ASSUME NEW k \in DOMAIN q, NEW t, Behind(q, k, t)
      PROVE  Behind(p, k - 1, t)
  <2> SUFFICES ASSUME NEW i \in DOMAIN p, p[i].kind = "frame", p[i].thread = t PROVE i < k - 1
    BY DEF Behind
  <2>1. i + 1 < k
    BY <1>2, <1>7 DEF Behind
  <2> QED
    BY <1>1, <1>2, <2>1
<1> QED
  BY <1>1, <1>3, <1>4, <1>5, <1>6, <1>7 DEF p

(* If it is the block there are frames only, and none of a thread that it   *)
(* was behind.                                                              *)
LEMMA PopBlock ==
  ASSUME NEW q \in Seq(AudioTask), q # <<>>, Head(q).kind # "frame",
         NEW k, NEW b, NEW t, BlockAt(q, k, b, t)
  PROVE  LET p == Tail(q) IN
         /\ p \in Seq(AudioTask) /\ FramesOnly(p)
         /\ Head(q).kind = b /\ Head(q).thread = t
         /\ \A u : HasFrame(p, u) => HasFrame(q, u)
         /\ \A u : Behind(q, k, u) => ~HasFrame(p, u)
<1> DEFINE p == Tail(q)
           n == Len(q)
<1>1. /\ p \in Seq(AudioTask) /\ n \in Nat /\ Head(q) = q[1]
      /\ DOMAIN q = 1..n /\ DOMAIN p = 1..(n - 1) /\ 1 \in DOMAIN q
      /\ \A i \in 1..(n - 1) : p[i] = q[i + 1]
  BY Popped
<1> HIDE DEF p, n
<1>2. \A i \in DOMAIN p : i + 1 \in DOMAIN q /\ p[i] = q[i + 1] /\ i + 1 # 1 /\ ~(i + 1 < 1)
  BY <1>1
<1>3. k = 1
  BY <1>1 DEF BlockAt
<1> QED
  BY <1>1, <1>2, <1>3 DEF p, HasFrame, FramesOnly, BlockAt, Behind

-----------------------------------------------------------------------------
(* Steps that leave the queue alone                                         *)

queueVars == <<main, audioQueue, audio, isRunning_, capturing_, threads_, alive>>

(* The face thread's steps touch nothing of this.                           *)
LEMMA QInvStuttering ==
  ASSUME QInv, UNCHANGED queueVars
  PROVE  QInv'
BY DEF QInv, queueVars, MainInv, LifeInv, QuietInv, Waits, StopPending, Undelivered

(* Nothing is stopping when no call waits.                                  *)
LEMMA NotWaiting ==
  ASSUME QInv, ~Waits
  PROVE  FramesOnly(audioQueue) /\ \A t \in Threads : Undelivered(t) => t \in alive /\ capturing_[t]
BY DEF QInv, MainInv, QuietInv, StopPending

(* The flag is looked at, the caller falls asleep: it goes on waiting.      *)
LEMMA QInvWaitsOn ==
  ASSUME QInv, CheckFlag \/ FallAsleep
  PROVE  QInv'
<1>1. /\ main \in MainType /\ main.wait # "no"
      /\ UNCHANGED <<audioQueue, audio, isRunning_, capturing_, threads_, alive>>
  BY DEF QInv, MainInv, CheckFlag, FallAsleep, threadVars, streamVars
<1>2. /\ main' \in MainType /\ main'.wait # "no"
      /\ main'.op = main.op /\ main'.todo = main.todo /\ main'.thread = main.thread
      /\ main'.done = main.done
  BY <1>1 DEF MainType, CheckFlag, FallAsleep
<1>3. main.op # "idle"
  BY <1>1 DEF QInv, MainInv, Idle
<1>4. MainInv'
  BY <1>1, <1>2, <1>3 DEF QInv, MainInv, Waits
<1>5. LifeInv'
  BY <1>1, <1>2 DEF QInv, LifeInv
<1>6. QuietInv'
  BY <1>1, <1>2 DEF QInv, QuietInv, Undelivered, StopPending, Waits
<1> QED
  BY <1>4, <1>5, <1>6 DEF QInv

(* Calls begin with no wait.                                                *)
LEMMA QInvCall ==
  ASSUME QInv, Start \/ Stop \/ \E t \in Threads : RemoveThread(t)
  PROVE  QInv'
<1>1. /\ main = Idle /\ ~Waits
      /\ UNCHANGED <<audioQueue, audio, isRunning_, capturing_, alive>>
  BY DEF Start, Stop, RemoveThread, Call, threadVars, streamVars, Waits, Idle
<1>2. FramesOnly(audioQueue) /\ \A t \in Threads : Undelivered(t) => t \in alive /\ capturing_[t]
  BY <1>1, NotWaiting
<1>3. /\ threads_ \subseteq Threads /\ alive = threads_
      /\ \A t \in Threads : (isRunning_[t] => t \in alive) /\ (capturing_[t] => isRunning_[t])
  BY <1>1 DEF QInv, LifeInv, Idle
<1>4. CASE Start
  <2>1. /\ main'.op = "start" /\ main'.todo = {t \in threads_ : ~isRunning_[t]}
        /\ main'.wait = "no" /\ main' \in MainType /\ threads_' = threads_
    BY <1>3, <1>4 DEF Start, Idle, MainType, Ops, streamVars
  <2>2. MainInv' /\ LifeInv' /\ QuietInv'
    BY <1>1, <1>2, <1>3, <2>1 DEF QInv, MainInv, LifeInv, QuietInv, Waits, Undelivered
  <2> QED
    BY <2>2 DEF QInv
<1>5. CASE Stop
  <2>1. /\ main'.op = "stop" /\ main'.todo = threads_
        /\ main'.wait = "no" /\ main' \in MainType /\ threads_' = threads_
    BY <1>3, <1>5 DEF Stop, Idle, MainType, Ops, streamVars
  <2>2. MainInv' /\ LifeInv' /\ QuietInv'
    BY <1>1, <1>2, <1>3, <2>1 DEF QInv, MainInv, LifeInv, QuietInv, Waits, Undelivered
  <2> QED
    BY <2>2 DEF QInv
<1>6. CASE \E t \in Threads : RemoveThread(t)
  <2>1. PICK t \in Threads : RemoveThread(t)
    BY <1>6
  <2>2. /\ main'.op = "remove" /\ main'.todo = {t} /\ main'.thread = t
        /\ main'.wait = "no" /\ main' \in MainType /\ t \in threads_ /\ threads_' = threads_ \ {t}
    BY <1>3, <2>1 DEF RemoveThread, Idle, MainType, Ops
  <2>3. MainInv' /\ LifeInv' /\ QuietInv'
    BY <1>1, <1>2, <1>3, <2>2 DEF QInv, MainInv, LifeInv, QuietInv, Waits, Undelivered
  <2> QED
    BY <2>3 DEF QInv
<1> QED
  BY <1>4, <1>5, <1>6

(* Calls go on or return once their block was run: only frames are queued,  *)
(* of threads that capture.  If the voice engine failed the thread is left  *)
(* running and does not capture.                                            *)
LEMMA QInvReturned ==
  ASSUME QInv, ThreadStarted \/ ThreadStopped \/ ThreadCreated \/ CreateFailed \/ RemoveReturns
  PROVE  QInv'
<1>1. /\ main \in MainType /\ main.wait = "check" /\ main.done /\ ~Waits
      /\ UNCHANGED <<audioQueue, audio, isRunning_>>
      /\ audioQueue \in Seq(AudioTask) /\ main.thread \in Threads
  BY DEF QInv, MainInv, ThreadStarted, ThreadStopped, ThreadCreated, CreateFailed, RemoveReturns, Returned, threadVars, streamVars, Waits
<1>2. FramesOnly(audioQueue) /\ \A t \in Threads : Undelivered(t) => t \in alive /\ capturing_[t]
  BY <1>1, NotWaiting
<1>3. QInv => LifeInv /\ QuietInv
  BY DEF QInv
<1>4. CASE ThreadStarted /\ main.ok
  <2>1. /\ main.op \in {"start", "add"}
        /\ main'.op = main.op /\ main'.todo = main.todo /\ main'.thread = None /\ main'.wait = "no"
        /\ main' \in MainType /\ UNCHANGED <<threads_, alive>>
        /\ capturing_' = [capturing_ EXCEPT ![main.thread] = TRUE]
    BY <1>1, <1>4 DEF ThreadStarted, MainType
  <2>2. /\ isRunning_[main.thread] /\ capturing_' \in [Threads -> BOOLEAN]
        /\ \A t \in Threads : capturing_'[t] <=> (capturing_[t] \/ t = main.thread)
    BY <1>1, <1>3, <2>1 DEF LifeInv
  <2>3. MainInv' /\ LifeInv' /\ QuietInv'
    BY <1>1, <1>2, <1>3, <2>1, <2>2 DEF MainInv, LifeInv, QuietInv, Waits, Undelivered
  <2> QED
    BY <2>3 DEF QInv
<1>5. CASE ThreadStarted /\ ~main.ok
  <2>1. /\ main.op \in {"start", "add"} /\ main' = Idle /\ Idle \in MainType
        /\ UNCHANGED <<threads_, alive, capturing_>>
    BY <1>5 DEF ThreadStarted, Idle, MainType, Ops
  <2>2. MainInv' /\ LifeInv' /\ QuietInv'
    BY <1>1, <1>2, <1>3, <2>1 DEF MainInv, LifeInv, QuietInv, Waits, Undelivered, Idle
  <2> QED
    BY <2>2 DEF QInv
<1>6. CASE ThreadStopped
  <2>1. /\ main.op \in {"stop", "remove"}
        /\ main'.op = main.op /\ main'.todo = main.todo /\ main'.thread = main.thread /\ main'.wait = "no"
        /\ main' \in MainType /\ UNCHANGED <<threads_, alive, capturing_>>
    BY <1>1, <1>6 DEF ThreadStopped, MainType, threadVars, streamVars
  <2>2. MainInv' /\ LifeInv' /\ QuietInv'
    BY <1>1, <1>2, <1>3, <2>1 DEF MainInv, LifeInv, QuietInv, Waits, Undelivered
  <2> QED
    BY <2>2 DEF QInv
<1>7. CASE ThreadCreated
  <2>1. /\ main.op = "create" /\ UNCHANGED capturing_
        /\ threads_' = threads_ \cup {main.thread} /\ alive' = alive \cup {main.thread}
        /\ main'.op = "add" /\ main'.todo \subseteq {main.thread} /\ main'.wait = "no"
    BY <1>7 DEF ThreadCreated, Idle
  <2>2. main' \in MainType
    BY <1>1, <1>7 DEF ThreadCreated, Idle, MainType, Ops
  <2>3. main.thread \notin threads_ /\ main.thread \notin alive /\ ~isRunning_[main.thread]
    BY <1>1, <1>3, <2>1 DEF LifeInv
  <2>4. MainInv' /\ LifeInv' /\ QuietInv'
    BY <1>1, <1>2, <1>3, <2>1, <2>2, <2>3 DEF MainInv, LifeInv, QuietInv, Waits, Undelivered
  <2> QED
    BY <2>4 DEF QInv
<1>8. CASE CreateFailed \/ RemoveReturns
  <2>1. /\ main.op \in {"create", "destroy"} /\ main' = Idle /\ Idle \in MainType
        /\ UNCHANGED <<threads_, alive, capturing_>>
    BY <1>8 DEF CreateFailed, RemoveReturns, Idle, MainType, Ops, threadVars, streamVars
  <2>2. MainInv' /\ LifeInv' /\ QuietInv'
    BY <1>1, <1>2, <1>3, <2>1 DEF MainInv, LifeInv, QuietInv, Waits, Undelivered, Idle
  <2> QED
    BY <2>2 DEF QInv
<1> QED
  BY <1>4, <1>5, <1>6, <1>7, <1>8

(* Calls that have nothing more to wait for return.                         *)
LEMMA QInvReturns ==
  ASSUME QInv, StartReturns \/ StopReturns \/ AddReturns
  PROVE  QInv'
<1>1. /\ main.op \in {"start", "stop", "add"} /\ main.wait = "no" /\ ~Waits /\ main' = Idle
      /\ UNCHANGED <<audioQueue, audio, isRunning_, capturing_, threads_, alive>>
  BY DEF StartReturns, StopReturns, AddReturns, threadVars, streamVars, Waits
<1>2. FramesOnly(audioQueue) /\ \A t \in Threads : Undelivered(t) => t \in alive /\ capturing_[t]
  BY <1>1, NotWaiting
<1>3. Idle \in MainType
  BY DEF Idle, MainType, Ops
<1>4. MainInv' /\ LifeInv' /\ QuietInv'
  BY <1>1, <1>2, <1>3 DEF QInv, MainInv, LifeInv, QuietInv, Waits, Undelivered, Idle
<1> QED
  BY <1>4 DEF QInv

-----------------------------------------------------------------------------
(* Steps that queue a block                                                 *)

(* A block is queued when there is none, and its caller waits for it.       *)
LEMMA QueuesBlock ==
  ASSUME MainInv, ~Waits, NEW op \in Ops \ {"idle"}, NEW t \in Threads,
         main' \in MainType, main'.op = op, main'.thread = t, main'.wait = "check", ~main'.done,
         perform([kind |-> BlockOf(op), thread |-> t, size |-> 0]), UNCHANGED audio
  PROVE  /\ MainInv'
         /\ \A u \in Threads : Undelivered(u)' => Undelivered(u)
         /\ op \in {"stop", "remove"} => StopPending(t)'
<1> DEFINE e == [kind |-> BlockOf(op), thread |-> t, size |-> 0]
<1>1. /\ audioQueue \in Seq(AudioTask) /\ FramesOnly(audioQueue) /\ audioQueue' = Append(audioQueue, e)
      /\ e \in AudioTask /\ e.kind = BlockOf(op) /\ e.kind # "frame" /\ e.thread = t
  BY DEF MainInv, perform, AudioTask, Blocks, BlockOf
<1> HIDE DEF e
<1>2. /\ audioQueue' \in Seq(AudioTask)
      /\ \A u : HasFrame(audioQueue', u) => HasFrame(audioQueue, u)
      /\ \E k \in DOMAIN audioQueue' :
           BlockAt(audioQueue', k, BlockOf(op), t) /\ \A u : Behind(audioQueue', k, u)
  BY <1>1, PushBlock
<1>3. MainInv'
  BY <1>2 DEF MainInv, Waits
<1>4. \A u \in Threads : Undelivered(u)' => Undelivered(u)
  BY <1>2 DEF Undelivered, HasFrame
<1>5. op \in {"stop", "remove"} => StopPending(t)'
  BY <1>2 DEF StopPending, Waits, BlockOf
<1> QED
  BY <1>3, <1>4, <1>5

(* A thread starts: it runs, and captures once the block was run.           *)
LEMMA QInvStartThread ==
  ASSUME QInv, NEW t \in Threads, StartThread(t)
  PROVE  QInv'
<1>1. /\ main \in MainType /\ main.op \in {"start", "add"} /\ main.wait = "no" /\ ~Waits /\ t \in main.todo
      /\ UNCHANGED <<audio, capturing_, threads_, alive>>
      /\ isRunning_' = [isRunning_ EXCEPT ![t] = TRUE]
  BY DEF QInv, MainInv, StartThread, Waits, streamVars
<1>2. \A u \in Threads : Undelivered(u) => u \in alive /\ capturing_[u]
  BY <1>1, NotWaiting
<1>3. /\ main' \in MainType /\ main'.op = main.op /\ main'.todo = main.todo \ {t}
      /\ main'.thread = t /\ main'.wait = "check" /\ ~main'.done
  BY <1>1 DEF StartThread, waiting, MainType
<1>4. perform([kind |-> BlockOf(main.op), thread |-> t, size |-> 0])
  BY <1>1 DEF StartThread, BlockOf
<1>5. /\ MainInv'
      /\ \A u \in Threads : Undelivered(u)' => Undelivered(u)
  BY <1>1, <1>3, <1>4, QueuesBlock DEF QInv, Ops
<1>6. /\ isRunning_' \in [Threads -> BOOLEAN] /\ t \in threads_ /\ ~isRunning_[t]
      /\ \A u \in Threads : isRunning_'[u] <=> (isRunning_[u] \/ u = t)
  BY <1>1 DEF QInv, LifeInv
<1>7. LifeInv'
  BY <1>1, <1>3, <1>6 DEF QInv, LifeInv
<1>8. QuietInv'
  BY <1>1, <1>2, <1>5 DEF QInv, QuietInv
<1> QED
  BY <1>5, <1>7, <1>8 DEF QInv

(* A thread stops: the block is behind all of its frames, and there are     *)
(* none if it did not capture.                                              *)
LEMMA QInvStopThread ==
  ASSUME QInv, NEW t \in Threads, StopThread(t)
  PROVE  QInv'
<1>1. /\ main \in MainType /\ main.op \in {"stop", "remove"} /\ main.wait = "no" /\ ~Waits /\ t \in main.todo
      /\ UNCHANGED <<audio, threads_, alive>>
      /\ isRunning_' = [isRunning_ EXCEPT ![t] = FALSE]
      /\ capturing_' = [capturing_ EXCEPT ![t] = FALSE]
  BY DEF QInv, MainInv, StopThread, Waits, streamVars
<1>2. FramesOnly(audioQueue) /\ \A u \in Threads : Undelivered(u) => u \in alive /\ capturing_[u]
  BY <1>1, NotWaiting
<1> DEFINE rest == [main EXCEPT !.todo = @ \ {t}]
<1>r. /\ rest \in MainType /\ rest.op = main.op /\ rest.todo = main.todo \ {t}
      /\ rest.thread = main.thread /\ rest.wait = main.wait
  BY <1>1 DEF MainType
<1>m. main' = rest \/ main' = waiting(rest, t)
  BY DEF StopThread
<1> HIDE DEF rest
<1>3. /\ main' \in MainType /\ main'.op = main.op /\ main'.todo = main.todo \ {t}
  BY <1>r, <1>m DEF waiting, MainType
<1>4. /\ isRunning_' \in [Threads -> BOOLEAN] /\ capturing_' \in [Threads -> BOOLEAN]
      /\ \A u \in Threads : isRunning_'[u] <=> (isRunning_[u] /\ u # t)
      /\ \A u \in Threads : capturing_'[u] <=> (capturing_[u] /\ u # t)
      /\ \A u \in Threads : capturing_[u] => isRunning_[u]
  BY <1>1 DEF QInv, LifeInv
<1>5. main.op = "remove" => main'.todo = {} /\ t = main.thread
  BY <1>1, <1>3 DEF QInv, LifeInv
<1>6. CASE capturing_[t]
  <2>1. /\ main'.thread = t /\ main'.wait = "check" /\ ~main'.done
        /\ perform([kind |-> BlockOf(main.op), thread |-> t, size |-> 0])
    <3>1. isRunning_[t] /\ capturing_[t]
      BY <1>4, <1>6
    <3>2. main' = waiting(rest, t) /\ perform([kind |-> "stopSend", thread |-> t, size |-> 0])
      BY <3>1 DEF StopThread, rest
    <3>3. main'.thread = t /\ main'.wait = "check" /\ ~main'.done
      BY <1>r, <3>2 DEF waiting, MainType
    <3>4. BlockOf(main.op) = "stopSend"
      BY <1>1 DEF BlockOf
    <3> QED
      BY <3>2, <3>3, <3>4
  <2>2. /\ MainInv' /\ StopPending(t)'
        /\ \A u \in Threads : Undelivered(u)' => Undelivered(u)
    BY <1>1, <1>3, <2>1, QueuesBlock DEF QInv, Ops
  <2>3. LifeInv'
    BY <1>1, <1>3, <1>4, <1>5, <2>1 DEF QInv, LifeInv
  <2>4. QuietInv'
    BY <1>1, <1>2, <1>4, <2>2 DEF QInv, QuietInv
  <2> QED
    BY <2>2, <2>3, <2>4 DEF QInv
<1>7. CASE ~capturing_[t]
  <2>1. UNCHANGED audioQueue /\ main'.thread = main.thread /\ main'.wait = "no"
    BY <1>1, <1>4, <1>7 DEF StopThread, MainType
  <2>2. MainInv'
    BY <1>1, <1>2, <1>3, <2>1 DEF QInv, MainInv, Waits
  <2>3. LifeInv'
    BY <1>1, <1>3, <1>4, <1>5, <2>1 DEF QInv, LifeInv
  <2>4. QuietInv'
    BY <1>1, <1>2, <1>4, <1>7, <2>1 DEF QInv, QuietInv, Undelivered
  <2> QED
    BY <2>2, <2>3, <2>4 DEF QInv
<1> QED
  BY <1>6, <1>7

(* A thread's channel is created.                                           *)
LEMMA QInvAddThread ==
  ASSUME QInv, NEW t \in Threads, AddThread(t)
  PROVE  QInv'
<1>1. /\ main = Idle /\ main.op = "idle" /\ main.op # "remove" /\ ~Waits /\ t \notin threads_
      /\ UNCHANGED <<audio, isRunning_, capturing_, threads_, alive>>
  BY DEF AddThread, Call, Waits, Idle, threadVars, streamVars
<1>2. \A u \in Threads : Undelivered(u) => u \in alive /\ capturing_[u]
  BY <1>1, NotWaiting
<1>3. /\ main' \in MainType /\ main'.op = "create"
      /\ main'.thread = t /\ main'.wait = "check" /\ ~main'.done
  BY DEF AddThread, waiting, MainType, Idle, Ops
<1>4. perform([kind |-> BlockOf("create"), thread |-> t, size |-> 0])
  BY DEF AddThread, BlockOf
<1>5. /\ MainInv'
      /\ \A u \in Threads : Undelivered(u)' => Undelivered(u)
  BY <1>1, <1>3, <1>4, QueuesBlock DEF QInv, Ops
<1>6. LifeInv'
  BY <1>1, <1>3 DEF QInv, LifeInv
<1>7. QuietInv'
  BY <1>1, <1>2, <1>5 DEF QInv, QuietInv
<1> QED
  BY <1>5, <1>6, <1>7 DEF QInv

(* The AudioThread of a removed thread is destroyed: it was stopped, and no *)
(* frame of it is left.                                                     *)
LEMMA QInvDestroyThread ==
  ASSUME QInv, DestroyThread
  PROVE  QInv'
<1> DEFINE t == main.thread
<1>1. /\ main \in MainType /\ main.op = "remove" /\ main.wait = "no" /\ ~Waits /\ main.todo = {}
      /\ UNCHANGED <<audio, isRunning_, capturing_, threads_>> /\ alive' = alive \ {t}
  BY DEF QInv, MainInv, DestroyThread, Waits
<1>2. \A u \in Threads : Undelivered(u) => u \in alive /\ capturing_[u]
  BY <1>1, NotWaiting
<1>3. t \in Threads \ threads_ /\ ~isRunning_[t] /\ ~capturing_[t] /\ alive' = threads_
  BY <1>1 DEF QInv, LifeInv
<1>4. /\ main' \in MainType /\ main'.op = "destroy"
      /\ main'.thread = t /\ main'.wait = "check" /\ ~main'.done
  BY <1>1, <1>3 DEF DestroyThread, waiting, MainType, Ops
<1>5. perform([kind |-> BlockOf("destroy"), thread |-> t, size |-> 0])
  BY DEF DestroyThread, BlockOf
<1> HIDE DEF t
<1>6. /\ MainInv'
      /\ \A u \in Threads : Undelivered(u)' => Undelivered(u)
  BY <1>1, <1>3, <1>4, <1>5, QueuesBlock DEF QInv, Ops
<1>7. LifeInv'
  BY <1>1, <1>3, <1>4 DEF QInv, LifeInv
<1>8. QuietInv'
  BY <1>1, <1>2, <1>3, <1>6 DEF QInv, QuietInv
<1> QED
  BY <1>6, <1>7, <1>8 DEF QInv

-----------------------------------------------------------------------------
(* Frames, and the audio thread                                             *)

(* A frame is queued of a thread that captures; it may well be queued       *)
(* behind the block that stops another one.                                 *)
LEMMA QInvSendRtp ==
  ASSUME QInv, NEW t \in Threads, NEW size \in SampleSizes, SendRtp(t, size)
  PROVE  QInv'
<1> DEFINE q == audioQueue
           e == [kind |-> "frame", thread |-> t, size |-> size]
<1>1. /\ UNCHANGED <<main, audio, isRunning_, capturing_, threads_, alive>>
      /\ audioQueue' = Append(q, e) /\ capturing_[t] /\ t \in alive
      /\ q \in Seq(AudioTask) /\ e \in AudioTask /\ e.kind = "frame" /\ e.thread = t
  BY AudioAssumption DEF QInv, MainInv, LifeInv, SendRtp, perform, AudioTask, threadVars, streamVars
<1> HIDE DEF e
<1>2. /\ audioQueue' \in Seq(AudioTask)
      /\ \A u : HasFrame(audioQueue', u) => HasFrame(q, u) \/ u = t
      /\ FramesOnly(q) => FramesOnly(audioQueue')
      /\ \A k, b, u : b # "frame" /\ BlockAt(q, k, b, u) => BlockAt(audioQueue', k, b, u)
      /\ \A k \in DOMAIN q : \A u : u # t /\ Behind(q, k, u) => Behind(audioQueue', k, u)
  BY <1>1, PushFrame
<1>3. BlockOf(main.op) # "frame"
  BY DEF BlockOf
<1>4. \A k, b, u : BlockAt(audioQueue', k, b, u) => k \in DOMAIN audioQueue'
  BY DEF BlockAt
<1>5. MainInv'
  BY <1>1, <1>2, <1>3, <1>4 DEF QInv, MainInv, Waits
<1>6. LifeInv'
  BY <1>1 DEF QInv, LifeInv
<1>7. ASSUME NEW u \in Threads, u # t, StopPending(u) PROVE StopPending(u)'
  BY <1>1, <1>2, <1>4, <1>7 DEF StopPending, Waits
<1>8. ASSUME NEW u \in Threads, Undelivered(u)' PROVE Undelivered(u) \/ u = t
  BY <1>1, <1>2, <1>8 DEF Undelivered, HasFrame
<1>9. QuietInv'
  BY <1>1, <1>7, <1>8 DEF QInv, QuietInv
<1> QED
  BY <1>5, <1>6, <1>9 DEF QInv

(* The audio thread runs the block that the application waits for: what was *)
(* queued before the block that stops a thread has been delivered.          *)
LEMMA QInvRunBlock ==
  ASSUME QInv, NEW ok \in BOOLEAN, RunBlock(ok)
  PROVE  QInv'
<1> DEFINE q == audioQueue
<1>1. /\ main \in MainType /\ q \in Seq(AudioTask) /\ q # <<>> /\ Head(q).kind # "frame"
      /\ audioQueue' = Tail(q) /\ audio = NoDelivery
      /\ UNCHANGED <<audio, isRunning_, capturing_, threads_, alive>>
  BY DEF QInv, MainInv, RunBlock, AudioTakes, Task, streamVars
<1>2. 1 \in DOMAIN q /\ Head(q) = q[1]
  BY <1>1, Popped
<1>3. Waits /\ main.op # "idle"
  BY <1>1, <1>2 DEF QInv, MainInv, FramesOnly, Waits, Idle
<1>4. PICK k \in DOMAIN q : BlockAt(q, k, BlockOf(main.op), main.thread)
  BY <1>3 DEF QInv, MainInv
<1>5. /\ audioQueue' \in Seq(AudioTask) /\ FramesOnly(audioQueue')
      /\ \A u : HasFrame(audioQueue', u) => HasFrame(q, u)
  BY <1>1, <1>4, PopBlock
<1>6. \A i, b, u : BlockAt(q, i, b, u) /\ Behind(q, i, u) => ~HasFrame(audioQueue', u)
  BY <1>1, PopBlock
<1>7. /\ main' \in MainType /\ main'.done /\ main'.wait # "no"
      /\ main'.op = main.op /\ main'.todo = main.todo /\ main'.thread = main.thread
  BY <1>1, <1>3 DEF RunBlock, notified, MainType, Waits
<1>8. MainInv'
  BY <1>1, <1>3, <1>5, <1>7 DEF QInv, MainInv, Waits
<1>9. LifeInv'
  BY <1>1, <1>3, <1>7 DEF QInv, LifeInv, Waits
<1>10. ASSUME NEW u \in Threads, Undelivered(u)' PROVE Undelivered(u) /\ ~StopPending(u)
  <2>1. u # None
    BY AudioProducerAssumption
  <2>2. HasFrame(audioQueue', u)
    BY <1>1, <1>10, <2>1 DEF Undelivered, HasFrame, NoDelivery
  <2> QED
    BY <1>5, <1>6, <2>2 DEF Undelivered, HasFrame, StopPending
<1>11. QuietInv'
  BY <1>1, <1>10 DEF QInv, QuietInv
<1> QED
  BY <1>8, <1>9, <1>11 DEF QInv

(* The audio thread takes a frame, which may end in a bundle to be taken.   *)
LEMMA QInvDeliver ==
  ASSUME QInv, Deliver
  PROVE  QInv'
<1> DEFINE q == audioQueue
<1>1. /\ q \in Seq(AudioTask) /\ q # <<>> /\ Head(q).kind = "frame"
      /\ audioQueue' = Tail(q) /\ audio = NoDelivery
      /\ UNCHANGED <<main, isRunning_, capturing_, threads_, alive>>
  BY DEF QInv, MainInv, Deliver, AudioTakes, Task, streamVars
<1>2. audio'.thread = None \/ audio'.thread = Head(q).thread
  BY <1>1 DEF Deliver, Task, NoDelivery
<1>3. /\ audioQueue' \in Seq(AudioTask)
      /\ \A t : HasFrame(audioQueue', t) => HasFrame(q, t)
      /\ HasFrame(q, Head(q).thread) /\ Head(q).thread \in Threads
      /\ FramesOnly(q) => FramesOnly(audioQueue')
      /\ \A k, b, t : b # "frame" /\ BlockAt(q, k, b, t) => BlockAt(audioQueue', k - 1, b, t)
      /\ \A k \in DOMAIN q : \A t : Behind(q, k, t) => Behind(audioQueue', k - 1, t)
  BY <1>1, PopFrame
<1>4. BlockOf(main.op) # "frame"
  BY DEF BlockOf
<1>5. \A k, b, u : BlockAt(audioQueue', k, b, u) => k \in DOMAIN audioQueue'
  BY DEF BlockAt
<1>6. MainInv'
  <2>1. ASSUME Waits PROVE \E k \in DOMAIN audioQueue' : BlockAt(audioQueue', k, BlockOf(main.op), main.thread)
    <3>1. PICK k \in DOMAIN q : BlockAt(q, k, BlockOf(main.op), main.thread)
      BY <2>1 DEF QInv, MainInv
    <3> QED
      BY <1>3, <1>4, <1>5, <3>1
  <2> QED
    BY <1>1, <1>3, <2>1 DEF QInv, MainInv, Waits
<1>7. LifeInv'
  BY <1>1 DEF QInv, LifeInv
<1>8. ASSUME NEW u \in Threads, StopPending(u) PROVE StopPending(u)'
  <2>1. PICK k \in DOMAIN q : BlockAt(q, k, "stopSend", u) /\ Behind(q, k, u)
    BY <1>8 DEF StopPending
  <2>2. BlockAt(audioQueue', k - 1, "stopSend", u) /\ Behind(audioQueue', k - 1, u)
    BY <1>3, <2>1
  <2> QED
    BY <1>1, <1>5, <1>8, <2>2 DEF StopPending, Waits
<1>9. ASSUME NEW u \in Threads, Undelivered(u)' PROVE Undelivered(u)
  BY <1>1, <1>2, <1>3, <1>9, AudioProducerAssumption DEF Undelivered, HasFrame
<1>10. QuietInv'
  BY <1>1, <1>2, <1>3, <1>8, <1>9 DEF QInv, QuietInv
<1> QED
  BY <1>6, <1>7, <1>10 DEF QInv

(* The bundle is taken, or the program has ended.                           *)
LEMMA QInvBundleTaken ==
  ASSUME QInv, BundleTaken
  PROVE  QInv'
<1>1. /\ UNCHANGED <<main, audioQueue, isRunning_, capturing_, threads_, alive>>
      /\ audio' = audio \/ audio' = NoDelivery
  BY DEF BundleTaken, streamVars
<1>2. ASSUME NEW u \in Threads, Undelivered(u)' PROVE Undelivered(u)
  BY <1>1, <1>2, AudioProducerAssumption DEF Undelivered, NoDelivery
<1>3. MainInv' /\ LifeInv' /\ QuietInv'
  BY <1>1, <1>2 DEF QInv, MainInv, LifeInv, QuietInv, Waits, StopPending, NoDelivery
<1> QED
  BY <1>3 DEF QInv

-----------------------------------------------------------------------------
(* The invariant                                                            *)

(* Nothing is queued at first, and there are no threads.                    *)
LEMMA QInvInit == Init => QInv
<1> SUFFICES ASSUME Init PROVE QInv
  OBVIOUS
<1>1. /\ main = Idle /\ Idle \in MainType /\ audioQueue = <<>> /\ audioQueue \in Seq(AudioTask)
      /\ audio = NoDelivery /\ threads_ = {} /\ alive = {}
      /\ isRunning_ = [t \in Threads |-> FALSE] /\ capturing_ = [t \in Threads |-> FALSE]
  BY EmptySeq DEF Init, Idle, MainType, Ops
<1>2. DOMAIN audioQueue = {}
  BY <1>1
<1>3. MainInv
  BY <1>1, <1>2 DEF MainInv, Idle, Waits, FramesOnly
<1>4. LifeInv
  BY <1>1 DEF LifeInv, Idle
<1>5. QuietInv
  BY <1>1, <1>2, AudioProducerAssumption DEF QuietInv, Undelivered, NoDelivery
<1> QED
  BY <1>3, <1>4, <1>5 DEF QInv

(* Every step of the program keeps it.                                      *)
LEMMA QInvNext == QInv /\ [Next]_vars => QInv'
<1> SUFFICES ASSUME QInv, [Next]_vars PROVE QInv'
  OBVIOUS
<1>1. CASE UNCHANGED vars
  BY <1>1, QInvStuttering DEF vars, queueVars
<1>2. CASE FaceSteps \/ PeriodicInvocation
  BY <1>2, QInvStuttering DEF FaceSteps, PublishBundle, ReturnBundle, PublishMeta, PeriodicInvocation, queueVars,
                              threadVars, streamVars
<1>3. CASE Start \/ Stop \/ \E t \in Threads : RemoveThread(t)
  BY <1>3, QInvCall
<1>4. CASE \E t \in Threads : AddThread(t)
  BY <1>4, QInvAddThread
<1>5. CASE MainSteps
  BY <1>5, QInvWaitsOn, QInvStartThread, QInvStopThread, QInvReturned, QInvReturns, QInvDestroyThread DEF MainSteps
<1>6. CASE \E t \in Threads, size \in SampleSizes : SendRtp(t, size)
  BY <1>6, QInvSendRtp
<1>7. CASE AudioSteps
  BY <1>7, QInvRunBlock, QInvDeliver, QInvBundleTaken DEF AudioSteps
<1> QED
  BY <1>1, <1>2, <1>3, <1>4, <1>5, <1>6, <1>7 DEF Next

(* The block that stops a thread is behind all of its frames, and the       *)
(* application goes on when it was run.                                     *)
THEOREM BlocksComeLast == Spec => []QInv
BY QInvInit, QInvNext, PTL DEF Spec

-----------------------------------------------------------------------------
(* Bundles                                                                  *)

FaceTask ==
  [kind : {"meta", "bundle"}, threads : SUBSET Threads, thread : Threads \cup {None},
   session : Nat, no : Nat, bundle : 0..PoolSize]
Labels == [thread : Threads \cup {None}, session : Nat, no : Nat]
Record == [thread : Threads, session : Nat, no : Nat, content : Labels]
Delivery == [thread : Threads \cup {None}, no : Nat, bundle : 0..PoolSize, size : Nat]

(* Tasks of bundles name a thread and a bundle, and a delivery that takes a *)
(* bundle finds one: only the audio thread takes them.                      *)
TInv ==
  /\ AudioTypeOK
  /\ audio \in Delivery /\ faceQueue \in Seq(FaceTask)
  /\ published \in Seq(Record)
  /\ audio # NoDelivery => audio.thread \in Threads /\ audio.bundle \in Bundles /\ bundlePool_ # <<>>
  /\ \A i \in BundlesIn(faceQueue) : faceQueue[i].thread \in Threads /\ faceQueue[i].bundle # 0

(* The order of bundles: by the session of their thread, and in it by their *)
(* numbers.                                                                 *)
Earlier(a, s, n) == a.session < s \/ (a.session = s /\ a.no < n)

(* The number that a bundle of the thread will have next: the one the audio *)
(* thread is delivering, or the one that is being filled.                   *)
NextNo(t) == IF audio.thread = t THEN audio.no ELSE bundleNo_[t]

(* Published bundles are earlier than queued ones, which are in order; both *)
(* are earlier than those to come.                                          *)
PublishedFirst ==
  \A i \in DOMAIN published, j \in BundlesIn(faceQueue) :
    published[i].thread = faceQueue[j].thread => Earlier(published[i], faceQueue[j].session, faceQueue[j].no)
QueuedInOrder ==
  \A i, j \in BundlesIn(faceQueue) :
    i < j /\ faceQueue[i].thread = faceQueue[j].thread => Earlier(faceQueue[i], faceQueue[j].session, faceQueue[j].no)
PublishedBefore ==
  \A i \in DOMAIN published : Earlier(published[i], session[published[i].thread], NextNo(published[i].thread))
QueuedBefore ==
  \A i \in BundlesIn(faceQueue) : Earlier(faceQueue[i], session[faceQueue[i].thread], NextNo(faceQueue[i].thread))

OrderInv ==
  /\ NumberedInOrder /\ PublishedFirst /\ QueuedInOrder
  /\ PublishedBefore /\ QueuedBefore
  /\ audio # NoDelivery => audio.no < bundleNo_[audio.thread]

(* The last bundle of the pool is taken.                                    *)
LEMMA PoolFront ==
  ASSUME NEW pool \in Seq(Bundles), pool # <<>>
  PROVE  /\ Last(pool) \in Bundles /\ Front(pool) \in Seq(Bundles)
         /\ Len(pool) \in Nat /\ Len(Front(pool)) = Len(pool) - 1
<1> DEFINE n == Len(pool)
<1>1. n \in Nat \ {0} /\ \A i \in 1..n : pool[i] \in Bundles
  BY EmptySeq, ElementOfSeq
<1>2. n - 1 \in Int /\ \A i \in 1..(n - 1) : pool[i] \in Bundles
  BY <1>1
<1> HIDE DEF n
<1>3. /\ SubSeq(pool, 1, n - 1) \in Seq(Bundles)
      /\ Len(SubSeq(pool, 1, n - 1)) = IF 1 <= n - 1 THEN (n - 1) - 1 + 1 ELSE 0
  BY <1>2, SubSeqProperties
<1>4. Len(SubSeq(pool, 1, n - 1)) = n - 1
  BY <1>1, <1>3
<1>5. n \in 1..n
  BY <1>1
<1>6. n = Len(pool)
  BY DEF n
<1> QED
  BY <1>1, <1>3, <1>4, <1>5, <1>6 DEF Front, Last

(* The indices of the bundles of a queue are a finite set.                  *)
LEMMA BundlesFinite ==
  ASSUME NEW q \in Seq(FaceTask)
  PROVE  IsFiniteSet(BundlesIn(q)) /\ Cardinality(BundlesIn(q)) \in Nat
<1>1. Len(q) \in Nat /\ DOMAIN q = 1..Len(q)
  BY LenProperties
<1>2. IsFiniteSet(1..Len(q))
  BY <1>1, FS_Interval
<1>3. BundlesIn(q) \in SUBSET (1..Len(q))
  BY <1>1 DEF BundlesIn
<1> QED
  BY <1>2, <1>3, FS_Subset, FS_CardinalityType

(* A task at the end of the face thread's queue: the bundles before it stay *)
(* where they are, and it comes after them.                                 *)
LEMMA FacePush ==
  ASSUME NEW q \in Seq(FaceTask), NEW e \in FaceTask
  PROVE  LET p == Append(q, e)
             k == Len(q) + 1
         IN /\ p \in Seq(FaceTask) /\ k \in Nat
            /\ \A i \in BundlesIn(p) : (i \in BundlesIn(q) /\ p[i] = q[i] /\ i < k) \/ (i = k /\ p[i] = e /\ e.kind = "bundle")
            /\ Cardinality(BundlesIn(p)) = Cardinality(BundlesIn(q)) + (IF e.kind = "bundle" THEN 1 ELSE 0)
<1> DEFINE p == Append(q, e)
           n == Len(q)
           k == n + 1
<1>1. /\ p \in Seq(FaceTask) /\ n \in Nat /\ DOMAIN q = 1..n /\ DOMAIN p = 1..k
      /\ \A i \in 1..n : p[i] = q[i]
      /\ p[k] = e
  BY AppendProperties, LenProperties
<1>2. k \in Nat /\ k \notin 1..n /\ k \in 1..k /\ \A i \in 1..k : (i \in 1..n /\ i < k) \/ i = k
  BY <1>1
<1>3. 1..k = (1..n) \cup {k}
  BY <1>1
<1> HIDE DEF p, n, k
<1>4. \A i \in BundlesIn(p) : (i \in BundlesIn(q) /\ p[i] = q[i] /\ i < k) \/ (i = k /\ p[i] = e /\ e.kind = "bundle")
  BY <1>1, <1>2 DEF BundlesIn
<1>5. /\ IsFiniteSet(BundlesIn(q)) /\ k \notin BundlesIn(q)
      /\ Cardinality(BundlesIn(q)) \in Nat
  BY <1>1, <1>2, BundlesFinite DEF BundlesIn
<1>6. Cardinality(BundlesIn(p)) = Cardinality(BundlesIn(q)) + (IF e.kind = "bundle" THEN 1 ELSE 0)
  <2>1. CASE e.kind = "bundle"
    <3>1. BundlesIn(p) = BundlesIn(q) \cup {k}
      BY <1>1, <1>3, <2>1 DEF BundlesIn
    <3> QED
      BY <1>5, <2>1, <3>1, FS_AddElement
  <2>2. CASE e.kind # "bundle"
    <3>1. BundlesIn(p) = BundlesIn(q)
      BY <1>1, <1>3, <2>2 DEF BundlesIn
    <3> QED
      BY <1>5, <2>2, <3>1
  <2> QED
    BY <2>1, <2>2
<1> QED
  BY <1>1, <1>2, <1>4, <1>6 DEF p, n, k

(* Its first task: the bundles behind it move up, in the order they were.   *)
LEMMA FacePop ==
  ASSUME NEW q \in Seq(FaceTask), q # <<>>
  PROVE  LET p == Tail(q)
         IN /\ p \in Seq(FaceTask) /\ Head(q) = q[1] /\ Head(q) \in FaceTask
            /\ Head(q).kind = "bundle" <=> 1 \in BundlesIn(q)
            /\ \A i \in BundlesIn(p) : i \in Nat \ {0} /\ i + 1 \in BundlesIn(q) /\ p[i] = q[i + 1]
            /\ Cardinality(BundlesIn(p)) = Cardinality(BundlesIn(q)) - (IF Head(q).kind = "bundle" THEN 1 ELSE 0)
<1> DEFINE p == Tail(q)
           n == Len(q)
           f == [i \in BundlesIn(p) |-> i + 1]
<1>1. n \in Nat /\ n # 0 /\ DOMAIN q = 1..n
  BY LenProperties, EmptySeq
<1>2. /\ p \in Seq(FaceTask) /\ Len(p) = n - 1 /\ Head(q) \in FaceTask
      /\ \A i \in 1..Len(p) : p[i] = q[i + 1]
  BY HeadTailProperties
<1>3. Head(q) = q[1] /\ 1 \in 1..n
  BY <1>1
<1>4. DOMAIN p = 1..(n - 1)
  BY <1>2, LenProperties
<1> HIDE DEF p, n, f
<1>5. Head(q).kind = "bundle" <=> 1 \in BundlesIn(q)
  BY <1>1, <1>3 DEF BundlesIn
<1>6. ASSUME NEW i \in BundlesIn(p)
      PROVE  i \in Nat \ {0} /\ i + 1 \in BundlesIn(q) /\ p[i] = q[i + 1]
  <2>1. i \in 1..(n - 1) /\ p[i].kind = "bundle"
    BY <1>4 DEF BundlesIn
  <2>2. i \in Nat \ {0} /\ i + 1 \in 1..n /\ p[i] = q[i + 1]
    BY <1>1, <1>2, <2>1
  <2> QED
    BY <1>1, <2>1, <2>2 DEF BundlesIn
<1>7. ASSUME NEW j \in BundlesIn(q) \ {1}
      PROVE  j \in Nat /\ j - 1 \in BundlesIn(p)
  <2>1. j \in 1..n /\ j # 1 /\ q[j].kind = "bundle"
    BY <1>1, <1>7 DEF BundlesIn
  <2>2. j \in Nat /\ j - 1 \in 1..(n - 1) /\ (j - 1) + 1 = j
    BY <1>1, <2>1
  <2>3. p[j - 1] = q[j]
    BY <1>2, <2>2
  <2> QED
    BY <1>4, <2>1, <2>2, <2>3 DEF BundlesIn
<1>8. /\ IsFiniteSet(BundlesIn(p)) /\ IsFiniteSet(BundlesIn(q)) /\ Cardinality(BundlesIn(q)) \in Nat
  BY <1>2, BundlesFinite
<1>9. Cardinality(BundlesIn(p)) = Cardinality(BundlesIn(q) \ {1})
  <2>1. f \in Bijection(BundlesIn(p), BundlesIn(q) \ {1})
    <3>1. f \in [BundlesIn(p) -> BundlesIn(q) \ {1}]
      <4>1. \A i \in BundlesIn(p) : i + 1 \in BundlesIn(q) \ {1}
        BY <1>6
      <4> QED
        BY <4>1 DEF f
    <3>2. \A i, j \in BundlesIn(p) : f[i] = f[j] => i = j
      <4>1. \A i \in BundlesIn(p) : i \in Nat /\ f[i] = i + 1
        BY <1>6 DEF f
      <4> QED
        BY <4>1
    <3>3. \A j \in BundlesIn(q) \ {1} : \E i \in BundlesIn(p) : f[i] = j
      <4> SUFFICES ASSUME NEW j \in BundlesIn(q) \ {1} PROVE \E i \in BundlesIn(p) : f[i] = j
        OBVIOUS
      <4>1. j \in Nat /\ j - 1 \in BundlesIn(p)
        BY <1>7
      <4>2. f[j - 1] = (j - 1) + 1
        BY <4>1 DEF f
      <4> QED
        BY <4>1, <4>2
    <3> QED
      BY <3>1, <3>2, <3>3 DEF Bijection, Injection, Surjection, IsInjective
  <2>2. ExistsBijection(BundlesIn(p), BundlesIn(q) \ {1})
    BY <2>1 DEF ExistsBijection
  <2> QED
    BY <1>8, <2>2, FS_Bijection
<1>10. Cardinality(BundlesIn(q) \ {1}) = IF 1 \in BundlesIn(q) THEN Cardinality(BundlesIn(q)) - 1 ELSE Cardinality(BundlesIn(q))
  BY <1>8, FS_RemoveElement
<1>11. Cardinality(BundlesIn(p)) = Cardinality(BundlesIn(q)) - (IF Head(q).kind = "bundle" THEN 1 ELSE 0)
  <2>1. CASE Head(q).kind = "bundle"
    BY <1>5, <1>9, <1>10, <2>1
  <2>2. CASE Head(q).kind # "bundle"
    BY <1>5, <1>8, <1>9, <1>10, <2>2
  <2> QED
    BY <2>1, <2>2
<1>12. /\ p \in Seq(FaceTask) /\ Head(q) = q[1] /\ Head(q) \in FaceTask
       /\ \A i \in BundlesIn(p) : i \in Nat \ {0} /\ i + 1 \in BundlesIn(q) /\ p[i] = q[i + 1]
  BY <1>2, <1>3, <1>6
<1> QED
  BY <1>5, <1>11, <1>12, Zenon DEF p

-----------------------------------------------------------------------------
(* Types                                                                    *)

(* What the calls of the application work on is typed by the invariant      *)
(* above.                                                                   *)
CallsOK ==
  /\ threads_ \subseteq Threads /\ alive \subseteq Threads
  /\ isRunning_ \in [Threads -> BOOLEAN] /\ capturing_ \in [Threads -> BOOLEAN]
  /\ main.wait \in {"no", "check", "drowsy", "asleep"}
  /\ audioQueue # <<>> => Head(audioQueue) \in AudioTask

(* QInv types what the calls work on.                                       *)
LEMMA CallsTyped == QInv => CallsOK
<1> SUFFICES ASSUME QInv PROVE CallsOK
  OBVIOUS
<1>1. /\ main \in MainType /\ audioQueue \in Seq(AudioTask)
      /\ threads_ \subseteq Threads
      /\ alive = threads_ \cup (IF main.op = "remove" THEN {main.thread} ELSE {})
      /\ main.op = "remove" => main.thread \in Threads
      /\ isRunning_ \in [Threads -> BOOLEAN] /\ capturing_ \in [Threads -> BOOLEAN]
  BY DEF QInv, MainInv, LifeInv
<1>2. main.wait \in {"no", "check", "drowsy", "asleep"}
  BY <1>1 DEF MainType
<1>3. audioQueue # <<>> => Head(audioQueue) \in AudioTask
  BY <1>1, Popped
<1> QED
  BY <1>1, <1>2, <1>3 DEF CallsOK

(* The rest of the state                                                    *)
BundleVars == <<session, bundleNo_, bundlePool_, headerSet, content, raced, face, published, audio, faceQueue>>

(* Most steps leave the bundles alone.                                      *)
LEMMA OtherSteps ==
  ASSUME [Next]_vars,
         ~(\E t \in Threads : StartThread(t)), ~AddReturns, ~RemoveReturns,
         ~AudioSteps, ~FaceSteps
  PROVE  UNCHANGED BundleVars /\ UNCHANGED fault
<1>1. CASE UNCHANGED vars
  BY <1>1 DEF vars, BundleVars
<1>2. CASE Start \/ Stop \/ PeriodicInvocation
  BY <1>2 DEF Start, Stop, PeriodicInvocation, threadVars, poolVars, BundleVars
<1>3. CASE \E t \in Threads : AddThread(t) \/ RemoveThread(t)
  BY <1>3 DEF AddThread, RemoveThread, threadVars, poolVars, BundleVars
<1>4. CASE MainSteps
  BY <1>4 DEF MainSteps, CheckFlag, FallAsleep, StopThread, ThreadStarted, StartReturns, ThreadStopped, StopReturns,
              CreateFailed, ThreadCreated, DestroyThread, threadVars, poolVars, BundleVars
<1>5. CASE \E t \in Threads, size \in SampleSizes : SendRtp(t, size)
  BY <1>5 DEF SendRtp, threadVars, poolVars, BundleVars
<1> QED
  BY <1>1, <1>2, <1>3, <1>4, <1>5 DEF Next

(* What a bundle has taken fits into it.                                    *)
LEMMA AddedFits ==
  ASSUME used \in [Threads -> 0..Capacity], NEW t \in Threads, NEW u \in 0..Capacity, NEW size \in Nat,
         Added(t, u, size)
  PROVE  used' \in [Threads -> 0..Capacity]
<1>1. hasSpace(u, size) => u + wireLength(size) \in 0..Capacity
  BY AudioAssumption DEF hasSpace, wireLength
<1> QED
  BY <1>1 DEF Added

(* The tasks and the bundles are typed at first.                            *)
LEMMA TInvInit == Init => TInv
<1> SUFFICES ASSUME Init PROVE TInv
  OBVIOUS
<1>1. QInv
  BY QInvInit
<1>2. /\ faceQueue = <<>> /\ faceQueue \in Seq(FaceTask) /\ published = <<>>
      /\ published \in Seq(Record)
      /\ DOMAIN faceQueue = {}
  BY EmptySeq DEF Init
<1>3. bundlePool_ \in Seq(Bundles)
  BY AudioAssumption DEF Init, Bundles
<1>z. 0 \in Nat /\ 0 \in 0..Capacity /\ 0 \in 0..PoolSize
  BY AudioAssumption
<1>n. /\ bundleNo_ \in [Threads -> Nat] /\ session \in [Threads -> Nat]
      /\ used \in [Threads -> 0..Capacity] /\ face \in 0..PoolSize
  BY <1>z DEF Init
<1>4. /\ sending \in [Threads -> BOOLEAN] /\ raced \in BOOLEAN
      /\ content \in [Bundles -> Labels]
      /\ headerSet \subseteq Bundles /\ mutex \in BOOLEAN
      /\ streamRunning_ \in BOOLEAN /\ periodic \in BOOLEAN /\ lastMeta \subseteq Threads
  BY DEF Init, NoLabel, Labels
<1>5. AudioTypeOK
  BY <1>1, <1>3, <1>4, <1>n, CallsTyped DEF AudioTypeOK, CallsOK, Labels
<1>6. audio = NoDelivery /\ audio \in Delivery
  BY AudioAssumption DEF Init, NoDelivery, Delivery
<1> QED
  BY <1>2, <1>5, <1>6 DEF TInv, BundlesIn

(* Every step keeps them typed.                                             *)
LEMMA TInvNext == QInv /\ QInv' /\ TInv /\ [Next]_vars => TInv'
<1> SUFFICES ASSUME QInv, QInv', TInv, [Next]_vars PROVE TInv'
  OBVIOUS
<1>1. QInv' => CallsOK'
  BY CallsTyped, PTL
<1>2. /\ threads_' \subseteq Threads /\ alive' \subseteq Threads
      /\ isRunning_' \in [Threads -> BOOLEAN] /\ capturing_' \in [Threads -> BOOLEAN]
      /\ main'.wait \in {"no", "check", "drowsy", "asleep"}
  BY <1>1 DEF CallsOK
<1>3. AudioTypeOK
  BY DEF TInv
<1>4. audioQueue # <<>> => Head(audioQueue) \in AudioTask
  BY CallsTyped DEF CallsOK
<1>5. CASE UNCHANGED vars
  BY <1>5 DEF vars, TInv, AudioTypeOK
<1>6. CASE Start \/ Stop \/ PeriodicInvocation
  BY <1>2, <1>3, <1>6 DEF Start, Stop, PeriodicInvocation, threadVars, streamVars, poolVars, TInv, AudioTypeOK
<1>7. CASE \E t \in Threads : AddThread(t) \/ RemoveThread(t)
  BY <1>2, <1>3, <1>7 DEF AddThread, RemoveThread, threadVars, streamVars, poolVars, TInv, AudioTypeOK
<1>8. CASE CheckFlag \/ FallAsleep \/ ThreadStarted \/ StartReturns \/ ThreadStopped \/ StopReturns \/ CreateFailed
  BY <1>2, <1>3, <1>8 DEF CheckFlag, FallAsleep, ThreadStarted, StartReturns, ThreadStopped, StopReturns, CreateFailed,
                          threadVars, streamVars, poolVars, TInv, AudioTypeOK
<1>9. CASE \E t \in Threads : StopThread(t)
  BY <1>2, <1>3, <1>9 DEF StopThread, threadVars, streamVars, poolVars, TInv, AudioTypeOK
<1>10. ASSUME NEW t \in Threads, StartThread(t) PROVE TInv'
  <2>1. bundleNo_' \in [Threads -> Nat] /\ session' \in [Threads -> Nat]
    BY <1>3, <1>10 DEF StartThread, AudioTypeOK
  <2> QED
    BY <1>2, <1>3, <1>10, <2>1 DEF StartThread, streamVars, poolVars, TInv, AudioTypeOK
<1>11. CASE ThreadCreated
  <2>1. used' \in [Threads -> 0..Capacity]
    <3>1. 0 \in 0..Capacity
      BY AudioAssumption
    <3> QED
      BY <1>3, <1>11, <3>1 DEF ThreadCreated, AudioTypeOK
  <2> QED
    BY <1>2, <1>3, <1>11, <2>1 DEF ThreadCreated, poolVars, TInv, AudioTypeOK
<1>12. CASE DestroyThread
  BY <1>2, <1>3, <1>12 DEF DestroyThread, poolVars, TInv, AudioTypeOK
<1>13. CASE AddReturns \/ RemoveReturns
  <2> DEFINE e == [kind |-> "meta", threads |-> threads_, thread |-> None, session |-> 0, no |-> 0, bundle |-> 0]
  <2>1. faceQueue' = Append(faceQueue, e) /\ e.kind = "meta"
    BY <1>13 DEF AddReturns, RemoveReturns, publishMeta
  <2>2. e \in FaceTask
    BY <1>3, AudioAssumption DEF FaceTask, AudioTypeOK
  <2> HIDE DEF e
  <2>3. /\ faceQueue' \in Seq(FaceTask)
        /\ \A i \in BundlesIn(faceQueue') : i \in BundlesIn(faceQueue) /\ faceQueue'[i] = faceQueue[i]
    BY <2>1, <2>2, FacePush DEF TInv
  <2> QED
    BY <1>2, <1>3, <1>13, <2>3 DEF AddReturns, RemoveReturns, threadVars, streamVars, poolVars, TInv, AudioTypeOK, BundlesIn
<1>14. CASE \E t \in Threads, size \in SampleSizes : SendRtp(t, size)
  BY <1>2, <1>3, <1>14 DEF SendRtp, threadVars, streamVars, poolVars, TInv, AudioTypeOK
<1>15. CASE \E ok \in BOOLEAN : RunBlock(ok)
  <2>1. sending' \in [Threads -> BOOLEAN]
    BY <1>3, <1>15 DEF RunBlock, AudioTypeOK
  <2> QED
    BY <1>2, <1>3, <1>15, <2>1 DEF RunBlock, streamVars, poolVars, TInv, AudioTypeOK
<1>16. CASE Deliver
  <2> DEFINE t == Head(audioQueue).thread
             size == Head(audioQueue).size
  <2>1. audioQueue # <<>> /\ Head(audioQueue).kind = "frame" /\ audio = NoDelivery
    BY <1>16 DEF Deliver, AudioTakes, Task
  <2>2. t \in Threads /\ size \in Nat
    BY <1>4, <2>1 DEF AudioTask
  <2>3. used[t] \in 0..Capacity /\ 0 \in 0..Capacity /\ bundleNo_[t] \in Nat
    BY <1>3, <2>2, AudioAssumption DEF AudioTypeOK
  <2>4. UNCHANGED used \/ Added(t, used[t], size) \/ Added(t, 0, size)
    BY <1>16 DEF Deliver, Task
  <2>5. UNCHANGED bundleNo_ \/ bundleNo_' = [bundleNo_ EXCEPT ![t] = @ + 1]
    BY <1>16 DEF Deliver, Task
  <2>6. \/ UNCHANGED audio
        \/ /\ bundlePool_ # <<>>
           /\ audio' = [thread |-> t, no |-> bundleNo_[t], bundle |-> Last(bundlePool_), size |-> size]
    BY <1>16 DEF Deliver, Task
  <2> HIDE DEF t, size
  <2>7. used' \in [Threads -> 0..Capacity]
    BY <1>3, <2>2, <2>3, <2>4, AddedFits DEF AudioTypeOK
  <2>8. bundleNo_' \in [Threads -> Nat]
    <3>1. bundleNo_[t] + 1 \in Nat /\ bundleNo_ \in [Threads -> Nat]
      BY <1>3, <2>3 DEF AudioTypeOK
    <3> QED
      BY <2>2, <2>5, <3>1
  <2>9. /\ audio' \in Delivery
        /\ audio' # NoDelivery => audio'.thread \in Threads /\ audio'.bundle \in Bundles /\ bundlePool_ # <<>>
    <3>1. bundlePool_ # <<>> => Last(bundlePool_) \in Bundles /\ Last(bundlePool_) \in 0..PoolSize
      BY <1>3, PoolFront, AudioAssumption DEF AudioTypeOK, Bundles
    <3> QED
      BY <2>1, <2>2, <2>3, <2>6, <3>1 DEF TInv, Delivery
  <2> QED
    BY <1>2, <1>3, <1>16, <2>7, <2>8, <2>9 DEF Deliver, streamVars, poolVars, TInv, AudioTypeOK
<1>17. CASE BundleTaken
  <2> DEFINE t == audio.thread
             l == [thread |-> t, session |-> session[t], no |-> audio.no]
             e == bundleTask(l, audio.bundle)
  <2>1. /\ t \in Threads /\ audio.no \in Nat /\ audio.bundle \in Bundles /\ audio.bundle \in 0..PoolSize
        /\ audio.size \in Nat /\ session[t] \in Nat /\ bundlePool_ # <<>> /\ audio.bundle # 0
    <3>1. /\ t \in Threads /\ audio.bundle \in Bundles /\ bundlePool_ # <<>> /\ audio \in Delivery
      BY <1>17 DEF BundleTaken, TInv
    <3>2. audio.no \in Nat /\ audio.bundle \in 0..PoolSize /\ audio.size \in Nat
      BY <3>1 DEF Delivery
    <3>3. session[t] \in Nat
      BY <1>3, <3>1 DEF AudioTypeOK
    <3>4. audio.bundle # 0
      BY <3>1, AudioAssumption DEF Bundles
    <3> QED
      BY <3>1, <3>2, <3>3, <3>4
  <2>2. CASE t \notin threads_
    BY <1>2, <1>3, <1>17, <2>2 DEF BundleTaken, streamVars, TInv, AudioTypeOK
  <2>3. CASE t \in threads_
    <3>1. /\ bundlePool_' = Front(bundlePool_) /\ headerSet' \subseteq headerSet /\ audio' = NoDelivery
          /\ faceQueue' = Append(faceQueue, e) /\ Added(t, 0, audio.size)
          /\ content' = [content EXCEPT ![audio.bundle] = l]
      BY <1>17, <2>3 DEF BundleTaken
    <3>2. e \in FaceTask /\ e.thread \in Threads /\ e.bundle # 0
      BY <2>1 DEF FaceTask, bundleTask
    <3>c. content' \in [Bundles -> [thread : Threads \cup {None}, session : Nat, no : Nat]]
      BY <1>3, <2>1, <3>1 DEF AudioTypeOK
    <3> HIDE DEF e, l
    <3>3. /\ faceQueue' \in Seq(FaceTask)
          /\ \A i \in BundlesIn(faceQueue') : (i \in BundlesIn(faceQueue) /\ faceQueue'[i] = faceQueue[i]) \/ faceQueue'[i] = e
      <4>1. faceQueue \in Seq(FaceTask)
        BY DEF TInv
      <4> QED
        BY <3>1, <3>2, <4>1, FacePush
    <3>4. \A i \in BundlesIn(faceQueue') : faceQueue'[i].thread \in Threads /\ faceQueue'[i].bundle # 0
      BY <3>2, <3>3 DEF TInv
    <3>5. bundlePool_' \in Seq(Bundles)
      BY <1>3, <2>1, <3>1, PoolFront DEF AudioTypeOK
    <3>6. used' \in [Threads -> 0..Capacity]
      <4>1. 0 \in 0..Capacity
        BY AudioAssumption
      <4> QED
        BY <1>3, <2>1, <3>1, <4>1, AddedFits DEF AudioTypeOK
    <3>7. NoDelivery \in Delivery
      BY AudioAssumption DEF NoDelivery, Delivery
    <3>8. AudioTypeOK'
      BY <1>2, <1>3, <1>17, <3>1, <3>5, <3>6, <3>c DEF BundleTaken, streamVars, AudioTypeOK
    <3>9. UNCHANGED published
      BY <1>17 DEF BundleTaken
    <3> QED
      BY <3>1, <3>3, <3>4, <3>7, <3>8, <3>9 DEF TInv, BundlesIn
  <2> QED
    BY <2>2, <2>3
<1>18. CASE PublishBundle \/ PublishMeta
  <2> DEFINE e == Head(faceQueue)
  <2>1. faceQueue # <<>> /\ faceQueue' = Tail(faceQueue)
    BY <1>18 DEF PublishBundle, PublishMeta, FaceTakes
  <2>2. /\ faceQueue' \in Seq(FaceTask) /\ e = faceQueue[1] /\ e \in FaceTask
        /\ e.kind = "bundle" <=> 1 \in BundlesIn(faceQueue)
        /\ \A i \in BundlesIn(faceQueue') : i \in Nat \ {0} /\ i + 1 \in BundlesIn(faceQueue) /\ faceQueue'[i] = faceQueue[i + 1]
    BY <2>1, FacePop DEF TInv
  <2>3. \A i \in BundlesIn(faceQueue') : faceQueue'[i].thread \in Threads /\ faceQueue'[i].bundle # 0
    BY <2>2 DEF TInv
  <2>4. CASE PublishMeta
    <3>1. lastMeta' \subseteq Threads
      BY <2>2, <2>4 DEF PublishMeta, FaceTask
    <3>2. AudioTypeOK'
      BY <1>2, <1>3, <2>4, <3>1 DEF PublishMeta, threadVars, poolVars, AudioTypeOK
    <3> QED
      BY <2>2, <2>3, <2>4, <3>2 DEF PublishMeta, threadVars, poolVars, TInv
  <2>5. CASE PublishBundle
    <3> DEFINE r == [thread |-> e.thread, session |-> e.session, no |-> e.no, content |-> content[e.bundle]]
    <3>1. e.kind = "bundle" /\ e.thread \in Threads /\ e.bundle \in Bundles /\ e.session \in Nat /\ e.no \in Nat
      <4>1. e.kind = "bundle"
        BY <2>5 DEF PublishBundle, FaceTakes
      <4>2. e.thread \in Threads /\ e.bundle # 0
        BY <2>2, <4>1 DEF TInv
      <4>3. e.bundle \in 0..PoolSize /\ e.session \in Nat /\ e.no \in Nat
        BY <2>2 DEF FaceTask
      <4> QED
        BY <4>1, <4>2, <4>3, AudioAssumption DEF Bundles
    <3>2. r \in Record
      BY <1>3, <3>1 DEF Record, Labels, AudioTypeOK
    <3>3. /\ published' = published \/ published' = Append(published, r)
          /\ face' = face \/ face' = e.bundle
          /\ headerSet' = headerSet \/ headerSet' = headerSet \cup {e.bundle}
      BY <2>5 DEF PublishBundle
    <3> HIDE DEF e, r
    <3>4. published' \in Seq(Record)
      <4> DEFINE R == Record
      <4>1. published \in Seq(R) /\ r \in R
        BY <3>2 DEF TInv
      <4> HIDE DEF R
      <4>2. published' \in Seq(R)
        BY <3>3, <4>1, AppendProperties
      <4> QED
        BY <4>2 DEF R
    <3>5. face' \in 0..PoolSize /\ headerSet' \subseteq Bundles
      <4>1. face \in 0..PoolSize /\ headerSet \subseteq Bundles
        BY <1>3 DEF AudioTypeOK
      <4>2. e.bundle \in 0..PoolSize
        BY <3>1, AudioAssumption DEF Bundles
      <4> QED
        BY <3>1, <3>3, <4>1, <4>2
    <3>6. AudioTypeOK'
      BY <1>2, <1>3, <2>5, <3>5 DEF PublishBundle, threadVars, streamVars, AudioTypeOK
    <3>7. UNCHANGED <<audio, bundlePool_>>
      BY <2>5 DEF PublishBundle
    <3> QED
      BY <2>2, <2>3, <3>4, <3>6, <3>7 DEF TInv
  <2> QED
    BY <1>18, <2>4, <2>5
<1>19. CASE ReturnBundle
  <2>1. face \in Bundles /\ bundlePool_ \in Seq(Bundles)
    BY <1>3, <1>19, AudioAssumption DEF ReturnBundle, AudioTypeOK, Bundles
  <2>2. bundlePool_' \in Seq(Bundles) /\ bundlePool_' # <<>> /\ face' \in 0..PoolSize
    <3>1. bundlePool_' \in Seq(Bundles) /\ Len(bundlePool_') = Len(bundlePool_) + 1 /\ Len(bundlePool_) \in Nat
      BY <1>19, <2>1, AppendProperties, LenProperties DEF ReturnBundle
    <3>2. Len(<<>>) = 0
      BY EmptySeq
    <3>3. bundlePool_' # <<>>
      BY <3>1, <3>2
    <3>4. face' \in 0..PoolSize
      BY <1>19, AudioAssumption DEF ReturnBundle
    <3> QED
      BY <3>1, <3>3, <3>4
  <2>3. AudioTypeOK'
    BY <1>2, <1>3, <1>19, <2>2 DEF ReturnBundle, threadVars, streamVars, AudioTypeOK
  <2> QED
    BY <1>19, <2>2, <2>3 DEF ReturnBundle, TInv, BundlesIn
<1> QED
  BY <1>5, <1>6, <1>7, <1>8, <1>9, <1>10, <1>11, <1>12, <1>13, <1>14, <1>15, <1>16, <1>17, <1>18, <1>19
  DEF Next, MainSteps, AudioSteps, FaceSteps

(* A program that has ended does nothing more.                              *)
LEMMA Ended ==
  ASSUME ~Working, [Next]_vars
  PROVE  UNCHANGED vars
<1>1. ~MainSteps
  BY DEF MainSteps, CheckFlag, FallAsleep, StartThread, StopThread, ThreadStarted, StartReturns, ThreadStopped, StopReturns,
         CreateFailed, ThreadCreated, AddReturns, DestroyThread, RemoveReturns
<1>2. ~AudioSteps /\ ~FaceSteps /\ ~PeriodicInvocation
  BY DEF AudioSteps, FaceSteps, RunBlock, Deliver, BundleTaken, AudioTakes, PublishBundle, ReturnBundle, PublishMeta, FaceTakes,
         PeriodicInvocation
<1>3. /\ ~Start /\ ~Stop /\ \A t \in Threads : ~AddThread(t) /\ ~RemoveThread(t)
      /\ \A t \in Threads, size \in SampleSizes : ~SendRtp(t, size)
  BY DEF Start, Stop, AddThread, RemoveThread, Call, SendRtp
<1> QED
  BY <1>1, <1>2, <1>3 DEF Next

(* What a delivery finds no keeper for is of the thread being removed: only *)
(* of it can frames be left without it being among the stream's threads.    *)
LEMMA KeeperLostNext == QInv /\ TInv /\ KeeperLostInRemove /\ [Next]_vars => KeeperLostInRemove'
<1> SUFFICES ASSUME QInv, TInv, KeeperLostInRemove, [Next]_vars PROVE KeeperLostInRemove'
  OBVIOUS
<1>1. CASE ~Working
  BY <1>1, Ended DEF vars, KeeperLostInRemove
<1>2. CASE Working /\ fault' # "null keeper"
  BY <1>2 DEF KeeperLostInRemove
<1>3. CASE Working /\ fault' = "null keeper"
  <2>1. fault = None /\ fault' # None
    BY <1>3 DEF Working, None
  <2>2. ~(UNCHANGED fault) /\ fault' # "no space" /\ fault' # "header set twice"
    BY <1>3, <2>1
  <2>3. ~(\E t \in Threads : StartThread(t)) /\ ~AddReturns /\ ~RemoveReturns
    BY <2>2 DEF StartThread, AddReturns, RemoveReturns
  <2>4. AudioSteps \/ FaceSteps
    BY <2>2, <2>3, OtherSteps
  <2>5. BundleTaken /\ audio.thread \notin threads_
    BY <2>2, <2>4 DEF AudioSteps, FaceSteps, RunBlock, Deliver, BundleTaken, Added, PublishBundle, ReturnBundle, PublishMeta
  <2>6. audio.thread \in Threads /\ UNCHANGED <<main, audio>>
    BY <2>5 DEF BundleTaken, TInv
  <2>7. audio.thread \in alive
    BY <2>6 DEF QInv, QuietInv, Undelivered
  <2>8. main.op = "remove" /\ main.thread = audio.thread
    BY <2>5, <2>7 DEF QInv, LifeInv
  <2> QED
    BY <2>6, <2>8 DEF KeeperLostInRemove
<1> QED
  BY <1>1, <1>2, <1>3

(* After stop nothing is delivered from the threads that were stopped, and  *)
(* to a thread that was destroyed nothing ever is.                          *)
THEOREM StoppedStaysQuiet == Spec => []QuietAfterStop
<1>1. QInv /\ TInv /\ KeeperLostInRemove => QuietAfterStop
  <2> SUFFICES ASSUME QInv, TInv, KeeperLostInRemove PROVE QuietAfterStop
    OBVIOUS
  <2>1. AudioTypeOK
    BY DEF TInv
  <2>2. DeliversToTheLiving
    BY DEF QInv, QuietInv, DeliversToTheLiving
  <2>3. StoppedIsQuiet
    BY DEF QInv, QuietInv, LifeInv, StopPending, StoppedIsQuiet, Idle
  <2> QED
    BY <2>1, <2>2, <2>3 DEF QuietAfterStop
<1>2. Init => KeeperLostInRemove
  BY DEF Init, KeeperLostInRemove, None
<1> QED
  BY <1>1, <1>2, BlocksComeLast, TInvInit, TInvNext, KeeperLostNext, PTL DEF Spec

-----------------------------------------------------------------------------
(* The pool                                                                 *)

(* The numbers that the balance is about                                    *)
Queued == Cardinality(BundlesIn(faceQueue))

(* A bundle goes from the pool to the queue, from the queue to the face     *)
(* thread's hands and from there to the pool; no other step moves one.      *)
LEMMA PoolBalancedNext == TInv /\ [Next]_vars /\ PoolBalanced => PoolBalanced'
<1> SUFFICES ASSUME TInv, [Next]_vars, PoolBalanced PROVE PoolBalanced'
  OBVIOUS
<1>1. /\ bundlePool_ \in Seq(Bundles) /\ faceQueue \in Seq(FaceTask)
      /\ Len(bundlePool_) \in Nat /\ Queued \in Nat
  BY LenProperties, BundlesFinite DEF TInv, AudioTypeOK, Queued
<1>2. Working => Len(bundlePool_) + Queued + (IF face = 0 THEN 0 ELSE 1) = PoolSize
  BY <1>1, AudioAssumption DEF PoolBalanced, InFlight, Queued
<1>3. ASSUME Working' => Working' /\ Len(bundlePool_)' + Queued' + (IF face' = 0 THEN 0 ELSE 1) = PoolSize,
             Working' => Len(bundlePool_)' \in Nat /\ Queued' \in Nat
      PROVE  PoolBalanced'
  BY <1>3, AudioAssumption DEF PoolBalanced, InFlight, Queued
<1>4. CASE UNCHANGED <<bundlePool_, face, faceQueue, fault>>
  BY <1>4 DEF PoolBalanced, InFlight, Working
<1>5. CASE UNCHANGED <<bundlePool_, face, faceQueue>> /\ fault' # None
  BY <1>5 DEF PoolBalanced, Working
<1>6. CASE AddReturns \/ RemoveReturns
  <2> DEFINE e == [kind |-> "meta", threads |-> threads_, thread |-> None, session |-> 0, no |-> 0, bundle |-> 0]
  <2>1. /\ faceQueue' = Append(faceQueue, e) /\ e.kind = "meta"
        /\ UNCHANGED <<bundlePool_, face, fault>>
    BY <1>6 DEF AddReturns, RemoveReturns, publishMeta, poolVars
  <2>2. e \in FaceTask
    BY AudioAssumption DEF FaceTask, TInv, AudioTypeOK
  <2> HIDE DEF e
  <2>3. Queued' = Queued
    BY <1>1, <2>1, <2>2, FacePush DEF Queued
  <2> QED
    BY <1>1, <1>2, <1>3, <2>1, <2>3 DEF Working
<1>7. CASE BundleTaken /\ audio.thread \in threads_
  <2> DEFINE t == audio.thread
             l == [thread |-> t, session |-> session[t], no |-> audio.no]
             e == bundleTask(l, audio.bundle)
  <2>1. /\ Working /\ bundlePool_' = Front(bundlePool_) /\ faceQueue' = Append(faceQueue, e)
        /\ e.kind = "bundle" /\ UNCHANGED face /\ bundlePool_ # <<>>
    BY <1>7 DEF BundleTaken, TInv, bundleTask
  <2>2. e \in FaceTask
    <3>1. /\ t \in Threads /\ audio \in Delivery /\ session \in [Threads -> Nat]
      BY <1>7 DEF BundleTaken, TInv, AudioTypeOK
    <3> QED
      BY <3>1 DEF Delivery, FaceTask, bundleTask
  <2> HIDE DEF e, l, t
  <2>3. Queued' = Queued + 1
    BY <1>1, <2>1, <2>2, FacePush DEF Queued
  <2>4. Len(bundlePool_)' = Len(bundlePool_) - 1 /\ Len(bundlePool_)' \in Nat
    BY <1>1, <2>1, PoolFront, LenProperties
  <2> QED
    BY <1>1, <1>2, <1>3, <2>1, <2>3, <2>4
<1>8. CASE PublishBundle /\ UNCHANGED fault
  <2>1. /\ Working /\ faceQueue # <<>> /\ Head(faceQueue).kind = "bundle" /\ faceQueue' = Tail(faceQueue)
        /\ face = 0 /\ face' = Head(faceQueue).bundle /\ UNCHANGED bundlePool_
    <3>1. Working /\ fault # "header set twice"
      BY <1>8 DEF PublishBundle, FaceTakes, Working, None
    <3> QED
      BY <1>8, <3>1 DEF PublishBundle, FaceTakes
  <2>2. Queued' = Queued - 1 /\ 1 \in BundlesIn(faceQueue) /\ Head(faceQueue) = faceQueue[1] /\ faceQueue' \in Seq(FaceTask)
    BY <1>1, <2>1, FacePop DEF Queued
  <2>3. face' # 0
    BY <2>1, <2>2 DEF TInv
  <2>4. Queued' \in Nat
    BY <2>2, BundlesFinite DEF Queued
  <2> QED
    BY <1>1, <1>2, <1>3, <2>1, <2>2, <2>3, <2>4
<1>9. CASE PublishMeta
  <2>1. /\ faceQueue # <<>> /\ Head(faceQueue).kind # "bundle" /\ faceQueue' = Tail(faceQueue)
        /\ UNCHANGED <<bundlePool_, face, fault>>
    BY <1>9 DEF PublishMeta, FaceTakes, poolVars
  <2>2. Queued' = Queued
    BY <1>1, <2>1, FacePop DEF Queued
  <2> QED
    BY <1>1, <1>2, <1>3, <2>1, <2>2 DEF Working
<1>10. CASE ReturnBundle
  <2>1. /\ Working /\ face # 0 /\ face' = 0 /\ bundlePool_' = Append(bundlePool_, face)
        /\ UNCHANGED faceQueue /\ face \in Bundles
    BY <1>10, AudioAssumption DEF ReturnBundle, TInv, AudioTypeOK, Bundles
  <2>2. Len(bundlePool_)' = Len(bundlePool_) + 1
    BY <1>1, <2>1, AppendProperties
  <2>3. Queued' = Queued
    BY <2>1 DEF Queued
  <2> QED
    BY <1>1, <1>2, <1>3, <2>1, <2>2, <2>3
<1>11. CASE Deliver
  <2>1. UNCHANGED <<bundlePool_, face, faceQueue>> /\ (fault' = fault \/ fault' = "no space")
    BY <1>11 DEF Deliver, Added, poolVars
  <2> QED
    BY <1>4, <1>5, <2>1 DEF None
<1>12. CASE BundleTaken /\ audio.thread \notin threads_
  BY <1>5, <1>12 DEF BundleTaken, None
<1>13. CASE PublishBundle /\ ~UNCHANGED fault
  <2>1. fault' # None
    BY <1>13 DEF PublishBundle, None
  <2> QED
    BY <2>1 DEF PoolBalanced, Working
<1>14. CASE (\E t \in Threads : StartThread(t)) \/ (\E ok \in BOOLEAN : RunBlock(ok))
  BY <1>4, <1>14 DEF StartThread, RunBlock, poolVars
<1>15. CASE UNCHANGED BundleVars /\ UNCHANGED fault
  BY <1>4, <1>15 DEF BundleVars
<1> QED
  BY <1>6, <1>7, <1>8, <1>9, <1>10, <1>11, <1>12, <1>13, <1>14, <1>15, OtherSteps DEF AudioSteps, FaceSteps

(* All bundles are in the pool at first.                                    *)
LEMMA PoolBalancedInit == Init => PoolBalanced
<1> SUFFICES ASSUME Init PROVE PoolBalanced
  OBVIOUS
<1>1. /\ faceQueue = <<>> /\ face = 0 /\ bundlePool_ = [i \in 1..PoolSize |-> i]
  BY DEF Init, Bundles
<1>2. Len(bundlePool_) = PoolSize
  BY <1>1, AudioAssumption
<1>3. BundlesIn(faceQueue) = {}
  BY <1>1 DEF BundlesIn
<1>4. Cardinality(BundlesIn(faceQueue)) = 0
  BY <1>3, FS_EmptySet
<1> QED
  BY <1>1, <1>2, <1>4, AudioAssumption DEF PoolBalanced, InFlight

-----------------------------------------------------------------------------
(* The places of bundles                                                    *)

(* Each bundle is in one place with what it should hold, those that wait to *)
(* be published have no header, and the one that the audio thread has read  *)
(* off the pool is still its last.                                          *)
Places ==
  /\ BundlesApart /\ HoldsItsSamples /\ HeaderSetOnce
  /\ \A j \in BundlesIn(faceQueue) : faceQueue[j].bundle \notin headerSet
  /\ audio # NoDelivery => audio.bundle = Last(bundlePool_)

PlacesInv == ~raced => Places

(* The last bundle of a pool is not among those left when it is taken.      *)
LEMMA PoolTaken ==
  ASSUME NEW pool \in Seq(Bundles), pool # <<>>,
         \A i, j \in DOMAIN pool : pool[i] = pool[j] => i = j
  PROVE  /\ \A i \in DOMAIN Front(pool) : i \in DOMAIN pool /\ Front(pool)[i] = pool[i] /\ pool[i] # Last(pool)
         /\ \E i \in DOMAIN pool : Last(pool) = pool[i]
<1> DEFINE n == Len(pool)
           p == Front(pool)
<1>1. n \in Nat \ {0} /\ DOMAIN pool = 1..n
  BY EmptySeq, LenProperties
<1>2. Last(pool) = pool[n] /\ n \in 1..n
  BY <1>1 DEF Last
<1>3. /\ p \in Seq(Bundles) /\ Len(p) = n - 1
  BY PoolFront
<1>4. DOMAIN p = 1..(n - 1)
  BY <1>3, LenProperties
<1>5. \A i \in 1..(n - 1) : p[i] = pool[i] /\ i \in 1..n /\ i # n
  <2>0. \A m \in Nat \ {0} : m - 1 \in Int /\ \A i \in 1..(m - 1) : i \in 1..m /\ i # m
    OBVIOUS
  <2>1. n - 1 \in Int /\ \A i \in 1..(n - 1) : i \in 1..n /\ i # n
    BY <1>1, <2>0
  <2>2. \A i \in 1..n : pool[i] \in Bundles
    BY ElementOfSeq
  <2>3. 1 \in Int /\ n - 1 \in Int /\ \A i \in 1..(n - 1) : pool[i] \in Bundles
    BY <2>1, <2>2
  <2>4. \A i \in 1..((n - 1) - 1 + 1) : SubSeq(pool, 1, n - 1)[i] = pool[1 + i - 1]
    BY <2>3, SubSeqProperties
  <2>5. \A i \in 1..(n - 1) : i \in 1..((n - 1) - 1 + 1) /\ 1 + i - 1 = i
    BY <1>1
  <2>6. \A i \in 1..(n - 1) : SubSeq(pool, 1, n - 1)[i] = pool[i]
    BY <2>4, <2>5
  <2> QED
    BY <2>1, <2>6 DEF Front
<1> HIDE DEF n, p
<1>6. \A i \in DOMAIN p : i \in DOMAIN pool /\ p[i] = pool[i] /\ pool[i] # Last(pool)
  BY <1>1, <1>2, <1>4, <1>5
<1> QED
  BY <1>1, <1>2, <1>6 DEF p

(* A bundle at the end of a pool                                            *)
LEMMA PoolReturned ==
  ASSUME NEW pool \in Seq(Bundles), NEW b \in Bundles
  PROVE  LET p == Append(pool, b)
             k == Len(pool) + 1
         IN \A i \in DOMAIN p : (i \in DOMAIN pool /\ p[i] = pool[i]) \/ (i = k /\ p[i] = b)
<1> DEFINE p == Append(pool, b)
           n == Len(pool)
           k == n + 1
<1>1. /\ n \in Nat /\ DOMAIN pool = 1..n /\ DOMAIN p = 1..k
      /\ \A i \in 1..n : p[i] = pool[i]
      /\ p[k] = b
  BY AppendProperties, LenProperties
<1>2. \A i \in 1..k : i \in 1..n \/ i = k
  BY <1>1
<1> HIDE DEF p, n, k
<1>3. \A i \in DOMAIN p : (i \in DOMAIN pool /\ p[i] = pool[i]) \/ (i = k /\ p[i] = b)
  BY <1>1, <1>2
<1> QED
  BY <1>3 DEF p, n, k

(* A bundle goes from the end of the pool to the end of the queue.          *)
LEMMA PlacesTaken ==
  ASSUME TInv, Places, BundleTaken, audio.thread \in threads_
  PROVE  Places'
<1> DEFINE b == audio.bundle
           l == [thread |-> audio.thread, session |-> session[audio.thread], no |-> audio.no]
           e == bundleTask(l, b)
           p == bundlePool_'
           q == faceQueue'
           k == Len(faceQueue) + 1
<1>1. /\ p = Front(bundlePool_) /\ q = Append(faceQueue, e) /\ content' = [content EXCEPT ![b] = l]
      /\ headerSet' = headerSet \ {b} /\ audio' = NoDelivery /\ UNCHANGED <<face, published>>
      /\ fault' = fault \/ fault' = "no space"
  BY DEF BundleTaken, Added
<1>2. /\ audio.thread \in Threads /\ b \in Bundles /\ bundlePool_ # <<>> /\ audio \in Delivery
      /\ bundlePool_ \in Seq(Bundles) /\ faceQueue \in Seq(FaceTask) /\ session \in [Threads -> Nat]
      /\ DOMAIN content = Bundles
  BY DEF BundleTaken, TInv, AudioTypeOK
<1>3. e \in FaceTask /\ e.bundle = b /\ Label(e) = l
  BY <1>2, AudioAssumption DEF FaceTask, bundleTask, Delivery, Bundles, Label
<1>4. b = Last(bundlePool_)
  BY DEF Places, BundleTaken
<1> HIDE DEF b, l, e, p, q, k
<1>5. \A i, j \in DOMAIN bundlePool_ : bundlePool_[i] = bundlePool_[j] => i = j
  BY DEF Places, BundlesApart
<1>6. /\ \A i \in DOMAIN p : i \in DOMAIN bundlePool_ /\ p[i] = bundlePool_[i] /\ p[i] # b
      /\ \E i \in DOMAIN bundlePool_ : b = bundlePool_[i]
  BY <1>1, <1>2, <1>4, <1>5, PoolTaken
<1>7. \A i \in BundlesIn(q) : (i \in BundlesIn(faceQueue) /\ q[i] = faceQueue[i]) \/ (i = k /\ q[i] = e)
  <2>1. q = Append(faceQueue, e) /\ faceQueue \in Seq(FaceTask) /\ e \in FaceTask
    BY <1>1, <1>2, <1>3
  <2>2. \A i \in BundlesIn(Append(faceQueue, e)) :
          \/ i \in BundlesIn(faceQueue) /\ Append(faceQueue, e)[i] = faceQueue[i]
          \/ i = Len(faceQueue) + 1 /\ Append(faceQueue, e)[i] = e
    BY <2>1, FacePush, Zenon
  <2> QED
    BY <2>1, <2>2, Zenon DEF k
<1>8. b # face /\ \A j \in BundlesIn(faceQueue) : faceQueue[j].bundle # b
  BY <1>6 DEF Places, BundlesApart
<1>a. BundlesApart /\ HoldsItsSamples
  BY DEF Places
<1>9. BundlesApart'
  <2>1. \A i, j \in DOMAIN p : p[i] = p[j] => i = j
    BY <1>5, <1>6
  <2>2. \A i, j \in BundlesIn(q) : q[i].bundle = q[j].bundle => i = j
    BY <1>a, <1>3, <1>7, <1>8 DEF BundlesApart
  <2>3. \A i \in DOMAIN p, j \in BundlesIn(q) : p[i] # q[j].bundle
    BY <1>a, <1>3, <1>6, <1>7 DEF BundlesApart
  <2>f. face' = face
    BY <1>1
  <2>4. \A i \in DOMAIN p : p[i] # face'
    BY <1>a, <1>6, <2>f DEF BundlesApart
  <2>5. \A j \in BundlesIn(q) : q[j].bundle # face'
    BY <1>a, <1>1, <1>3, <1>7, <1>8 DEF BundlesApart
  <2> QED
    BY <2>1, <2>2, <2>3, <2>4, <2>5 DEF BundlesApart, p, q
<1>10. HoldsItsSamples'
  <2>1. ASSUME NEW i \in BundlesIn(q) PROVE content'[q[i].bundle] = Label(q[i])
    <3>1. CASE i \in BundlesIn(faceQueue) /\ q[i] = faceQueue[i]
      <4>b. faceQueue[i].bundle \in Bundles /\ faceQueue[i].bundle # b
        <5>1. faceQueue[i] \in FaceTask /\ faceQueue[i].bundle # 0
          BY <1>2, <3>1 DEF TInv, BundlesIn
        <5>2. faceQueue[i].bundle \in 0..PoolSize
          BY <5>1 DEF FaceTask
        <5> QED
          BY <1>8, <3>1, <5>1, <5>2, AudioAssumption DEF Bundles
      <4>1. content'[faceQueue[i].bundle] = content[faceQueue[i].bundle]
        BY <1>1, <1>2, <4>b DEF TInv, AudioTypeOK
      <4> QED
        BY <1>a, <3>1, <4>1 DEF HoldsItsSamples
    <3>2. CASE q[i] = e
      BY <1>1, <1>2, <1>3, <3>2
    <3> QED
      BY <1>7, <3>1, <3>2
  <2>2. \A i \in DOMAIN published' : published'[i].content = Label(published'[i])
    BY <1>a, <1>1 DEF HoldsItsSamples
  <2> QED
    BY <2>1, <2>2 DEF HoldsItsSamples, q
<1>11. \A j \in BundlesIn(q) : q[j].bundle \notin headerSet'
  BY <1>1, <1>3, <1>7 DEF Places
<1>12. HeaderSetOnce'
  BY <1>1 DEF Places, HeaderSetOnce
<1> QED
  BY <1>1, <1>9, <1>10, <1>11, <1>12 DEF Places, q

(* A bundle goes from the head of the queue to the face thread's hands.     *)
LEMMA PlacesPublished ==
  ASSUME TInv, Places, PublishBundle
  PROVE  Places'
<1> DEFINE e == faceQueue[1]
           r == [thread |-> e.thread, session |-> e.session, no |-> e.no, content |-> content[e.bundle]]
           q == faceQueue'
           d == published'
           n == Len(published)
<1>1. /\ faceQueue # <<>> /\ q = Tail(faceQueue) /\ face = 0 /\ faceQueue \in Seq(FaceTask)
      /\ Head(faceQueue).kind = "bundle" /\ UNCHANGED <<bundlePool_, content, audio>>
  BY DEF PublishBundle, FaceTakes, TInv
<1>2. /\ 1 \in BundlesIn(faceQueue) /\ Head(faceQueue) = e
      /\ \A i \in BundlesIn(q) : i \in Nat \ {0} /\ i + 1 \in BundlesIn(faceQueue) /\ q[i] = faceQueue[i + 1]
  BY <1>1, FacePop
<1>3. e.bundle \notin headerSet
  BY <1>2 DEF Places
<1>4. /\ headerSet' = headerSet \cup {e.bundle} /\ face' = e.bundle /\ d = Append(published, r) /\ fault' = fault
  BY <1>2, <1>3 DEF PublishBundle
<1>5. /\ n \in Nat /\ DOMAIN published = 1..n /\ DOMAIN d = 1..(n + 1)
      /\ \A i \in 1..n : d[i] = published[i]
      /\ d[n + 1] = r
  <2> DEFINE R == Record
  <2>1. published \in Seq(R)
    BY DEF TInv
  <2> HIDE DEF R, r
  <2>2. n \in Nat /\ DOMAIN published = 1..n
    BY <2>1, LenProperties
  <2> QED
    BY <1>4, <2>2
<1>6. r.content = Label(e) /\ Label(r) = Label(e)
  BY <1>2 DEF Places, HoldsItsSamples, Label
<1> HIDE DEF e, r, q, d, n
<1>7. \A i \in BundlesIn(q) : q[i].bundle # e.bundle
  <2>1. \A i \in BundlesIn(q) : i + 1 # 1
    BY <1>2
  <2> QED
    BY <1>2, <2>1 DEF Places, BundlesApart, e
<1>8. \A i, j \in BundlesIn(q) : q[i].bundle = q[j].bundle => i = j
  <2> SUFFICES ASSUME NEW i \in BundlesIn(q), NEW j \in BundlesIn(q), q[i].bundle = q[j].bundle PROVE i = j
    OBVIOUS
  <2>1. i + 1 = j + 1
    BY <1>2 DEF Places, BundlesApart
  <2> QED
    BY <1>2, <2>1
<1>9. BundlesApart'
  <2>a. BundlesApart
    BY DEF Places
  <2>1. \A i, j \in DOMAIN bundlePool_' : bundlePool_'[i] = bundlePool_'[j] => i = j
    BY <1>1, <2>a DEF BundlesApart
  <2>b. bundlePool_' = bundlePool_
    BY <1>1
  <2>2. \A i \in DOMAIN bundlePool_', j \in BundlesIn(q) : bundlePool_'[i] # q[j].bundle
    BY <1>2, <2>a, <2>b DEF BundlesApart
  <2>3. \A i \in DOMAIN bundlePool_' : bundlePool_'[i] # face'
    BY <1>1, <1>2, <1>4, <2>a DEF BundlesApart, e
  <2>4. \A j \in BundlesIn(q) : q[j].bundle # face'
    BY <1>4, <1>7
  <2> QED
    BY <1>8, <2>1, <2>2, <2>3, <2>4 DEF BundlesApart, q
<1>10. \A i \in DOMAIN d : d[i].content = Label(d[i])
  <2>1. \A i \in DOMAIN d : i \in 1..n \/ i = n + 1
    BY <1>5
  <2>2. \A i \in 1..n : published[i].content = Label(published[i])
    BY <1>5 DEF Places, HoldsItsSamples
  <2>3. d[n + 1].content = Label(d[n + 1])
    BY <1>5, <1>6
  <2>4. \A i \in 1..n : d[i].content = Label(d[i])
    BY <1>5, <2>2
  <2> QED
    BY <2>1, <2>3, <2>4
<1>11. HoldsItsSamples'
  <2>1. HoldsItsSamples /\ content' = content
    BY <1>1 DEF Places
  <2>2. \A i \in BundlesIn(q) : content'[q[i].bundle] = Label(q[i])
    BY <1>2, <2>1 DEF HoldsItsSamples
  <2> QED
    BY <1>10, <2>2, Zenon DEF HoldsItsSamples, q, d
<1>12. \A j \in BundlesIn(q) : q[j].bundle \notin headerSet'
  BY <1>2, <1>4, <1>7 DEF Places
<1> QED
  BY <1>1, <1>4, <1>9, <1>11, <1>12 DEF Places, HeaderSetOnce, q

(* Each step keeps bundles in their places, until one comes back while      *)
(* another is about to be taken.                                            *)
LEMMA PlacesNext == TInv /\ PlacesInv /\ [Next]_vars => PlacesInv'
<1> SUFFICES ASSUME TInv, PlacesInv, [Next]_vars, ~raced' PROVE Places'
  BY DEF PlacesInv
<1>1. CASE UNCHANGED <<bundlePool_, headerSet, content, raced, face, published, audio, faceQueue>> /\ fault' # "header set twice"
  BY <1>1 DEF PlacesInv, Places, BundlesApart, HoldsItsSamples, HeaderSetOnce, BundlesIn
<1>2. CASE UNCHANGED BundleVars /\ UNCHANGED fault
  <2>1. fault' # "header set twice"
    BY <1>2 DEF PlacesInv, Places, HeaderSetOnce, BundleVars
  <2> QED
    BY <1>1, <1>2, <2>1 DEF BundleVars
<1>3. CASE AddReturns \/ RemoveReturns
  <2> DEFINE e == [kind |-> "meta", threads |-> threads_, thread |-> None, session |-> 0, no |-> 0, bundle |-> 0]
             q == faceQueue'
  <2>1. /\ q = Append(faceQueue, e) /\ e.kind = "meta" /\ faceQueue \in Seq(FaceTask)
        /\ UNCHANGED <<bundlePool_, headerSet, content, raced, face, published, audio, fault>>
    BY <1>3 DEF AddReturns, RemoveReturns, publishMeta, poolVars, TInv
  <2>2. e \in FaceTask
    BY AudioAssumption DEF FaceTask, TInv, AudioTypeOK
  <2> HIDE DEF e, q
  <2>3. \A i \in BundlesIn(q) : i \in BundlesIn(faceQueue) /\ q[i] = faceQueue[i]
    BY <2>1, <2>2, FacePush
  <2>4. Places
    BY <2>1 DEF PlacesInv
  <2>b. bundlePool_' = bundlePool_ /\ face' = face /\ BundlesApart
    BY <2>1, <2>4 DEF Places
  <2>5. BundlesApart'
    BY <2>3, <2>b DEF BundlesApart, q
  <2>6. HoldsItsSamples'
    BY <2>1, <2>3, <2>4 DEF Places, HoldsItsSamples, q
  <2>7. HeaderSetOnce' /\ \A j \in BundlesIn(q) : q[j].bundle \notin headerSet'
    BY <2>1, <2>3, <2>4 DEF Places, HeaderSetOnce
  <2> QED
    BY <2>1, <2>4, <2>5, <2>6, <2>7 DEF Places, q
<1>4. CASE BundleTaken /\ audio.thread \in threads_
  <2>1. Places
    BY <1>4 DEF PlacesInv, BundleTaken
  <2> QED
    BY <1>4, <2>1, PlacesTaken
<1>5. CASE BundleTaken /\ audio.thread \notin threads_
  <2>1. /\ UNCHANGED <<bundlePool_, headerSet, content, raced, face, published, audio, faceQueue>>
        /\ fault' # "header set twice"
    BY <1>5 DEF BundleTaken
  <2> QED
    BY <1>1, <2>1
<1>6. CASE PublishBundle
  <2>1. Places
    BY <1>6 DEF PlacesInv, PublishBundle
  <2> QED
    BY <1>6, <2>1, PlacesPublished
<1>7. CASE PublishMeta
  <2> DEFINE q == faceQueue'
  <2>1. /\ faceQueue # <<>> /\ q = Tail(faceQueue) /\ faceQueue \in Seq(FaceTask)
        /\ UNCHANGED <<bundlePool_, headerSet, content, raced, face, published, audio, fault>>
    BY <1>7 DEF PublishMeta, FaceTakes, poolVars, TInv
  <2> HIDE DEF q
  <2>2. \A i \in BundlesIn(q) : i \in Nat \ {0} /\ i + 1 \in BundlesIn(faceQueue) /\ q[i] = faceQueue[i + 1]
    BY <2>1, FacePop
  <2>3. Places
    BY <2>1 DEF PlacesInv
  <2>4. \A i, j \in BundlesIn(q) : q[i].bundle = q[j].bundle => i = j
    <3> SUFFICES ASSUME NEW i \in BundlesIn(q), NEW j \in BundlesIn(q), q[i].bundle = q[j].bundle PROVE i = j
      OBVIOUS
    <3>1. i + 1 = j + 1
      BY <2>2, <2>3 DEF Places, BundlesApart
    <3> QED
      BY <2>2, <3>1
  <2>5. BundlesApart'
    <3>a. BundlesApart
      BY <2>3 DEF Places
    <3>1. \A i, j \in DOMAIN bundlePool_' : bundlePool_'[i] = bundlePool_'[j] => i = j
      BY <2>1, <3>a DEF BundlesApart
    <3>b. bundlePool_' = bundlePool_ /\ face' = face
      BY <2>1
    <3>2. \A i \in DOMAIN bundlePool_', j \in BundlesIn(q) : bundlePool_'[i] # q[j].bundle
      BY <2>2, <3>a, <3>b DEF BundlesApart
    <3>3. \A i \in DOMAIN bundlePool_' : bundlePool_'[i] # face'
      BY <2>1, <3>a DEF BundlesApart
    <3>4. \A j \in BundlesIn(q) : q[j].bundle # face'
      BY <2>2, <3>a, <3>b DEF BundlesApart
    <3> QED
      BY <2>4, <3>1, <3>2, <3>3, <3>4, Zenon DEF BundlesApart, q
  <2>6. HoldsItsSamples'
    <3>1. HoldsItsSamples /\ content' = content /\ published' = published
      BY <2>1, <2>3 DEF Places
    <3>2. \A i \in BundlesIn(q) : content'[q[i].bundle] = Label(q[i])
      BY <2>2, <3>1 DEF HoldsItsSamples
    <3>3. \A i \in DOMAIN published' : published'[i].content = Label(published'[i])
      BY <3>1 DEF HoldsItsSamples
    <3> QED
      BY <3>2, <3>3, Zenon DEF HoldsItsSamples, q
  <2>7. HeaderSetOnce' /\ \A j \in BundlesIn(q) : q[j].bundle \notin headerSet'
    BY <2>1, <2>2, <2>3 DEF Places, HeaderSetOnce
  <2> QED
    BY <2>1, <2>3, <2>5, <2>6, <2>7 DEF Places, q
<1>8. CASE ReturnBundle
  <2> DEFINE p == bundlePool_'
  <2>r. audio = NoDelivery /\ ~raced
    BY <1>8, Zenon DEF ReturnBundle
  <2>1. /\ p = Append(bundlePool_, face) /\ face \in Bundles /\ face' = 0 /\ bundlePool_ \in Seq(Bundles)
        /\ audio = NoDelivery /\ UNCHANGED <<headerSet, content, published, audio, faceQueue, fault>> /\ ~raced
    BY <1>8, <2>r, AudioAssumption DEF ReturnBundle, TInv, AudioTypeOK, Bundles
  <2> HIDE DEF p
  <2>2. \A i \in DOMAIN p : (i \in DOMAIN bundlePool_ /\ p[i] = bundlePool_[i]) \/ (i = Len(bundlePool_) + 1 /\ p[i] = face)
    BY <2>1, PoolReturned
  <2>3. Places
    BY <2>1 DEF PlacesInv
  <2>4. /\ \A i \in DOMAIN p : p[i] \in Bundles
        /\ \A j \in BundlesIn(faceQueue) : faceQueue[j].bundle # 0
        /\ 0 \notin Bundles
    <3>1. \A i \in DOMAIN bundlePool_ : bundlePool_[i] \in Bundles
      BY <2>1
    <3> QED
      BY <2>1, <2>2, <3>1 DEF TInv, Bundles
  <2>5. BundlesApart'
    <3>a. BundlesApart /\ faceQueue' = faceQueue /\ face' = 0
      BY <2>1, <2>3 DEF Places
    <3>1. \A i, j \in DOMAIN p : p[i] = p[j] => i = j
      BY <2>2, <3>a DEF BundlesApart
    <3>2. \A i \in DOMAIN p, j \in BundlesIn(faceQueue) : p[i] # faceQueue[j].bundle
      BY <2>2, <3>a DEF BundlesApart
    <3>3. \A i \in DOMAIN p : p[i] # 0
      BY <2>4
    <3>4. BundlesIn(faceQueue') = BundlesIn(faceQueue)
      BY <3>a
    <3> QED
      BY <2>4, <3>a, <3>1, <3>2, <3>3, <3>4 DEF BundlesApart, p
  <2>6. HoldsItsSamples' /\ HeaderSetOnce'
    BY <2>1, <2>3 DEF Places, HoldsItsSamples, HeaderSetOnce, BundlesIn
  <2> QED
    BY <2>1, <2>3, <2>5, <2>6 DEF Places, BundlesIn
<1>9. CASE Deliver
  <2>1. UNCHANGED <<bundlePool_, headerSet, content, raced, face, published, faceQueue>>
    BY <1>9 DEF Deliver, poolVars
  <2>2. fault' = fault \/ fault' = "no space"
    BY <1>9 DEF Deliver, Added
  <2>3. audio' = audio \/ audio'.bundle = Last(bundlePool_)
    BY <1>9 DEF Deliver
  <2>4. Places
    BY <2>1 DEF PlacesInv
  <2>5. BundlesApart' /\ HoldsItsSamples'
    BY <2>1, <2>4 DEF Places, BundlesApart, HoldsItsSamples, BundlesIn
  <2>6. HeaderSetOnce'
    BY <2>2, <2>4 DEF Places, HeaderSetOnce
  <2> QED
    BY <2>1, <2>3, <2>4, <2>5, <2>6 DEF Places, BundlesIn
<1>10. CASE (\E t \in Threads : StartThread(t)) \/ (\E ok \in BOOLEAN : RunBlock(ok))
  <2>1. UNCHANGED BundleVars \/ UNCHANGED <<bundlePool_, headerSet, content, raced, face, published, audio, faceQueue>>
    BY <1>10 DEF StartThread, RunBlock, poolVars
  <2>2. UNCHANGED fault
    BY <1>10 DEF StartThread, RunBlock
  <2>3. fault' # "header set twice"
    BY <2>1, <2>2 DEF PlacesInv, Places, HeaderSetOnce, BundleVars
  <2> QED
    BY <1>1, <1>2, <2>1, <2>2, <2>3
<1> QED
  BY <1>2, <1>3, <1>4, <1>5, <1>6, <1>7, <1>8, <1>9, <1>10, OtherSteps DEF AudioSteps, FaceSteps

(* All bundles are in the pool at first, each once.                         *)
LEMMA PlacesInit == Init => PlacesInv
<1> SUFFICES ASSUME Init PROVE Places
  BY DEF PlacesInv
<1>1. /\ faceQueue = <<>> /\ published = <<>> /\ face = 0 /\ bundlePool_ = [i \in 1..PoolSize |-> i]
      /\ audio = NoDelivery /\ fault = None
  BY DEF Init, Bundles
<1>2. DOMAIN published = {} /\ BundlesIn(faceQueue) = {}
  BY <1>1 DEF BundlesIn
<1>3. \A i \in DOMAIN bundlePool_ : bundlePool_[i] = i /\ bundlePool_[i] # 0
  BY <1>1, AudioAssumption
<1>4. fault # "header set twice"
  BY <1>1 DEF None
<1> QED
  BY <1>1, <1>2, <1>3, <1>4 DEF Places, BundlesApart, HoldsItsSamples, HeaderSetOnce

-----------------------------------------------------------------------------
(* The order of bundles                                                     *)

(* What bundles and the numbers to come are made of                         *)
LEMMA OrderTypes ==
  ASSUME TInv
  PROVE  /\ \A i \in DOMAIN published :
              published[i].thread \in Threads /\ published[i].session \in Nat /\ published[i].no \in Nat
         /\ \A i \in BundlesIn(faceQueue) :
              i \in Nat /\ faceQueue[i].thread \in Threads /\ faceQueue[i].session \in Nat /\ faceQueue[i].no \in Nat
         /\ \A t \in Threads : session[t] \in Nat /\ bundleNo_[t] \in Nat /\ NextNo(t) \in Nat
<1> DEFINE R == Record
<1>r. published \in Seq(R) /\ \A r \in R : r.thread \in Threads /\ r.session \in Nat /\ r.no \in Nat
  BY DEF TInv, Record
<1> HIDE DEF R
<1>1. \A i \in DOMAIN published :
        published[i].thread \in Threads /\ published[i].session \in Nat /\ published[i].no \in Nat
  BY <1>r
<1>2. DOMAIN faceQueue \subseteq Nat /\ \A i \in DOMAIN faceQueue : faceQueue[i] \in FaceTask
  BY DEF TInv
<1>3. \A i \in BundlesIn(faceQueue) :
        i \in Nat /\ faceQueue[i].thread \in Threads /\ faceQueue[i].session \in Nat /\ faceQueue[i].no \in Nat
  BY <1>2 DEF TInv, BundlesIn, FaceTask
<1>4. \A t \in Threads : session[t] \in Nat /\ bundleNo_[t] \in Nat /\ NextNo(t) \in Nat
  BY DEF TInv, AudioTypeOK, Delivery, NextNo
<1> QED
  BY <1>1, <1>3, <1>4

(* Sessions and numbers only grow: what was earlier than the bundles to     *)
(* come still is.                                                           *)
LEMMA LaterNumbers ==
  ASSUME TInv, TInv', OrderInv, UNCHANGED <<published, faceQueue>>,
         \A t \in Threads :
           \/ session'[t] = session[t] + 1
           \/ session'[t] = session[t] /\ NextNo(t)' >= NextNo(t),
         audio' # NoDelivery => audio'.no < bundleNo_'[audio'.thread]
  PROVE  OrderInv'
<1>1. NumberedInOrder' /\ PublishedFirst' /\ QueuedInOrder'
  BY DEF OrderInv, NumberedInOrder, PublishedFirst, QueuedInOrder, BundlesIn
<1>2. ASSUME NEW a, a.session \in Nat, a.no \in Nat, NEW t \in Threads, Earlier(a, session[t], NextNo(t))
      PROVE  Earlier(a, session'[t], NextNo(t)')
  <2> DEFINE s1 == session[t]
             s2 == session'[t]
             n1 == NextNo(t)
             n2 == NextNo(t)'
  <2>1. s1 \in Nat /\ n1 \in Nat
    BY OrderTypes
  <2>2. s2 \in Nat /\ n2 \in Nat
    BY DEF TInv, AudioTypeOK, Delivery, NextNo
  <2>3. (s2 = s1 + 1 \/ (s2 = s1 /\ n2 >= n1)) /\ (a.session < s1 \/ (a.session = s1 /\ a.no < n1))
    BY <1>2 DEF Earlier
  <2> HIDE DEF s1, s2, n1, n2
  <2>4. a.session < s2 \/ (a.session = s2 /\ a.no < n2)
    BY <1>2, <2>1, <2>2, <2>3
  <2> QED
    BY <2>4 DEF Earlier, s2, n2
<1>3. PublishedBefore'
  BY <1>2, OrderTypes DEF OrderInv, PublishedBefore
<1>4. QueuedBefore'
  <2>1. UNCHANGED BundlesIn(faceQueue)
    BY DEF BundlesIn
  <2> QED
    BY <1>2, <2>1, OrderTypes DEF OrderInv, QueuedBefore
<1> QED
  BY <1>1, <1>3, <1>4 DEF OrderInv

(* A bundle is queued with the number it was given: it is later than all    *)
(* that were queued or published, and earlier than those to come.           *)
LEMMA OrderQueued ==
  ASSUME TInv, TInv', OrderInv, BundleTaken, audio.thread \in threads_
  PROVE  OrderInv'
<1> PICK t \in Threads : t = audio.thread
  BY DEF BundleTaken, TInv
<1> DEFINE l == [thread |-> t, session |-> session[t], no |-> audio.no]
           e == bundleTask(l, audio.bundle)
           p == faceQueue'
           k == Len(faceQueue) + 1
<1>1. /\ UNCHANGED <<published, session, bundleNo_>> /\ audio # NoDelivery /\ audio' = NoDelivery
      /\ p = Append(faceQueue, e) /\ audio \in Delivery /\ session \in [Threads -> Nat]
  BY DEF BundleTaken, TInv, AudioTypeOK
<1>2. /\ e \in FaceTask /\ e.kind = "bundle" /\ e.thread = t /\ e.session = session[t] /\ e.no = NextNo(t)
      /\ e.session \in Nat /\ e.no \in Nat
  BY <1>1 DEF Delivery, FaceTask, NextNo, bundleTask
<1>3. /\ \A u \in Threads : NextNo(u) = bundleNo_[u] \/ NextNo(u) < bundleNo_[u]
      /\ NextNo(t) < bundleNo_[t]
  BY <1>1 DEF NextNo, OrderInv
<1>4. \A u \in Threads : u # audio'.thread
  BY <1>1, AudioProducerAssumption DEF NoDelivery
<1> HIDE DEF e, l, k, p
<1>5. \A i \in BundlesIn(p) : (i \in BundlesIn(faceQueue) /\ p[i] = faceQueue[i] /\ i < k) \/ (i = k /\ p[i] = e)
  BY <1>1, <1>2, FacePush DEF TInv, k
<1>6. /\ \A i \in BundlesIn(faceQueue) : i \in Nat
      /\ k \in Nat
  BY OrderTypes, LenProperties DEF TInv, k
<1>7. NumberedInOrder'
  BY <1>1 DEF OrderInv, NumberedInOrder
<1>8. PublishedFirst'
  <2> SUFFICES ASSUME NEW i \in DOMAIN published, NEW j \in BundlesIn(p), published[i].thread = p[j].thread
               PROVE  Earlier(published[i], p[j].session, p[j].no)
    BY <1>1 DEF PublishedFirst, p
  <2>1. CASE j \in BundlesIn(faceQueue) /\ p[j] = faceQueue[j]
    BY <2>1 DEF OrderInv, PublishedFirst
  <2>2. CASE p[j] = e
    BY <1>2, <2>2 DEF OrderInv, PublishedBefore
  <2> QED
    BY <1>5, <2>1, <2>2
<1>9. QueuedInOrder'
  <2> SUFFICES ASSUME NEW i \in BundlesIn(p), NEW j \in BundlesIn(p), i < j, p[i].thread = p[j].thread
               PROVE  Earlier(p[i], p[j].session, p[j].no)
    BY DEF QueuedInOrder, p
  <2>1. i \in BundlesIn(faceQueue) /\ p[i] = faceQueue[i]
    BY <1>5, <1>6
  <2>2. CASE j \in BundlesIn(faceQueue) /\ p[j] = faceQueue[j]
    BY <2>1, <2>2 DEF OrderInv, QueuedInOrder
  <2>3. CASE p[j] = e
    BY <1>2, <2>1, <2>3 DEF OrderInv, QueuedBefore
  <2> QED
    BY <1>5, <2>2, <2>3
<1>10. ASSUME NEW a, NEW u \in Threads, a.session \in Nat, a.no \in Nat, Earlier(a, session[u], NextNo(u))
       PROVE  Earlier(a, session[u], bundleNo_[u])
  <2>1. NextNo(u) \in Nat /\ bundleNo_[u] \in Nat /\ (NextNo(u) = bundleNo_[u] \/ NextNo(u) < bundleNo_[u])
    BY <1>3, OrderTypes
  <2> QED
    BY <1>10, <2>1 DEF Earlier
<1>11. PublishedBefore'
  <2>1. \A i \in DOMAIN published : Earlier(published[i], session[published[i].thread], bundleNo_[published[i].thread])
    BY <1>10, OrderTypes DEF OrderInv, PublishedBefore
  <2>2. \A i \in DOMAIN published : published[i].thread # audio'.thread
    BY <1>4, OrderTypes
  <2> QED
    BY <1>1, <2>1, <2>2 DEF PublishedBefore, NextNo
<1>12. QueuedBefore'
  <2>1. ASSUME NEW i \in BundlesIn(p)
        PROVE  p[i].thread \in Threads /\ Earlier(p[i], session[p[i].thread], bundleNo_[p[i].thread])
    <3>1. CASE i \in BundlesIn(faceQueue) /\ p[i] = faceQueue[i]
      BY <1>10, <3>1, OrderTypes DEF OrderInv, QueuedBefore
    <3>2. CASE p[i] = e
      BY <1>2, <1>3, <3>2 DEF Earlier
    <3> QED
      BY <1>5, <3>1, <3>2
  <2>2. \A i \in BundlesIn(p) : p[i].thread # audio'.thread
    BY <1>4, <2>1
  <2> QED
    BY <1>1, <2>1, <2>2 DEF QueuedBefore, NextNo, p
<1> QED
  BY <1>1, <1>7, <1>8, <1>9, <1>11, <1>12 DEF OrderInv

(* The first task is taken off the face thread's queue.                     *)
LEMMA OrderTaken ==
  ASSUME TInv, OrderInv, faceQueue # <<>>, faceQueue' = Tail(faceQueue),
         UNCHANGED <<session, bundleNo_, audio>>
  PROVE  /\ QueuedInOrder' /\ QueuedBefore'
         /\ UNCHANGED published => OrderInv'
<1> DEFINE p == faceQueue'
<1>1. \A i \in BundlesIn(p) : i \in Nat \ {0} /\ i + 1 \in BundlesIn(faceQueue) /\ p[i] = faceQueue[i + 1]
  BY FacePop DEF TInv
<1> HIDE DEF p
<1>2. QueuedInOrder'
  <2> SUFFICES ASSUME NEW i \in BundlesIn(p), NEW j \in BundlesIn(p), i < j, p[i].thread = p[j].thread
               PROVE  Earlier(p[i], p[j].session, p[j].no)
    BY DEF QueuedInOrder, p
  <2>1. i + 1 < j + 1
    BY <1>1
  <2> QED
    BY <1>1, <2>1 DEF OrderInv, QueuedInOrder
<1>3. QueuedBefore'
  BY <1>1 DEF OrderInv, QueuedBefore, NextNo, p
<1>4. ASSUME UNCHANGED published PROVE OrderInv'
  <2>1. NumberedInOrder' /\ PublishedBefore'
    BY <1>4 DEF OrderInv, NumberedInOrder, PublishedBefore, NextNo
  <2>2. PublishedFirst'
    <3> SUFFICES ASSUME NEW i \in DOMAIN published, NEW j \in BundlesIn(p), published[i].thread = p[j].thread
                 PROVE  Earlier(published[i], p[j].session, p[j].no)
      BY <1>4 DEF PublishedFirst, p
    <3> QED
      BY <1>1 DEF OrderInv, PublishedFirst
  <2> QED
    BY <1>2, <1>3, <2>1, <2>2 DEF OrderInv
<1> QED
  BY <1>2, <1>3, <1>4

(* If it is a bundle it is published: later than those published before,    *)
(* and earlier than those still queued.                                     *)
LEMMA OrderPublished ==
  ASSUME TInv, OrderInv, faceQueue # <<>>, faceQueue' = Tail(faceQueue),
         UNCHANGED <<session, bundleNo_, audio>>,
         NEW r, Head(faceQueue).kind = "bundle", published' = Append(published, r),
         r.thread = Head(faceQueue).thread, r.session = Head(faceQueue).session, r.no = Head(faceQueue).no
  PROVE  OrderInv'
<1> DEFINE p == faceQueue'
           e == faceQueue[1]
           d == published'
           n == Len(published)
           k == n + 1
<1>1. /\ 1 \in BundlesIn(faceQueue) /\ r.thread = e.thread /\ r.session = e.session /\ r.no = e.no
      /\ \A i \in BundlesIn(p) : i \in Nat \ {0} /\ i + 1 \in BundlesIn(faceQueue) /\ p[i] = faceQueue[i + 1]
  BY FacePop DEF TInv
<1>2. /\ n \in Nat /\ DOMAIN published = 1..n /\ DOMAIN d = 1..k
      /\ \A i \in 1..n : d[i] = published[i]
      /\ d[k] = r
  <2> DEFINE R == Record
  <2>1. published \in Seq(R)
    BY DEF TInv
  <2> HIDE DEF R
  <2>2. /\ n \in Nat /\ DOMAIN published = 1..n
    BY <2>1, LenProperties
  <2> QED
    BY <2>1, <2>2
<1>3. \A i \in 1..k : i \in Nat /\ ((i \in 1..n /\ i < k) \/ i = k)
  BY <1>2
<1> HIDE DEF p, e, d, n, k
<1>4. NumberedInOrder'
  <2> SUFFICES ASSUME NEW i \in DOMAIN d, NEW j \in DOMAIN d, i < j, d[i].thread = d[j].thread
               PROVE  Earlier(d[i], d[j].session, d[j].no)
    BY DEF NumberedInOrder, Earlier, d
  <2>1. i \in DOMAIN published /\ d[i] = published[i]
    BY <1>2, <1>3
  <2>2. CASE j \in DOMAIN published
    BY <1>2, <2>1, <2>2 DEF OrderInv, NumberedInOrder, Earlier
  <2>3. CASE j = k
    BY <1>1, <1>2, <2>1, <2>3 DEF OrderInv, PublishedFirst, e
  <2> QED
    BY <1>2, <1>3, <2>2, <2>3
<1>5. PublishedFirst'
  <2> SUFFICES ASSUME NEW i \in DOMAIN d, NEW j \in BundlesIn(p), d[i].thread = p[j].thread
               PROVE  Earlier(d[i], p[j].session, p[j].no)
    BY DEF PublishedFirst, d, p
  <2>1. CASE i \in DOMAIN published
    BY <1>1, <1>2, <2>1 DEF OrderInv, PublishedFirst
  <2>2. CASE i = k
    <3>1. 1 < j + 1
      BY <1>1
    <3>2. Earlier(e, p[j].session, p[j].no)
      BY <1>1, <1>2, <2>2, <3>1 DEF OrderInv, QueuedInOrder, e
    <3> QED
      BY <1>1, <1>2, <2>2, <3>2 DEF Earlier
  <2> QED
    BY <1>2, <1>3, <2>1, <2>2
<1>6. PublishedBefore'
  <2>1. ASSUME NEW i \in DOMAIN d PROVE Earlier(d[i], session[d[i].thread], NextNo(d[i].thread))
    <3>1. CASE i \in DOMAIN published
      BY <1>2, <3>1 DEF OrderInv, PublishedBefore
    <3>2. CASE i = k
      <4>1. Earlier(e, session[e.thread], NextNo(e.thread))
        BY <1>1 DEF OrderInv, QueuedBefore, e
      <4> QED
        BY <1>1, <1>2, <3>2, <4>1 DEF Earlier
    <3> QED
      BY <1>2, <1>3, <3>1, <3>2
  <2> QED
    BY <2>1 DEF PublishedBefore, NextNo, d
<1>7. QueuedInOrder' /\ QueuedBefore'
  BY OrderTaken
<1> QED
  BY <1>4, <1>5, <1>6, <1>7 DEF OrderInv

(* Every step keeps bundles in order.  A thread that starts again numbers   *)
(* from zero in a new session, and nothing of it is being delivered then.   *)
LEMMA OrderInvNext == QInv /\ TInv /\ TInv' /\ [Next]_vars /\ OrderInv => OrderInv'
<1> SUFFICES ASSUME QInv, TInv, TInv', [Next]_vars, OrderInv PROVE OrderInv'
  OBVIOUS
<1>1. CASE UNCHANGED <<published, faceQueue, session, bundleNo_, audio>>
  BY <1>1 DEF OrderInv, NumberedInOrder, PublishedFirst, QueuedInOrder, PublishedBefore, QueuedBefore, NextNo, BundlesIn
<1>2. ASSUME NEW t \in Threads, StartThread(t) PROVE OrderInv'
  <2>1. audio.thread # t
    <3>1. ~capturing_[t] /\ ~StopPending(t)
      BY <1>2 DEF StartThread, QInv, LifeInv, StopPending
    <3> QED
      BY <3>1 DEF QInv, QuietInv, Undelivered
  <2>2. /\ session' = [session EXCEPT ![t] = @ + 1] /\ bundleNo_' = [bundleNo_ EXCEPT ![t] = 0]
        /\ UNCHANGED <<published, faceQueue, audio>>
    BY <1>2 DEF StartThread, poolVars
  <2>3. /\ session'[t] = session[t] + 1
        /\ \A u \in Threads : u # t => session'[u] = session[u] /\ bundleNo_'[u] = bundleNo_[u]
    BY <2>2 DEF TInv, AudioTypeOK
  <2>4. \A u \in Threads : u # t => NextNo(u)' = NextNo(u) /\ NextNo(u) \in Nat
    BY <2>2, <2>3, OrderTypes DEF NextNo
  <2>5. audio # NoDelivery => audio.thread \in Threads
    BY DEF TInv
  <2>6. audio' # NoDelivery => audio'.no < bundleNo_'[audio'.thread]
    BY <2>1, <2>2, <2>3, <2>5 DEF OrderInv
  <2>7. \A u \in Threads : session'[u] = session[u] + 1 \/ (session'[u] = session[u] /\ NextNo(u)' >= NextNo(u))
    BY <2>3, <2>4
  <2> QED
    BY <2>2, <2>6, <2>7, LaterNumbers
<1>3. CASE AddReturns \/ RemoveReturns
  <2> DEFINE e == [kind |-> "meta", threads |-> threads_, thread |-> None, session |-> 0, no |-> 0, bundle |-> 0]
             p == faceQueue'
  <2>1. /\ p = Append(faceQueue, e) /\ e.kind = "meta"
        /\ UNCHANGED <<published, session, bundleNo_, audio>>
    BY <1>3 DEF AddReturns, RemoveReturns, publishMeta, poolVars, threadVars
  <2>2. e \in FaceTask
    BY AudioAssumption DEF FaceTask, TInv, AudioTypeOK
  <2> HIDE DEF e, p
  <2>3. \A i \in BundlesIn(p) : i \in BundlesIn(faceQueue) /\ p[i] = faceQueue[i]
    BY <2>1, <2>2, FacePush DEF TInv
  <2>4. NumberedInOrder' /\ PublishedBefore'
    BY <2>1 DEF OrderInv, NumberedInOrder, PublishedBefore, NextNo
  <2>5. PublishedFirst'
    <3> SUFFICES ASSUME NEW i \in DOMAIN published, NEW j \in BundlesIn(p), published[i].thread = p[j].thread
                 PROVE  Earlier(published[i], p[j].session, p[j].no)
      BY <2>1 DEF PublishedFirst, p
    <3> QED
      BY <2>3 DEF OrderInv, PublishedFirst
  <2>6. QueuedInOrder'
    BY <2>3 DEF OrderInv, QueuedInOrder, p
  <2>7. QueuedBefore'
    BY <2>1, <2>3 DEF OrderInv, QueuedBefore, NextNo, p
  <2> QED
    BY <2>1, <2>4, <2>5, <2>6, <2>7 DEF OrderInv
<1>4. CASE Deliver
  <2> PICK t \in Threads : t = Head(audioQueue).thread
    <3>1. audioQueue # <<>>
      BY <1>4 DEF Deliver, AudioTakes
    <3> QED
      BY <3>1, CallsTyped DEF CallsOK, AudioTask
  <2>1. /\ audio = NoDelivery /\ UNCHANGED <<published, faceQueue, session>>
        /\ \/ UNCHANGED <<audio, bundleNo_>>
           \/ /\ bundleNo_' = [bundleNo_ EXCEPT ![t] = @ + 1]
              /\ UNCHANGED audio \/ (audio'.thread = t /\ audio'.no = bundleNo_[t])
    BY <1>4 DEF Deliver, AudioTakes, Task, poolVars
  <2>2. CASE UNCHANGED <<audio, bundleNo_>>
    BY <1>1, <2>1, <2>2
  <2>3. CASE bundleNo_' = [bundleNo_ EXCEPT ![t] = @ + 1] /\ (UNCHANGED audio \/ (audio'.thread = t /\ audio'.no = bundleNo_[t]))
    <3>1. /\ \A u \in Threads : bundleNo_[u] \in Nat /\ NextNo(u) = bundleNo_[u]
          /\ bundleNo_'[t] = bundleNo_[t] + 1
          /\ \A u \in Threads : u # t => bundleNo_'[u] = bundleNo_[u]
      <4>1. \A u \in Threads : u # audio.thread
        BY <2>1, AudioProducerAssumption DEF NoDelivery
      <4>2. bundleNo_ \in [Threads -> Nat]
        BY DEF TInv, AudioTypeOK
      <4> QED
        BY <2>3, <4>1, <4>2 DEF NextNo
    <3>2. \A u \in Threads : NextNo(u)' >= NextNo(u)
      BY <2>1, <2>3, <3>1, AudioProducerAssumption DEF NextNo, NoDelivery
    <3>3. audio' # NoDelivery => audio'.no < bundleNo_'[audio'.thread]
      BY <2>1, <2>3, <3>1
    <3> QED
      BY <2>1, <3>2, <3>3, LaterNumbers
  <2> QED
    BY <2>1, <2>2, <2>3
<1>5. CASE BundleTaken /\ audio.thread \in threads_
  BY <1>5, OrderQueued
<1>6. CASE BundleTaken /\ audio.thread \notin threads_
  BY <1>1, <1>6 DEF BundleTaken
<1>7. CASE PublishBundle
  <2> DEFINE r == [thread |-> Head(faceQueue).thread, session |-> Head(faceQueue).session, no |-> Head(faceQueue).no,
                   content |-> content[Head(faceQueue).bundle]]
  <2>1. /\ faceQueue # <<>> /\ Head(faceQueue).kind = "bundle" /\ faceQueue' = Tail(faceQueue)
        /\ UNCHANGED <<session, bundleNo_, audio>>
        /\ published' = published \/ published' = Append(published, r)
    BY <1>7 DEF PublishBundle, FaceTakes, threadVars
  <2>2. r.thread = Head(faceQueue).thread /\ r.session = Head(faceQueue).session /\ r.no = Head(faceQueue).no
    OBVIOUS
  <2> HIDE DEF r
  <2> QED
    BY <2>1, <2>2, OrderTaken, OrderPublished
<1>8. CASE PublishMeta
  <2>1. /\ faceQueue # <<>> /\ faceQueue' = Tail(faceQueue)
        /\ UNCHANGED <<session, bundleNo_, audio, published>>
    BY <1>8 DEF PublishMeta, FaceTakes, threadVars, poolVars
  <2> QED
    BY <2>1, OrderTaken
<1>9. CASE (\E ok \in BOOLEAN : RunBlock(ok)) \/ ReturnBundle
  BY <1>1, <1>9 DEF RunBlock, ReturnBundle, poolVars, threadVars
<1>10. CASE UNCHANGED BundleVars
  BY <1>1, <1>10 DEF BundleVars
<1> QED
  BY <1>2, <1>3, <1>4, <1>5, <1>6, <1>7, <1>8, <1>9, <1>10, OtherSteps DEF AudioSteps, FaceSteps

(* Nothing is published or queued at first.                                 *)
LEMMA OrderInvInit == Init => OrderInv
<1> SUFFICES ASSUME Init PROVE OrderInv
  OBVIOUS
<1>1. published = <<>> /\ faceQueue = <<>> /\ audio = NoDelivery
  BY DEF Init
<1>2. DOMAIN published = {} /\ BundlesIn(faceQueue) = {}
  BY <1>1 DEF BundlesIn
<1> QED
  BY <1>1, <1>2 DEF OrderInv, NumberedInOrder, PublishedFirst, QueuedInOrder, PublishedBefore, QueuedBefore

(* Bundles of a thread are published in the order of their numbers, the     *)
(* pool stays balanced, and until a bundle comes back at the wrong moment   *)
(* each is in one place, with its own samples and without a second header.  *)
THEOREM BundlesStayKept == Spec => []BundlesKept
<1>1. PoolBalanced /\ OrderInv /\ PlacesInv => BundlesKept
  BY DEF OrderInv, PlacesInv, Places, BundlesKept
<1> QED
  BY <1>1, BlocksComeLast, TInvInit, TInvNext, PoolBalancedInit, PoolBalancedNext, OrderInvInit, OrderInvNext,
     PlacesInit, PlacesNext, PTL DEF Spec
=============================================================================
