----------------------------- MODULE FrameBuffer -----------------------------
(***************************************************************************)
(* The consumer's frame buffer (frame-buffer.cpp): BufferSlot, SlotPool,   *)
(* Buffer and PlaybackQueue.                                               *)
(*                                                                         *)
(* Every operation of these classes runs under one recursive mutex and     *)
(* calls its observers synchronously, and handlers nest (a received        *)
(* segment may request more segments, start the playout and pop the queue  *)
(* before it returns).  The operations are therefore functions from a      *)
(* buffer state to a buffer state: the component specification below takes *)
(* one per step, and module LiveFetch chains several of them in one step,  *)
(* in the order in which the observers are attached.                       *)
(*                                                                         *)
(* A buffer state is a record of                                           *)
(*   pool      slots held by SlotPool::pool_                               *)
(*   active    Buffer::activeSlots_, a map from sample names to slots      *)
(*   reserved  Buffer::reservedSlots_, the slots locked for playback       *)
(*   slot      the contents of every slot                                  *)
(*   queue     PlaybackQueue::queue_, a set of slots ordered by timestamp  *)
(***************************************************************************)
EXTENDS Integers, FiniteSets

CONSTANTS
  Slots,      \* the BufferSlot objects SlotPool allocates
  NoSlot,     \* "no entry" in activeSlots_ and reservedSlots_
  Samples,    \* sample prefixes (frames) of the stream
  NoSample,   \* the name of a cleared slot
  Deltas,     \* the samples in the delta namespace; the others are key frames
  Earlier,    \* Earlier[n]: the sample names ordered before n in activeSlots_
  Timestamp,  \* publishTimestampMs_ of the sample's header
  NData,      \* data segments the producer published for the sample
  NParity     \* parity segments it published

ASSUME BufferAssumption ==
  /\ IsFiniteSet(Slots)
  /\ NoSlot \notin Slots
  /\ NoSample \notin Samples
  /\ Deltas \subseteq Samples
  /\ Earlier \in [Samples -> SUBSET Samples]
  /\ Timestamp \in [Samples -> Int]
  /\ NData \in [Samples -> Nat \ {0}]
  /\ NParity \in [Samples -> Nat]

DataSeg(i) == <<"data", i>>
ParitySeg(i) == <<"parity", i>>

DataSegs(n) == {DataSeg(i) : i \in 0 .. NData[n] - 1}
ParitySegs(n) == {ParitySeg(i) : i \in 0 .. NParity[n] - 1}

(* The segments a producer answers for; Interests may name others. *)
SegmentsOf(n) == DataSegs(n) \cup ParitySegs(n)
Segments == {"data", "parity"} \X Nat

SlotStates == {"Free", "New", "Assembling", "Ready", "Locked"}

BufferSlot ==
  [state : SlotStates, name : Samples \cup {NoSample},
   requested : SUBSET Segments, fetched : SUBSET Segments]

BufferState ==
  [pool : SUBSET Slots,
   active : [Samples -> Slots \cup {NoSlot}],
   reserved : [Samples -> Slots \cup {NoSlot}],
   slot : [Slots -> BufferSlot],
   queue : SUBSET Slots]

-----------------------------------------------------------------------------
(* BufferSlot *)

clear == [state |-> "Free", name |-> NoSample, requested |-> {}, fetched |-> {}]

(* Taken once per batch: all Interests of a batch name one sample. *)
segmentsRequested(s, n, segs) ==
  [s EXCEPT !.name = n,
            !.requested = @ \cup segs,
            !.state = IF @ = "Free" THEN "New" ELSE @]

segmentsRequestedThrows(s) == s.state \in {"Ready", "Locked"}

fetchedData(s) == s.fetched \cap DataSegs(s.name)
fetchedParity(s) == s.fetched \cap ParitySegs(s.name)

(* assembled_ >= nDataSegments_, doubled: a parity segment weighs one half. *)
isAssembled(s) ==
  2 * Cardinality(fetchedData(s)) + Cardinality(fetchedParity(s)) >= 2 * NData[s.name]

(* The slot leaves New only once it has segment meta, that is a data segment. *)
updateConsistencyState(s) ==
  IF fetchedData(s) = {} THEN s
  ELSE [s EXCEPT !.state = IF isAssembled(s) THEN "Ready" ELSE "Assembling"]

segmentReceived(s, seg) ==
  IF s.state = "Locked" \/ seg \in s.fetched THEN s
  ELSE updateConsistencyState([s EXCEPT !.fetched = @ \cup {seg}])

segmentReceivedThrows(s, seg) == s.state # "Locked" /\ seg \notin s.requested

(* Segments known from the slices counts of what arrived, yet never requested. *)
getMissingSegments(s) ==
  {seg \in (IF fetchedData(s) = {} THEN {} ELSE DataSegs(s.name))
           \cup (IF fetchedParity(s) = {} THEN {} ELSE ParitySegs(s.name)) :
     seg \notin s.requested}

getPendingInterests(s) == s.requested \ s.fetched

(* getHeader() reads data segment 0 and throws when it was not fetched. *)
hasHeader(s) == DataSeg(0) \in s.fetched

-----------------------------------------------------------------------------
(* SlotPool *)

Capacity == Cardinality(Slots)

(* Pushes the slots of S; a push is refused when the pool is full. *)
poolPush(b, S) ==
  IF Cardinality(b.pool) + Cardinality(S) > Capacity THEN b
  ELSE [b EXCEPT !.pool = @ \cup S,
                 !.slot = [x \in Slots |-> IF x \in S THEN clear ELSE b.slot[x]]]

poolPop(b) == CHOOSE x \in b.pool : TRUE

-----------------------------------------------------------------------------
(* Buffer *)

Entries(m, N) == {m[n] : n \in N} \ {NoSlot}

reset(b) ==
  poolPush([b EXCEPT !.active = [n \in Samples |-> NoSlot]], Entries(b.active, Samples))

isRequested(b, n) == b.active[n] # NoSlot

(* requested() finds no free slot and returns false. *)
requestedFails(b, n) == b.active[n] = NoSlot /\ b.pool = {}

requested(b, n, segs) ==
  IF requestedFails(b, n) THEN b
  ELSE LET x == IF isRequested(b, n) THEN b.active[n] ELSE poolPop(b)
       IN [b EXCEPT !.pool = @ \ {x},
                    !.active[n] = x,
                    !.slot[x] = segmentsRequested(@, n, segs)]

(* Fault: the slots are erased from the map but not returned. *)
invalidatePreviousLeaks(b, n) ==
  [b EXCEPT !.active = [m \in Samples |-> IF m \in Earlier[n] THEN NoSlot ELSE b.active[m]]]

invalidatePrevious(b, n) ==
  poolPush([b EXCEPT !.active =
              [m \in Samples |-> IF m \in Earlier[n] THEN NoSlot ELSE b.active[m]]],
           Entries(b.active, Earlier[n]))

(* An entry already reserved under the same name is overwritten. *)
reserveSlot(b, n) ==
  [b EXCEPT !.reserved[n] = b.active[n],
            !.active[n] = NoSlot,
            !.slot[b.active[n]].state = "Locked"]

releaseSlot(b, n) ==
  IF b.reserved[n] = NoSlot THEN b
  ELSE poolPush([b EXCEPT !.reserved[n] = NoSlot], {b.reserved[n]})

-----------------------------------------------------------------------------
(* PlaybackQueue *)

timestampOf(b, x) == Timestamp[b.slot[x].name]

(* std::set::insert: dropped when a sample with this timestamp is queued. *)
queueInsert(b, x) ==
  IF \E y \in b.queue : timestampOf(b, y) = timestampOf(b, x) THEN b
  ELSE [b EXCEPT !.queue = @ \cup {x}]

(* onNewData: a sample that became ready is locked and queued; without a    *)
(* header the exception leaves it locked and out of the queue.              *)
onNewData(b, n) ==
  LET x == b.active[n] IN
  IF b.slot[x].state # "Ready" THEN b
  ELSE IF hasHeader(b.slot[x]) THEN queueInsert(reserveSlot(b, n), x)
  ELSE reserveSlot(b, n)

(* Buffer::received with its first observer, the playback queue. *)
received(b, n, seg) ==
  onNewData([b EXCEPT !.slot[b.active[n]] = segmentReceived(@, seg)], n)

isFront(b, x) == \A y \in b.queue : timestampOf(b, x) <= timestampOf(b, y)
front(b) == CHOOSE x \in b.queue : isFront(b, x)

(* Faults: earlier delta frames are kept; a key frame drops them as well. *)
popKeepsEarlier(b, x) == releaseSlot([b EXCEPT !.queue = @ \ {x}], b.slot[x].name)
popAlwaysInvalidates(b, x) ==
  releaseSlot(invalidatePrevious([b EXCEPT !.queue = @ \ {x}], b.slot[x].name), b.slot[x].name)

(* pop() of x, the front of the queue, with what follows the extract        *)
(* callback: when a delta frame is played the delta frames before it are    *)
(* dropped; key frames that are still being fetched never are.              *)
pop(b, x) ==
  LET n == b.slot[x].name
      taken == [b EXCEPT !.queue = @ \ {x}]
  IN releaseSlot(IF n \in Deltas THEN invalidatePrevious(taken, n) ELSE taken, n)

(* size(): milliseconds of playable content, with a sample period of 1. *)
playableSize(b) ==
  IF b.queue = {} THEN 0
  ELSE LET last == CHOOSE x \in b.queue :
                     \A y \in b.queue : timestampOf(b, y) <= timestampOf(b, x)
       IN timestampOf(b, last) - timestampOf(b, front(b)) + 1

-----------------------------------------------------------------------------
(* The component under a caller that never requests a sample whose slot is  *)
(* locked for playback.  The caller's side of that contract is what module  *)
(* LiveFetch examines.                                                      *)

VARIABLE buf

BufferInit ==
  buf = [pool     |-> Slots,
         active   |-> [n \in Samples |-> NoSlot],
         reserved |-> [n \in Samples |-> NoSlot],
         slot     |-> [x \in Slots |-> clear],
         queue    |-> {}]

Requested(n, segs) ==
  /\ buf.reserved[n] = NoSlot
  /\ buf' = requested(buf, n, segs)

Received(n, seg) ==
  /\ isRequested(buf, n)
  /\ ~segmentReceivedThrows(buf.slot[buf.active[n]], seg)
  /\ buf' = received(buf, n, seg)

Pop == \E x \in buf.queue : isFront(buf, x) /\ buf' = pop(buf, x)

Reset == buf' = reset(buf)

BufferNext ==
  \/ \E n \in Samples : \E segs \in SUBSET SegmentsOf(n) \ {{}} : Requested(n, segs)
  \/ \E n \in Samples : \E seg \in SegmentsOf(n) : Received(n, seg)
  \/ Pop
  \/ Reset

BufferSpec == BufferInit /\ [][BufferNext]_buf
-----------------------------------------------------------------------------
(* Properties *)

(* Type correctness of the buffer's maps and slots. *)
BufferTypeOK == buf \in BufferState

(* Where a slot is held: it is in the pool, in one entry of activeSlots_ or *)
(* in one entry of reservedSlots_.                                          *)
Exclusive(b) ==
  /\ \A n \in Samples : b.active[n] \notin b.pool /\ b.reserved[n] \notin b.pool
  /\ \A m, n \in Samples : b.active[m] # NoSlot => b.active[m] # b.reserved[n]
  /\ \A m, n \in Samples :
       m # n => /\ b.active[m] # NoSlot => b.active[m] # b.active[n]
                /\ b.reserved[m] # NoSlot => b.reserved[m] # b.reserved[n]

(* What a slot is held for agrees with its contents. *)
PlaceMatchesState(b) ==
  /\ \A x \in b.pool : b.slot[x] = clear
  /\ \A n \in Samples : b.active[n] # NoSlot =>
       LET s == b.slot[b.active[n]] IN
         /\ s.state \in {"New", "Assembling"}
         /\ s.name = n
  /\ \A n \in Samples : b.reserved[n] # NoSlot =>
       LET s == b.slot[b.reserved[n]] IN s.state = "Locked" /\ s.name = n

(* Every slot is held somewhere, so a slot cannot be lost. *)
Conserved(b) ==
  Slots \subseteq b.pool \cup Entries(b.active, Samples) \cup Entries(b.reserved, Samples)

(* No slot of frame-buffer.cpp is ever held in two places at once, through  *)
(* any order of requests, arrivals, pops and resets (reserveSlot,           *)
(* invalidatePrevious, releaseSlot and reset all move slots).               *)
SlotExclusive == Exclusive(buf)

(* A slot in the pool is cleared, an active one is being assembled for the  *)
(* sample it is filed under, a reserved one is locked: a slot taken from    *)
(* the pool never carries segments of the sample it served before.          *)
SlotPlaceMatchesState == PlaceMatchesState(buf)

(* SlotPool never loses a slot: pool, activeSlots_ and reservedSlots_       *)
(* together hold all of them, and push() is never refused.                  *)
SlotConserved == Conserved(buf)

(* A queued slot is locked for playback, under the name it carries: nothing *)
(* recycles it before pop() takes it out and releases it.                   *)
LockedWhileQueued ==
  \A x \in buf.queue : \E n \in Samples : buf.reserved[n] = x

-----------------------------------------------------------------------------
(* Refinement: the status of a sample in the abstract buffer. *)
statusOf(b) ==
  [n \in Samples |->
     IF b.reserved[n] # NoSlot THEN IF b.reserved[n] \in b.queue THEN "playable" ELSE "stranded"
     ELSE IF b.active[n] # NoSlot THEN "fetching" ELSE "idle"]

(* Half of each parity segment counts: two make up for a data segment, and  *)
(* be it the one with the header.                                           *)
Recoverable == {n \in Samples : NParity[n] > 1}

Abstract == INSTANCE SampleBuffer WITH status <- statusOf(buf), Bound <- Capacity

(* The slot buffer implements the abstract sample buffer: slots are never   *)
(* lost or shared, so that a sample can be requested only while fewer than  *)
(* Capacity samples are held, pop() plays the earliest playable sample and  *)
(* drops only the delta frames before it, reset() keeps what is playable.   *)
(* What is assembled gets played in its turn, but for samples that parity   *)
(* completed without their header or whose timestamp is queued already:     *)
(* nothing plays or frees those.                                            *)
ImplementsSampleBuffer == Abstract!Spec

(* No slot is lost or in two places, the contents of each agree with its    *)
(* place, and it is locked while it waits for playback, under any order of  *)
(* requests, arrivals, pops and resets.                                     *)
SlotsConsistent ==
  /\ BufferTypeOK
  /\ SlotExclusive
  /\ SlotPlaceMatchesState
  /\ LockedWhileQueued
  /\ SlotConserved
=============================================================================
