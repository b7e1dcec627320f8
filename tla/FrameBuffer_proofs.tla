------------------------- MODULE FrameBuffer_proofs -------------------------
(***************************************************************************)
(* Proofs about FrameBuffer, SampleValidation and LiveFetch, for every     *)
(* number of slots, samples and segments.                                  *)
(*                                                                         *)
(* The buffer's inductive invariant is one predicate on buffer states.     *)
(* That slots are not shared, that their contents match their place and    *)
(* that none is lost need each other: a slot is only pushed back without   *)
(* being refused because it was not in the pool yet, and a sample's        *)
(* reserved entry is never overwritten because an active sample has none.  *)
(* That the buffer implements SampleBuffer and that manifests are kept     *)
(* apart is then shown operation by operation.                             *)
(*                                                                         *)
(* The live consumer, which may lose slots, has an invariant of its own: a *)
(* predicate on the record a callback works on, kept by every call in it.  *)
(***************************************************************************)
EXTENDS SampleValidation, LiveFetch, FiniteSetTheorems, WellFoundedInduction, TLAPS

(* A sample is not fetched while it waits for playback. *)
OnePlace(b) == \A n \in Samples : b.active[n] = NoSlot \/ b.reserved[n] = NoSlot

(* What is queued is reserved. *)
QueueReserved(b) == \A x \in b.queue : \E n \in Samples : b.reserved[n] = x

BInv(b) ==
  /\ b \in BufferState
  /\ Exclusive(b)
  /\ PlaceMatchesState(b)
  /\ Conserved(b)
  /\ OnePlace(b)
  /\ QueueReserved(b)

(* A cleared slot is well typed. *)
LEMMA ClearType == clear \in BufferSlot
  BY DEF clear, BufferSlot, SlotStates

(* Slots that are not in the pool are never refused. *)
LEMMA PoolPush ==
  ASSUME NEW b, b \in BufferState, NEW S \in SUBSET Slots, S \cap b.pool = {}
  PROVE  /\ poolPush(b, S) \in BufferState
         /\ poolPush(b, S).pool = b.pool \cup S
         /\ poolPush(b, S).slot = [x \in Slots |-> IF x \in S THEN clear ELSE b.slot[x]]
         /\ poolPush(b, S).active = b.active
         /\ poolPush(b, S).reserved = b.reserved
         /\ poolPush(b, S).queue = b.queue
<1> DEFINE P == b.pool \cup S
           emptied == [x \in Slots |-> IF x \in S THEN clear ELSE b.slot[x]]
<1>1. /\ b.pool \in SUBSET Slots /\ IsFiniteSet(Slots)
      /\ b.slot \in [Slots -> BufferSlot]
  BY BufferAssumption DEF BufferState
<1>2. IsFiniteSet(b.pool) /\ IsFiniteSet(S)
  BY <1>1, FS_Subset
<1>3. b.pool \cap S = {} /\ P \in SUBSET Slots
  BY <1>1
<1>4. ~(Cardinality(b.pool) + Cardinality(S) > Cardinality(Slots))
  <2>1. Cardinality(P) = Cardinality(b.pool) + Cardinality(S) - Cardinality(b.pool \cap S)
    BY <1>2, FS_Union
  <2>2. Cardinality(b.pool \cap S) = 0
    BY <1>3, FS_EmptySet
  <2>3. Cardinality(P) <= Cardinality(Slots)
    BY <1>1, <1>3, FS_Subset
  <2>4. Cardinality(b.pool) \in Nat /\ Cardinality(S) \in Nat /\ Cardinality(Slots) \in Nat
    BY <1>1, <1>2, FS_CardinalityType
  <2> QED
    BY <2>1, <2>2, <2>3, <2>4
<1>5. poolPush(b, S) = [b EXCEPT !.pool = P, !.slot = emptied]
  BY <1>4 DEF poolPush, Capacity
<1>6. emptied \in [Slots -> BufferSlot]
  BY <1>1, ClearType
<1> HIDE DEF P, emptied
<1>7. /\ poolPush(b, S) \in BufferState
      /\ poolPush(b, S).pool = P
      /\ poolPush(b, S).slot = emptied
      /\ poolPush(b, S).active = b.active
      /\ poolPush(b, S).reserved = b.reserved
      /\ poolPush(b, S).queue = b.queue
  BY <1>3, <1>5, <1>6 DEF BufferState
<1> QED
  BY <1>7 DEF P, emptied

(* Dropping active samples, as reset and invalidatePrevious do. *)
LEMMA DropActive ==
  ASSUME NEW b, BInv(b), NEW N \in SUBSET Samples, NEW A,
         A = [m \in Samples |-> IF m \in N THEN NoSlot ELSE b.active[m]]
  PROVE  LET new == poolPush([b EXCEPT !.active = A], Entries(b.active, N))
         IN  BInv(new) /\ new.reserved = b.reserved /\ new.queue = b.queue
<1> DEFINE E == Entries(b.active, N)
           mid == [b EXCEPT !.active = A]
           new == poolPush(mid, E)
<1>1. /\ b \in BufferState /\ b.pool \in SUBSET Slots
      /\ b.active \in [Samples -> Slots \cup {NoSlot}]
      /\ b.reserved \in [Samples -> Slots \cup {NoSlot}]
      /\ b.slot \in [Slots -> BufferSlot]
      /\ b.queue \in SUBSET Slots
      /\ NoSlot \notin Slots
  BY BufferAssumption DEF BInv, BufferState
<1>2. A \in [Samples -> Slots \cup {NoSlot}]
  BY <1>1
<1>3. /\ mid \in BufferState /\ mid.pool = b.pool /\ mid.active = A
      /\ mid.reserved = b.reserved /\ mid.slot = b.slot /\ mid.queue = b.queue
  BY <1>1, <1>2 DEF BufferState
<1>4. /\ E \in SUBSET Slots
      /\ E \cap b.pool = {}
      /\ \A x : x \in E <=> x # NoSlot /\ \E n \in N : b.active[n] = x
  BY <1>1 DEF Entries, BInv, Exclusive
<1> HIDE DEF E, mid
<1>5. E \cap mid.pool = {}
  BY <1>3, <1>4
<1>6. /\ new.pool = b.pool \cup E
      /\ new.active = A
      /\ new.reserved = b.reserved
      /\ new.slot = [x \in Slots |-> IF x \in E THEN clear ELSE b.slot[x]]
      /\ new.queue = b.queue
      /\ new \in BufferState
  BY <1>3, <1>4, <1>5, PoolPush
<1> HIDE DEF new
<1>7. Exclusive(new)
  BY <1>1, <1>4, <1>6 DEF BInv, Exclusive
<1>8. PlaceMatchesState(new)
  <2>1. \A x \in new.pool : new.slot[x] = clear
    BY <1>1, <1>4, <1>6 DEF BInv, PlaceMatchesState
  <2>2. ASSUME NEW n \in Samples, new.active[n] # NoSlot
        PROVE  /\ new.active[n] = b.active[n] /\ b.active[n] # NoSlot
               /\ new.slot[new.active[n]] = b.slot[b.active[n]]
    BY <1>1, <1>4, <1>6, <2>2 DEF BInv, Exclusive
  <2>3. ASSUME NEW n \in Samples, new.reserved[n] # NoSlot
        PROVE  new.slot[new.reserved[n]] = b.slot[b.reserved[n]]
    BY <1>1, <1>4, <1>6, <2>3 DEF BInv, Exclusive
  <2>4. PlaceMatchesState(b)
    BY DEF BInv
  <2>5. ASSUME NEW n \in Samples, new.active[n] # NoSlot
        PROVE  LET s == new.slot[new.active[n]] IN s.state \in {"New", "Assembling"} /\ s.name = n
    BY <2>2, <2>4, <2>5 DEF PlaceMatchesState
  <2>6. ASSUME NEW n \in Samples, new.reserved[n] # NoSlot
        PROVE  LET s == new.slot[new.reserved[n]] IN s.state = "Locked" /\ s.name = n
    BY <1>6, <2>3, <2>4, <2>6 DEF PlaceMatchesState
  <2> QED
    BY <2>1, <2>5, <2>6 DEF PlaceMatchesState
<1>9. Conserved(new)
  <2> SUFFICES ASSUME NEW x \in Slots, x \notin new.pool,
                      \A n \in Samples : new.reserved[n] # x
               PROVE  \E n \in Samples : new.active[n] = x
    BY <1>1 DEF Conserved, Entries
  <2>1. \E n \in Samples : b.active[n] = x
    BY <1>6 DEF BInv, Conserved, Entries
  <2> QED
    BY <1>1, <1>4, <1>6, <2>1
<1>10. OnePlace(new) /\ QueueReserved(new)
  BY <1>1, <1>6 DEF BInv, OnePlace, QueueReserved
<1> QED
  BY <1>6, <1>7, <1>8, <1>9, <1>10 DEF BInv, new, mid, E

(* reset() *)
LEMMA ResetKeeps ==
  ASSUME NEW b, BInv(b)
  PROVE  BInv(reset(b))
<1>1. [n \in Samples |-> NoSlot] =
        [m \in Samples |-> IF m \in Samples THEN NoSlot ELSE b.active[m]]
  OBVIOUS
<1> QED
  BY <1>1, DropActive DEF reset

(* invalidatePrevious() *)
LEMMA InvalidateKeeps ==
  ASSUME NEW b, BInv(b), NEW n \in Samples
  PROVE  /\ BInv(invalidatePrevious(b, n))
         /\ invalidatePrevious(b, n).reserved = b.reserved
         /\ invalidatePrevious(b, n).queue = b.queue
<1>1. Earlier[n] \in SUBSET Samples
  BY BufferAssumption
<1> QED
  BY <1>1, DropActive DEF invalidatePrevious

(* releaseSlot(), of a sample that is no longer queued. *)
LEMMA ReleaseKeeps ==
  ASSUME NEW b, BInv(b), NEW n \in Samples, b.reserved[n] \notin b.queue
  PROVE  BInv(releaseSlot(b, n))
<1> DEFINE x == b.reserved[n]
           R == [b.reserved EXCEPT ![n] = NoSlot]
           mid == [b EXCEPT !.reserved = R]
           new == releaseSlot(b, n)
<1>1. /\ b \in BufferState
      /\ b.pool \in SUBSET Slots
      /\ b.active \in [Samples -> Slots \cup {NoSlot}]
      /\ b.reserved \in [Samples -> Slots \cup {NoSlot}]
      /\ b.slot \in [Slots -> BufferSlot]
      /\ b.queue \in SUBSET Slots
      /\ NoSlot \notin Slots
  BY BufferAssumption DEF BInv, BufferState
<1>2. CASE x = NoSlot
  BY <1>2 DEF releaseSlot
<1>3. CASE x # NoSlot
  <2>1. R \in [Samples -> Slots \cup {NoSlot}] /\ x \in Slots /\ x \notin b.pool
    BY <1>1, <1>3 DEF BInv, Exclusive
  <2>2. /\ mid \in BufferState /\ mid.pool = b.pool /\ mid.active = b.active
        /\ mid.reserved = R /\ mid.slot = b.slot /\ mid.queue = b.queue
    BY <1>1, <2>1 DEF BufferState
  <2>3. new = poolPush(mid, {x})
    BY <1>3 DEF releaseSlot
  <2> HIDE DEF mid
  <2>4. {x} \in SUBSET Slots /\ {x} \cap mid.pool = {}
    BY <2>1, <2>2
  <2>5. /\ new \in BufferState
        /\ new.pool = b.pool \cup {x}
        /\ new.active = b.active
        /\ new.reserved = R
        /\ new.slot = [y \in Slots |-> IF y \in {x} THEN clear ELSE b.slot[y]]
        /\ new.queue = b.queue
    BY <2>2, <2>3, <2>4, PoolPush
  <2> HIDE DEF new
  <2>6. /\ \A m \in Samples :
             /\ b.active[m] # x
             /\ m # n => b.reserved[m] # x /\ R[m] = b.reserved[m]
        /\ R[n] = NoSlot /\ x # NoSlot /\ x = b.reserved[n] /\ x \notin b.queue
    BY <1>1, <1>3 DEF BInv, Exclusive
  <2> HIDE DEF R, x
  <2>7. Exclusive(new)
    BY <1>1, <2>1, <2>5, <2>6 DEF BInv, Exclusive
  <2>8. PlaceMatchesState(new)
    <3>1. \A y \in new.pool : new.slot[y] = clear
      BY <1>1, <2>1, <2>5 DEF BInv, PlaceMatchesState
    <3>2. ASSUME NEW m \in Samples, new.active[m] # NoSlot
          PROVE  new.active[m] = b.active[m] /\ new.slot[new.active[m]] = b.slot[b.active[m]]
      BY <1>1, <2>5, <2>6, <3>2
    <3>3. ASSUME NEW m \in Samples, new.reserved[m] # NoSlot
          PROVE  /\ new.reserved[m] = b.reserved[m]
                 /\ new.slot[new.reserved[m]] = b.slot[b.reserved[m]]
      BY <1>1, <2>5, <2>6, <3>3
    <3> QED
      BY <3>1, <3>2, <3>3 DEF BInv, PlaceMatchesState
  <2>9. Conserved(new)
    <3> SUFFICES ASSUME NEW y \in Slots, y \notin new.pool,
                        \A m \in Samples : new.active[m] # y
                 PROVE  \E m \in Samples : new.reserved[m] = y
      BY <1>1 DEF Conserved, Entries
    <3>1. y # x /\ \E m \in Samples : b.reserved[m] = y
      BY <2>5 DEF BInv, Conserved, Entries
    <3> QED
      BY <2>5, <2>6, <3>1
  <2>10. OnePlace(new)
    BY <2>5, <2>6 DEF BInv, OnePlace
  <2>11. QueueReserved(new)
    BY <2>5, <2>6 DEF BInv, QueueReserved
  <2> QED
    BY <2>5, <2>7, <2>8, <2>9, <2>10, <2>11 DEF BInv, new
<1> QED
  BY <1>2, <1>3

(* pop(): the sample taken is the reserved one its slot is named after. *)
LEMMA PopKeeps ==
  ASSUME NEW b, BInv(b), NEW x \in b.queue
  PROVE  BInv(pop(b, x))
<1> DEFINE n == b.slot[x].name
           Q == b.queue \ {x}
           taken == [b EXCEPT !.queue = Q]
           mid == IF n \in Deltas THEN invalidatePrevious(taken, n) ELSE taken
<1>1. /\ b \in BufferState
      /\ b.pool \in SUBSET Slots
      /\ b.active \in [Samples -> Slots \cup {NoSlot}]
      /\ b.reserved \in [Samples -> Slots \cup {NoSlot}]
      /\ b.slot \in [Slots -> BufferSlot]
      /\ b.queue \in SUBSET Slots
      /\ NoSlot \notin Slots
  BY BufferAssumption DEF BInv, BufferState
<1>2. n \in Samples /\ b.reserved[n] = x
  <2>1. PICK m \in Samples : b.reserved[m] = x
    BY DEF BInv, QueueReserved
  <2>2. x # NoSlot
    BY <1>1
  <2> QED
    BY <2>1, <2>2 DEF BInv, PlaceMatchesState
<1>3. /\ taken \in BufferState /\ taken.pool = b.pool /\ taken.active = b.active
      /\ taken.reserved = b.reserved /\ taken.slot = b.slot /\ taken.queue = Q
  BY <1>1 DEF BufferState
<1>4. pop(b, x) = releaseSlot(mid, n)
  BY DEF pop
<1> HIDE DEF n, taken
<1>5. BInv(taken)
  BY <1>3 DEF BInv, Exclusive, PlaceMatchesState, Conserved, OnePlace, QueueReserved
<1>6. BInv(mid) /\ mid.reserved = b.reserved /\ mid.queue = Q
  BY <1>2, <1>3, <1>5, InvalidateKeeps
<1>7. mid.reserved[n] \notin mid.queue
  BY <1>2, <1>6
<1> QED
  BY <1>2, <1>4, <1>6, <1>7, ReleaseKeeps

(* requested(), of a sample that is not waiting for playback. *)
LEMMA RequestedKeeps ==
  ASSUME NEW b, BInv(b), NEW n \in Samples, b.reserved[n] = NoSlot,
         NEW segs \in SUBSET Segments
  PROVE  BInv(requested(b, n, segs))
<1> DEFINE x == IF isRequested(b, n) THEN b.active[n] ELSE poolPop(b)
           s == segmentsRequested(b.slot[x], n, segs)
           P == b.pool \ {x}
           A == [b.active EXCEPT ![n] = x]
           D == [b.slot EXCEPT ![x] = s]
           new == requested(b, n, segs)
<1>1. /\ b \in BufferState
      /\ b.pool \in SUBSET Slots
      /\ b.active \in [Samples -> Slots \cup {NoSlot}]
      /\ b.reserved \in [Samples -> Slots \cup {NoSlot}]
      /\ b.slot \in [Slots -> BufferSlot]
      /\ b.queue \in SUBSET Slots
      /\ NoSlot \notin Slots
  BY BufferAssumption DEF BInv, BufferState
<1>2. CASE requestedFails(b, n)
  BY <1>2 DEF requested
<1>3. CASE ~requestedFails(b, n)
  <2>1. \/ b.active[n] = x /\ x \in Slots /\ x \notin b.pool
        \/ b.active[n] = NoSlot /\ x \in b.pool
    BY <1>1, <1>3 DEF requestedFails, isRequested, poolPop, BInv, Exclusive
  <2>2. x \in Slots
    BY <1>1, <2>1
  <2>3. /\ \A m \in Samples : b.reserved[m] # x /\ (m # n => b.active[m] # x)
        /\ x # NoSlot
    BY <1>1, <2>1, <2>2 DEF BInv, Exclusive
  <2>4. new = [b EXCEPT !.pool = P, !.active = A, !.slot = D]
    BY <1>3 DEF requested
  <2> HIDE DEF x
  <2>5. b.slot[x] \in BufferSlot /\ b.slot[x].state \in {"Free", "New", "Assembling"}
    BY <1>1, <2>1, <2>2, <2>3 DEF BInv, PlaceMatchesState, clear
  <2>6. s \in BufferSlot /\ s.state \in {"New", "Assembling"} /\ s.name = n
    BY <2>5 DEF segmentsRequested, BufferSlot, SlotStates
  <2> HIDE DEF s
  <2>7. /\ P \in SUBSET Slots
        /\ A \in [Samples -> Slots \cup {NoSlot}]
        /\ D \in [Slots -> BufferSlot]
        /\ \A m \in Samples : A[m] = IF m = n THEN x ELSE b.active[m]
        /\ \A y \in Slots : D[y] = IF y = x THEN s ELSE b.slot[y]
    BY <1>1, <2>2, <2>6
  <2>8. \A y : y \in P <=> y \in b.pool /\ y # x
    OBVIOUS
  <2> HIDE DEF P, A, D
  <2>9. /\ new \in BufferState /\ new.pool = P /\ new.active = A
        /\ new.reserved = b.reserved /\ new.slot = D /\ new.queue = b.queue
    BY <1>1, <2>4, <2>7 DEF BufferState
  <2> HIDE DEF new
  <2>10. Exclusive(new)
    BY <1>1, <2>1, <2>3, <2>7, <2>8, <2>9 DEF BInv, Exclusive
  <2>11. PlaceMatchesState(new)
    <3>1. \A y \in new.pool : new.slot[y] = clear
      BY <1>1, <2>7, <2>8, <2>9 DEF BInv, PlaceMatchesState
    <3>2. ASSUME NEW m \in Samples, new.active[m] # NoSlot
          PROVE  /\ new.slot[new.active[m]].state \in {"New", "Assembling"}
                 /\ new.slot[new.active[m]].name = m
      <4>1. CASE m = n
        BY <2>2, <2>6, <2>7, <2>9, <4>1
      <4>2. CASE m # n
        <5>1. new.active[m] = b.active[m] /\ b.active[m] \in Slots /\ b.active[m] # x
          BY <1>1, <2>3, <2>7, <2>9, <3>2, <4>2
        <5>2. new.slot[new.active[m]] = b.slot[b.active[m]]
          BY <2>7, <2>9, <5>1
        <5> QED
          BY <1>1, <5>1, <5>2 DEF BInv, PlaceMatchesState
      <4> QED
        BY <4>1, <4>2
    <3>3. ASSUME NEW m \in Samples, new.reserved[m] # NoSlot
          PROVE  new.slot[new.reserved[m]] = b.slot[b.reserved[m]]
      BY <1>1, <2>3, <2>7, <2>9, <3>3
    <3> QED
      BY <2>9, <3>1, <3>2, <3>3 DEF BInv, PlaceMatchesState
  <2>12. Conserved(new)
    <3> SUFFICES ASSUME NEW y \in Slots, y \notin new.pool,
                        \A m \in Samples : new.reserved[m] # y
                 PROVE  \E m \in Samples : new.active[m] = y
      BY <1>1 DEF Conserved, Entries
    <3>1. CASE y = x
      BY <2>7, <2>9, <3>1
    <3>2. CASE y # x
      <4>1. PICK m \in Samples : b.active[m] = y
        BY <2>8, <2>9, <3>2 DEF BInv, Conserved, Entries
      <4>2. m # n
        BY <1>1, <2>1, <3>2, <4>1
      <4> QED
        BY <2>7, <2>9, <4>1, <4>2
    <3> QED
      BY <3>1, <3>2
  <2>13. OnePlace(new) /\ QueueReserved(new)
    BY <2>7, <2>9 DEF BInv, OnePlace, QueueReserved
  <2> QED
    BY <2>9, <2>10, <2>11, <2>12, <2>13 DEF BInv, new
<1> QED
  BY <1>2, <1>3

(* segmentReceived() leaves an open slot open or ready. *)
LEMMA SegmentReceivedType ==
  ASSUME NEW s \in BufferSlot, s.state \in {"New", "Assembling"}, NEW seg \in Segments
  PROVE  /\ segmentReceived(s, seg) \in BufferSlot
         /\ segmentReceived(s, seg).name = s.name
         /\ segmentReceived(s, seg).state \in {"New", "Assembling", "Ready"}
<1> DEFINE f == [s EXCEPT !.fetched = s.fetched \cup {seg}]
           t == IF isAssembled(f) THEN "Ready" ELSE "Assembling"
<1>1. f \in BufferSlot /\ f.name = s.name /\ f.state = s.state
  BY DEF BufferSlot
<1>2. segmentReceived(s, seg) \in {s, f, [f EXCEPT !.state = t]}
  BY DEF segmentReceived, updateConsistencyState
<1>3. t \in {"Ready", "Assembling"}
  OBVIOUS
<1> HIDE DEF f, t
<1>4. /\ [f EXCEPT !.state = t] \in BufferSlot
      /\ [f EXCEPT !.state = t].name = f.name
      /\ [f EXCEPT !.state = t].state = t
  BY <1>1, <1>3 DEF BufferSlot, SlotStates
<1> QED
  BY <1>1, <1>2, <1>3, <1>4

(* received(): a sample stays active or, once ready, is locked; its entry   *)
(* among the reserved ones was empty, so no locked slot is lost.            *)
LEMMA ReceivedKeeps ==
  ASSUME NEW b, BInv(b), NEW n \in Samples, isRequested(b, n), NEW seg \in Segments
  PROVE  BInv(received(b, n, seg))
<1> DEFINE x == b.active[n]
           s == segmentReceived(b.slot[x], seg)
           D == [b.slot EXCEPT ![x] = s]
           mid == [b EXCEPT !.slot = D]
           new == received(b, n, seg)
<1>1. /\ b \in BufferState
      /\ b.pool \in SUBSET Slots
      /\ b.active \in [Samples -> Slots \cup {NoSlot}]
      /\ b.reserved \in [Samples -> Slots \cup {NoSlot}]
      /\ b.slot \in [Slots -> BufferSlot]
      /\ b.queue \in SUBSET Slots
      /\ NoSlot \notin Slots
  BY BufferAssumption DEF BInv, BufferState
<1>2. /\ x \in Slots /\ x # NoSlot /\ x \notin b.pool
      /\ \A m \in Samples : b.reserved[m] # x /\ (m # n => b.active[m] # x)
      /\ b.reserved[n] = NoSlot
      /\ x = b.active[n]
  BY <1>1 DEF isRequested, BInv, Exclusive, OnePlace
<1>3. s \in BufferSlot /\ s.name = n /\ s.state \in {"New", "Assembling", "Ready"}
  <2>1. /\ b.slot[x] \in BufferSlot /\ b.slot[x].name = n
        /\ b.slot[x].state \in {"New", "Assembling"}
    BY <1>1, <1>2 DEF BInv, PlaceMatchesState
  <2> QED
    BY <2>1, SegmentReceivedType
<1>4. new = onNewData(mid, n)
  BY DEF received
<1> HIDE DEF x, s, new
<1>5. /\ D \in [Slots -> BufferSlot]
      /\ \A y \in Slots : D[y] = IF y = x THEN s ELSE b.slot[y]
  BY <1>1, <1>2, <1>3
<1> HIDE DEF D
<1>6. /\ mid \in BufferState /\ mid.pool = b.pool /\ mid.active = b.active
      /\ mid.reserved = b.reserved /\ mid.slot = D /\ mid.queue = b.queue
  BY <1>1, <1>5 DEF BufferState
<1> HIDE DEF mid
<1>7. CASE s.state # "Ready"
  <2>1. new = mid
    BY <1>2, <1>4, <1>5, <1>6, <1>7 DEF onNewData
  <2>2. PlaceMatchesState(mid)
    <3>1. \A y \in mid.pool : mid.slot[y] = clear
      BY <1>1, <1>2, <1>5, <1>6 DEF BInv, PlaceMatchesState
    <3>2. ASSUME NEW m \in Samples, mid.active[m] # NoSlot
          PROVE  /\ mid.slot[mid.active[m]].state \in {"New", "Assembling"}
                 /\ mid.slot[mid.active[m]].name = m
      <4>1. CASE m = n
        BY <1>2, <1>3, <1>5, <1>6, <1>7, <4>1
      <4>2. CASE m # n
        <5>1. b.active[m] \in Slots /\ b.active[m] # x
          BY <1>1, <1>2, <1>6, <3>2, <4>2
        <5> QED
          BY <1>1, <1>5, <1>6, <5>1 DEF BInv, PlaceMatchesState
      <4> QED
        BY <4>1, <4>2
    <3>3. ASSUME NEW m \in Samples, mid.reserved[m] # NoSlot
          PROVE  mid.slot[mid.reserved[m]] = b.slot[b.reserved[m]]
      BY <1>1, <1>2, <1>5, <1>6, <3>3
    <3> QED
      BY <1>6, <3>1, <3>2, <3>3 DEF BInv, PlaceMatchesState
  <2>3. Exclusive(mid) /\ Conserved(mid) /\ OnePlace(mid) /\ QueueReserved(mid)
    BY <1>6 DEF BInv, Exclusive, Conserved, OnePlace, QueueReserved
  <2> QED
    BY <1>6, <2>1, <2>2, <2>3 DEF BInv, new
<1>8. CASE s.state = "Ready"
  <2> DEFINE t == [s EXCEPT !.state = "Locked"]
             F == [D EXCEPT ![x] = t]
             A == [b.active EXCEPT ![n] = NoSlot]
             R == [b.reserved EXCEPT ![n] = x]
             res == [mid EXCEPT !.reserved = R, !.active = A, !.slot = F]
  <2>1. t \in BufferSlot /\ t.state = "Locked" /\ t.name = n
    BY <1>3 DEF BufferSlot, SlotStates
  <2>2. D[x] = s /\ mid.active[n] = x
    BY <1>2, <1>5, <1>6
  <2>3. reserveSlot(mid, n) = res
    BY <1>6, <2>2 DEF reserveSlot
  <2> HIDE DEF t
  <2>4. /\ F \in [Slots -> BufferSlot]
        /\ \A y \in Slots : F[y] = IF y = x THEN t ELSE b.slot[y]
    BY <1>2, <1>5, <2>1
  <2>5. /\ A \in [Samples -> Slots \cup {NoSlot}]
        /\ R \in [Samples -> Slots \cup {NoSlot}]
        /\ \A m \in Samples : A[m] = IF m = n THEN NoSlot ELSE b.active[m]
        /\ \A m \in Samples : R[m] = IF m = n THEN x ELSE b.reserved[m]
    BY <1>1, <1>2
  <2> HIDE DEF F, A, R
  <2>6. /\ res \in BufferState /\ res.pool = b.pool /\ res.active = A
        /\ res.reserved = R /\ res.slot = F /\ res.queue = b.queue
    BY <1>6, <2>4, <2>5 DEF BufferState
  <2> HIDE DEF res
  <2>7. /\ new \in BufferState /\ new.pool = b.pool /\ new.active = A
        /\ new.reserved = R /\ new.slot = F
        /\ new.queue = b.queue \/ new.queue = b.queue \cup {x}
    <3>1. \/ new = res
          \/ new = [res EXCEPT !.queue = b.queue \cup {x}]
      BY <1>4, <1>6, <1>8, <2>2, <2>3, <2>6 DEF onNewData, queueInsert
    <3>2. b.queue \cup {x} \in SUBSET Slots
      BY <1>1, <1>2
    <3> QED
      BY <2>6, <3>1, <3>2 DEF BufferState
  <2>8. Exclusive(new)
    BY <1>1, <1>2, <2>5, <2>7 DEF BInv, Exclusive
  <2>9. PlaceMatchesState(new)
    <3>1. \A y \in new.pool : new.slot[y] = clear
      BY <1>1, <1>2, <2>4, <2>7 DEF BInv, PlaceMatchesState
    <3>2. ASSUME NEW m \in Samples, new.active[m] # NoSlot
          PROVE  /\ new.active[m] = b.active[m]
                 /\ new.slot[new.active[m]] = b.slot[b.active[m]]
      BY <1>1, <1>2, <2>4, <2>5, <2>7, <3>2
    <3>3. ASSUME NEW m \in Samples, new.reserved[m] # NoSlot
          PROVE  new.slot[new.reserved[m]].state = "Locked" /\ new.slot[new.reserved[m]].name = m
      <4>1. CASE m = n
        BY <1>2, <2>1, <2>4, <2>5, <2>7, <4>1
      <4>2. CASE m # n
        <5>1. new.reserved[m] = b.reserved[m] /\ b.reserved[m] \in Slots /\ b.reserved[m] # x
          BY <1>1, <1>2, <2>5, <2>7, <3>3, <4>2
        <5> QED
          BY <1>1, <2>4, <2>7, <5>1 DEF BInv, PlaceMatchesState
      <4> QED
        BY <4>1, <4>2
    <3> QED
      BY <3>1, <3>2, <3>3 DEF BInv, PlaceMatchesState
  <2>10. Conserved(new)
    <3> SUFFICES ASSUME NEW y \in Slots, y \notin new.pool,
                        \A m \in Samples : new.active[m] # y
                 PROVE  \E m \in Samples : new.reserved[m] = y
      BY <1>1 DEF Conserved, Entries
    <3>1. CASE y = x
      BY <2>5, <2>7, <3>1
    <3>2. CASE y # x
      <4>1. PICK m \in Samples : b.active[m] = y \/ b.reserved[m] = y
        BY <2>7 DEF BInv, Conserved, Entries
      <4>2. m # n /\ b.reserved[m] = y
        BY <1>1, <1>2, <2>5, <2>7, <3>2, <4>1
      <4> QED
        BY <2>5, <2>7, <4>2
    <3> QED
      BY <3>1, <3>2
  <2>11. OnePlace(new)
    BY <2>5, <2>7 DEF BInv, OnePlace
  <2>12. QueueReserved(new)
    BY <1>1, <1>2, <2>5, <2>7 DEF BInv, QueueReserved
  <2> QED
    BY <2>7, <2>8, <2>9, <2>10, <2>11, <2>12 DEF BInv, new
<1> QED
  BY <1>7, <1>8

(* The empty buffer. *)
LEMMA InitKeeps == BufferInit => BInv(buf)
<1> SUFFICES ASSUME BufferInit PROVE BInv(buf)
  OBVIOUS
<1>1. /\ buf.pool = Slots /\ buf.queue = {}
      /\ buf.active = [n \in Samples |-> NoSlot]
      /\ buf.reserved = [n \in Samples |-> NoSlot]
      /\ buf.slot = [x \in Slots |-> clear]
  BY DEF BufferInit
<1>2. buf \in BufferState
  <2>1. [x \in Slots |-> clear] \in [Slots -> BufferSlot]
    BY ClearType
  <2> HIDE DEF clear
  <2> QED
    BY <2>1 DEF BufferInit, BufferState
<1> QED
  BY <1>1, <1>2, BufferAssumption
  DEF BInv, Exclusive, PlaceMatchesState, Conserved, OnePlace, QueueReserved

(* Every call of the buffer keeps its invariant. *)
LEMMA NextKeeps == BInv(buf) /\ [BufferNext]_buf => BInv(buf)'
<1>1. ASSUME BInv(buf), [BufferNext]_buf PROVE BInv(buf)'
  <2>1. \A n \in Samples : SegmentsOf(n) \subseteq Segments
    BY BufferAssumption DEF SegmentsOf, DataSegs, ParitySegs, DataSeg, ParitySeg, Segments
  <2>2. ASSUME NEW n \in Samples, NEW segs \in SUBSET SegmentsOf(n) \ {{}}, Requested(n, segs)
        PROVE  BInv(buf)'
    <3>1. segs \in SUBSET Segments
      BY <2>1
    <3> QED
      BY <1>1, <2>2, <3>1, RequestedKeeps DEF Requested
  <2>3. ASSUME NEW n \in Samples, NEW seg \in SegmentsOf(n), Received(n, seg)
        PROVE  BInv(buf)'
    <3>1. seg \in Segments
      BY <2>1
    <3> QED
      BY <1>1, <2>3, <3>1, ReceivedKeeps DEF Received
  <2>4. CASE Pop
    BY <1>1, <2>4, PopKeeps DEF Pop
  <2>5. CASE Reset
    BY <1>1, <2>5, ResetKeeps DEF Reset
  <2>6. CASE UNCHANGED buf
    BY <1>1, <2>6
  <2> QED
    BY <1>1, <2>2, <2>3, <2>4, <2>5, <2>6 DEF BufferNext
<1> QED
  BY <1>1

(* The buffer's invariant is inductive. *)
THEOREM BufferInvariant == BufferSpec => []BInv(buf)
BY InitKeeps, NextKeeps, PTL DEF BufferSpec

(* No slot of frame-buffer.cpp is lost or in two places, a slot taken from  *)
(* the pool is empty, an active or locked one holds the sample it is filed  *)
(* under, and one that waits for playback is locked, as long as no sample   *)
(* is requested while it waits for playback.                                *)
THEOREM SlotsStayConsistent == BufferSpec => []SlotsConsistent
<1>1. BInv(buf) => BufferTypeOK /\ SlotExclusive /\ SlotPlaceMatchesState /\ SlotConserved
  BY DEF BInv, BufferTypeOK, SlotExclusive, SlotPlaceMatchesState, SlotConserved
<1>2. BInv(buf) => LockedWhileQueued
  BY DEF BInv, QueueReserved, LockedWhileQueued
<1>3. BInv(buf) => SlotsConsistent
  BY <1>1, <1>2 DEF SlotsConsistent
<1> QED
  BY <1>3, BufferInvariant, PTL

-----------------------------------------------------------------------------
(* Refinement of SampleBuffer.  The step of each operation follows from     *)
(* what it does to the two maps and to the queue; that a free slot means    *)
(* that fewer samples than slots are held is a matter of counting.          *)

(* Pushing a slot back leaves the maps and the queue alone.                 *)
LEMMA PoolPushFields ==
  ASSUME NEW b \in BufferState, NEW S
  PROVE  /\ poolPush(b, S).active = b.active
         /\ poolPush(b, S).reserved = b.reserved
         /\ poolPush(b, S).queue = b.queue
BY DEF poolPush, BufferState

(* What reset() leaves of the maps. *)
LEMMA ResetFields ==
  ASSUME NEW b \in BufferState
  PROVE  /\ reset(b).active = [n \in Samples |-> NoSlot]
         /\ reset(b).reserved = b.reserved /\ reset(b).queue = b.queue
<1> DEFINE A == [n \in Samples |-> NoSlot]
           mid == [b EXCEPT !.active = A]
<1>1. A \in [Samples -> Slots \cup {NoSlot}]
  OBVIOUS
<1> HIDE DEF A
<1>2. mid \in BufferState /\ mid.active = A /\ mid.reserved = b.reserved /\ mid.queue = b.queue
  BY <1>1 DEF BufferState
<1>3. reset(b) = poolPush(mid, Entries(b.active, Samples))
  BY DEF reset, A
<1> HIDE DEF mid
<1> QED
  BY <1>2, <1>3, PoolPushFields DEF A

(* What pop() leaves of the maps: the sample is released, and the samples   *)
(* before a delta frame are no longer being fetched.                        *)
LEMMA PopFields ==
  ASSUME NEW b \in BufferState, NEW x \in b.queue, NEW n \in Samples,
         n = b.slot[x].name, b.reserved[n] = x
  PROVE  /\ pop(b, x).active = [m \in Samples |-> IF n \in Deltas /\ m \in Earlier[n]
                                                  THEN NoSlot ELSE b.active[m]]
         /\ pop(b, x).reserved = [b.reserved EXCEPT ![n] = NoSlot]
         /\ pop(b, x).queue = b.queue \ {x}
<1> DEFINE Q == b.queue \ {x}
           taken == [b EXCEPT !.queue = Q]
           A == [m \in Samples |-> IF m \in Earlier[n] THEN NoSlot ELSE b.active[m]]
           dropped == [taken EXCEPT !.active = A]
           mid == IF n \in Deltas THEN invalidatePrevious(taken, n) ELSE taken
           B == [m \in Samples |-> IF n \in Deltas /\ m \in Earlier[n] THEN NoSlot ELSE b.active[m]]
           R == [b.reserved EXCEPT ![n] = NoSlot]
           rel == [mid EXCEPT !.reserved = R]
<1>1. /\ b.active \in [Samples -> Slots \cup {NoSlot}]
      /\ b.reserved \in [Samples -> Slots \cup {NoSlot}]
      /\ b.queue \in SUBSET Slots /\ x \in Slots /\ NoSlot \notin Slots
  BY BufferAssumption DEF BufferState
<1>2. /\ taken \in BufferState /\ taken.active = b.active
      /\ taken.reserved = b.reserved /\ taken.queue = Q
  BY <1>1 DEF BufferState
<1>3. A \in [Samples -> Slots \cup {NoSlot}] /\ R \in [Samples -> Slots \cup {NoSlot}]
  BY <1>1
<1>4. pop(b, x) = releaseSlot(mid, n)
  BY DEF pop
<1>5. invalidatePrevious(taken, n) = poolPush(dropped, Entries(taken.active, Earlier[n]))
  BY <1>2 DEF invalidatePrevious
<1> HIDE DEF taken, A, R
<1>6. /\ dropped \in BufferState /\ dropped.active = A
      /\ dropped.reserved = b.reserved /\ dropped.queue = Q
  BY <1>2, <1>3 DEF BufferState
<1> HIDE DEF dropped
<1>7. /\ invalidatePrevious(taken, n).active = A
      /\ invalidatePrevious(taken, n).reserved = b.reserved
      /\ invalidatePrevious(taken, n).queue = Q
      /\ invalidatePrevious(taken, n) \in BufferState
  <2>1. ASSUME NEW S PROVE poolPush(dropped, Entries(taken.active, Earlier[n])) \in BufferState
    <3>1. Entries(taken.active, Earlier[n]) \in SUBSET Slots
      BY <1>1, <1>2, BufferAssumption DEF Entries
    <3>2. [y \in Slots |-> IF y \in Entries(taken.active, Earlier[n]) THEN clear ELSE dropped.slot[y]]
             \in [Slots -> BufferSlot]
      BY <1>6, ClearType DEF BufferState
    <3> QED
      BY <1>6, <3>1, <3>2 DEF poolPush, BufferState
  <2> QED
    BY <1>5, <1>6, <2>1, PoolPushFields
<1>8. mid \in BufferState /\ mid.active = B /\ mid.reserved = b.reserved /\ mid.queue = Q
  <2>1. CASE n \in Deltas
    <3>1. A = B
      BY <2>1 DEF A
    <3> QED
      BY <1>7, <2>1, <3>1
  <2>2. CASE n \notin Deltas
    <3>1. b.active = B
      BY <1>1, <2>2
    <3> QED
      BY <1>2, <2>2, <3>1
  <2> QED
    BY <2>1, <2>2
<1> HIDE DEF mid, B, Q
<1>9. /\ rel \in BufferState /\ rel.active = B /\ rel.reserved = R /\ rel.queue = Q
  BY <1>3, <1>8 DEF BufferState
<1>10. releaseSlot(mid, n) = poolPush(rel, {x})
  BY <1>1, <1>8 DEF releaseSlot, R
<1> HIDE DEF rel
<1>11. /\ pop(b, x).active = B /\ pop(b, x).reserved = R /\ pop(b, x).queue = Q
  BY <1>4, <1>9, <1>10, PoolPushFields
<1> QED
  BY <1>11 DEF B, R, Q

(* What requested() changes in the maps: at most the sample's active entry, *)
(* which it fills only from a pool that is not empty.                       *)
LEMMA RequestedFields ==
  ASSUME NEW b, BInv(b), NEW n \in Samples, NEW segs
  PROVE  \/ requested(b, n, segs) = b
         \/ /\ \E x \in Slots : requested(b, n, segs).active = [b.active EXCEPT ![n] = x]
            /\ requested(b, n, segs).reserved = b.reserved
            /\ requested(b, n, segs).queue = b.queue
            /\ b.active[n] = NoSlot => b.pool # {}
<1> DEFINE x == IF isRequested(b, n) THEN b.active[n] ELSE poolPop(b)
           P == b.pool \ {x}
           A == [b.active EXCEPT ![n] = x]
           D == [b.slot EXCEPT ![x] = segmentsRequested(b.slot[x], n, segs)]
           new == requested(b, n, segs)
<1>1. /\ b \in BufferState
      /\ b.pool \in SUBSET Slots
      /\ b.active \in [Samples -> Slots \cup {NoSlot}]
  BY DEF BInv, BufferState
<1>2. CASE requestedFails(b, n)
  BY <1>2 DEF requested
<1>3. CASE ~requestedFails(b, n)
  <2>1. x \in Slots /\ (b.active[n] = NoSlot => b.pool # {})
    BY <1>1, <1>3 DEF requestedFails, isRequested, poolPop
  <2>2. new = [b EXCEPT !.pool = P, !.active = A, !.slot = D]
    BY <1>3 DEF requested
  <2> HIDE DEF P, A, D, x
  <2>3. new.active = A /\ new.reserved = b.reserved /\ new.queue = b.queue
    BY <1>1, <2>2 DEF BufferState
  <2> QED
    BY <2>1, <2>3 DEF A
<1> QED
  BY <1>2, <1>3

(* The numbered segments of one class are as many as their numbers.         *)
LEMMA NumberedSegments ==
  ASSUME NEW k \in Nat, NEW kind
  PROVE  /\ IsFiniteSet({<<kind, i>> : i \in 0 .. k - 1})
         /\ Cardinality({<<kind, i>> : i \in 0 .. k - 1}) <= k
<1> DEFINE S == {<<kind, i>> : i \in 0 .. k - 1}
           f == [i \in 0 .. k - 1 |-> <<kind, i>>]
<1>1. IsFiniteSet(0 .. k - 1) /\ Cardinality(0 .. k - 1) = k
  BY FS_Interval
<1>2. f \in Surjection(0 .. k - 1, S)
  BY DEF Surjection
<1>3. IsFiniteSet(S) /\ Cardinality(S) <= Cardinality(0 .. k - 1)
  BY <1>1, <1>2, FS_Surjection
<1> QED
  BY <1>1, <1>3

(* A sample assembled without its header owes it to two parity segments.    *)
LEMMA AssembledWithoutHeader ==
  ASSUME NEW s, s.name \in Samples, isAssembled(s), ~hasHeader(s)
  PROVE  NParity[s.name] > 1
<1> DEFINE n == s.name
           D == DataSegs(n)
           P == ParitySegs(n)
<1>1. NData[n] \in Nat \ {0} /\ NParity[n] \in Nat
  BY BufferAssumption
<1>2. IsFiniteSet(D) /\ Cardinality(D) <= NData[n]
  BY <1>1, NumberedSegments DEF DataSegs, DataSeg
<1>3. IsFiniteSet(P) /\ Cardinality(P) <= NParity[n]
  BY <1>1, NumberedSegments DEF ParitySegs, ParitySeg
<1>4. DataSeg(0) \in D
  BY <1>1 DEF DataSegs
<1>5. IsFiniteSet(D \ {DataSeg(0)}) /\ Cardinality(D \ {DataSeg(0)}) = Cardinality(D) - 1
  BY <1>2, <1>4, FS_RemoveElement
<1>6. fetchedData(s) \in SUBSET (D \ {DataSeg(0)})
  BY DEF fetchedData, hasHeader
<1>7. IsFiniteSet(fetchedData(s)) /\ Cardinality(fetchedData(s)) <= Cardinality(D \ {DataSeg(0)})
  BY <1>5, <1>6, FS_Subset
<1>8. fetchedParity(s) \in SUBSET P
  BY DEF fetchedParity
<1>9. IsFiniteSet(fetchedParity(s)) /\ Cardinality(fetchedParity(s)) <= Cardinality(P)
  BY <1>3, <1>8, FS_Subset
<1>10. /\ Cardinality(D) \in Nat /\ Cardinality(P) \in Nat
       /\ Cardinality(fetchedData(s)) \in Nat /\ Cardinality(fetchedParity(s)) \in Nat
  BY <1>2, <1>3, <1>7, <1>9, FS_CardinalityType
<1>11. 2 * Cardinality(fetchedData(s)) + Cardinality(fetchedParity(s)) >= 2 * NData[n]
  BY DEF isAssembled
<1> HIDE DEF n, D, P
<1>12. NParity[n] > 1
  BY <1>1, <1>2, <1>3, <1>5, <1>7, <1>9, <1>10, <1>11
<1> QED
  BY <1>12 DEF n

(* segmentReceived() makes a slot ready only when it is assembled.          *)
LEMMA ReadyIsAssembled ==
  ASSUME NEW s \in BufferSlot, s.state \in {"New", "Assembling"}, NEW seg \in Segments,
         segmentReceived(s, seg).state = "Ready"
  PROVE  isAssembled(segmentReceived(s, seg))
<1> DEFINE f == [s EXCEPT !.fetched = s.fetched \cup {seg}]
           t == IF isAssembled(f) THEN "Ready" ELSE "Assembling"
           u == [f EXCEPT !.state = t]
<1>1. f \in BufferSlot /\ f.state = s.state
  BY DEF BufferSlot
<1>2. segmentReceived(s, seg) = s \/ segmentReceived(s, seg) = f \/ segmentReceived(s, seg) = u
  BY DEF segmentReceived, updateConsistencyState
<1> HIDE DEF f
<1>3. u.name = f.name /\ u.fetched = f.fetched /\ u.state = t
  BY <1>1 DEF BufferSlot
<1> HIDE DEF u
<1>4. segmentReceived(s, seg) = u /\ isAssembled(f)
  BY <1>1, <1>2, <1>3
<1>5. isAssembled(u) <=> isAssembled(f)
  BY <1>3 DEF isAssembled, fetchedData, fetchedParity
<1> QED
  BY <1>4, <1>5

(* What received() changes in the maps and in the queue: a sample that gets *)
(* ready is reserved, and queued unless it lacks its header or a queued one *)
(* has its timestamp.                                                       *)
LEMMA ReceivedFields ==
  ASSUME NEW b, BInv(b), NEW n \in Samples, isRequested(b, n), NEW seg \in Segments
  PROVE  LET new == received(b, n, seg) IN
         \/ new.active = b.active /\ new.reserved = b.reserved /\ new.queue = b.queue
         \/ /\ new.active = [b.active EXCEPT ![n] = NoSlot]
            /\ new.reserved = [b.reserved EXCEPT ![n] = b.active[n]]
            /\ \/ new.queue = b.queue \cup {b.active[n]}
               \/ /\ new.queue = b.queue
                  /\ NParity[n] > 1 \/ \E y \in b.queue : timestampOf(b, y) = Timestamp[n]
<1> DEFINE x == b.active[n]
           s == segmentReceived(b.slot[x], seg)
           D == [b.slot EXCEPT ![x] = s]
           mid == [b EXCEPT !.slot = D]
           new == received(b, n, seg)
<1>1. /\ b \in BufferState
      /\ b.active \in [Samples -> Slots \cup {NoSlot}]
      /\ b.reserved \in [Samples -> Slots \cup {NoSlot}]
      /\ b.slot \in [Slots -> BufferSlot]
      /\ b.queue \in SUBSET Slots
      /\ NoSlot \notin Slots
  BY BufferAssumption DEF BInv, BufferState
<1>2. /\ x \in Slots /\ x \notin b.queue
      /\ x = b.active[n]
  BY <1>1 DEF isRequested, BInv, Exclusive, QueueReserved
<1>3. /\ s \in BufferSlot /\ s.name = n
      /\ s.state = "Ready" => isAssembled(s)
  <2>1. /\ b.slot[x] \in BufferSlot /\ b.slot[x].name = n
        /\ b.slot[x].state \in {"New", "Assembling"}
    BY <1>1, <1>2 DEF BInv, PlaceMatchesState, isRequested
  <2> QED
    BY <2>1, SegmentReceivedType, ReadyIsAssembled
<1>4. new = onNewData(mid, n)
  BY DEF received
<1> HIDE DEF x, s, new
<1>5. /\ D \in [Slots -> BufferSlot]
      /\ \A y \in Slots : D[y] = IF y = x THEN s ELSE b.slot[y]
  BY <1>1, <1>2, <1>3
<1> HIDE DEF D
<1>6. /\ mid \in BufferState /\ mid.active = b.active
      /\ mid.reserved = b.reserved /\ mid.slot = D /\ mid.queue = b.queue
  BY <1>1, <1>5 DEF BufferState
<1> HIDE DEF mid
<1>7. CASE s.state # "Ready"
  <2>1. new = mid
    BY <1>2, <1>4, <1>5, <1>6, <1>7 DEF onNewData
  <2> QED
    BY <1>6, <2>1 DEF new
<1>8. CASE s.state = "Ready"
  <2> DEFINE t == [s EXCEPT !.state = "Locked"]
             F == [D EXCEPT ![x] = t]
             A == [b.active EXCEPT ![n] = NoSlot]
             R == [b.reserved EXCEPT ![n] = x]
             res == [mid EXCEPT !.reserved = R, !.active = A, !.slot = F]
             Q == b.queue \cup {x}
  <2>1. t \in BufferSlot /\ t.name = n
    BY <1>3 DEF BufferSlot, SlotStates
  <2>2. D[x] = s /\ mid.active[n] = x
    BY <1>2, <1>5, <1>6
  <2>3. reserveSlot(mid, n) = res
    BY <1>6, <2>2 DEF reserveSlot
  <2> HIDE DEF t
  <2>4. /\ F \in [Slots -> BufferSlot]
        /\ \A y \in Slots : F[y] = IF y = x THEN t ELSE b.slot[y]
    BY <1>2, <1>5, <2>1
  <2>5. A \in [Samples -> Slots \cup {NoSlot}] /\ R \in [Samples -> Slots \cup {NoSlot}]
    BY <1>1, <1>2
  <2> HIDE DEF F, A, R
  <2>6. /\ res \in BufferState /\ res.active = A /\ res.reserved = R
        /\ res.slot = F /\ res.queue = b.queue
    BY <1>6, <2>4, <2>5 DEF BufferState
  <2> HIDE DEF res, Q
  <2>7. /\ timestampOf(res, x) = Timestamp[n]
        /\ \A y \in b.queue : timestampOf(res, y) = timestampOf(b, y)
    BY <1>1, <1>2, <2>1, <2>4, <2>6 DEF timestampOf
  <2>8. new = IF hasHeader(s) THEN queueInsert(res, x) ELSE res
    BY <1>4, <1>6, <1>8, <2>2, <2>3 DEF onNewData
  <2>9. /\ new.active = A /\ new.reserved = R
        /\ \/ new.queue = Q
           \/ /\ new.queue = b.queue
              /\ NParity[n] > 1 \/ \E y \in b.queue : timestampOf(b, y) = Timestamp[n]
    <3>1. CASE ~hasHeader(s)
      BY <1>3, <1>8, <2>6, <2>8, <3>1, AssembledWithoutHeader
    <3>2. CASE hasHeader(s) /\ \E y \in res.queue : timestampOf(res, y) = timestampOf(res, x)
      BY <2>6, <2>7, <2>8, <3>2 DEF queueInsert
    <3>3. CASE hasHeader(s) /\ ~\E y \in res.queue : timestampOf(res, y) = timestampOf(res, x)
      <4>1. new = [res EXCEPT !.queue = Q]
        BY <2>6, <2>8, <3>3 DEF queueInsert, Q
      <4> QED
        BY <2>6, <4>1 DEF BufferState
    <3> QED
      BY <3>1, <3>2, <3>3
  <2> QED
    BY <2>9 DEF new, A, R, Q, x
<1> QED
  BY <1>7, <1>8

(* While a slot is free, fewer samples are held than there are slots: every *)
(* sample held has a slot of its own.                                       *)
LEMMA HeldBelowCapacity ==
  ASSUME NEW b, BInv(b), b.pool # {}
  PROVE  Cardinality({n \in Samples : statusOf(b)[n] # "idle"}) < Capacity
<1> DEFINE H == {n \in Samples : statusOf(b)[n] # "idle"}
           slotOf(n) == IF b.reserved[n] # NoSlot THEN b.reserved[n] ELSE b.active[n]
           f == [n \in H |-> slotOf(n)]
<1> PICK x \in b.pool : TRUE
  OBVIOUS
<1>1. /\ b.pool \in SUBSET Slots /\ IsFiniteSet(Slots)
      /\ b.active \in [Samples -> Slots \cup {NoSlot}]
      /\ b.reserved \in [Samples -> Slots \cup {NoSlot}]
  BY BufferAssumption DEF BInv, BufferState
<1>2. \A n \in H : n \in Samples /\ (b.reserved[n] # NoSlot \/ b.active[n] # NoSlot)
  BY DEF statusOf
<1> HIDE DEF H
<1>3. \A n \in H : slotOf(n) \in Slots \ {x}
  BY <1>1, <1>2 DEF BInv, Exclusive
<1>4. \A m, n \in H : slotOf(m) = slotOf(n) => m = n
  BY <1>1, <1>2 DEF BInv, Exclusive
<1> HIDE DEF slotOf
<1>5. f \in Injection(H, Slots \ {x})
  BY <1>3, <1>4 DEF Injection, IsInjective
<1>6. /\ IsFiniteSet(Slots \ {x}) /\ Cardinality(Slots \ {x}) = Cardinality(Slots) - 1
      /\ Cardinality(Slots) \in Nat
  BY <1>1, FS_RemoveElement, FS_CardinalityType
<1>7. IsFiniteSet(H) /\ Cardinality(H) <= Cardinality(Slots \ {x})
  BY <1>5, <1>6, FS_Injection
<1>8. Cardinality(H) \in Nat
  BY <1>7, FS_CardinalityType
<1>9. Cardinality(H) < Cardinality(Slots)
  BY <1>6, <1>7, <1>8
<1> QED
  BY <1>9 DEF H, Capacity

(* The status of every sample, spelled out.                                 *)
LEMMA StatusOf ==
  ASSUME NEW b, BInv(b)
  PROVE  /\ statusOf(b) = [n \in Samples |-> statusOf(b)[n]]
         /\ \A n \in Samples :
              /\ statusOf(b)[n] \in {"idle", "fetching", "playable", "stranded"}
              /\ statusOf(b)[n] = "idle" <=> b.active[n] = NoSlot /\ b.reserved[n] = NoSlot
              /\ statusOf(b)[n] = "fetching" <=> b.active[n] # NoSlot
              /\ statusOf(b)[n] = "playable" <=> b.reserved[n] # NoSlot /\ b.reserved[n] \in b.queue
              /\ statusOf(b)[n] = "stranded" <=> b.reserved[n] # NoSlot /\ b.reserved[n] \notin b.queue
BY DEF statusOf, BInv, OnePlace

(* The instance's Cardinality is the one of FiniteSets.                     *)
LEMMA SameCardinality == \A S : Abstract!Cardinality(S) = Cardinality(S)
BY DEF Abstract!Cardinality, Cardinality

(* A request takes up an idle sample while fewer than Capacity are held, or *)
(* asks for more segments of a sample that is being fetched already.        *)
LEMMA RequestStep ==
  ASSUME BInv(buf), BInv(buf)', NEW n \in Samples, NEW segs, Requested(n, segs)
  PROVE  Abstract!Request(n) \/ UNCHANGED statusOf(buf)
<1> DEFINE old == statusOf(buf)
           new == statusOf(buf')
<1>1. CASE buf' = buf
  BY <1>1 DEF statusOf
<1>2. CASE /\ \E x \in Slots : buf'.active = [buf.active EXCEPT ![n] = x]
           /\ buf'.reserved = buf.reserved /\ buf'.queue = buf.queue
           /\ buf.active[n] = NoSlot => buf.pool # {}
  <2>1. PICK x \in Slots : buf'.active = [buf.active EXCEPT ![n] = x]
    BY <1>2
  <2>2. /\ NoSlot \notin Slots /\ buf.reserved[n] = NoSlot
        /\ \A m \in Samples : buf'.active[m] = IF m = n THEN x ELSE buf.active[m]
    BY <2>1, BufferAssumption DEF Requested, BInv, BufferState
  <2>3. /\ new[n] = "fetching"
        /\ \A m \in Samples : m # n => new[m] = old[m]
        /\ old[n] = "idle" \/ old[n] = "fetching"
    BY <1>2, <2>2 DEF statusOf
  <2>4. old = [m \in Samples |-> old[m]] /\ new = [m \in Samples |-> new[m]]
    BY StatusOf
  <2>5. CASE old[n] = "fetching"
    <3> HIDE DEF old, new
    <3>1. new = old
      BY <2>3, <2>4, <2>5
    <3> QED
      BY <3>1 DEF new, old
  <2>6. CASE old[n] = "idle"
    <3>1. Abstract!Cardinality({m \in Samples : old[m] # "idle"}) < Capacity
      BY <1>2, <2>2, <2>6, HeldBelowCapacity, StatusOf, SameCardinality
    <3> HIDE DEF old, new
    <3>2. new = [old EXCEPT ![n] = "fetching"]
      BY <2>3, <2>4
    <3> QED
      BY <2>6, <3>1, <3>2 DEF new, old, Abstract!Request, Abstract!Held
  <2> QED
    BY <2>3, <2>5, <2>6
<1>3. /\ buf' = requested(buf, n, segs) /\ buf.reserved[n] = NoSlot
  BY DEF Requested
<1> QED
  BY <1>1, <1>2, <1>3, RequestedFields

(* A segment completes the sample it belongs to or changes no status.       *)
LEMMA ReceiveStep ==
  ASSUME BInv(buf), BInv(buf)', NEW n \in Samples, NEW seg \in Segments, Received(n, seg)
  PROVE  Abstract!Assemble(n) \/ Abstract!Strand(n) \/ UNCHANGED statusOf(buf)
<1> DEFINE old == statusOf(buf)
           new == statusOf(buf')
           x == buf.active[n]
<1>1. buf' = received(buf, n, seg) /\ isRequested(buf, n)
  BY DEF Received
<1>2. /\ buf.active \in [Samples -> Slots \cup {NoSlot}]
      /\ buf.reserved \in [Samples -> Slots \cup {NoSlot}]
      /\ x # NoSlot /\ buf.reserved[n] = NoSlot /\ x \notin buf.queue
      /\ \A m \in Samples : buf.reserved[m] # x
  BY <1>1 DEF isRequested, BInv, BufferState, Exclusive, OnePlace, QueueReserved
<1>3. CASE buf'.active = buf.active /\ buf'.reserved = buf.reserved /\ buf'.queue = buf.queue
  BY <1>3 DEF statusOf
<1>4. old = [m \in Samples |-> old[m]] /\ new = [m \in Samples |-> new[m]] /\ old[n] = "fetching"
  BY <1>2, StatusOf
<1>5. CASE /\ buf'.active = [buf.active EXCEPT ![n] = NoSlot]
           /\ buf'.reserved = [buf.reserved EXCEPT ![n] = x]
           /\ buf'.queue = buf.queue \cup {x}
  <2>1. new[n] = "playable" /\ \A m \in Samples : m # n => new[m] = old[m]
    BY <1>2, <1>5 DEF statusOf
  <2> HIDE DEF old, new
  <2>2. new = [old EXCEPT ![n] = "playable"]
    BY <1>4, <2>1
  <2> QED
    BY <1>4, <2>2 DEF new, old, Abstract!Assemble
<1>6. CASE /\ buf'.active = [buf.active EXCEPT ![n] = NoSlot]
           /\ buf'.reserved = [buf.reserved EXCEPT ![n] = x]
           /\ buf'.queue = buf.queue
           /\ NParity[n] > 1 \/ \E y \in buf.queue : timestampOf(buf, y) = Timestamp[n]
  <2>1. new[n] = "stranded" /\ \A m \in Samples : m # n => new[m] = old[m]
    BY <1>2, <1>6 DEF statusOf
  <2>2. n \in Recoverable \/ \E m \in Samples : old[m] = "playable" /\ Timestamp[m] = Timestamp[n]
    <3>1. CASE NParity[n] > 1
      BY <3>1 DEF Recoverable
    <3>2. ASSUME NEW y \in buf.queue, timestampOf(buf, y) = Timestamp[n]
          PROVE  \E m \in Samples : old[m] = "playable" /\ Timestamp[m] = Timestamp[n]
      <4>1. PICK m \in Samples : buf.reserved[m] = y
        BY DEF BInv, QueueReserved
      <4>2. y # NoSlot
        BY BufferAssumption DEF BInv, BufferState
      <4>3. buf.slot[y].name = m
        BY <4>1, <4>2 DEF BInv, PlaceMatchesState
      <4>4. old[m] = "playable"
        BY <4>1, <4>2, StatusOf
      <4> QED
        BY <3>2, <4>3, <4>4 DEF timestampOf
    <3> QED
      BY <1>6, <3>1, <3>2
  <2> HIDE DEF old, new
  <2>3. new = [old EXCEPT ![n] = "stranded"]
    BY <1>4, <2>1
  <2> QED
    BY <1>4, <2>2, <2>3 DEF new, old, Abstract!Strand, Abstract!Playable
<1> QED
  BY <1>1, <1>3, <1>5, <1>6, ReceivedFields

(* pop() plays the earliest playable sample and abandons, with a delta      *)
(* frame, what is being fetched of the delta frames before it.              *)
LEMMA PopStep ==
  ASSUME BInv(buf), BInv(buf)', Pop
  PROVE  \E n \in Samples : Abstract!Play(n)
<1> DEFINE old == statusOf(buf)
           new == statusOf(buf')
<1>1. PICK x \in buf.queue : isFront(buf, x) /\ buf' = pop(buf, x)
  BY DEF Pop
<1>2. PICK n \in Samples : buf.reserved[n] = x
  BY DEF BInv, QueueReserved
<1>3. /\ buf.active \in [Samples -> Slots \cup {NoSlot}]
      /\ buf.reserved \in [Samples -> Slots \cup {NoSlot}]
      /\ buf.queue \in SUBSET Slots /\ x # NoSlot /\ buf \in BufferState
  BY BufferAssumption DEF BInv, BufferState
<1>4. \A m \in Samples : buf.reserved[m] # NoSlot => buf.slot[buf.reserved[m]].name = m
  BY DEF BInv, PlaceMatchesState
<1>5. buf.slot[x].name = n
  BY <1>2, <1>3, <1>4
<1>6. /\ buf'.active = [m \in Samples |-> IF n \in Deltas /\ m \in Earlier[n]
                                          THEN NoSlot ELSE buf.active[m]]
      /\ buf'.reserved = [buf.reserved EXCEPT ![n] = NoSlot]
      /\ buf'.queue = buf.queue \ {x}
  BY <1>1, <1>2, <1>3, <1>5, PopFields
<1>7. old = [m \in Samples |-> old[m]] /\ new = [m \in Samples |-> new[m]] /\ old[n] = "playable"
  BY <1>2, <1>3, StatusOf
<1>8. \A m \in Samples : old[m] = "playable" => Timestamp[n] <= Timestamp[m]
  <2> SUFFICES ASSUME NEW m \in Samples, old[m] = "playable"
               PROVE  Timestamp[n] <= Timestamp[m]
    OBVIOUS
  <2>1. buf.reserved[m] # NoSlot /\ buf.reserved[m] \in buf.queue
    BY StatusOf
  <2> QED
    BY <1>1, <1>4, <1>5, <2>1 DEF isFront, timestampOf
<1>9. \A m \in Samples :
        new[m] = IF m = n \/ (n \in Deltas /\ m \in Earlier[n] /\ old[m] = "fetching")
                 THEN "idle" ELSE old[m]
  <2> SUFFICES ASSUME NEW m \in Samples
               PROVE  new[m] = IF m = n \/ (n \in Deltas /\ m \in Earlier[n] /\ old[m] = "fetching")
                               THEN "idle" ELSE old[m]
    OBVIOUS
  <2>1. /\ m # n => buf'.reserved[m] = buf.reserved[m] /\ buf.reserved[m] # x
        /\ buf'.reserved[n] = NoSlot
        /\ buf.active[n] = NoSlot
        /\ buf.active[m] = NoSlot \/ buf.reserved[m] = NoSlot
    BY <1>2, <1>3, <1>6 DEF BInv, Exclusive, OnePlace
  <2>2. buf'.active[m] = IF n \in Deltas /\ m \in Earlier[n] THEN NoSlot ELSE buf.active[m]
    BY <1>6
  <2>3. CASE m = n
    BY <2>1, <2>2, <2>3 DEF statusOf
  <2>4. CASE m # n
    BY <1>6, <2>1, <2>2, <2>4 DEF statusOf
  <2> QED
    BY <2>3, <2>4
<1> HIDE DEF old, new
<1>10. new = [m \in Samples |->
                IF m = n \/ (n \in Deltas /\ m \in Earlier[n] /\ old[m] = "fetching")
                THEN "idle" ELSE old[m]]
  BY <1>7, <1>9
<1> QED
  BY <1>7, <1>8, <1>10 DEF new, old, Abstract!Play, Abstract!Playable

(* reset() abandons what is being fetched and keeps what is reserved.       *)
LEMMA ResetStep ==
  ASSUME BInv(buf), BInv(buf)', Reset
  PROVE  Abstract!Reset
<1> DEFINE old == statusOf(buf)
           new == statusOf(buf')
<1>1. /\ buf'.active = [n \in Samples |-> NoSlot]
      /\ buf'.reserved = buf.reserved /\ buf'.queue = buf.queue
  BY ResetFields DEF Reset, BInv
<1>2. old = [m \in Samples |-> old[m]] /\ new = [m \in Samples |-> new[m]]
  BY StatusOf
<1>3. \A n \in Samples : new[n] = IF old[n] = "fetching" THEN "idle" ELSE old[n]
  BY <1>1 DEF statusOf
<1> HIDE DEF old, new
<1>4. new = [n \in Samples |-> IF old[n] = "fetching" THEN "idle" ELSE old[n]]
  BY <1>2, <1>3
<1> QED
  BY <1>4 DEF new, old, Abstract!Reset

(* The slot buffer implements the abstract sample buffer for any number of  *)
(* slots, samples and segments: Buffer and PlaybackQueue hold no more       *)
(* samples than there are slots, play them in the order of their            *)
(* timestamps, and leave none unplayed but those that are assembled without *)
(* a header or with a timestamp that is queued.                             *)
THEOREM BufferImplementsSamples == BufferSpec => ImplementsSampleBuffer
<1>1. BufferInit => Abstract!Init
  BY DEF BufferInit, Abstract!Init, statusOf
<1>2. BInv(buf) /\ BInv(buf)' /\ [BufferNext]_buf => [Abstract!Next]_(statusOf(buf))
  <2> SUFFICES ASSUME BInv(buf), BInv(buf)', [BufferNext]_buf
               PROVE  Abstract!Next \/ UNCHANGED statusOf(buf)
    OBVIOUS
  <2>1. ASSUME NEW n \in Samples, NEW segs, Requested(n, segs)
        PROVE  Abstract!Next \/ UNCHANGED statusOf(buf)
    BY <2>1, RequestStep DEF Abstract!Next
  <2>2. ASSUME NEW n \in Samples, NEW seg \in SegmentsOf(n), Received(n, seg)
        PROVE  Abstract!Next \/ UNCHANGED statusOf(buf)
    <3>1. seg \in Segments
      BY BufferAssumption DEF SegmentsOf, DataSegs, ParitySegs, DataSeg, ParitySeg, Segments
    <3> QED
      BY <2>2, <3>1, ReceiveStep DEF Abstract!Next
  <2>3. CASE Pop
    BY <2>3, PopStep DEF Abstract!Next
  <2>4. CASE Reset
    BY <2>4, ResetStep DEF Abstract!Next
  <2>5. CASE UNCHANGED buf
    BY <2>5 DEF statusOf
  <2> QED
    BY <2>1, <2>2, <2>3, <2>4, <2>5 DEF BufferNext
<1> QED
  BY <1>1, <1>2, BufferInvariant, PTL DEF BufferSpec, ImplementsSampleBuffer, Abstract!Spec
-----------------------------------------------------------------------------
(* Validation.  A verdict outlives what happens to other slots, and the     *)
(* slot it is about changes only by going back to the pool, which takes the *)
(* verdict back as well.                                                    *)

(* A slot that is pushed changes; no slot leaves the pool by a push.        *)
LEMMA PushSlots ==
  ASSUME NEW b \in BufferState, NEW S \in SUBSET Slots
  PROVE  /\ poolPush(b, S) \in BufferState
         /\ b.pool \subseteq poolPush(b, S).pool
         /\ \A y \in Slots : y \in poolPush(b, S).pool \/ poolPush(b, S).slot[y] = b.slot[y]
<1> DEFINE P == b.pool \cup S
           emptied == [x \in Slots |-> IF x \in S THEN clear ELSE b.slot[x]]
           new == [b EXCEPT !.pool = P, !.slot = emptied]
<1>1. poolPush(b, S) = b \/ poolPush(b, S) = new
  BY DEF poolPush
<1>2. /\ P \in SUBSET Slots /\ b.pool \subseteq P
      /\ emptied \in [Slots -> BufferSlot]
      /\ \A y \in Slots : y \in P \/ emptied[y] = b.slot[y]
  BY ClearType DEF BufferState
<1> HIDE DEF P, emptied
<1>3. new \in BufferState /\ new.pool = P /\ new.slot = emptied
  BY <1>2 DEF BufferState
<1> HIDE DEF new
<1> QED
  BY <1>1, <1>2, <1>3

(* reset() changes the slots it pushes.                                     *)
LEMMA ResetSlots ==
  ASSUME NEW b \in BufferState
  PROVE  \A y \in Slots : y \in reset(b).pool \/ reset(b).slot[y] = b.slot[y]
<1> DEFINE A == [n \in Samples |-> NoSlot]
           mid == [b EXCEPT !.active = A]
           E == Entries(b.active, Samples)
<1>1. A \in [Samples -> Slots \cup {NoSlot}] /\ E \in SUBSET Slots
  BY DEF Entries, BufferState
<1>2. reset(b) = poolPush(mid, E)
  BY DEF reset
<1> HIDE DEF A, E
<1>3. mid \in BufferState /\ mid.slot = b.slot
  BY <1>1 DEF BufferState
<1> HIDE DEF mid
<1> QED
  BY <1>1, <1>2, <1>3, PushSlots

(* pop() changes the slots it pushes: those of the delta frames it drops    *)
(* and that of the sample played.                                           *)
LEMMA PopSlots ==
  ASSUME NEW b \in BufferState, NEW x \in b.queue, b.slot[x].name \in Samples
  PROVE  \A y \in Slots : y \in pop(b, x).pool \/ pop(b, x).slot[y] = b.slot[y]
<1> DEFINE n == b.slot[x].name
           Q == b.queue \ {x}
           taken == [b EXCEPT !.queue = Q]
           A == [m \in Samples |-> IF m \in Earlier[n] THEN NoSlot ELSE b.active[m]]
           E == Entries(b.active, Earlier[n])
           dropped == [taken EXCEPT !.active = A]
           mid == IF n \in Deltas THEN invalidatePrevious(taken, n) ELSE taken
<1>1. /\ b.active \in [Samples -> Slots \cup {NoSlot}] /\ NoSlot \notin Slots
      /\ Q \in SUBSET Slots /\ Earlier[n] \in SUBSET Samples
  BY BufferAssumption DEF BufferState
<1>2. A \in [Samples -> Slots \cup {NoSlot}] /\ E \in SUBSET Slots
  BY <1>1 DEF Entries
<1>3. taken \in BufferState /\ taken.active = b.active /\ taken.slot = b.slot /\ taken.pool = b.pool
  BY <1>1 DEF BufferState
<1>4. invalidatePrevious(taken, n) = poolPush(dropped, E)
  BY <1>3 DEF invalidatePrevious
<1>5. pop(b, x) = releaseSlot(mid, n)
  BY DEF pop
<1> HIDE DEF n, taken, A, E
<1>6. dropped \in BufferState /\ dropped.slot = b.slot
  BY <1>2, <1>3 DEF BufferState
<1> HIDE DEF dropped
<1>7. /\ mid \in BufferState
      /\ \A y \in Slots : y \in mid.pool \/ mid.slot[y] = b.slot[y]
  BY <1>2, <1>3, <1>4, <1>6, PushSlots
<1> HIDE DEF mid
<1>8. CASE mid.reserved[n] = NoSlot
  BY <1>5, <1>7, <1>8 DEF releaseSlot
<1>9. CASE mid.reserved[n] # NoSlot
  <2> DEFINE R == [mid.reserved EXCEPT ![n] = NoSlot]
             rel == [mid EXCEPT !.reserved = R]
  <2>1. R \in [Samples -> Slots \cup {NoSlot}] /\ {mid.reserved[n]} \in SUBSET Slots
    BY <1>7, <1>9 DEF BufferState, n
  <2>2. releaseSlot(mid, n) = poolPush(rel, {mid.reserved[n]})
    BY <1>9 DEF releaseSlot
  <2> HIDE DEF R
  <2>3. rel \in BufferState /\ rel.slot = mid.slot /\ rel.pool = mid.pool
    BY <1>7, <2>1 DEF BufferState
  <2> HIDE DEF rel
  <2> QED
    BY <1>5, <1>7, <2>1, <2>2, <2>3, PushSlots
<1> QED
  BY <1>8, <1>9

(* requested() touches a free slot or one that is being assembled.          *)
LEMMA RequestedSlots ==
  ASSUME NEW b, BInv(b), NEW n \in Samples, NEW segs
  PROVE  \A y \in Slots : \/ requested(b, n, segs).slot[y] = b.slot[y]
                          \/ b.slot[y].state \in {"Free", "New", "Assembling"}
<1> DEFINE x == IF isRequested(b, n) THEN b.active[n] ELSE poolPop(b)
           P == b.pool \ {x}
           A == [b.active EXCEPT ![n] = x]
           D == [b.slot EXCEPT ![x] = segmentsRequested(b.slot[x], n, segs)]
           new == requested(b, n, segs)
<1>1. /\ b \in BufferState
      /\ b.slot \in [Slots -> BufferSlot]
      /\ b.active \in [Samples -> Slots \cup {NoSlot}]
  BY DEF BInv, BufferState
<1>2. CASE requestedFails(b, n)
  BY <1>2 DEF requested
<1>3. CASE ~requestedFails(b, n)
  <2>1. x \in b.pool \/ (x = b.active[n] /\ x # NoSlot)
    BY <1>3 DEF requestedFails, isRequested, poolPop
  <2>2. b.slot[x].state \in {"Free", "New", "Assembling"}
    BY <1>1, <2>1 DEF BInv, PlaceMatchesState, clear
  <2>3. new = [b EXCEPT !.pool = P, !.active = A, !.slot = D]
    BY <1>3 DEF requested
  <2> HIDE DEF x
  <2>4. \A y \in Slots : y = x \/ D[y] = b.slot[y]
    BY <1>1
  <2> HIDE DEF P, A, D
  <2>5. new.slot = D
    BY <1>1, <2>3 DEF BufferState
  <2> QED
    BY <2>2, <2>4, <2>5
<1> QED
  BY <1>2, <1>3

(* received() touches the slot of the sample only.                          *)
LEMMA ReceivedSlots ==
  ASSUME NEW b, BInv(b), NEW n \in Samples, isRequested(b, n), NEW seg \in Segments
  PROVE  \A y \in Slots : y = b.active[n] \/ received(b, n, seg).slot[y] = b.slot[y]
<1> DEFINE x == b.active[n]
           s == segmentReceived(b.slot[x], seg)
           D == [b.slot EXCEPT ![x] = s]
           mid == [b EXCEPT !.slot = D]
           F == [D EXCEPT ![x] = [D[x] EXCEPT !.state = "Locked"]]
           A == [b.active EXCEPT ![n] = NoSlot]
           R == [b.reserved EXCEPT ![n] = x]
           res == [mid EXCEPT !.reserved = R, !.active = A, !.slot = F]
           new == received(b, n, seg)
<1>1. /\ b \in BufferState
      /\ b.active \in [Samples -> Slots \cup {NoSlot}]
      /\ b.slot \in [Slots -> BufferSlot]
      /\ NoSlot \notin Slots
  BY BufferAssumption DEF BInv, BufferState
<1>2. x \in Slots /\ x = b.active[n]
  BY <1>1 DEF isRequested
<1>3. new = onNewData(mid, n)
  BY DEF received
<1> HIDE DEF x, s
<1>4. /\ \A y \in Slots : y = x \/ D[y] = b.slot[y]
      /\ \A y \in Slots : y = x \/ F[y] = b.slot[y]
  BY <1>1, <1>2
<1> HIDE DEF D
<1>5. /\ mid.active = b.active /\ mid.reserved = b.reserved /\ mid.slot = D /\ mid.queue = b.queue
      /\ mid = [b EXCEPT !.slot = D]
  BY <1>1 DEF BufferState
<1>6. reserveSlot(mid, n) = res
  BY <1>2, <1>5 DEF reserveSlot
<1> HIDE DEF F, A, R
<1>7. res.slot = F /\ res.queue = b.queue /\ \A Q : [res EXCEPT !.queue = Q].slot = F
  BY <1>1, <1>5 DEF BufferState
<1> HIDE DEF mid, res, new
<1>8. new.slot = D \/ new.slot = F
  <2>1. new \in {mid, res, [res EXCEPT !.queue = res.queue \cup {x}]}
    BY <1>2, <1>3, <1>5, <1>6 DEF onNewData, queueInsert
  <2> QED
    BY <1>5, <1>7, <2>1
<1> QED
  BY <1>2, <1>4, <1>8 DEF new

(* The type of the validator's state, and that it is finitely much.         *)
VTypeOK ==
  /\ manifest \in [Slots -> Samples \cup {NoSample}]
  /\ verified \in [Slots -> {"Unknown", "Verified", "Failed"}]
  /\ fetching \subseteq [fetcher : Fetchers, slot : Slots, sample : Samples]
  /\ IsFiniteSet(fetching)
  /\ pool \in [size : Nat, capacity : Nat]

VInv == BInv(buf) /\ VTypeOK /\ ManifestsKeptApart

(* A fetcher at work is counted when it starts.                             *)
LEMMA FetchCounts ==
  ASSUME VInv, NEW x \in Slots, NEW n \in Samples, idleFetchers # {}, fetch(x, n)
  PROVE  /\ fetching' \subseteq [fetcher : Fetchers, slot : Slots, sample : Samples]
         /\ IsFiniteSet(fetching') /\ pool' \in [size : Nat, capacity : Nat]
         /\ pool'.size + Cardinality(fetching') = pool'.capacity
<1> DEFINE f == CHOOSE g \in idleFetchers : TRUE
           g == [fetcher |-> f, slot |-> x, sample |-> n]
<1>1. f \in Fetchers /\ \A h \in fetching : h.fetcher # f
  BY DEF idleFetchers
<1>2. fetching' = fetching \cup {g} /\ pool' = poolTake(pool)
  BY DEF fetch
<1> HIDE DEF f
<1>3. g.fetcher = f /\ g \in [fetcher : Fetchers, slot : Slots, sample : Samples]
  BY <1>1
<1> HIDE DEF g
<1>4. g \notin fetching
  BY <1>1, <1>3
<1>5. IsFiniteSet(fetching') /\ Cardinality(fetching') = Cardinality(fetching) + 1
  BY <1>2, <1>4, FS_AddElement DEF VInv, VTypeOK
<1>6. Cardinality(fetching) \in Nat
  BY FS_CardinalityType DEF VInv, VTypeOK
<1>7. /\ pool.size \in Nat /\ pool.capacity \in Nat /\ PoolSize \in Nat /\ PoolSize # 0
      /\ pool.size + Cardinality(fetching) = pool.capacity
      /\ pool \in [size : Nat, capacity : Nat]
  BY PoolAssumption DEF VInv, VTypeOK, ManifestsKeptApart, FetchersReturn
<1>8. CASE pool.size = 0
  <2>1. pool' = [size |-> PoolSize - 1, capacity |-> pool.capacity + PoolSize]
    BY <1>2, <1>8 DEF poolTake
  <2>2. pool'.size = PoolSize - 1 /\ pool'.capacity = pool.capacity + PoolSize
    BY <2>1
  <2> QED
    BY <1>2, <1>3, <1>5, <1>6, <1>7, <1>8, <2>1, <2>2 DEF VInv, VTypeOK
<1>9. CASE pool.size # 0
  <2>1. pool' = [pool EXCEPT !.size = pool.size - 1]
    BY <1>2, <1>9 DEF poolTake
  <2>2. /\ pool'.size = pool.size - 1 /\ pool'.capacity = pool.capacity
        /\ pool' \in [size : Nat, capacity : Nat]
    BY <1>7, <1>9, <2>1
  <2> QED
    BY <1>2, <1>3, <1>5, <1>6, <1>7, <2>2 DEF VInv, VTypeOK
<1> QED
  BY <1>8, <1>9

(* A fetcher that ends is found missing in the pool: the push is not        *)
(* refused.                                                                 *)
LEMMA EndCounts ==
  ASSUME VInv, NEW g \in fetching, ends(g)
  PROVE  /\ fetching' \subseteq [fetcher : Fetchers, slot : Slots, sample : Samples]
         /\ IsFiniteSet(fetching') /\ pool' \in [size : Nat, capacity : Nat]
         /\ pool'.size + Cardinality(fetching') = pool'.capacity
<1>1. fetching' = fetching \ {g} /\ pool' = poolReturn(pool)
  BY DEF ends
<1>2. IsFiniteSet(fetching') /\ Cardinality(fetching') = Cardinality(fetching) - 1
  BY <1>1, FS_RemoveElement DEF VInv, VTypeOK
<1>3. Cardinality(fetching) \in Nat /\ Cardinality(fetching') \in Nat
  BY <1>2, FS_CardinalityType DEF VInv, VTypeOK
<1>4. /\ pool.size \in Nat /\ pool.capacity \in Nat
      /\ pool.size + Cardinality(fetching) = pool.capacity
      /\ pool \in [size : Nat, capacity : Nat]
  BY DEF VInv, VTypeOK, ManifestsKeptApart, FetchersReturn
<1>5. pool.size < pool.capacity
  BY <1>2, <1>3, <1>4
<1>6. pool' = [pool EXCEPT !.size = pool.size + 1]
  BY <1>1, <1>5 DEF poolReturn
<1>7. /\ pool'.size = pool.size + 1 /\ pool'.capacity = pool.capacity
      /\ pool' \in [size : Nat, capacity : Nat]
  BY <1>4, <1>6
<1> QED
  BY <1>1, <1>2, <1>3, <1>4, <1>7 DEF VInv, VTypeOK

(* Requests, arrivals, pops and resets leave each verdict with the sample   *)
(* it is about.                                                             *)
LEMMA BufferKeepsVerdicts ==
  ASSUME VInv, BInv(buf)',
         \/ \E n \in Samples : \E segs \in SUBSET SegmentsOf(n) \ {{}} : RequestedSample(n, segs)
         \/ \E n \in Samples : \E seg \in SegmentsOf(n) : ReceivedSegment(n, seg)
         \/ Recycle
  PROVE  VTypeOK' /\ ManifestsKeptApart'
<1>0. /\ buf \in BufferState /\ buf.slot \in [Slots -> BufferSlot]
      /\ buf.queue \subseteq Slots /\ NoSlot \notin Slots
      /\ buf.active \in [Samples -> Slots \cup {NoSlot}]
      /\ manifest \in [Slots -> Samples \cup {NoSample}]
      /\ verified \in [Slots -> {"Unknown", "Verified", "Failed"}]
      /\ VerifiedByOwnManifest
  BY BufferAssumption DEF VInv, BInv, BufferState, VTypeOK, ManifestsKeptApart
<1>1. ASSUME NEW n \in Samples, NEW segs, RequestedSample(n, segs)
      PROVE  VTypeOK' /\ ManifestsKeptApart'
  <2>1. \A y \in Slots : \/ buf'.slot[y] = buf.slot[y]
                         \/ buf.slot[y].state \in {"Free", "New", "Assembling"}
    BY <1>1, RequestedSlots DEF RequestedSample, Requested, VInv
  <2>2. VerifiedByOwnManifest'
    BY <1>0, <1>1, <2>1 DEF RequestedSample, VerifiedByOwnManifest
  <2>3. CASE ~isRequested(buf, n) /\ isRequested(buf', n)
    <3>1. buf'.active[n] \in Slots
      BY <2>3 DEF isRequested, BInv, BufferState
    <3>2. fetch(buf'.active[n], n) /\ idleFetchers # {}
      BY <1>1, <2>3 DEF RequestedSample
    <3> QED
      BY <1>0, <1>1, <2>2, <3>1, <3>2, FetchCounts
      DEF RequestedSample, VTypeOK, ManifestsKeptApart, FetchersReturn
  <2>4. CASE UNCHANGED <<fetching, pool>>
    BY <1>1, <2>2, <2>4 DEF RequestedSample, VInv, VTypeOK, ManifestsKeptApart, FetchersReturn
  <2> QED
    BY <1>1, <2>3, <2>4 DEF RequestedSample
<1>2. ASSUME NEW n \in Samples, NEW seg \in SegmentsOf(n), ReceivedSegment(n, seg)
      PROVE  VTypeOK' /\ ManifestsKeptApart'
  <2> DEFINE x == buf.active[n]
             v == IF /\ verified[x] = "Unknown" /\ manifest[x] # NoSample
                     /\ buf'.slot[x].state \in {"Ready", "Locked"}
                  THEN verifySlot(buf'.slot[x], manifest[x]) ELSE verified[x]
  <2>1. isRequested(buf, n) /\ buf' = received(buf, n, seg) /\ seg \in Segments
    <3>1. seg \in Segments
      BY BufferAssumption DEF SegmentsOf, DataSegs, ParitySegs, DataSeg, ParitySeg, Segments
    <3> QED
      BY <1>2, <3>1 DEF ReceivedSegment, Received
  <2>2. x \in Slots /\ buf.slot[x].state \in {"New", "Assembling"}
    BY <1>0, <2>1 DEF isRequested, VInv, BInv, PlaceMatchesState
  <2>3. \A y \in Slots : y = x \/ buf'.slot[y] = buf.slot[y]
    BY <2>1, ReceivedSlots DEF VInv
  <2>4. verified' = [verified EXCEPT ![x] = v] /\ UNCHANGED <<manifest, fetching, pool>>
    <3> HIDE DEF x
    <3>1. verified = [verified EXCEPT ![x] = verified[x]]
      BY <1>0
    <3> QED
      BY <1>2, <3>1 DEF ReceivedSegment, x
  <2>5. v \in {"Unknown", "Verified", "Failed"}
    BY <1>0, <2>2 DEF verifySlot
  <2>6. v = "Verified" => buf'.slot[x].state \in {"Ready", "Locked"} /\ manifest[x] = buf'.slot[x].name
    BY <1>0, <2>2 DEF verifySlot, VerifiedByOwnManifest
  <2> HIDE DEF x, v
  <2>7. \A y \in Slots : verified'[y] = IF y = x THEN v ELSE verified[y]
    BY <1>0, <2>2, <2>4
  <2>8. VerifiedByOwnManifest'
    BY <1>0, <2>3, <2>4, <2>6, <2>7 DEF VerifiedByOwnManifest
  <2>9. verified' \in [Slots -> {"Unknown", "Verified", "Failed"}]
    BY <1>0, <2>4, <2>5
  <2> QED
    BY <2>4, <2>8, <2>9 DEF VInv, VTypeOK, ManifestsKeptApart, FetchersReturn
<1>3. CASE Recycle
  <2>1. \A y \in Slots : y \in buf'.pool \/ buf'.slot[y] = buf.slot[y]
    <3>1. ASSUME NEW x \in buf.queue, buf' = pop(buf, x)
          PROVE  \A y \in Slots : y \in buf'.pool \/ buf'.slot[y] = buf.slot[y]
      <4>1. PICK m \in Samples : buf.reserved[m] = x
        BY DEF VInv, BInv, QueueReserved
      <4>2. buf.slot[x].name = m
        BY <1>0, <4>1 DEF VInv, BInv, PlaceMatchesState
      <4> QED
        BY <1>0, <3>1, <4>2, PopSlots
    <3>2. CASE Reset
      BY <1>0, <3>2, ResetSlots DEF Reset
    <3> QED
      BY <1>3, <3>1, <3>2 DEF Recycle, Pop
  <2>2. /\ manifest' = [y \in Slots |-> IF y \in buf'.pool \ buf.pool THEN NoSample ELSE manifest[y]]
        /\ verified' = [y \in Slots |-> IF y \in buf'.pool \ buf.pool THEN "Unknown" ELSE verified[y]]
        /\ UNCHANGED <<fetching, pool>>
    BY <1>3 DEF Recycle, cleared
  <2>3. VerifiedByOwnManifest'
    <3>1. \A y \in Slots : y \in buf.pool => verified[y] # "Verified"
      BY <1>0 DEF VInv, BInv, PlaceMatchesState, clear, VerifiedByOwnManifest
    <3> QED
      BY <1>0, <2>1, <2>2, <3>1 DEF VerifiedByOwnManifest
  <2>4. /\ manifest' \in [Slots -> Samples \cup {NoSample}]
        /\ verified' \in [Slots -> {"Unknown", "Verified", "Failed"}]
    BY <1>0, <2>2
  <2> QED
    BY <2>2, <2>3, <2>4 DEF VInv, VTypeOK, ManifestsKeptApart, FetchersReturn
<1> QED
  BY <1>1, <1>2, <1>3

(* However fetching ends, and whatever its slot serves by then.             *)
LEMMA AnswerKeepsVerdicts ==
  ASSUME VInv, NEW g \in fetching,
         OnManifest(g) \/ OnUnverifiedManifest(g) \/ OnManifestError(g)
  PROVE  VTypeOK' /\ ManifestsKeptApart'
<1>1. ends(g) /\ buf' = buf
  BY DEF OnManifest, OnUnverifiedManifest, OnManifestError
<1>2. g.slot \in Slots /\ g.sample \in Samples
  BY DEF VInv, VTypeOK
<1>3. /\ manifest' \in [Slots -> Samples \cup {NoSample}]
      /\ verified' \in [Slots -> {"Unknown", "Verified", "Failed"}]
  BY <1>2 DEF OnManifest, OnUnverifiedManifest, OnManifestError, verifySlot, VInv, VTypeOK
<1>4. VerifiedByOwnManifest'
  <2> SUFFICES ASSUME NEW y \in Slots, verified'[y] = "Verified"
               PROVE  buf.slot[y].state \in {"Ready", "Locked"} /\ manifest'[y] = buf.slot[y].name
    BY <1>1 DEF VerifiedByOwnManifest
  <2>1. /\ manifest \in [Slots -> Samples \cup {NoSample}]
        /\ verified \in [Slots -> {"Unknown", "Verified", "Failed"}]
        /\ VerifiedByOwnManifest
    BY DEF VInv, VTypeOK, ManifestsKeptApart
  <2>2. CASE y = g.slot
    BY <1>2, <2>1, <2>2
    DEF OnManifest, OnUnverifiedManifest, OnManifestError, verifySlot, VerifiedByOwnManifest
  <2>3. CASE y # g.slot
    <3>1. verified'[y] = verified[y] /\ manifest'[y] = manifest[y]
      BY <1>2, <2>1, <2>3 DEF OnManifest, OnUnverifiedManifest, OnManifestError
    <3> QED
      BY <2>1, <3>1 DEF VerifiedByOwnManifest
  <2> QED
    BY <2>2, <2>3
<1> QED
  BY <1>1, <1>3, <1>4, EndCounts DEF VTypeOK, ManifestsKeptApart, FetchersReturn

(* In the validator's run the buffer takes its own steps.                   *)
LEMMA ValidationKeepsBuffer == VInv /\ [ValidationNext]_vvars => BInv(buf)'
<1>1. [ValidationNext]_vvars => [BufferNext]_buf
  BY DEF ValidationNext, BufferNext, vvars, RequestedSample, ReceivedSegment, Recycle,
         OnManifest, OnUnverifiedManifest, OnManifestError
<1> QED
  BY <1>1, NextKeeps DEF VInv

(* A sample of the frame buffer counts as verified only by its own          *)
(* manifest, whenever manifests come and whatever their slot serves by      *)
(* then, and every fetcher of sample-validator.cpp finds its way back into  *)
(* the pool: for any number of slots, samples, segments and fetchers.       *)
THEOREM VerdictsStayApart == ValidationSpec => []ManifestsKeptApart
<1>1. ValidationInit => VInv
  <2> SUFFICES ASSUME ValidationInit PROVE VInv
    OBVIOUS
  <2>1. BInv(buf)
    BY InitKeeps DEF ValidationInit
  <2>2. /\ pool = [size |-> PoolSize, capacity |-> PoolSize] /\ PoolSize \in Nat
        /\ fetching = {} /\ IsFiniteSet(fetching) /\ Cardinality(fetching) = 0
    BY PoolAssumption, FS_EmptySet DEF ValidationInit
  <2>3. VTypeOK
    BY <2>2 DEF ValidationInit, VTypeOK
  <2>4. ManifestsKeptApart
    BY <2>2 DEF ValidationInit, ManifestsKeptApart, VerifiedByOwnManifest, FetchersReturn
  <2> QED
    BY <2>1, <2>3, <2>4 DEF VInv
<1>2. VInv /\ [ValidationNext]_vvars => VInv'
  <2> SUFFICES ASSUME VInv, [ValidationNext]_vvars PROVE VInv'
    OBVIOUS
  <2>1. BInv(buf)'
    BY ValidationKeepsBuffer
  <2>2. VTypeOK' /\ ManifestsKeptApart'
    <3>1. CASE UNCHANGED vvars
      BY <3>1 DEF vvars, VInv, VTypeOK, ManifestsKeptApart, VerifiedByOwnManifest, FetchersReturn
    <3>2. CASE ValidationNext
      BY <2>1, <3>2, BufferKeepsVerdicts, AnswerKeepsVerdicts DEF ValidationNext
    <3> QED
      BY <3>1, <3>2
  <2> QED
    BY <2>1, <2>2 DEF VInv
<1>3. VInv => ManifestsKeptApart
  BY DEF VInv
<1> QED
  BY <1>1, <1>2, <1>3, PTL DEF ValidationSpec

-----------------------------------------------------------------------------
(* The live consumer *)

(* What is queued is locked, and no two queued samples are of one time.     *)
QueuedLocked(b) ==
  /\ \A x \in b.queue : b.slot[x].state = "Locked" /\ b.slot[x].name \in Samples
  /\ \A x, y \in b.queue : timestampOf(b, x) = timestampOf(b, y) => x = y

(* Though slots may be lost, one that is being fetched is found under its   *)
(* name, and one that is free is empty.                                     *)
StateTellsPlace(b) ==
  \A x \in Slots :
    /\ b.slot[x].state # "Ready"
    /\ b.slot[x].state = "Free" => b.slot[x] = clear
    /\ b.slot[x].state \in {"New", "Assembling"} =>
         b.slot[x].name \in Samples /\ b.active[b.slot[x].name] = x

(* What holds of the buffer between any two calls of a callback *)
Placed(b) ==
  /\ b \in BufferState
  /\ Exclusive(b)
  /\ PlaceMatchesState(b)
  /\ StateTellsPlace(b)
  /\ QueuedLocked(b)

(* The records that calls pass on, which may be between two states *)
Consumer ==
  [buf : BufferState, pit : [Interests -> 0 .. MaxCopies], metaPending : BOOLEAN,
   tracked : [Samples -> Slots \cup {NoSlot}], seqCounter : [Class -> Nat \ {0}], need : Class,
   pipeline : Nat, state : {"Idle", "Bootstrapping", "Running"},
   bootstrap : [hasMeta : BOOLEAN, seq : [Class -> Nat \ {0}]],
   allowed : BOOLEAN, playing : BOOLEAN, lastDelta : Samples \cup {NoSample},
   fault : {"none", "segment not requested", "no header"}]

(* What was asked for lies between the first sample of the session and the  *)
(* next one, and what is tracked is so in the slot that it has.             *)
AskedInOrder(w) ==
  \A n \in Samples :
    /\ w.buf.active[n] # NoSlot \/ w.tracked[n] # NoSlot => SeqNo(n) < w.seqCounter[classOf(n)]
    /\ w.buf.active[n] # NoSlot /\ w.bootstrap.hasMeta => SeqNo(n) >= w.bootstrap.seq[classOf(n)]
    /\ w.buf.active[n] # NoSlot /\ w.tracked[n] # NoSlot => w.tracked[n] = w.buf.active[n]
    /\ ~w.playing => w.tracked[n] = NoSlot

(* The session knows what to ask for. *)
Knows(w) == w.state = "Running" \/ w.bootstrap.hasMeta

(* A session asks for nothing before it has metadata, and for nothing that  *)
(* comes before what metadata told.                                         *)
Started(w) ==
  /\ w.bootstrap.hasMeta => \A c \in Class : w.seqCounter[c] >= w.bootstrap.seq[c]
  /\ w.metaPending => w.state = "Bootstrapping" /\ ~Knows(w)
  /\ w.playing => w.allowed
  /\ ~Knows(w) => \A n \in Samples : w.buf.active[n] = NoSlot /\ w.tracked[n] = NoSlot

(* Between callbacks the pipeline is full: this is why pipeline_ cannot go  *)
(* below zero.                                                              *)
Full(w) == Knows(w) => w.pipeline >= Limit

Orderly(w) == AskedInOrder(w) /\ Started(w)

(* The samples that may still be played *)
Coming(b) ==
  {n \in Samples : b.active[n] # NoSlot} \cup {b.slot[x].name : x \in b.queue}

(* A delta frame that was played is followed by later ones only. *)
NothingOlder(b, m) ==
  m # NoSample =>
    /\ m \in Deltas
    /\ \A n \in Deltas \cap Coming(b) : Timestamp[m] <= Timestamp[n]

(* Only a running session plays, and what is to come is not older. *)
InTurn(w) ==
  /\ w.state # "Running" => ~w.allowed
  /\ ~w.playing => w.lastDelta = NoSample
  /\ NothingOlder(w.buf, w.lastDelta)

(* What holds after a failed callback, too *)
Safe(w) ==
  /\ w \in Consumer /\ Placed(w.buf) /\ w.state # "Idle"
  /\ w.fault = "no header" => Recoverable # {}

(* The invariant of the live consumer *)
LInv(w) ==
  /\ Safe(w)
  /\ w.fault = "none" => Orderly(w) /\ Full(w) /\ InTurn(w)

(* The segment will not make the sample ready: it is there already, or it   *)
(* was not asked for.                                                       *)
Settled(b, n, seg) ==
  \/ b.active[n] = NoSlot
  \/ seg \in b.slot[b.active[n]].fetched
  \/ seg \notin b.slot[b.active[n]].requested

(* The parts of a buffer *)
LEMMA BufferParts ==
  ASSUME NEW b, b \in BufferState
  PROVE  /\ b.pool \in SUBSET Slots
         /\ b.active \in [Samples -> Slots \cup {NoSlot}]
         /\ b.reserved \in [Samples -> Slots \cup {NoSlot}]
         /\ b.slot \in [Slots -> BufferSlot]
         /\ b.queue \in SUBSET Slots
         /\ NoSlot \notin Slots
BY BufferAssumption DEF BufferState

(* Slots leave a map for the pool: what else they hold stays. *)
Drops(b, c) ==
  /\ \A n \in Samples : c.active[n] \in {NoSlot, b.active[n]}
  /\ \A x \in Slots : c.slot[x] \in {clear, b.slot[x]}
  /\ c.queue \subseteq b.queue
  /\ Lost(c) \subseteq Lost(b)

(* Nothing more is to come, and what is still fetched is as it was. *)
LEMMA DropsLess ==
  ASSUME NEW b, Placed(b), NEW c, Placed(c), Drops(b, c)
  PROVE  /\ Coming(c) \subseteq Coming(b)
         /\ \A x \in c.queue : c.slot[x] = b.slot[x]
         /\ \A n \in Samples : \A seg : Settled(b, n, seg) => Settled(c, n, seg)
<1>1. /\ c.active \in [Samples -> Slots \cup {NoSlot}] /\ c.queue \in SUBSET Slots
      /\ clear.state = "Free"
  BY BufferParts DEF Placed, clear
<1>2. \A x \in c.queue : c.slot[x] = b.slot[x] /\ x \in b.queue
  BY <1>1 DEF Drops, Placed, QueuedLocked
<1>3. \A n \in Samples : c.active[n] # NoSlot =>
        c.active[n] = b.active[n] /\ c.slot[c.active[n]] = b.slot[b.active[n]]
  BY <1>1 DEF Drops, Placed, PlaceMatchesState
<1> QED
  BY <1>2, <1>3 DEF Coming, Settled

(* Active samples are dropped, as reset and invalidatePrevious do. *)
LEMMA DropPlaced ==
  ASSUME NEW b, Placed(b), NEW N \in SUBSET Samples, NEW A,
         A = [m \in Samples |-> IF m \in N THEN NoSlot ELSE b.active[m]]
  PROVE  LET new == poolPush([b EXCEPT !.active = A], Entries(b.active, N))
         IN  /\ Placed(new) /\ Drops(b, new) /\ new.reserved = b.reserved /\ new.queue = b.queue
             /\ new.active = A
             /\ \A x \in Slots : b.slot[x].state = "Locked" => new.slot[x] = b.slot[x]
<1> DEFINE E == Entries(b.active, N)
           mid == [b EXCEPT !.active = A]
           new == poolPush(mid, E)
<1>1. /\ b \in BufferState /\ b.pool \in SUBSET Slots
      /\ b.active \in [Samples -> Slots \cup {NoSlot}]
      /\ b.reserved \in [Samples -> Slots \cup {NoSlot}]
      /\ b.slot \in [Slots -> BufferSlot]
      /\ b.queue \in SUBSET Slots
      /\ NoSlot \notin Slots
  BY BufferParts DEF Placed
<1>2. A \in [Samples -> Slots \cup {NoSlot}]
  BY <1>1
<1>3. /\ mid \in BufferState /\ mid.pool = b.pool /\ mid.active = A
      /\ mid.reserved = b.reserved /\ mid.slot = b.slot /\ mid.queue = b.queue
  BY <1>1, <1>2 DEF BufferState
<1>4. /\ E \in SUBSET Slots
      /\ E \cap b.pool = {}
      /\ \A x : x \in E <=> x # NoSlot /\ \E n \in N : b.active[n] = x
  BY <1>1 DEF Entries, Placed, Exclusive
<1> HIDE DEF E, mid
<1>5. E \cap mid.pool = {}
  BY <1>3, <1>4
<1>6. /\ new.pool = b.pool \cup E
      /\ new.active = A
      /\ new.reserved = b.reserved
      /\ new.slot = [x \in Slots |-> IF x \in E THEN clear ELSE b.slot[x]]
      /\ new.queue = b.queue
      /\ new \in BufferState
  BY <1>3, <1>4, <1>5, PoolPush
<1> HIDE DEF new
<1>7. Exclusive(new)
  BY <1>1, <1>4, <1>6 DEF Placed, Exclusive
<1>s. \A x \in Slots : new.slot[x] = IF x \in E THEN clear ELSE b.slot[x]
  BY <1>6
<1>e. \A x \in E : b.slot[x].state \in {"New", "Assembling"}
  BY <1>4 DEF Placed, PlaceMatchesState
<1>q. \A x \in b.queue : x \notin E /\ new.slot[x] = b.slot[x]
  BY <1>1, <1>s, <1>e DEF Placed, QueuedLocked
<1>r. \A n \in Samples : b.reserved[n] # NoSlot => new.slot[b.reserved[n]] = b.slot[b.reserved[n]]
  BY <1>1, <1>s, <1>e DEF Placed, PlaceMatchesState
<1>8. PlaceMatchesState(new)
  <2>1. \A x \in new.pool : new.slot[x] = clear
    BY <1>1, <1>4, <1>6, <1>s DEF Placed, PlaceMatchesState
  <2>2. ASSUME NEW n \in Samples, new.active[n] # NoSlot
        PROVE  /\ new.active[n] = b.active[n] /\ b.active[n] # NoSlot
               /\ new.slot[new.active[n]] = b.slot[b.active[n]]
    BY <1>1, <1>4, <1>6, <1>s, <2>2 DEF Placed, Exclusive
  <2> QED
    BY <1>6, <1>r, <2>1, <2>2 DEF Placed, PlaceMatchesState
<1>9. StateTellsPlace(new)
  <2> SUFFICES ASSUME NEW x \in Slots
               PROVE  /\ new.slot[x].state # "Ready"
                      /\ new.slot[x].state = "Free" => new.slot[x] = clear
                      /\ new.slot[x].state \in {"New", "Assembling"} =>
                           new.slot[x].name \in Samples /\ new.active[new.slot[x].name] = x
    BY DEF StateTellsPlace
  <2>1. CASE x \in E
    BY <1>s, <2>1 DEF clear
  <2>2. CASE x \notin E
    <3>1. new.slot[x] = b.slot[x]
      BY <1>s, <2>2
    <3>2. ASSUME b.slot[x].state \in {"New", "Assembling"}
          PROVE  b.slot[x].name \in Samples /\ new.active[b.slot[x].name] = x
      BY <1>1, <1>4, <1>6, <2>2, <3>2 DEF Placed, StateTellsPlace
    <3> QED
      BY <3>1, <3>2 DEF Placed, StateTellsPlace
  <2> QED
    BY <2>1, <2>2
<1>10. QueuedLocked(new)
  BY <1>1, <1>6, <1>q DEF Placed, QueuedLocked, timestampOf
<1>11. Drops(b, new)
  <2>1. Lost(new) \subseteq Lost(b)
    <3> SUFFICES ASSUME NEW x \in Slots, x \notin Lost(b) PROVE x \notin Lost(new)
      BY DEF Lost
    <3>1. CASE x \in b.pool \/ x \in Entries(b.reserved, Samples)
      BY <1>6, <3>1 DEF Lost
    <3>2. CASE x \in Entries(b.active, Samples)
      <4>1. PICK m \in Samples : x # NoSlot /\ b.active[m] = x
        BY <3>2 DEF Entries
      <4>2. CASE m \in N
        BY <1>4, <1>6, <4>1, <4>2 DEF Lost
      <4>3. CASE m \notin N
        BY <1>6, <4>1, <4>3 DEF Lost, Entries
      <4> QED
        BY <4>2, <4>3
    <3> QED
      BY <3>1, <3>2 DEF Lost
  <2> QED
    BY <1>6, <1>s, <2>1 DEF Drops
<1>12. \A x \in Slots : b.slot[x].state = "Locked" => new.slot[x] = b.slot[x]
  BY <1>s, <1>e
<1> QED
  BY <1>6, <1>7, <1>8, <1>9, <1>10, <1>11, <1>12 DEF Placed, new, mid, E

(* releaseSlot(), of a slot that is no longer queued *)
LEMMA ReleasePlaced ==
  ASSUME NEW b, Placed(b), NEW n \in Samples, b.reserved[n] \notin b.queue
  PROVE  Placed(releaseSlot(b, n)) /\ Drops(b, releaseSlot(b, n))
         /\ releaseSlot(b, n).queue = b.queue /\ releaseSlot(b, n).active = b.active
         /\ \A x \in Slots : b.slot[x].name # n => releaseSlot(b, n).slot[x] = b.slot[x]
<1> DEFINE x == b.reserved[n]
           R == [b.reserved EXCEPT ![n] = NoSlot]
           mid == [b EXCEPT !.reserved = R]
           new == releaseSlot(b, n)
<1>1. /\ b \in BufferState
      /\ b.pool \in SUBSET Slots
      /\ b.active \in [Samples -> Slots \cup {NoSlot}]
      /\ b.reserved \in [Samples -> Slots \cup {NoSlot}]
      /\ b.slot \in [Slots -> BufferSlot]
      /\ b.queue \in SUBSET Slots
      /\ NoSlot \notin Slots
  BY BufferParts DEF Placed
<1>2. CASE x = NoSlot
  BY <1>2 DEF releaseSlot, Drops
<1>3. CASE x # NoSlot
  <2>1. R \in [Samples -> Slots \cup {NoSlot}] /\ x \in Slots /\ x \notin b.pool
    BY <1>1, <1>3 DEF Placed, Exclusive
  <2>2. /\ mid \in BufferState /\ mid.pool = b.pool /\ mid.active = b.active
        /\ mid.reserved = R /\ mid.slot = b.slot /\ mid.queue = b.queue
    BY <1>1, <2>1 DEF BufferState
  <2>3. new = poolPush(mid, {x})
    BY <1>3 DEF releaseSlot
  <2> HIDE DEF mid
  <2>4. {x} \in SUBSET Slots /\ {x} \cap mid.pool = {}
    BY <2>1, <2>2
  <2>5. /\ new \in BufferState
        /\ new.pool = b.pool \cup {x}
        /\ new.active = b.active
        /\ new.reserved = R
        /\ new.slot = [y \in Slots |-> IF y \in {x} THEN clear ELSE b.slot[y]]
        /\ new.queue = b.queue
    BY <2>2, <2>3, <2>4, PoolPush
  <2> HIDE DEF new
  <2>6. /\ \A m \in Samples :
             /\ b.active[m] # x
             /\ m # n => b.reserved[m] # x /\ R[m] = b.reserved[m]
        /\ R[n] = NoSlot /\ x # NoSlot /\ x = b.reserved[n] /\ x \notin b.queue
        /\ b.slot[x].state = "Locked" /\ b.slot[x].name = n
    BY <1>1, <1>3 DEF Placed, Exclusive, PlaceMatchesState
  <2> HIDE DEF R, x
  <2>7. Exclusive(new)
    BY <1>1, <2>1, <2>5, <2>6 DEF Placed, Exclusive
  <2>s. \A y \in Slots : new.slot[y] = IF y = x THEN clear ELSE b.slot[y]
    BY <2>5
  <2>8. PlaceMatchesState(new)
    <3>1. \A y \in new.pool : new.slot[y] = clear
      BY <1>1, <2>1, <2>5, <2>s DEF Placed, PlaceMatchesState
    <3>2. ASSUME NEW m \in Samples, new.active[m] # NoSlot
          PROVE  new.active[m] = b.active[m] /\ new.slot[new.active[m]] = b.slot[b.active[m]]
      BY <1>1, <2>5, <2>6, <2>s, <3>2
    <3>3. ASSUME NEW m \in Samples, new.reserved[m] # NoSlot
          PROVE  /\ new.reserved[m] = b.reserved[m]
                 /\ new.slot[new.reserved[m]] = b.slot[b.reserved[m]]
      BY <1>1, <2>5, <2>6, <2>s, <3>3
    <3> QED
      BY <3>1, <3>2, <3>3 DEF Placed, PlaceMatchesState
  <2>9. StateTellsPlace(new)
    <3> SUFFICES ASSUME NEW y \in Slots
                 PROVE  /\ new.slot[y].state # "Ready"
                        /\ new.slot[y].state = "Free" => new.slot[y] = clear
                        /\ new.slot[y].state \in {"New", "Assembling"} =>
                             new.slot[y].name \in Samples /\ new.active[new.slot[y].name] = y
      BY DEF StateTellsPlace
    <3>1. CASE y = x
      BY <2>s, <3>1 DEF clear
    <3>2. CASE y # x
      BY <2>s, <2>5, <3>2 DEF Placed, StateTellsPlace
    <3> QED
      BY <3>1, <3>2
  <2>10. QueuedLocked(new)
    BY <1>1, <2>5, <2>6, <2>s DEF Placed, QueuedLocked, timestampOf
  <2>11. Drops(b, new)
    <3>1. Lost(new) \subseteq Lost(b)
      BY <2>5, <2>6 DEF Lost, Entries
    <3> QED
      BY <2>5, <2>s, <3>1 DEF Drops
  <2>12. \A y \in Slots : b.slot[y].name # n => new.slot[y] = b.slot[y]
    BY <2>s, <2>6
  <2> QED
    BY <2>5, <2>7, <2>8, <2>9, <2>10, <2>11, <2>12 DEF Placed, new
<1> QED
  BY <1>2, <1>3

(* invalidatePrevious() *)
LEMMA InvalidatePlaced ==
  ASSUME NEW b, Placed(b), NEW n \in Samples
  PROVE  LET new == invalidatePrevious(b, n)
         IN  /\ Placed(new) /\ Drops(b, new) /\ new.reserved = b.reserved /\ new.queue = b.queue
             /\ \A x \in Slots : b.slot[x].state = "Locked" => new.slot[x] = b.slot[x]
             /\ \A m \in Earlier[n] : new.active[m] = NoSlot
<1> DEFINE N == Earlier[n]
           A == [m \in Samples |-> IF m \in N THEN NoSlot ELSE b.active[m]]
           new == poolPush([b EXCEPT !.active = A], Entries(b.active, N))
<1>1. N \in SUBSET Samples
  BY BufferAssumption
<1>2. invalidatePrevious(b, n) = new
  BY DEF invalidatePrevious
<1>3. A = [m \in Samples |-> IF m \in N THEN NoSlot ELSE b.active[m]]
  OBVIOUS
<1>n. \A m \in Earlier[n] : A[m] = NoSlot
  BY <1>1
<1> HIDE DEF N, A
<1>4. /\ Placed(new) /\ Drops(b, new) /\ new.reserved = b.reserved /\ new.queue = b.queue
      /\ new.active = A
      /\ \A x \in Slots : b.slot[x].state = "Locked" => new.slot[x] = b.slot[x]
  BY <1>1, <1>3, DropPlaced
<1> HIDE DEF new
<1> QED
  BY <1>2, <1>4, <1>n

(* reset() *)
LEMMA ResetPlaced ==
  ASSUME NEW b, Placed(b)
  PROVE  /\ Placed(reset(b)) /\ Lost(reset(b)) \subseteq Lost(b)
         /\ \A n \in Samples : reset(b).active[n] = NoSlot
<1> DEFINE A == [n \in Samples |-> NoSlot]
           new == poolPush([b EXCEPT !.active = A], Entries(b.active, Samples))
<1>1. A = [m \in Samples |-> IF m \in Samples THEN NoSlot ELSE b.active[m]]
  OBVIOUS
<1>2. reset(b) = new
  BY DEF reset
<1> HIDE DEF A
<1>3. Placed(new) /\ Drops(b, new) /\ new.active = A
  BY <1>1, DropPlaced
<1>4. \A n \in Samples : A[n] = NoSlot
  BY DEF A
<1> HIDE DEF new
<1> QED
  BY <1>2, <1>3, <1>4 DEF Drops

(* pop(): the slot released is filed under the name of the one played; it   *)
(* need not be the same one, but it is not queued.                          *)
LEMMA PopPlaced ==
  ASSUME NEW b, Placed(b), NEW x \in b.queue
  PROVE  /\ Placed(pop(b, x)) /\ Drops(b, pop(b, x))
         /\ \A y \in Slots : b.slot[y].state = "Locked" /\ b.slot[y].name # b.slot[x].name =>
              pop(b, x).slot[y] = b.slot[y]
         /\ b.slot[x].name \in Deltas => \A m \in Earlier[b.slot[x].name] : pop(b, x).active[m] = NoSlot
<1> DEFINE n == b.slot[x].name
           Q == b.queue \ {x}
           taken == [b EXCEPT !.queue = Q]
           mid == IF n \in Deltas THEN invalidatePrevious(taken, n) ELSE taken
<1>1. /\ b \in BufferState
      /\ b.pool \in SUBSET Slots
      /\ b.active \in [Samples -> Slots \cup {NoSlot}]
      /\ b.reserved \in [Samples -> Slots \cup {NoSlot}]
      /\ b.slot \in [Slots -> BufferSlot]
      /\ b.queue \in SUBSET Slots
      /\ NoSlot \notin Slots
  BY BufferParts DEF Placed
<1>2. n \in Samples
  BY DEF Placed, QueuedLocked
<1>3. /\ taken \in BufferState /\ taken.pool = b.pool /\ taken.active = b.active
      /\ taken.reserved = b.reserved /\ taken.slot = b.slot /\ taken.queue = Q
  BY <1>1 DEF BufferState
<1>4. pop(b, x) = releaseSlot(mid, n)
  BY DEF pop
<1>n. n = b.slot[x].name
  OBVIOUS
<1> HIDE DEF n, taken
<1>5. Placed(taken) /\ Drops(b, taken)
  BY <1>3 DEF Placed, Exclusive, PlaceMatchesState, StateTellsPlace, QueuedLocked, timestampOf, Drops, Lost
<1>6. /\ Placed(mid) /\ Drops(taken, mid) /\ mid.reserved = b.reserved /\ mid.queue = Q
      /\ \A y \in Slots : b.slot[y].state = "Locked" => mid.slot[y] = b.slot[y]
      /\ n \in Deltas => \A m \in Earlier[n] : mid.active[m] = NoSlot
  <2>1. CASE n \in Deltas
    BY <1>2, <1>3, <1>5, <2>1, InvalidatePlaced
  <2>2. CASE n \notin Deltas
    BY <1>3, <1>5, <2>2 DEF Drops
  <2> QED
    BY <2>1, <2>2
<1>7. b.reserved[n] \notin Q
  <2> SUFFICES ASSUME b.reserved[n] \in Q PROVE FALSE
    OBVIOUS
  <2>1. b.slot[b.reserved[n]].name = n
    BY <1>1, <1>2 DEF Placed, PlaceMatchesState
  <2>2. b.reserved[n] \in b.queue /\ b.reserved[n] # x
    OBVIOUS
  <2> QED
    BY <1>n, <2>1, <2>2 DEF Placed, QueuedLocked, timestampOf
<1> HIDE DEF mid
<1>8. /\ Placed(releaseSlot(mid, n)) /\ Drops(mid, releaseSlot(mid, n))
      /\ releaseSlot(mid, n).active = mid.active
      /\ \A y \in Slots : mid.slot[y].name # n => releaseSlot(mid, n).slot[y] = mid.slot[y]
  BY <1>2, <1>6, <1>7, ReleasePlaced
<1>9. Drops(b, pop(b, x))
  BY <1>4, <1>5, <1>6, <1>8 DEF Drops
<1>10. \A y \in Slots : b.slot[y].state = "Locked" /\ b.slot[y].name # n => pop(b, x).slot[y] = b.slot[y]
  BY <1>4, <1>6, <1>8
<1>11. n \in Deltas => \A m \in Earlier[n] : pop(b, x).active[m] = NoSlot
  BY <1>4, <1>6, <1>8
<1> QED
  BY <1>4, <1>8, <1>9, <1>10, <1>11, <1>n

(* requested() *)
LEMMA RequestedPlaced ==
  ASSUME NEW b, Placed(b), NEW n \in Samples, NEW segs \in SUBSET Segments
  PROVE  LET new == requested(b, n, segs)
         IN  /\ Placed(new)
             /\ \A m \in Samples : m # n => new.active[m] = b.active[m]
             /\ b.active[n] # NoSlot => new.active[n] = b.active[n]
             /\ Lost(new) \subseteq Lost(b) /\ new.queue = b.queue
             /\ \A y \in Slots : y = new.active[n] \/ new.slot[y] = b.slot[y]
             /\ \A seg : Settled(b, n, seg) /\ seg \notin segs => Settled(new, n, seg)
<1> DEFINE x == IF isRequested(b, n) THEN b.active[n] ELSE poolPop(b)
           s == segmentsRequested(b.slot[x], n, segs)
           P == b.pool \ {x}
           A == [b.active EXCEPT ![n] = x]
           D == [b.slot EXCEPT ![x] = s]
           new == requested(b, n, segs)
<1>1. /\ b \in BufferState
      /\ b.pool \in SUBSET Slots
      /\ b.active \in [Samples -> Slots \cup {NoSlot}]
      /\ b.reserved \in [Samples -> Slots \cup {NoSlot}]
      /\ b.slot \in [Slots -> BufferSlot]
      /\ b.queue \in SUBSET Slots
      /\ NoSlot \notin Slots
  BY BufferParts DEF Placed
<1>2. CASE requestedFails(b, n)
  BY <1>2 DEF requested, Settled
<1>3. CASE ~requestedFails(b, n)
  <2>1. \/ b.active[n] = x /\ x \in Slots /\ x \notin b.pool
        \/ b.active[n] = NoSlot /\ x \in b.pool
    BY <1>1, <1>3 DEF requestedFails, isRequested, poolPop, Placed, Exclusive
  <2>2. x \in Slots
    BY <1>1, <2>1
  <2>3. /\ \A m \in Samples : b.reserved[m] # x /\ (m # n => b.active[m] # x)
        /\ x # NoSlot
    BY <1>1, <2>1, <2>2 DEF Placed, Exclusive
  <2>4. new = [b EXCEPT !.pool = P, !.active = A, !.slot = D]
    BY <1>3 DEF requested
  <2> HIDE DEF x
  <2>5. b.slot[x] \in BufferSlot /\ b.slot[x].state \in {"Free", "New", "Assembling"}
    BY <1>1, <2>1, <2>2, <2>3 DEF Placed, PlaceMatchesState, clear
  <2>6. s \in BufferSlot /\ s.state \in {"New", "Assembling"} /\ s.name = n
    BY <2>5 DEF segmentsRequested, BufferSlot, SlotStates
  <2>f. s.fetched = b.slot[x].fetched /\ s.requested = b.slot[x].requested \cup segs
    BY <2>5 DEF segmentsRequested, BufferSlot
  <2> HIDE DEF s
  <2>7. /\ P \in SUBSET Slots
        /\ A \in [Samples -> Slots \cup {NoSlot}]
        /\ D \in [Slots -> BufferSlot]
        /\ \A m \in Samples : A[m] = IF m = n THEN x ELSE b.active[m]
        /\ \A y \in Slots : D[y] = IF y = x THEN s ELSE b.slot[y]
    BY <1>1, <2>2, <2>6
  <2>8. \A y : y \in P <=> y \in b.pool /\ y # x
    OBVIOUS
  <2> HIDE DEF P, A, D
  <2>9. /\ new \in BufferState /\ new.pool = P /\ new.active = A
        /\ new.reserved = b.reserved /\ new.slot = D /\ new.queue = b.queue
    BY <1>1, <2>4, <2>7 DEF BufferState
  <2> HIDE DEF new
  <2>10. Exclusive(new)
    BY <1>1, <2>1, <2>3, <2>7, <2>8, <2>9 DEF Placed, Exclusive
  <2>11. PlaceMatchesState(new)
    <3>1. \A y \in new.pool : new.slot[y] = clear
      BY <1>1, <2>7, <2>8, <2>9 DEF Placed, PlaceMatchesState
    <3>2. ASSUME NEW m \in Samples, new.active[m] # NoSlot
          PROVE  /\ new.slot[new.active[m]].state \in {"New", "Assembling"}
                 /\ new.slot[new.active[m]].name = m
      <4>1. CASE m = n
        BY <2>2, <2>6, <2>7, <2>9, <4>1
      <4>2. CASE m # n
        <5>1. new.active[m] = b.active[m] /\ b.active[m] \in Slots /\ b.active[m] # x
          BY <1>1, <2>3, <2>7, <2>9, <3>2, <4>2
        <5>2. new.slot[new.active[m]] = b.slot[b.active[m]]
          BY <2>7, <2>9, <5>1
        <5> QED
          BY <1>1, <5>1, <5>2 DEF Placed, PlaceMatchesState
      <4> QED
        BY <4>1, <4>2
    <3>3. ASSUME NEW m \in Samples, new.reserved[m] # NoSlot
          PROVE  new.slot[new.reserved[m]] = b.slot[b.reserved[m]]
      BY <1>1, <2>3, <2>7, <2>9, <3>3
    <3> QED
      BY <2>9, <3>1, <3>2, <3>3 DEF Placed, PlaceMatchesState
  <2>12. StateTellsPlace(new)
    <3> SUFFICES ASSUME NEW y \in Slots
                 PROVE  /\ new.slot[y].state # "Ready"
                        /\ new.slot[y].state = "Free" => new.slot[y] = clear
                        /\ new.slot[y].state \in {"New", "Assembling"} =>
                             new.slot[y].name \in Samples /\ new.active[new.slot[y].name] = y
      BY DEF StateTellsPlace
    <3>1. CASE y = x
      BY <2>6, <2>7, <2>9, <3>1
    <3>2. CASE y # x
      <4>1. new.slot[y] = b.slot[y]
        BY <2>7, <2>9, <3>2
      <4>2. ASSUME b.slot[y].state \in {"New", "Assembling"}
            PROVE  b.slot[y].name \in Samples /\ new.active[b.slot[y].name] = y
        <5>1. b.slot[y].name \in Samples /\ b.active[b.slot[y].name] = y
          BY <4>2 DEF Placed, StateTellsPlace
        <5>2. b.slot[y].name # n
          BY <1>1, <2>1, <3>2, <5>1
        <5> QED
          BY <2>7, <2>9, <5>1, <5>2
      <4> QED
        BY <4>1, <4>2 DEF Placed, StateTellsPlace
    <3> QED
      BY <3>1, <3>2
  <2>13. QueuedLocked(new)
    <3>1. x \notin b.queue
      BY <2>5 DEF Placed, QueuedLocked
    <3> QED
      BY <1>1, <2>7, <2>9, <3>1 DEF Placed, QueuedLocked, timestampOf
  <2>14. /\ \A m \in Samples : m # n => new.active[m] = b.active[m]
         /\ b.active[n] # NoSlot => new.active[n] = b.active[n]
         /\ \A y \in Slots : y = new.active[n] \/ new.slot[y] = b.slot[y]
    BY <1>1, <2>1, <2>7, <2>9
  <2>15. Lost(new) \subseteq Lost(b)
    <3> SUFFICES ASSUME NEW y \in Slots, y \notin Lost(b) PROVE y \notin Lost(new)
      BY DEF Lost
    <3>1. CASE y = x
      BY <2>3, <2>7, <2>9, <3>1 DEF Lost, Entries
    <3>2. CASE y # x /\ y \in b.pool \cup Entries(b.reserved, Samples)
      BY <2>8, <2>9, <3>2 DEF Lost
    <3>3. CASE y # x /\ y \in Entries(b.active, Samples)
      <4>1. PICK m \in Samples : y # NoSlot /\ b.active[m] = y
        BY <3>3 DEF Entries
      <4>2. m # n
        BY <1>1, <2>1, <3>3, <4>1
      <4>3. new.active[m] = y
        BY <2>7, <2>9, <4>1, <4>2
      <4> QED
        BY <4>1, <4>3 DEF Lost, Entries
    <3> QED
      BY <3>1, <3>2, <3>3 DEF Lost
  <2>16. ASSUME NEW seg, Settled(b, n, seg), seg \notin segs PROVE Settled(new, n, seg)
    <3>1. new.active[n] = x /\ new.slot[x] = s
      BY <2>2, <2>7, <2>9
    <3>2. CASE b.active[n] = x
      BY <1>1, <2>2, <2>f, <2>16, <3>1, <3>2 DEF Settled
    <3>3. CASE x \in b.pool
      <4>1. b.slot[x] = clear
        BY <3>3 DEF Placed, PlaceMatchesState
      <4> QED
        BY <2>f, <2>16, <3>1, <4>1 DEF Settled, clear
    <3> QED
      BY <2>1, <3>2, <3>3
  <2> QED
    BY <2>9, <2>10, <2>11, <2>12, <2>13, <2>14, <2>15, <2>16 DEF Placed, new
<1> QED
  BY <1>2, <1>3

(* received(): a sample stays active or, once ready, is locked; the slot it *)
(* was locked in before, if any, is lost.                                   *)
LEMMA ReceivedPlaced ==
  ASSUME NEW b, Placed(b), NEW n \in Samples, isRequested(b, n), NEW seg \in Segments
  PROVE  LET x == b.active[n]
             new == received(b, n, seg)
         IN  /\ Placed(new)
             /\ \A m \in Samples : new.active[m] \in {NoSlot, b.active[m]}
             /\ new.slot[x].name = n /\ (new.active[n] = x \/ new.slot[x].state = "Locked")
             /\ new.slot[x].requested = b.slot[x].requested
             /\ Lost(new) \subseteq Lost(b) \cup {b.reserved[n]}
             /\ seg \in b.slot[x].fetched => Lost(new) \subseteq Lost(b)
             /\ Coming(new) \subseteq Coming(b) /\ Settled(new, n, seg)
             /\ LET s == segmentReceived(b.slot[x], seg)
                IN s.state = "Ready" /\ hasHeader(s) =>
                     /\ new.slot[x].state = "Locked"
                     /\ \E y \in new.queue : timestampOf(new, y) = Timestamp[n]
<1> DEFINE x == b.active[n]
           s == segmentReceived(b.slot[x], seg)
           D == [b.slot EXCEPT ![x] = s]
           mid == [b EXCEPT !.slot = D]
           new == received(b, n, seg)
<1>1. /\ b \in BufferState
      /\ b.pool \in SUBSET Slots
      /\ b.active \in [Samples -> Slots \cup {NoSlot}]
      /\ b.reserved \in [Samples -> Slots \cup {NoSlot}]
      /\ b.slot \in [Slots -> BufferSlot]
      /\ b.queue \in SUBSET Slots
      /\ NoSlot \notin Slots
  BY BufferParts DEF Placed
<1>2. /\ x \in Slots /\ x # NoSlot /\ x \notin b.pool
      /\ \A m \in Samples : b.reserved[m] # x /\ (m # n => b.active[m] # x)
      /\ x = b.active[n]
  BY <1>1 DEF isRequested, Placed, Exclusive
<1>b. /\ b.slot[x] \in BufferSlot /\ b.slot[x].name = n
      /\ b.slot[x].state \in {"New", "Assembling"}
  BY <1>1, <1>2 DEF Placed, PlaceMatchesState
<1>3. s \in BufferSlot /\ s.name = n /\ s.state \in {"New", "Assembling", "Ready"}
  BY <1>b, SegmentReceivedType
<1>f. /\ s.requested = b.slot[x].requested /\ seg \in s.fetched
      /\ seg \in b.slot[x].fetched => s = b.slot[x]
  BY <1>b DEF segmentReceived, updateConsistencyState, BufferSlot
<1>4. new = onNewData(mid, n)
  BY DEF received
<1>q. x \notin b.queue
  BY <1>b DEF Placed, QueuedLocked
<1> HIDE DEF x, s, new
<1>5. /\ D \in [Slots -> BufferSlot]
      /\ \A y \in Slots : D[y] = IF y = x THEN s ELSE b.slot[y]
  BY <1>1, <1>2, <1>3
<1> HIDE DEF D
<1>6. /\ mid \in BufferState /\ mid.pool = b.pool /\ mid.active = b.active
      /\ mid.reserved = b.reserved /\ mid.slot = D /\ mid.queue = b.queue
  BY <1>1, <1>5 DEF BufferState
<1> HIDE DEF mid
<1>7. CASE s.state # "Ready"
  <2>1. new = mid
    BY <1>2, <1>4, <1>5, <1>6, <1>7 DEF onNewData
  <2>2. PlaceMatchesState(mid)
    <3>1. \A y \in mid.pool : mid.slot[y] = clear
      BY <1>1, <1>2, <1>5, <1>6 DEF Placed, PlaceMatchesState
    <3>2. ASSUME NEW m \in Samples, mid.active[m] # NoSlot
          PROVE  /\ mid.slot[mid.active[m]].state \in {"New", "Assembling"}
                 /\ mid.slot[mid.active[m]].name = m
      <4>1. CASE m = n
        BY <1>2, <1>3, <1>5, <1>6, <1>7, <4>1
      <4>2. CASE m # n
        <5>1. b.active[m] \in Slots /\ b.active[m] # x
          BY <1>1, <1>2, <1>6, <3>2, <4>2
        <5> QED
          BY <1>1, <1>5, <1>6, <5>1 DEF Placed, PlaceMatchesState
      <4> QED
        BY <4>1, <4>2
    <3>3. ASSUME NEW m \in Samples, mid.reserved[m] # NoSlot
          PROVE  mid.slot[mid.reserved[m]] = b.slot[b.reserved[m]]
      BY <1>1, <1>2, <1>5, <1>6, <3>3
    <3> QED
      BY <1>6, <3>1, <3>2, <3>3 DEF Placed, PlaceMatchesState
  <2>3. Exclusive(mid)
    BY <1>6 DEF Placed, Exclusive
  <2>4. StateTellsPlace(mid)
    BY <1>2, <1>3, <1>5, <1>6, <1>7 DEF Placed, StateTellsPlace
  <2>5. QueuedLocked(mid)
    BY <1>1, <1>q, <1>5, <1>6 DEF Placed, QueuedLocked, timestampOf
  <2>6. mid.slot[x].name = n /\ mid.active[n] = x /\ mid.slot[x] = s
    BY <1>2, <1>3, <1>5, <1>6
  <2>7. Lost(mid) = Lost(b)
    BY <1>6 DEF Lost
  <2>8. Coming(mid) \subseteq Coming(b) /\ Settled(mid, n, seg)
    <3>1. \A y \in mid.queue : y \in b.queue /\ mid.slot[y] = b.slot[y]
      BY <1>1, <1>q, <1>5, <1>6
    <3> QED
      BY <1>f, <1>6, <2>6, <3>1 DEF Coming, Settled
  <2> QED
    BY <1>2, <1>f, <1>6, <1>7, <2>1, <2>2, <2>3, <2>4, <2>5, <2>6, <2>7, <2>8 DEF Placed, new, x, s
<1>8. CASE s.state = "Ready"
  <2> DEFINE t == [s EXCEPT !.state = "Locked"]
             F == [D EXCEPT ![x] = t]
             A == [b.active EXCEPT ![n] = NoSlot]
             R == [b.reserved EXCEPT ![n] = x]
             res == [mid EXCEPT !.reserved = R, !.active = A, !.slot = F]
  <2>1. t \in BufferSlot /\ t.state = "Locked" /\ t.name = n /\ t.requested = b.slot[x].requested
    BY <1>3, <1>f DEF BufferSlot, SlotStates
  <2>2. D[x] = s /\ mid.active[n] = x
    BY <1>2, <1>5, <1>6
  <2>3. reserveSlot(mid, n) = res
    BY <1>6, <2>2 DEF reserveSlot
  <2> HIDE DEF t
  <2>4. /\ F \in [Slots -> BufferSlot]
        /\ \A y \in Slots : F[y] = IF y = x THEN t ELSE b.slot[y]
    BY <1>2, <1>5, <2>1
  <2>5. /\ A \in [Samples -> Slots \cup {NoSlot}]
        /\ R \in [Samples -> Slots \cup {NoSlot}]
        /\ \A m \in Samples : A[m] = IF m = n THEN NoSlot ELSE b.active[m]
        /\ \A m \in Samples : R[m] = IF m = n THEN x ELSE b.reserved[m]
    BY <1>1, <1>2
  <2> HIDE DEF F, A, R
  <2>6. /\ res \in BufferState /\ res.pool = b.pool /\ res.active = A
        /\ res.reserved = R /\ res.slot = F /\ res.queue = b.queue
    BY <1>6, <2>4, <2>5 DEF BufferState
  <2> HIDE DEF res
  <2>7. /\ new \in BufferState /\ new.pool = b.pool /\ new.active = A
        /\ new.reserved = R /\ new.slot = F
        /\ \/ new.queue = b.queue
           \/ new.queue = b.queue \cup {x} /\ \A y \in b.queue : timestampOf(res, y) # timestampOf(res, x)
        /\ hasHeader(s) => \/ x \in new.queue
                           \/ \E y \in b.queue : y \in new.queue /\ timestampOf(res, y) = timestampOf(res, x)
    <3>1. \/ /\ new = [res EXCEPT !.queue = b.queue \cup {x}]
             /\ \A y \in b.queue : timestampOf(res, y) # timestampOf(res, x)
          \/ new = res /\ (hasHeader(s) => \E y \in b.queue : timestampOf(res, y) = timestampOf(res, x))
      BY <1>4, <1>6, <1>8, <2>2, <2>3, <2>6 DEF onNewData, queueInsert
    <3>2. b.queue \cup {x} \in SUBSET Slots
      BY <1>1, <1>2
    <3> QED
      BY <2>6, <3>1, <3>2 DEF BufferState
  <2>8. Exclusive(new)
    BY <1>1, <1>2, <2>5, <2>7 DEF Placed, Exclusive
  <2>9. PlaceMatchesState(new)
    <3>1. \A y \in new.pool : new.slot[y] = clear
      BY <1>1, <1>2, <2>4, <2>7 DEF Placed, PlaceMatchesState
    <3>2. ASSUME NEW m \in Samples, new.active[m] # NoSlot
          PROVE  /\ new.active[m] = b.active[m]
                 /\ new.slot[new.active[m]] = b.slot[b.active[m]]
      BY <1>1, <1>2, <2>4, <2>5, <2>7, <3>2
    <3>3. ASSUME NEW m \in Samples, new.reserved[m] # NoSlot
          PROVE  new.slot[new.reserved[m]].state = "Locked" /\ new.slot[new.reserved[m]].name = m
      <4>1. CASE m = n
        BY <1>2, <2>1, <2>4, <2>5, <2>7, <4>1
      <4>2. CASE m # n
        <5>1. new.reserved[m] = b.reserved[m] /\ b.reserved[m] \in Slots /\ b.reserved[m] # x
          BY <1>1, <1>2, <2>5, <2>7, <3>3, <4>2
        <5> QED
          BY <1>1, <2>4, <2>7, <5>1 DEF Placed, PlaceMatchesState
      <4> QED
        BY <4>1, <4>2
    <3> QED
      BY <3>1, <3>2, <3>3 DEF Placed, PlaceMatchesState
  <2>10. StateTellsPlace(new)
    <3> SUFFICES ASSUME NEW y \in Slots
                 PROVE  /\ new.slot[y].state # "Ready"
                        /\ new.slot[y].state = "Free" => new.slot[y] = clear
                        /\ new.slot[y].state \in {"New", "Assembling"} =>
                             new.slot[y].name \in Samples /\ new.active[new.slot[y].name] = y
      BY DEF StateTellsPlace
    <3>1. CASE y = x
      BY <2>1, <2>4, <2>7, <3>1
    <3>2. CASE y # x
      <4>1. new.slot[y] = b.slot[y]
        BY <2>4, <2>7, <3>2
      <4>2. ASSUME b.slot[y].state \in {"New", "Assembling"}
            PROVE  b.slot[y].name \in Samples /\ new.active[b.slot[y].name] = y
        <5>1. b.slot[y].name \in Samples /\ b.active[b.slot[y].name] = y
          BY <4>2 DEF Placed, StateTellsPlace
        <5>2. b.slot[y].name # n
          BY <1>2, <3>2, <5>1
        <5> QED
          BY <2>5, <2>7, <5>1, <5>2
      <4> QED
        BY <4>1, <4>2 DEF Placed, StateTellsPlace
    <3> QED
      BY <3>1, <3>2
  <2>11. QueuedLocked(new)
    <3>1. \A y \in b.queue : new.slot[y] = b.slot[y] /\ res.slot[y] = b.slot[y]
      BY <1>1, <1>q, <2>4, <2>6, <2>7
    <3>2. new.slot[x].state = "Locked" /\ new.slot[x].name = n /\ res.slot[x] = new.slot[x]
      BY <1>2, <2>1, <2>4, <2>6, <2>7
    <3> QED
      BY <2>7, <3>1, <3>2 DEF Placed, QueuedLocked, timestampOf
  <2>12. /\ \A m \in Samples : new.active[m] \in {NoSlot, b.active[m]}
         /\ new.slot[x].name = n /\ new.slot[x].state = "Locked"
         /\ new.slot[x].requested = b.slot[x].requested
         /\ new.active[n] = NoSlot
    BY <1>2, <2>1, <2>4, <2>5, <2>7
  <2>13. Lost(new) \subseteq Lost(b) \cup {b.reserved[n]}
    <3> SUFFICES ASSUME NEW y \in Slots, y \notin Lost(b), y # b.reserved[n] PROVE y \notin Lost(new)
      BY DEF Lost
    <3>1. CASE y = x
      BY <1>2, <2>5, <2>7, <3>1 DEF Lost, Entries
    <3>2. CASE y # x /\ y \in b.pool
      BY <2>7, <3>2 DEF Lost
    <3>3. CASE y # x /\ y \in Entries(b.reserved, Samples)
      BY <2>5, <2>7, <3>3 DEF Lost, Entries
    <3>4. CASE y # x /\ y \in Entries(b.active, Samples)
      BY <1>2, <2>5, <2>7, <3>4 DEF Lost, Entries
    <3> QED
      BY <3>1, <3>2, <3>3, <3>4 DEF Lost
  <2>14. seg \notin b.slot[x].fetched
    BY <1>b, <1>f, <1>8
  <2>15. Coming(new) \subseteq Coming(b)
    <3>1. \A y \in new.queue : y = x \/ (y \in b.queue /\ new.slot[y] = b.slot[y])
      BY <1>1, <1>q, <2>4, <2>7
    <3>2. \A m \in Samples : new.active[m] # NoSlot => b.active[m] # NoSlot
      BY <2>12
    <3> QED
      BY <1>2, <2>12, <3>1, <3>2 DEF Coming
  <2>16. hasHeader(s) => \E y \in new.queue : timestampOf(new, y) = Timestamp[n]
    <3>1. \A y \in Slots : timestampOf(new, y) = timestampOf(res, y)
      BY <2>6, <2>7 DEF timestampOf
    <3>2. timestampOf(new, x) = Timestamp[n]
      BY <2>12 DEF timestampOf
    <3> QED
      BY <1>1, <1>2, <2>7, <3>1, <3>2
  <2>17. Settled(new, n, seg)
    BY <2>12 DEF Settled
  <2> QED
    BY <2>7, <2>8, <2>9, <2>10, <2>11, <2>12, <2>13, <2>14, <2>15, <2>16, <2>17 DEF Placed, new, x, s
<1> QED
  BY <1>7, <1>8

(* The empty buffer *)
LEMMA PlacedInit == BufferInit => Placed(buf)
<1> SUFFICES ASSUME BufferInit PROVE Placed(buf)
  OBVIOUS
<1>1. BInv(buf)
  BY InitKeeps
<1>2. /\ buf.queue = {} /\ \A x \in Slots : buf.slot[x] = clear
  BY DEF BufferInit
<1>3. StateTellsPlace(buf) /\ QueuedLocked(buf)
  BY <1>2 DEF StateTellsPlace, QueuedLocked, clear
<1> QED
  BY <1>1, <1>3 DEF BInv, Placed

(* Names are listed once, each under its class. *)
LEMMA Named ==
  /\ IsFiniteSet(Samples)
  /\ \A c \in Class, i \in Nat \ {0} : i <= Len(NamesOf(c)) =>
       NamesOf(c)[i] \in Samples /\ classOf(NamesOf(c)[i]) = c /\ SeqNo(NamesOf(c)[i]) = i
  /\ \A n \in Samples : classOf(n) \in Class /\ SeqNo(n) \in Nat
  /\ \A c \in Class : Len(NamesOf(c)) \in Nat
  /\ \A m, n \in Samples : classOf(m) = classOf(n) /\ SeqNo(m) = SeqNo(n) => m = n
<1>1. /\ DeltaNames \in Seq(Deltas) /\ KeyNames \in Seq(Samples \ Deltas)
      /\ Samples = Range(DeltaNames) \cup Range(KeyNames)
      /\ IsInjective(DeltaNames) /\ IsInjective(KeyNames) /\ Deltas \subseteq Samples
  BY LiveFetchAssumption, BufferAssumption
<1>2. ASSUME NEW T, NEW s \in Seq(T) PROVE IsFiniteSet(Range(s))
  <2>1. s \in Surjection(1..Len(s), Range(s)) /\ Len(s) \in Nat
    BY DEF Surjection, Range
  <2>2. IsFiniteSet(1..Len(s))
    BY <2>1, FS_Interval
  <2> QED
    BY <2>1, <2>2, FS_Surjection
<1>3. IsFiniteSet(Samples)
  <2>1. IsFiniteSet(Range(DeltaNames)) /\ IsFiniteSet(Range(KeyNames))
    BY <1>1, <1>2
  <2> QED
    BY <1>1, <2>1, FS_Union
<1>4. ASSUME NEW c \in Class
      PROVE  /\ Len(NamesOf(c)) \in Nat /\ DOMAIN NamesOf(c) = 1..Len(NamesOf(c))
             /\ \A i \in DOMAIN NamesOf(c) : NamesOf(c)[i] \in Samples /\ classOf(NamesOf(c)[i]) = c
             /\ \A i, j \in DOMAIN NamesOf(c) : NamesOf(c)[i] = NamesOf(c)[j] => i = j
  BY <1>1 DEF NamesOf, classOf, Class, IsInjective
<1>5. \A n \in Samples : classOf(n) \in Class /\ \E i \in DOMAIN NamesOf(classOf(n)) : NamesOf(classOf(n))[i] = n
  <2> SUFFICES ASSUME NEW n \in Samples
               PROVE  classOf(n) \in Class /\ \E i \in DOMAIN NamesOf(classOf(n)) : NamesOf(classOf(n))[i] = n
    OBVIOUS
  <2>1. Range(DeltaNames) \subseteq Deltas
    BY <1>1 DEF Range
  <2>2. Range(KeyNames) \cap Deltas = {}
    BY <1>1 DEF Range
  <2>3. CASE n \in Deltas
    BY <1>1, <2>2, <2>3 DEF classOf, NamesOf, Class, Range
  <2>4. CASE n \notin Deltas
    BY <1>1, <2>1, <2>4 DEF classOf, NamesOf, Class, Range
  <2> QED
    BY <2>3, <2>4
<1>6. \A n \in Samples : /\ SeqNo(n) \in DOMAIN NamesOf(classOf(n)) /\ NamesOf(classOf(n))[SeqNo(n)] = n
  BY <1>5 DEF SeqNo
<1>7. ASSUME NEW c \in Class, NEW i \in Nat \ {0}, i <= Len(NamesOf(c))
      PROVE  NamesOf(c)[i] \in Samples /\ classOf(NamesOf(c)[i]) = c /\ SeqNo(NamesOf(c)[i]) = i
  <2>1. i \in DOMAIN NamesOf(c)
    BY <1>4, <1>7
  <2> QED
    BY <1>4, <1>6, <2>1
<1>8. \A n \in Samples : SeqNo(n) \in Nat
  BY <1>4, <1>5, <1>6
<1>9. \A m, n \in Samples : classOf(m) = classOf(n) /\ SeqNo(m) = SeqNo(n) => m = n
  BY <1>6
<1> QED
  BY <1>3, <1>4, <1>5, <1>7, <1>8, <1>9

(* Delta frames are in order of time. *)
LEMMA DeltasInOrder ==
  ASSUME NEW m \in Deltas, NEW n \in Deltas
  PROVE  /\ Timestamp[m] \in Int /\ Timestamp[n] \in Int /\ m \in Samples /\ n \in Samples
         /\ SeqNo(m) \in Nat /\ SeqNo(n) \in Nat /\ classOf(m) = "Delta" /\ classOf(n) = "Delta"
         /\ Timestamp[m] <= Timestamp[n] <=> SeqNo(m) <= SeqNo(n)
         /\ m \notin Earlier[n] => Timestamp[n] <= Timestamp[m]
         /\ Timestamp[m] = Timestamp[n] => m = n
<1>1. /\ Timestamp[m] \in Int /\ Timestamp[n] \in Int /\ m \in Samples /\ n \in Samples
      /\ classOf(m) = "Delta" /\ classOf(n) = "Delta"
  BY BufferAssumption DEF classOf
<1>2. SeqNo(m) \in Nat /\ SeqNo(n) \in Nat /\ (SeqNo(m) = SeqNo(n) => m = n)
  BY <1>1, Named
<1>3. /\ SeqNo(m) < SeqNo(n) => m \in Earlier[n] /\ Timestamp[m] < Timestamp[n]
      /\ SeqNo(n) < SeqNo(m) => Timestamp[n] < Timestamp[m]
  BY PublishedInOrder
<1> QED
  BY <1>1, <1>2, <1>3

(* What is left alone when Interests go out *)
Continues(w, v) ==
  /\ v.metaPending = w.metaPending /\ v.seqCounter = w.seqCounter /\ v.need = w.need
  /\ v.pipeline = w.pipeline /\ v.state = w.state /\ v.bootstrap = w.bootstrap
  /\ v.allowed = w.allowed /\ v.playing = w.playing /\ v.lastDelta = w.lastDelta

(* Pipeliner::request *)
LEMMA Sends ==
  ASSUME NEW w \in Consumer, NEW copies \in [Interests -> Nat]
  PROVE  LET v == send(w, copies)
         IN v \in Consumer /\ Continues(w, v) /\ v.buf = w.buf /\ v.tracked = w.tracked /\ v.fault = w.fault
<1> DEFINE p == [i \in Interests |-> Min({MaxCopies, w.pit[i] + copies[i]})]
           v == [w EXCEPT !.pit = p]
<1>1. MaxCopies \in Nat /\ w.pit \in [Interests -> 0 .. MaxCopies]
  BY LiveFetchAssumption DEF Consumer
<1>2. \A a, b \in Nat : Min({a, b}) \in 0 .. a
  BY DEF Min
<1>3. p \in [Interests -> 0 .. MaxCopies]
  BY <1>1, <1>2
<1>4. send(w, copies) = v
  BY DEF send
<1> HIDE DEF p
<1>5. v \in Consumer /\ Continues(w, v) /\ v.buf = w.buf /\ v.tracked = w.tracked /\ v.fault = w.fault
  BY <1>3 DEF Consumer, Continues
<1> QED
  BY <1>4, <1>5

(* Pipeliner::express *)
LEMMA Expresses ==
  ASSUME NEW w \in Consumer, NEW n, NEW segs
  PROVE  LET v == express(w, n, segs)
         IN v \in Consumer /\ Continues(w, v) /\ v.buf = w.buf /\ v.tracked = w.tracked /\ v.fault = w.fault
<1>1. [i \in Interests |-> IF i[1] = n /\ i[2] \in segs THEN 1 ELSE 0] \in [Interests -> Nat]
  OBVIOUS
<1> QED
  BY <1>1, Sends DEF express

(* checkRetransmissions(): entries are erased, and no sample that is not    *)
(* active is asked for again.                                               *)
LEMMA Retransmits ==
  ASSUME NEW w \in Consumer, Placed(w.buf), NEW due
  PROVE  LET v == checkRetransmissions(w, due)
         IN  /\ v \in Consumer /\ Continues(w, v) /\ v.buf = w.buf /\ v.fault = w.fault
             /\ \A n \in Samples :
                  /\ v.tracked[n] \in {NoSlot, w.tracked[n]}
                  /\ w.tracked[n] # NoSlot /\ ~isOpen(w.buf.slot[w.tracked[n]]) => v.tracked[n] = NoSlot
<1> DEFINE slotOf(n) == w.buf.slot[w.tracked[n]]
           entries == {n \in Samples : w.tracked[n] # NoSlot}
           open == {n \in entries : isOpen(slotOf(n))}
           resent == open \cap due
           copies == [i \in Interests |->
                   Cardinality({n \in resent : /\ slotOf(n).name = i[1]
                                               /\ i[2] \in getPendingInterests(slotOf(n))})]
           t == [n \in Samples |-> IF n \in open \ due THEN w.tracked[n] ELSE NoSlot]
           rest == [w EXCEPT !.tracked = t]
           v == checkRetransmissions(w, due)
<1>1. /\ w.tracked \in [Samples -> Slots \cup {NoSlot}] /\ w.buf \in BufferState
      /\ NoSlot \notin Slots
  BY BufferAssumption DEF Consumer
<1>2. copies \in [Interests -> Nat]
  <2>1. IsFiniteSet(resent)
    BY Named, FS_Subset
  <2>2. \A i \in Interests : copies[i] \in Nat
    <3> SUFFICES ASSUME NEW i \in Interests PROVE copies[i] \in Nat
      OBVIOUS
    <3> DEFINE S == {n \in resent : /\ slotOf(n).name = i[1] /\ i[2] \in getPendingInterests(slotOf(n))}
    <3>1. S \subseteq resent /\ copies[i] = Cardinality(S)
      OBVIOUS
    <3> HIDE DEF S, copies, resent
    <3> QED
      BY <2>1, <3>1, FS_Subset, FS_CardinalityType
  <2> QED
    BY <2>2
<1>3. ASSUME NEW n \in resent PROVE isRequested(w.buf, slotOf(n).name)
  <2>1. w.tracked[n] \in Slots /\ isOpen(slotOf(n))
    BY <1>1
  <2>2. w.buf.active[slotOf(n).name] = w.tracked[n]
    BY <2>1 DEF Placed, StateTellsPlace, isOpen
  <2> QED
    BY <1>1, <2>1, <2>2 DEF isRequested
<1>4. t \in [Samples -> Slots \cup {NoSlot}]
  BY <1>1
<1>5. \A n \in Samples :
        /\ t[n] \in {NoSlot, w.tracked[n]}
        /\ w.tracked[n] # NoSlot /\ ~isOpen(w.buf.slot[w.tracked[n]]) => t[n] = NoSlot
  OBVIOUS
<1>6. v = rest \/ v = send(rest, copies)
  <2>1. ~(\E n \in resent : ~isRequested(w.buf, slotOf(n).name))
    BY <1>3
  <2> QED
    BY <2>1 DEF checkRetransmissions
<1> HIDE DEF t, copies, v
<1>7. rest \in Consumer /\ Continues(w, rest) /\ rest.buf = w.buf /\ rest.fault = w.fault /\ rest.tracked = t
  BY <1>4 DEF Consumer, Continues
<1> HIDE DEF rest
<1>8. v \in Consumer /\ Continues(w, v) /\ v.buf = w.buf /\ v.fault = w.fault /\ v.tracked = t
  BY <1>2, <1>6, <1>7, Sends DEF Continues
<1> QED
  BY <1>5, <1>8 DEF v

(* Between two calls of a callback *)
Going(w) ==
  /\ w \in Consumer /\ Placed(w.buf) /\ w.state # "Idle" /\ w.fault = "none"
  /\ Orderly(w)

(* A sample of this session *)
Asked(w, n) ==
  /\ n \in Samples /\ Knows(w)
  /\ SeqNo(n) < w.seqCounter[classOf(n)]
  /\ w.bootstrap.hasMeta => SeqNo(n) >= w.bootstrap.seq[classOf(n)]

(* What the pipeliner asks for next is not older than what was played: the  *)
(* one place in the pipeline is for a key frame, or delta frames are asked  *)
(* for beyond the one played last.                                          *)
Ahead(w) ==
  \/ w.lastDelta = NoSample
  \/ w.pipeline >= Limit
  \/ w.need = "Key" /\ w.pipeline + 1 >= Limit
  \/ SeqNo(w.lastDelta) < w.seqCounter["Delta"]

(* A request adds one sample to those to come. *)
LEMMA RequestedAdds ==
  ASSUME NEW b, Placed(b), NEW n \in Samples, NEW segs \in SUBSET Segments
  PROVE  LET new == requested(b, n, segs)
         IN  /\ Coming(new) \subseteq Coming(b) \cup {n}
             /\ \A m \in Samples : \A seg : m # n /\ Settled(b, m, seg) => Settled(new, m, seg)
             /\ \A y \in Slots : b.slot[y].name = n => new.slot[y].name = n
<1> DEFINE new == requested(b, n, segs)
<1>1. /\ Placed(new) /\ new.queue = b.queue
      /\ \A m \in Samples : m # n => new.active[m] = b.active[m]
      /\ \A y \in Slots : y = new.active[n] \/ new.slot[y] = b.slot[y]
  BY RequestedPlaced
<1> HIDE DEF new
<1>2. /\ new.active \in [Samples -> Slots \cup {NoSlot}] /\ new.queue \in SUBSET Slots /\ NoSlot \notin Slots
  BY <1>1, BufferParts DEF Placed
<1>3. \A y \in Slots : y = new.active[n] => new.slot[y].name = n /\ new.slot[y].state # "Locked"
  BY <1>1, <1>2 DEF Placed, PlaceMatchesState
<1>4. \A y \in new.queue : new.slot[y] = b.slot[y]
  BY <1>1, <1>2, <1>3 DEF Placed, QueuedLocked
<1>5. \A m \in Samples : m # n /\ new.active[m] # NoSlot =>
        new.slot[new.active[m]] = b.slot[new.active[m]]
  BY <1>1, <1>2 DEF Placed, Exclusive
<1>6. Coming(new) \subseteq Coming(b) \cup {n}
  BY <1>1, <1>4 DEF Coming
<1>7. \A m \in Samples : \A seg : m # n /\ Settled(b, m, seg) => Settled(new, m, seg)
  BY <1>1, <1>5 DEF Settled
<1>8. \A y \in Slots : b.slot[y].name = n => new.slot[y].name = n
  BY <1>1, <1>3
<1> QED
  BY <1>6, <1>7, <1>8 DEF new

(* A sample that is not older may be asked for. *)
LEMMA NotOlder ==
  ASSUME NEW b, NEW c, NEW n, Coming(c) \subseteq Coming(b) \cup {n}, NEW m, NothingOlder(b, m),
         m # NoSample /\ m \in Deltas /\ n \in Deltas => Timestamp[m] <= Timestamp[n]
  PROVE  NothingOlder(c, m)
BY DEF NothingOlder

(* Buffer::requested with its observers: a new slot is tracked, and only    *)
(* if its sample was not.                                                   *)
LEMMA BufferRequested ==
  ASSUME NEW w, Going(w), NEW n, Asked(w, n), NEW segs \in SUBSET Segments, NEW due,
         w.buf.active[n] = NoSlot => w.tracked[n] = NoSlot
  PROVE  LET v == bufferRequested(w, n, segs, due)
         IN  Going(v) /\ Continues(w, v) /\ v.buf = requested(w.buf, n, segs)
<1> DEFINE v == bufferRequested(w, n, segs, due)
           b == requested(w.buf, n, segs)
           after == [w EXCEPT !.buf = b]
<1>1. w \in Consumer /\ Placed(w.buf) /\ w.fault = "none" /\ Orderly(w) /\ n \in Samples /\ w.buf \in BufferState
  BY DEF Going, Asked, Placed
<1>2. /\ Placed(b) /\ b \in BufferState
      /\ \A m \in Samples : m # n => b.active[m] = w.buf.active[m]
      /\ w.buf.active[n] # NoSlot => b.active[n] = w.buf.active[n]
  BY <1>1, RequestedPlaced DEF Placed
<1>r. b = requested(w.buf, n, segs)
  OBVIOUS
<1> HIDE DEF b
<1>3. after \in Consumer /\ Continues(w, after) /\ after.buf = b /\ after.tracked = w.tracked /\ after.fault = "none"
  BY <1>1, <1>2 DEF Consumer, Continues
<1>4. CASE requestedFails(w.buf, n)
  <2>1. v = w
    BY <1>4 DEF bufferRequested
  <2>2. w.buf = b
    BY <1>4, <1>r DEF requested
  <2> HIDE DEF v
  <2> QED
    BY <1>r, <2>1, <2>2 DEF v, Continues
<1>5. CASE ~requestedFails(w.buf, n) /\ isRequested(w.buf, n)
  <2>1. ~segmentsRequestedThrows(w.buf.slot[w.buf.active[n]])
    BY <1>1, <1>5 DEF Placed, PlaceMatchesState, isRequested, segmentsRequestedThrows
  <2>2. v = after
    BY <1>5, <2>1 DEF bufferRequested, b
  <2>3. \A m \in Samples : b.active[m] = w.buf.active[m]
    BY <1>2, <1>5 DEF isRequested
  <2> HIDE DEF after, v
  <2>4. Orderly(after)
    BY <1>1, <1>3, <2>3 DEF Orderly, AskedInOrder, Started, Continues, Knows
  <2> QED
    BY <1>1, <1>2, <1>3, <1>r, <2>2, <2>4 DEF Going, Continues, v
<1>6. CASE ~requestedFails(w.buf, n) /\ ~isRequested(w.buf, n)
  <2> DEFINE t == [w.tracked EXCEPT ![n] = b.active[n]]
             r == [after EXCEPT !.tracked = t]
  <2>1. w.buf.active[n] = NoSlot /\ w.tracked[n] = NoSlot
    BY <1>6 DEF isRequested
  <2>2. v = rtxOnNewRequest(after, n, due)
    BY <1>6 DEF bufferRequested, b
  <2>3. ~w.playing => v = after
    BY <1>3, <2>2 DEF rtxOnNewRequest, Continues
  <2>4. w.playing => v = checkRetransmissions(r, due)
    BY <1>3, <2>1, <2>2 DEF rtxOnNewRequest, Continues
  <2>5. /\ t \in [Samples -> Slots \cup {NoSlot}]
        /\ \A m \in Samples : t[m] = IF m = n THEN b.active[n] ELSE w.tracked[m]
    BY <1>1, <1>2 DEF Consumer, BufferState
  <2> HIDE DEF t, after
  <2>6. r \in Consumer /\ Continues(after, r) /\ r.buf = b /\ r.fault = "none" /\ r.tracked = t
    BY <1>3, <2>5 DEF Consumer, Continues
  <2> HIDE DEF r, v
  <2>7. w.playing => /\ v \in Consumer /\ Continues(r, v) /\ v.buf = b /\ v.fault = "none"
                     /\ \A m \in Samples : v.tracked[m] \in {NoSlot, t[m]}
    BY <1>2, <2>4, <2>6, Retransmits
  <2>p. w.playing \in BOOLEAN
    BY <1>1 DEF Consumer
  <2>8. v \in Consumer /\ Continues(w, v) /\ v.buf = b /\ v.fault = "none"
    <3>1. CASE ~w.playing
      BY <1>3, <2>3, <3>1
    <3>2. CASE w.playing
      <4>1. Continues(w, after) /\ Continues(after, r) /\ Continues(r, v)
        BY <1>3, <2>6, <2>7, <3>2
      <4>2. Continues(w, v)
        BY <4>1 DEF Continues
      <4> QED
        BY <2>7, <3>2, <4>2
    <3> QED
      BY <2>p, <3>1, <3>2
  <2>9. \A m \in Samples : m # n => v.tracked[m] \in {NoSlot, w.tracked[m]}
    <3>1. CASE ~w.playing
      BY <1>3, <2>3, <3>1
    <3>2. CASE w.playing
      BY <2>5, <2>7, <3>2
    <3> QED
      BY <2>p, <3>1, <3>2
  <2>10. v.tracked[n] \in {NoSlot, b.active[n]} /\ (~w.playing => v.tracked[n] = NoSlot)
    <3>1. CASE ~w.playing
      BY <1>3, <2>1, <2>3, <3>1
    <3>2. CASE w.playing
      <4>1. t[n] = b.active[n]
        BY <1>1, <2>5
      <4> QED
        BY <1>1, <2>7, <3>2, <4>1
    <3> QED
      BY <2>p, <3>1, <3>2
  <2>11. AskedInOrder(v)
    <3> SUFFICES ASSUME NEW m \in Samples
                 PROVE  /\ b.active[m] # NoSlot \/ v.tracked[m] # NoSlot => SeqNo(m) < w.seqCounter[classOf(m)]
                        /\ b.active[m] # NoSlot /\ w.bootstrap.hasMeta => SeqNo(m) >= w.bootstrap.seq[classOf(m)]
                        /\ b.active[m] # NoSlot /\ v.tracked[m] # NoSlot => v.tracked[m] = b.active[m]
                        /\ ~w.playing => v.tracked[m] = NoSlot
      BY <2>8 DEF AskedInOrder, Continues
    <3>1. CASE m = n
      BY <2>10, <3>1 DEF Asked
    <3>2. CASE m # n
      BY <1>1, <1>2, <2>9, <3>2 DEF Orderly, AskedInOrder
    <3> QED
      BY <3>1, <3>2
  <2>12. Started(v)
    BY <1>1, <2>8 DEF Asked, Orderly, Started, Continues, Knows
  <2>st. w.state # "Idle"
    BY DEF Going
  <2> QED
    BY <1>2, <1>r, <2>8, <2>11, <2>12, <2>st DEF Going, Orderly, Continues, v
<1> QED
  BY <1>4, <1>5, <1>6

(* What filling the pipeline leaves alone *)
Fills(w, v) ==
  /\ v.metaPending = w.metaPending /\ v.state = w.state /\ v.bootstrap = w.bootstrap
  /\ v.allowed = w.allowed /\ v.playing = w.playing /\ v.lastDelta = w.lastDelta

(* A turn of the loop takes a place in the pipeline if there is one.        *)
LEMMA FillsUpOne ==
  ASSUME NEW w, Going(w), Knows(w), NEW due
  PROVE  LET v == fillUpOne(w, due)
         IN  /\ Going(v) /\ Knows(v) /\ Fills(w, v)
             /\ v.pipeline = IF w.pipeline < Limit THEN w.pipeline + 1 ELSE w.pipeline
             /\ w.pipeline >= Limit => v = w
             /\ Lost(v.buf) \subseteq Lost(w.buf)
             /\ \A m \in Samples : \A seg :
                  SeqNo(m) < w.seqCounter[classOf(m)] =>
                    /\ SeqNo(m) < v.seqCounter[classOf(m)]
                    /\ Settled(w.buf, m, seg) => Settled(v.buf, m, seg)
             /\ NothingOlder(w.buf, w.lastDelta) /\ Ahead(w) => NothingOlder(v.buf, v.lastDelta) /\ Ahead(v)
<1> DEFINE v == fillUpOne(w, due)
           c == w.need
           i == w.seqCounter[c]
           more == [w EXCEPT !.pipeline = @ + 1, !.need = "Delta"]
           n == NamesOf(c)[i]
           s == [w.seqCounter EXCEPT ![c] = i + 1]
           next == [more EXCEPT !.seqCounter = s]
           e == express(next, n, getBatch(n))
<1>1. w \in Consumer /\ Placed(w.buf) /\ w.state # "Idle" /\ w.fault = "none" /\ Orderly(w)
  BY DEF Going
<1>2. c \in Class /\ i \in Nat \ {0} /\ w.pipeline \in Nat /\ Limit \in Nat /\ w.seqCounter \in [Class -> Nat \ {0}]
  BY <1>1, LiveFetchAssumption DEF Consumer
<1>3. CASE ~(w.pipeline < Limit)
  <2>1. v = w
    BY <1>2, <1>3 DEF fillUpOne, room
  <2> QED
    BY <1>3, <2>1 DEF Fills
<1>4. CASE w.pipeline < Limit
  <2>1. v = IF i > Len(NamesOf(c)) THEN more ELSE bufferRequested(e, n, getBatch(n), due)
    BY <1>1, <1>2, <1>4 DEF fillUpOne, room
  <2>p. PICK p \in Nat : p = w.pipeline + 1
    BY <1>2
  <2>2. /\ more \in Consumer /\ more.buf = w.buf /\ more.tracked = w.tracked /\ more.fault = "none" /\ Fills(w, more)
        /\ more.pipeline = w.pipeline + 1 /\ more.seqCounter = w.seqCounter
    <3>1. more = [w EXCEPT !.pipeline = p, !.need = "Delta"]
      BY <2>p
    <3>2. "Delta" \in Class
      BY DEF Class
    <3> QED
      BY <1>1, <2>p, <3>1, <3>2 DEF Consumer, Fills
  <2> HIDE DEF more, v
  <2>3. CASE i > Len(NamesOf(c))
    <3>1. v = more
      BY <2>1, <2>3
    <3> HIDE DEF c, i
    <3>2. Orderly(more)
      BY <1>1, <2>2 DEF Orderly, AskedInOrder, Started, Fills, Knows
    <3>3. NothingOlder(w.buf, w.lastDelta) /\ Ahead(w) => NothingOlder(more.buf, more.lastDelta) /\ Ahead(more)
      BY <1>2, <2>2 DEF Ahead, Fills
    <3> QED
      BY <1>1, <1>2, <1>4, <2>2, <3>1, <3>2, <3>3 DEF Going, Fills, Knows, v
  <2>4. CASE ~(i > Len(NamesOf(c)))
    <3>1. v = bufferRequested(e, n, getBatch(n), due)
      BY <2>1, <2>4
    <3>2. n \in Samples /\ classOf(n) = c /\ SeqNo(n) = i
      BY <1>2, <2>4, Named
    <3>3. s \in [Class -> Nat \ {0}] /\ \A d \in Class : s[d] = IF d = c THEN i + 1 ELSE w.seqCounter[d]
      BY <1>2
    <3>i. i = w.seqCounter[c]
      OBVIOUS
    <3>c. c = w.need
      OBVIOUS
    <3> HIDE DEF s, n, c, i
    <3>4. /\ next \in Consumer /\ next.buf = w.buf /\ next.tracked = w.tracked /\ next.fault = "none" /\ Fills(w, next)
          /\ next.pipeline = w.pipeline + 1 /\ next.seqCounter = s
      BY <2>2, <3>3 DEF Consumer, Fills
    <3> HIDE DEF next
    <3>5. /\ e \in Consumer /\ e.buf = w.buf /\ e.tracked = w.tracked /\ e.fault = "none" /\ Fills(w, e)
          /\ e.pipeline = w.pipeline + 1 /\ e.seqCounter = s
      BY <3>4, Expresses DEF Continues, Fills
    <3> HIDE DEF e
    <3>6. \A d \in Class : s[d] >= w.seqCounter[d] /\ s[d] \in Nat /\ w.seqCounter[d] \in Nat
      BY <1>2, <3>3, <3>i
    <3>7. AskedInOrder(e)
      <4>1. \A m \in Samples : SeqNo(m) < w.seqCounter[classOf(m)] => SeqNo(m) < s[classOf(m)]
        BY <3>6, Named
      <4> QED
        BY <1>1, <3>5, <4>1 DEF Orderly, AskedInOrder, Fills
    <3>8. Started(e)
      <4>0. \A d \in Class : w.bootstrap.seq[d] \in Nat
        BY <1>1 DEF Consumer
      <4>1. w.bootstrap.hasMeta => \A d \in Class : s[d] >= w.bootstrap.seq[d]
        <5> SUFFICES ASSUME w.bootstrap.hasMeta, NEW d \in Class
                     PROVE  s[d] >= w.bootstrap.seq[d]
          OBVIOUS
        <5>1. w.seqCounter[d] >= w.bootstrap.seq[d]
          BY <1>1 DEF Orderly, Started
        <5> QED
          BY <3>6, <4>0, <5>1
      <4> QED
        BY <1>1, <3>5, <4>1 DEF Orderly, Started, Fills, Knows
    <3>9. Asked(e, n)
      <4>1. w.bootstrap.hasMeta => i >= w.bootstrap.seq[c]
        BY <1>1, <1>2, <3>i DEF Orderly, Started
      <4> QED
        BY <1>2, <3>2, <3>3, <3>5, <4>1 DEF Asked, Knows, Fills
    <3>10. w.tracked[n] = NoSlot
      BY <1>1, <1>2, <3>2, <3>i DEF Orderly, AskedInOrder
    <3>11. getBatch(n) \in SUBSET Segments
      BY LiveFetchAssumption DEF getBatch, Segments, DataSeg, ParitySeg
    <3>12. Going(e)
      BY <1>1, <3>5, <3>7, <3>8 DEF Going, Orderly, Fills
    <3> HIDE DEF v
    <3>13. Going(v) /\ Continues(e, v) /\ v.buf = requested(w.buf, n, getBatch(n))
      BY <3>1, <3>5, <3>9, <3>10, <3>11, <3>12, BufferRequested
    <3> HIDE DEF e
    <3>14. /\ Lost(v.buf) \subseteq Lost(w.buf)
           /\ Coming(v.buf) \subseteq Coming(w.buf) \cup {n}
           /\ \A m \in Samples : \A seg : m # n /\ Settled(w.buf, m, seg) => Settled(v.buf, m, seg)
      BY <1>1, <3>2, <3>11, <3>13, RequestedPlaced, RequestedAdds
    <3>15. \A m \in Samples : \A seg :
             SeqNo(m) < w.seqCounter[classOf(m)] =>
               /\ SeqNo(m) < v.seqCounter[classOf(m)]
               /\ Settled(w.buf, m, seg) => Settled(v.buf, m, seg)
      <4> SUFFICES ASSUME NEW m \in Samples, NEW seg, SeqNo(m) < w.seqCounter[classOf(m)]
                   PROVE  /\ SeqNo(m) < v.seqCounter[classOf(m)]
                          /\ Settled(w.buf, m, seg) => Settled(v.buf, m, seg)
        OBVIOUS
      <4>1. classOf(m) \in Class /\ SeqNo(m) \in Nat
        BY Named
      <4>2. m # n
        BY <1>2, <3>2, <3>i, <4>1
      <4>3. v.seqCounter = s
        BY <3>5, <3>13 DEF Continues
      <4> QED
        BY <3>6, <3>14, <4>1, <4>2, <4>3
    <3>16. ASSUME NothingOlder(w.buf, w.lastDelta), Ahead(w)
           PROVE  NothingOlder(v.buf, v.lastDelta) /\ Ahead(v)
      <4>1. v.lastDelta = w.lastDelta /\ v.pipeline = w.pipeline + 1 /\ v.seqCounter = s
        BY <3>5, <3>13 DEF Continues, Fills
      <4>2. ASSUME w.lastDelta # NoSample, n \in Deltas
            PROVE  Timestamp[w.lastDelta] <= Timestamp[n] /\ SeqNo(w.lastDelta) < s["Delta"]
        <5>1. w.lastDelta \in Deltas /\ c = "Delta"
          BY <3>2, <3>16, <4>2 DEF NothingOlder, classOf
        <5>2. SeqNo(w.lastDelta) < i
          BY <1>2, <1>4, <3>c, <3>i, <3>16, <4>2, <5>1 DEF Ahead
        <5> QED
          BY <1>2, <3>2, <3>3, <4>2, <5>1, <5>2, DeltasInOrder
      <4>3. NothingOlder(v.buf, v.lastDelta)
        BY <3>14, <3>16, <4>1, <4>2, NotOlder
      <4>4. Ahead(v)
        <5>1. CASE w.lastDelta = NoSample \/ w.pipeline + 1 >= Limit
          BY <1>2, <4>1, <5>1 DEF Ahead
        <5>2. CASE w.lastDelta # NoSample /\ SeqNo(w.lastDelta) < w.seqCounter["Delta"]
          <6>1. w.lastDelta \in Deltas
            BY <3>16, <5>2 DEF NothingOlder
          <6>2. SeqNo(w.lastDelta) \in Nat /\ "Delta" \in Class
            BY <6>1, DeltasInOrder DEF Class
          <6>3. SeqNo(w.lastDelta) < s["Delta"]
            BY <3>6, <5>2, <6>2
          <6> QED
            BY <4>1, <6>3 DEF Ahead
        <5>3. w.pipeline >= Limit => w.pipeline + 1 >= Limit
          BY <1>2
        <5> QED
          BY <3>16, <5>1, <5>2, <5>3 DEF Ahead
      <4> QED
        BY <4>3, <4>4
    <3>17. ~(w.pipeline >= Limit)
      BY <1>2, <1>4
    <3> QED
      BY <1>4, <3>5, <3>13, <3>14, <3>15, <3>16, <3>17 DEF Continues, Fills, Knows, v
  <2> QED
    BY <2>3, <2>4
<1> QED
  BY <1>3, <1>4

(* A set that holds 0, and each successor of what it holds, holds them all. *)
LEMMA SetInduction ==
  ASSUME NEW S, 0 \in S, \A n \in Nat : n \in S => n + 1 \in S
  PROVE  \A n \in Nat : n \in S
<1> SUFFICES ASSUME NEW n \in Nat, n \notin S PROVE FALSE
  OBVIOUS
<1> DEFINE T == Nat \ S
           R == OpToRel(<, Nat)
<1>1. IsWellFoundedOn(R, Nat)
  BY NatLessThanWellFounded
<1>2. \A x, y \in Nat : y < x => <<y, x>> \in R
  BY DEF OpToRel
<1> HIDE DEF R
<1>3. T \in SUBSET Nat /\ T # {}
  OBVIOUS
<1>4. PICK x \in T : \A y \in T : ~(<<y, x>> \in R)
  BY <1>1, <1>3, WFMin
<1>5. x \in Nat /\ x # 0 /\ x \notin S
  BY <1>4
<1>6. x - 1 \in Nat /\ x - 1 < x /\ (x - 1) + 1 = x
  BY <1>5
<1>7. x - 1 \notin T
  BY <1>2, <1>4, <1>5, <1>6
<1> QED
  BY <1>5, <1>6, <1>7

(* fillUpPipeline(): no room is left. *)
LEMMA FillsUp ==
  ASSUME NEW w, Going(w), Knows(w), NEW due
  PROVE  LET v == fillUpPipeline(w, due)
         IN  /\ Going(v) /\ Knows(v) /\ Fills(w, v) /\ v.pipeline >= Limit
             /\ w.pipeline >= Limit => v = w
             /\ Lost(v.buf) \subseteq Lost(w.buf)
             /\ \A m \in Samples : \A seg :
                  SeqNo(m) < w.seqCounter[classOf(m)] /\ Settled(w.buf, m, seg) => Settled(v.buf, m, seg)
             /\ NothingOlder(w.buf, w.lastDelta) /\ Ahead(w) => NothingOlder(v.buf, v.lastDelta)
<1> DEFINE Rec(f, k) == f = [i \in 0 .. k |-> IF i = 0 THEN w ELSE fillUpOne(f[i - 1], due)]
           S == {k \in Nat : \E f : Rec(f, k)}
           p == CHOOSE f : Rec(f, Limit)
           Good(v, k) ==
             /\ Going(v) /\ Knows(v) /\ Fills(w, v) /\ (v.pipeline >= Limit \/ v.pipeline >= k)
             /\ w.pipeline >= Limit => v = w
             /\ Lost(v.buf) \subseteq Lost(w.buf)
             /\ \A m \in Samples : \A seg :
                  SeqNo(m) < w.seqCounter[classOf(m)] =>
                    /\ SeqNo(m) < v.seqCounter[classOf(m)]
                    /\ Settled(w.buf, m, seg) => Settled(v.buf, m, seg)
             /\ NothingOlder(w.buf, w.lastDelta) /\ Ahead(w) => NothingOlder(v.buf, v.lastDelta) /\ Ahead(v)
           T == {k \in Nat : k <= Limit => Good(p[k], k)}
<1>0. Limit \in Nat /\ w.pipeline \in Nat
  BY LiveFetchAssumption DEF Going, Consumer
<1>1. 0 \in S
  <2> DEFINE z == [i \in 0 .. 0 |-> w]
  <2>1. Rec(z, 0)
    OBVIOUS
  <2> QED
    BY <2>1
<1>2. ASSUME NEW n \in Nat, n \in S PROVE n + 1 \in S
  <2>1. PICK f : Rec(f, n)
    BY <1>2
  <2> DEFINE g == [i \in 0 .. (n + 1) |-> IF i = n + 1 THEN fillUpOne(f[n], due) ELSE f[i]]
  <2>2. \A i \in 0 .. n : f[i] = IF i = 0 THEN w ELSE fillUpOne(f[i - 1], due)
    BY <2>1
  <2>3. \A i \in 0 .. (n + 1) : g[i] = IF i = 0 THEN w ELSE fillUpOne(g[i - 1], due)
    BY <2>2
  <2>4. Rec(g, n + 1)
    BY <2>3
  <2> HIDE DEF Rec, g
  <2>5. \E h : Rec(h, n + 1)
    BY <2>4
  <2> QED
    BY <2>5
<1> HIDE DEF S
<1>3. Limit \in S
  BY <1>0, <1>1, <1>2, SetInduction
<1>4. \E f : Rec(f, Limit)
  BY <1>3 DEF S
<1>5. fillUpPipeline(w, due) = p[Limit]
  BY DEF fillUpPipeline
<1>6. Rec(p, Limit)
  BY <1>4
<1> HIDE DEF p
<1>7. \A i \in 0 .. Limit : p[i] = IF i = 0 THEN w ELSE fillUpOne(p[i - 1], due)
  BY <1>6
<1> HIDE DEF Rec
<1>8. 0 \in T
  <2>1. p[0] = w
    BY <1>0, <1>7
  <2>2. Good(w, 0)
    BY <1>0 DEF Fills
  <2> QED
    BY <2>1, <2>2
<1> HIDE DEF Good
<1>9. ASSUME NEW n \in Nat, n \in T PROVE n + 1 \in T
  <2> SUFFICES ASSUME n + 1 <= Limit PROVE Good(p[n + 1], n + 1)
    OBVIOUS
  <2>1. Good(p[n], n)
    BY <1>0, <1>9
  <2>2. p[n + 1] = fillUpOne(p[n], due)
    BY <1>0, <1>7
  <2> DEFINE v == p[n]
             u == p[n + 1]
  <2> HIDE DEF v, u
  <2>3. Good(v, n) /\ u = fillUpOne(v, due)
    BY <2>1, <2>2 DEF v, u
  <2>4. /\ Going(u) /\ Knows(u) /\ Fills(v, u)
        /\ u.pipeline = IF v.pipeline < Limit THEN v.pipeline + 1 ELSE v.pipeline
        /\ v.pipeline >= Limit => u = v
        /\ Lost(u.buf) \subseteq Lost(v.buf)
        /\ \A m \in Samples : \A seg :
             SeqNo(m) < v.seqCounter[classOf(m)] =>
               /\ SeqNo(m) < u.seqCounter[classOf(m)]
               /\ Settled(v.buf, m, seg) => Settled(u.buf, m, seg)
        /\ NothingOlder(v.buf, v.lastDelta) /\ Ahead(v) => NothingOlder(u.buf, u.lastDelta) /\ Ahead(u)
    BY <2>3, FillsUpOne DEF Good
  <2>5. Fills(w, u)
    BY <2>3, <2>4 DEF Fills, Good
  <2>6. v.pipeline \in Nat
    BY <2>3 DEF Going, Consumer, Good
  <2>7. u.pipeline >= Limit \/ u.pipeline >= n + 1
    BY <1>0, <2>3, <2>4, <2>6 DEF Good
  <2>8. w.pipeline >= Limit => u = w
    BY <2>3, <2>4 DEF Good
  <2>9. Lost(u.buf) \subseteq Lost(w.buf)
    BY <2>3, <2>4 DEF Good
  <2>10. \A m \in Samples : \A seg :
           SeqNo(m) < w.seqCounter[classOf(m)] =>
             /\ SeqNo(m) < u.seqCounter[classOf(m)]
             /\ Settled(w.buf, m, seg) => Settled(u.buf, m, seg)
    BY <2>3, <2>4 DEF Good
  <2>11. NothingOlder(w.buf, w.lastDelta) /\ Ahead(w) => NothingOlder(u.buf, u.lastDelta) /\ Ahead(u)
    BY <2>3, <2>4 DEF Good
  <2>12. Good(u, n + 1)
    BY <2>4, <2>5, <2>7, <2>8, <2>9, <2>10, <2>11 DEF Good
  <2> QED
    BY <2>12 DEF u
<1> HIDE DEF T
<1>10. Limit \in T
  BY <1>0, <1>8, <1>9, SetInduction
<1>11. Good(p[Limit], Limit)
  BY <1>0, <1>10 DEF T
<1> QED
  BY <1>0, <1>5, <1>11 DEF Good

(* A queue that is not empty has a front. *)
LEMMA FrontQueued ==
  ASSUME NEW b, Placed(b), b.queue # {}
  PROVE  front(b) \in b.queue /\ isFront(b, front(b))
<1> DEFINE Before(x) == {y \in b.queue : timestampOf(b, y) < timestampOf(b, x)}
           rank(x) == Cardinality(Before(x))
           T == {rank(x) : x \in b.queue}
           R == OpToRel(<, Nat)
<1>1. b.queue \in SUBSET Slots /\ IsFiniteSet(Slots)
  BY BufferAssumption, BufferParts DEF Placed
<1>2. IsFiniteSet(b.queue)
  BY <1>1, FS_Subset
<1>3. \A x \in b.queue : timestampOf(b, x) \in Int
  BY BufferAssumption DEF Placed, QueuedLocked, timestampOf
<1>4. \A x \in b.queue : IsFiniteSet(Before(x)) /\ rank(x) \in Nat
  <2> SUFFICES ASSUME NEW x \in b.queue PROVE IsFiniteSet(Before(x)) /\ rank(x) \in Nat
    OBVIOUS
  <2>1. Before(x) \in SUBSET b.queue
    OBVIOUS
  <2> HIDE DEF Before
  <2> QED
    BY <1>2, <2>1, FS_Subset, FS_CardinalityType
<1>5. ASSUME NEW x \in b.queue, NEW y \in b.queue, timestampOf(b, y) < timestampOf(b, x)
      PROVE  rank(y) < rank(x)
  <2>1. Before(y) \in SUBSET Before(x) /\ y \in Before(x) /\ y \notin Before(y)
    BY <1>3, <1>5
  <2> HIDE DEF Before
  <2>2. rank(y) <= rank(x) /\ rank(y) # rank(x)
    BY <1>4, <2>1, FS_Subset
  <2> QED
    BY <1>4, <2>2
<1> HIDE DEF rank
<1>6. T \in SUBSET Nat /\ T # {}
  BY <1>4
<1>7. IsWellFoundedOn(R, Nat)
  BY NatLessThanWellFounded
<1>8. \A x, y \in Nat : y < x => <<y, x>> \in R
  BY DEF OpToRel
<1> HIDE DEF R
<1>9. PICK r \in T : \A y \in T : ~(<<y, r>> \in R)
  <2> HIDE DEF T
  <2> QED
    BY <1>6, <1>7, WFMin
<1>10. PICK x \in b.queue : r = rank(x)
  BY <1>9
<1>11. \A y \in b.queue : ~(rank(y) < rank(x))
  BY <1>4, <1>8, <1>9, <1>10
<1>12. isFront(b, x)
  BY <1>3, <1>5, <1>11 DEF isFront
<1> QED
  BY <1>12 DEF front

(* What playing and answering leave alone *)
Keeps(w, v) ==
  /\ v.metaPending = w.metaPending /\ v.seqCounter = w.seqCounter /\ v.need = w.need
  /\ v.pipeline = w.pipeline /\ v.state = w.state /\ v.bootstrap = w.bootstrap

(* From w to v nothing or the earliest sample was played; among the locked  *)
(* slots only its own is cleared.                                           *)
Plays(w, v) ==
  /\ v.lastDelta # w.lastDelta =>
       /\ v.lastDelta \in Deltas
       /\ \E x \in w.buf.queue : v.lastDelta = w.buf.slot[x].name
       /\ \A x \in w.buf.queue : Timestamp[v.lastDelta] <= timestampOf(w.buf, x)
  /\ \A x \in Slots : w.buf.slot[x].state = "Locked" =>
       \/ v.buf.slot[x] = w.buf.slot[x] \/ v.lastDelta = w.lastDelta
       \/ w.buf.slot[x].name = v.lastDelta
  /\ NothingOlder(w.buf, w.lastDelta) => NothingOlder(v.buf, v.lastDelta)

(* extractSample(): samples are only dropped. *)
LEMMA Extracts ==
  ASSUME NEW w \in Consumer, Placed(w.buf)
  PROVE  LET v == extractSample(w)
         IN  /\ v \in Consumer /\ Placed(v.buf) /\ Drops(w.buf, v.buf) /\ Keeps(w, v)
             /\ v.tracked = w.tracked /\ v.fault = w.fault
             /\ v.playing = w.playing /\ v.allowed = w.allowed
             /\ Plays(w, v)
<1> DEFINE x == front(w.buf)
           n == w.buf.slot[x].name
           b == pop(w.buf, x)
           l == IF n \in Deltas THEN n ELSE w.lastDelta
           v == extractSample(w)
           u == [w EXCEPT !.buf = b, !.lastDelta = l]
<1>1. CASE w.buf.queue = {}
  <2>1. v = w
    BY <1>1 DEF extractSample
  <2>2. Drops(w.buf, w.buf)
    BY DEF Drops
  <2> HIDE DEF v
  <2> QED
    BY <2>1, <2>2 DEF v, Keeps, Plays
<1>2. CASE w.buf.queue # {}
  <2>1. x \in w.buf.queue /\ isFront(w.buf, x)
    BY <1>2, FrontQueued
  <2>2. v = u
    BY <1>2 DEF extractSample
  <2> HIDE DEF x
  <2>3. /\ Placed(b) /\ Drops(w.buf, b) /\ b \in BufferState
        /\ \A y \in Slots : w.buf.slot[y].state = "Locked" /\ w.buf.slot[y].name # n => b.slot[y] = w.buf.slot[y]
        /\ n \in Deltas => \A m \in Earlier[n] : b.active[m] = NoSlot
    BY <2>1, PopPlaced DEF Placed
  <2>p. l # w.lastDelta => n \in Deltas /\ l = n
    OBVIOUS
  <2>n. n = w.buf.slot[x].name
    OBVIOUS
  <2>4. l \in Samples \cup {NoSample}
    BY <2>1, BufferAssumption DEF Consumer
  <2> HIDE DEF b, l, v, n
  <2>5. /\ u \in Consumer /\ u.buf = b /\ Keeps(w, u)
        /\ u.tracked = w.tracked /\ u.fault = w.fault
        /\ u.playing = w.playing /\ u.allowed = w.allowed
        /\ u.lastDelta = l
    BY <2>3, <2>4 DEF Consumer, Keeps
  <2> HIDE DEF u
  <2>6. NothingOlder(w.buf, w.lastDelta) => NothingOlder(b, l)
    <3>1. Coming(b) \subseteq Coming(w.buf) /\ \A y \in b.queue : b.slot[y] = w.buf.slot[y]
      BY <2>3, DropsLess
    <3>2. CASE l = w.lastDelta
      BY <3>1, <3>2 DEF NothingOlder
    <3>3. CASE l # w.lastDelta
      <4> SUFFICES ASSUME NEW m \in Deltas \cap Coming(b) PROVE Timestamp[n] <= Timestamp[m]
        BY <2>p, <3>3 DEF NothingOlder
      <4>1. CASE m \in Samples /\ b.active[m] # NoSlot
        BY <2>3, <2>p, <3>3, <4>1, DeltasInOrder
      <4>2. CASE \E y \in b.queue : m = b.slot[y].name
        <5>1. PICK y \in b.queue : m = b.slot[y].name
          BY <4>2
        <5>2. y \in w.buf.queue /\ m = w.buf.slot[y].name
          BY <2>3, <3>1, <5>1 DEF Drops
        <5> QED
          BY <2>1, <2>n, <5>2 DEF isFront, timestampOf
      <4> QED
        BY <4>1, <4>2 DEF Coming
    <3> QED
      BY <3>2, <3>3
  <2>7. Plays(w, u)
    BY <2>1, <2>3, <2>5, <2>6, <2>n, <2>p DEF Plays, isFront, timestampOf
  <2> QED
    BY <2>2, <2>3, <2>5, <2>7 DEF v
<1> QED
  BY <1>1, <1>2

(* checkPlayout(): the playout runs or stops as it may. *)
LEMMA ChecksPlayout ==
  ASSUME NEW w \in Consumer, Placed(w.buf)
  PROVE  LET v == checkPlayout(w)
         IN  /\ v \in Consumer /\ Placed(v.buf) /\ Drops(w.buf, v.buf) /\ Keeps(w, v)
             /\ v.tracked = w.tracked /\ v.fault = w.fault /\ v.allowed = w.allowed
             /\ v.playing => w.allowed
             /\ w.playing /\ w.allowed => v.playing
             /\ w.playing \/ ~v.playing => v.buf = w.buf /\ v.lastDelta = w.lastDelta
             /\ Plays(w, v)
<1> DEFINE v == checkPlayout(w)
           started == [w EXCEPT !.playing = TRUE]
           stopped == [w EXCEPT !.playing = FALSE]
<1>0. w.playing \in BOOLEAN /\ w.allowed \in BOOLEAN /\ Drops(w.buf, w.buf) /\ Plays(w, w)
  BY DEF Consumer, Drops, Plays
<1>1. /\ started \in Consumer /\ started.buf = w.buf /\ Keeps(w, started)
      /\ started.tracked = w.tracked /\ started.fault = w.fault /\ started.allowed = w.allowed
      /\ started.playing = TRUE /\ started.lastDelta = w.lastDelta
  BY DEF Consumer, Keeps
<1>2. /\ stopped \in Consumer /\ stopped.buf = w.buf /\ Keeps(w, stopped)
      /\ stopped.tracked = w.tracked /\ stopped.fault = w.fault /\ stopped.allowed = w.allowed
      /\ stopped.playing = FALSE /\ stopped.lastDelta = w.lastDelta
  BY DEF Consumer, Keeps
<1>3. \/ v = w /\ (w.playing = w.allowed \/ (w.allowed /\ ~w.playing))
      \/ v = extractSample(started) /\ w.allowed /\ ~w.playing
      \/ v = stopped /\ ~w.allowed
  BY <1>0 DEF checkPlayout
<1> HIDE DEF v, started, stopped
<1>4. CASE v = w /\ (w.playing = w.allowed \/ (w.allowed /\ ~w.playing))
  BY <1>0, <1>4 DEF v, Keeps
<1>5. CASE v = extractSample(started) /\ w.allowed /\ ~w.playing
  <2>1. /\ v \in Consumer /\ Placed(v.buf) /\ Drops(started.buf, v.buf) /\ Keeps(started, v)
        /\ v.tracked = started.tracked /\ v.fault = started.fault
        /\ v.playing = started.playing /\ v.allowed = started.allowed
        /\ Plays(started, v)
    BY <1>1, <1>5, Extracts
  <2>2. Plays(w, v)
    BY <1>1, <2>1 DEF Plays
  <2> QED
    BY <1>1, <1>5, <2>1, <2>2 DEF v, Keeps
<1>6. CASE v = stopped /\ ~w.allowed
  <2>1. Plays(w, v)
    BY <1>2, <1>6 DEF Plays
  <2> QED
    BY <1>0, <1>2, <1>6, <2>1 DEF v, Keeps
<1> QED
  BY <1>3, <1>4, <1>5, <1>6

(* allowPlayout() *)
LEMMA AllowsPlayout ==
  ASSUME NEW w \in Consumer, Placed(w.buf), NEW allow \in BOOLEAN
  PROVE  LET v == allowPlayout(w, allow)
         IN  /\ v \in Consumer /\ Placed(v.buf) /\ Drops(w.buf, v.buf) /\ Keeps(w, v)
             /\ v.tracked = w.tracked /\ v.fault = w.fault /\ v.allowed = allow
             /\ v.playing => allow
             /\ w.playing /\ allow => v.playing
             /\ w.playing \/ ~v.playing => v.buf = w.buf /\ v.lastDelta = w.lastDelta
             /\ Plays(w, v)
<1> DEFINE u == [w EXCEPT !.allowed = allow]
           v == allowPlayout(w, allow)
<1>1. /\ u \in Consumer /\ u.buf = w.buf /\ Keeps(w, u)
      /\ u.tracked = w.tracked /\ u.fault = w.fault /\ u.allowed = allow
      /\ u.playing = w.playing /\ u.lastDelta = w.lastDelta
  BY DEF Consumer, Keeps
<1>2. v = checkPlayout(u)
  BY DEF allowPlayout
<1> HIDE DEF u, v
<1>3. /\ v \in Consumer /\ Placed(v.buf) /\ Drops(u.buf, v.buf) /\ Keeps(u, v)
      /\ v.tracked = u.tracked /\ v.fault = u.fault /\ v.allowed = u.allowed
      /\ v.playing => u.allowed
      /\ u.playing /\ u.allowed => v.playing
      /\ u.playing \/ ~v.playing => v.buf = u.buf /\ v.lastDelta = u.lastDelta
      /\ Plays(u, v)
  BY <1>1, <1>2, ChecksPlayout
<1>4. Plays(w, v)
  BY <1>1, <1>3 DEF Plays
<1> QED
  BY <1>1, <1>3, <1>4 DEF v, Keeps

(* From w to v a segment of the sample n in slot x was stored: the sample   *)
(* stays where it is or gets locked, and perhaps played.                    *)
Queued(w, n, seg, x, v) ==
  /\ v \in Consumer /\ Placed(v.buf) /\ Keeps(w, v) /\ v.tracked = w.tracked
  /\ v.fault \in {"none", "no header"}
  /\ v.fault = "no header" => Recoverable # {}
  /\ v.allowed = w.allowed
  /\ v.playing => w.playing \/ w.allowed
  /\ w.playing /\ w.allowed => v.playing
  /\ \A m \in Samples : v.buf.active[m] \in {NoSlot, w.buf.active[m]}
  /\ \/ v.buf.slot[x] = clear
     \/ /\ v.buf.slot[x].name = n /\ (v.buf.active[n] = x \/ v.buf.slot[x].state = "Locked")
        /\ v.buf.slot[x].requested = w.buf.slot[x].requested
  /\ Settled(v.buf, n, seg)
  /\ Lost(v.buf) \subseteq Lost(w.buf) \cup {w.buf.reserved[n]}
  /\ seg \in w.buf.slot[x].fetched => Lost(v.buf) \subseteq Lost(w.buf)
  /\ w.playing \/ ~v.playing => v.lastDelta = w.lastDelta /\ v.buf.slot[x].name = n
  /\ v.fault = "none" =>
       /\ NothingOlder(w.buf, w.lastDelta) => NothingOlder(v.buf, v.lastDelta)
       /\ v.lastDelta # w.lastDelta =>
            /\ v.lastDelta \in Deltas /\ Timestamp[v.lastDelta] <= Timestamp[n]
            /\ v.buf.slot[x].name = n \/ n \in Deltas

(* PlaybackQueue::onNewData with its observer *)
LEMMA Queues ==
  ASSUME NEW w \in Consumer, Placed(w.buf), w.fault = "none",
         NEW n \in Samples, isRequested(w.buf, n), NEW seg \in Segments
  PROVE  LET x == w.buf.active[n]
             stored == [w EXCEPT !.buf.slot[x] = segmentReceived(@, seg)]
         IN  Queued(w, n, seg, x, playbackQueueOnNewData(stored, n))
<1> DEFINE x == w.buf.active[n]
           s == segmentReceived(w.buf.slot[x], seg)
           m == [w.buf EXCEPT !.slot[x] = s]
           b == received(w.buf, n, seg)
           stored == [w EXCEPT !.buf.slot[x] = segmentReceived(@, seg)]
           queued == [stored EXCEPT !.buf = onNewData(@, n)]
           v == playbackQueueOnNewData(stored, n)
<1>1. /\ w.buf \in BufferState /\ w.buf.active \in [Samples -> Slots \cup {NoSlot}]
      /\ w.buf.slot \in [Slots -> BufferSlot] /\ x \in Slots
  BY BufferParts DEF Placed, isRequested
<1>2. w.buf.slot[x] \in BufferSlot /\ w.buf.slot[x].state \in {"New", "Assembling"} /\ w.buf.slot[x].name = n
  BY <1>1 DEF Placed, PlaceMatchesState, isRequested
<1>3. /\ Placed(b) /\ b \in BufferState
      /\ \A k \in Samples : b.active[k] \in {NoSlot, w.buf.active[k]}
      /\ b.slot[x].name = n /\ (b.active[n] = x \/ b.slot[x].state = "Locked")
      /\ b.slot[x].requested = w.buf.slot[x].requested
      /\ Lost(b) \subseteq Lost(w.buf) \cup {w.buf.reserved[n]}
      /\ seg \in w.buf.slot[x].fetched => Lost(b) \subseteq Lost(w.buf)
      /\ Coming(b) \subseteq Coming(w.buf) /\ Settled(b, n, seg)
      /\ s.state = "Ready" /\ hasHeader(s) =>
           b.slot[x].state = "Locked" /\ \E y \in b.queue : timestampOf(b, y) = Timestamp[n]
  BY ReceivedPlaced DEF Placed
<1>4. /\ stored = [w EXCEPT !.buf = m] /\ stored.buf = m /\ b = onNewData(m, n)
      /\ m.active[n] = x /\ m.slot[x] = s
      /\ [stored EXCEPT !.buf = b] = [w EXCEPT !.buf = b]
  BY <1>1 DEF received, Consumer, BufferState
<1>5. s.state = "Ready" /\ ~hasHeader(s) => Recoverable # {}
  <2> SUFFICES ASSUME s.state = "Ready", ~hasHeader(s) PROVE Recoverable # {}
    OBVIOUS
  <2>1. isAssembled(s) /\ s.name = n
    BY <1>2, ReadyIsAssembled, SegmentReceivedType
  <2> HIDE DEF s
  <2>2. NParity[n] > 1
    BY <2>1, AssembledWithoutHeader
  <2> QED
    BY <2>2 DEF Recoverable
<1>6. s.state # "Ready" => b = m
  BY <1>4 DEF onNewData
<1> DEFINE u == [w EXCEPT !.buf = b]
           failed == [u EXCEPT !.fault = "no header"]
<1>7. \/ v = u
      \/ v = failed /\ Recoverable # {}
      \/ v = checkPlayout(u) /\ b.slot[x].state = "Locked" /\ \E y \in b.queue : timestampOf(b, y) = Timestamp[n]
  <2>1. v = IF s.state # "Ready" THEN stored
            ELSE IF ~hasHeader(s) THEN [queued EXCEPT !.fault = "no header"]
            ELSE checkPlayout(queued)
    <3> HIDE DEF stored, s, m
    <3> QED
      BY <1>4 DEF playbackQueueOnNewData
  <2>2. queued = u
    <3> HIDE DEF stored
    <3> QED
      BY <1>4
  <2> HIDE DEF v, stored, queued, s, b, m
  <2> QED
    BY <1>3, <1>4, <1>5, <1>6, <2>1, <2>2
<1>o. NothingOlder(w.buf, w.lastDelta) => NothingOlder(b, w.lastDelta)
  BY <1>3 DEF NothingOlder
<1>x. x = w.buf.active[n]
  OBVIOUS
<1> HIDE DEF b, s, m, v, stored, queued, x
<1>8. /\ u \in Consumer /\ u.buf = b /\ Keeps(w, u) /\ u.tracked = w.tracked /\ u.fault = "none"
      /\ u.allowed = w.allowed /\ u.playing = w.playing /\ u.lastDelta = w.lastDelta
  BY <1>3 DEF Consumer, Keeps
<1>9. /\ failed \in Consumer /\ failed.buf = b /\ Keeps(w, failed) /\ failed.tracked = w.tracked
      /\ failed.fault = "no header" /\ failed.allowed = w.allowed /\ failed.playing = w.playing
      /\ failed.lastDelta = w.lastDelta
  BY <1>3 DEF Consumer, Keeps
<1> HIDE DEF u, failed
<1>10. ASSUME v = u PROVE Queued(w, n, seg, x, v)
  BY <1>3, <1>8, <1>o, <1>10 DEF Queued
<1>11. ASSUME v = failed /\ Recoverable # {} PROVE Queued(w, n, seg, x, v)
  BY <1>3, <1>9, <1>11 DEF Queued
<1>12. ASSUME v = checkPlayout(u), b.slot[x].state = "Locked", NEW y \in b.queue, timestampOf(b, y) = Timestamp[n]
       PROVE  Queued(w, n, seg, x, v)
  <2>1. /\ v \in Consumer /\ Placed(v.buf) /\ Drops(b, v.buf) /\ Keeps(u, v)
        /\ v.tracked = u.tracked /\ v.fault = u.fault /\ v.allowed = u.allowed
        /\ v.playing => u.allowed
        /\ u.playing /\ u.allowed => v.playing
        /\ u.playing \/ ~v.playing => v.buf = b /\ v.lastDelta = u.lastDelta
        /\ Plays(u, v)
    BY <1>3, <1>8, <1>12, ChecksPlayout
  <2>2. \A k \in Samples : v.buf.active[k] \in {NoSlot, w.buf.active[k]}
    BY <1>3, <2>1 DEF Drops
  <2>3. /\ \/ v.buf.slot[x] = clear
           \/ /\ v.buf.slot[x].name = n /\ v.buf.slot[x].state = "Locked"
              /\ v.buf.slot[x].requested = w.buf.slot[x].requested
    BY <1>1, <1>3, <1>12, <2>1 DEF Drops
  <2>4. Settled(v.buf, n, seg) /\ Lost(v.buf) \subseteq Lost(b)
    <3>1. Settled(v.buf, n, seg)
      BY <1>3, <2>1, DropsLess
    <3> QED
      BY <2>1, <3>1 DEF Drops
  <2>5. NothingOlder(w.buf, w.lastDelta) => NothingOlder(v.buf, v.lastDelta)
    BY <1>8, <1>o, <2>1 DEF Plays
  <2>6. ASSUME v.lastDelta # w.lastDelta
        PROVE  /\ v.lastDelta \in Deltas /\ Timestamp[v.lastDelta] <= Timestamp[n]
               /\ v.buf.slot[x].name = n \/ n \in Deltas
    BY <1>1, <1>3, <1>8, <1>12, <2>1, <2>6 DEF Plays
  <2>7. w.playing \/ ~v.playing => v.lastDelta = w.lastDelta /\ v.buf.slot[x].name = n
    BY <1>3, <1>8, <2>1
  <2> QED
    BY <1>3, <1>8, <2>1, <2>2, <2>3, <2>4, <2>5, <2>6, <2>7 DEF Queued, Keeps
<1>13. Queued(w, n, seg, x, v)
  BY <1>7, <1>10, <1>11, <1>12
<1> QED
  BY <1>13, <1>x DEF v, stored

(* Buffer::received with its observers *)
LEMMA BufferReceives ==
  ASSUME NEW w, Going(w), Full(w), NEW n \in Samples, isRequested(w.buf, n), NEW seg \in Segments, NEW due
  PROVE  LET v == bufferReceived(w, n, seg, due)
         IN  /\ Safe(v)
             /\ \A y \in Lost(v.buf) : y \in Lost(w.buf) \/ (y = w.buf.reserved[n] /\ ~Settled(w.buf, n, seg))
             /\ w.playing => v.lastDelta = w.lastDelta
             /\ v.fault = "none" =>
                  /\ Going(v) /\ Knows(v) /\ v.state = w.state /\ v.bootstrap = w.bootstrap
                  /\ Asked(v, n) /\ Settled(v.buf, n, seg)
                  /\ w.playing => v.playing
                  /\ InTurn(w) => InTurn(v) /\ Ahead(v)
<1> DEFINE x == w.buf.active[n]
           oldState == w.buf.slot[x].state
           stored == [w EXCEPT !.buf.slot[x] = segmentReceived(@, seg)]
           v1 == playbackQueueOnNewData(stored, n)
           v2 == IF v1.fault = "none" THEN rtxOnNewData(v1, due) ELSE v1
           v3 == IF v2.fault = "none" THEN pipelinerOnNewData(v2, x, due) ELSE v2
           v4 == IF v3.fault = "none" THEN bufferObserverOnNewData(v3, x, oldState) ELSE v3
           refused == [w EXCEPT !.fault = "segment not requested"]
           v == bufferReceived(w, n, seg, due)
<1>1. v = IF segmentReceivedThrows(w.buf.slot[x], seg) THEN refused ELSE v4
  BY DEF bufferReceived, Then
<1>2. Queued(w, n, seg, x, v1)
  BY Queues DEF Going
<1> HIDE DEF v1, stored
<1>3. w \in Consumer /\ Placed(w.buf) /\ w.state # "Idle" /\ w.fault = "none" /\ AskedInOrder(w) /\ Started(w)
  BY DEF Going, Orderly
<1>4. /\ refused \in Consumer /\ refused.buf = w.buf /\ refused.state = w.state
      /\ refused.lastDelta = w.lastDelta /\ refused.fault = "segment not requested"
  BY <1>3 DEF Consumer
<1>5. /\ x \in Slots /\ w.buf.active[n] # NoSlot /\ NoSlot \notin Slots
      /\ w.tracked \in [Samples -> Slots \cup {NoSlot}]
  <2>1. w.tracked \in [Samples -> Slots \cup {NoSlot}]
    BY <1>3 DEF Consumer
  <2>2. w.buf.active \in [Samples -> Slots \cup {NoSlot}] /\ NoSlot \notin Slots
    BY <1>3, BufferParts DEF Placed
  <2> QED
    BY <2>1, <2>2 DEF isRequested
<1>6. Knows(w) /\ w.pipeline >= Limit /\ Asked(w, n) /\ Limit \in Nat \ {0}
  BY <1>3, <1>5, LiveFetchAssumption DEF Started, Full, AskedInOrder, Asked
<1> HIDE DEF refused, v, x
<1>x. x = w.buf.active[n]
  BY DEF x
<1> HIDE DEF oldState
<1> DEFINE Result(u) ==
             /\ Safe(u)
             /\ \A y \in Lost(u.buf) : y \in Lost(w.buf) \/ (y = w.buf.reserved[n] /\ ~Settled(w.buf, n, seg))
             /\ w.playing => u.lastDelta = w.lastDelta
             /\ u.fault = "none" =>
                  /\ Going(u) /\ Knows(u) /\ u.state = w.state /\ u.bootstrap = w.bootstrap
                  /\ Asked(u, n) /\ Settled(u.buf, n, seg)
                  /\ w.playing => u.playing
                  /\ InTurn(w) => InTurn(u) /\ Ahead(u)
<1>7. ASSUME segmentReceivedThrows(w.buf.slot[x], seg)
      PROVE  Result(v)
  BY <1>1, <1>3, <1>4, <1>7 DEF Safe
<1>8. ASSUME ~segmentReceivedThrows(w.buf.slot[x], seg)
      PROVE  Result(v)
  <2>a. seg \in w.buf.slot[x].requested
    BY <1>3, <1>5, <1>x, <1>8 DEF segmentReceivedThrows, Placed, PlaceMatchesState
  <2>b. ASSUME NEW y \in Lost(v1.buf) PROVE y \in Lost(w.buf) \/ (y = w.buf.reserved[n] /\ ~Settled(w.buf, n, seg))
    <3>1. Settled(w.buf, n, seg) => seg \in w.buf.slot[x].fetched
      BY <1>5, <1>x, <2>a DEF Settled
    <3> QED
      BY <1>2, <2>b, <3>1 DEF Queued
  <2>c. w.playing => v1.lastDelta = w.lastDelta
    BY <1>2 DEF Queued
  <2>1. v = v4
    BY <1>1, <1>8
  <2>2. CASE v1.fault # "none"
    <3>1. v = v1 /\ v1.fault = "no header"
      BY <1>2, <2>1, <2>2 DEF Queued
    <3> HIDE DEF v2, v3, v4
    <3> QED
      BY <1>2, <1>3, <2>b, <2>c, <3>1 DEF Queued, Safe, Keeps
  <2>3. CASE v1.fault = "none"
    <3>1. v2 = rtxOnNewData(v1, due)
      BY <2>3
    <3> HIDE DEF v2, v3, v4
    <3>2. /\ v1 \in Consumer /\ Placed(v1.buf) /\ Keeps(w, v1) /\ v1.tracked = w.tracked
          /\ v1.allowed = w.allowed
          /\ v1.playing => w.playing \/ w.allowed
          /\ w.playing /\ w.allowed => v1.playing
          /\ \A m \in Samples : v1.buf.active[m] \in {NoSlot, w.buf.active[m]}
          /\ \/ v1.buf.slot[x] = clear
             \/ /\ v1.buf.slot[x].name = n /\ (v1.buf.active[n] = x \/ v1.buf.slot[x].state = "Locked")
                /\ v1.buf.slot[x].requested = w.buf.slot[x].requested
          /\ Settled(v1.buf, n, seg)
          /\ ~v1.playing => v1.lastDelta = w.lastDelta
      BY <1>2 DEF Queued
    <3>a. ASSUME InTurn(w)
          PROVE  /\ NothingOlder(v1.buf, v1.lastDelta) /\ (~v1.playing => v1.lastDelta = NoSample)
                 /\ v1.lastDelta # NoSample =>
                      /\ v1.lastDelta \in Deltas
                      /\ n \in Deltas => Timestamp[v1.lastDelta] <= Timestamp[n]
                      /\ n \notin Deltas => v1.buf.slot[x].name = n
      <4>1. /\ NothingOlder(v1.buf, v1.lastDelta)
            /\ w.playing \/ ~v1.playing => v1.lastDelta = w.lastDelta /\ v1.buf.slot[x].name = n
            /\ v1.lastDelta # w.lastDelta =>
                 /\ v1.lastDelta \in Deltas /\ Timestamp[v1.lastDelta] <= Timestamp[n]
                 /\ v1.buf.slot[x].name = n \/ n \in Deltas
        BY <1>2, <2>3, <3>a DEF Queued, InTurn
      <4>2. ~w.playing => w.lastDelta = NoSample
        BY <3>a DEF InTurn
      <4>3. ~v1.playing => v1.lastDelta = NoSample
        BY <1>3, <3>2, <4>1, <4>2 DEF Started
      <4>4. w.lastDelta # NoSample =>
              w.lastDelta \in Deltas /\ (n \in Deltas => Timestamp[w.lastDelta] <= Timestamp[n])
        BY <1>5, <3>a DEF InTurn, NothingOlder, Coming
      <4> QED
        BY <4>1, <4>2, <4>3, <4>4
    <3>3. \A m \in Samples : ~v1.playing => v1.tracked[m] = NoSlot
      BY <1>3, <3>2 DEF AskedInOrder, Started
    <3>4. /\ v2 \in Consumer /\ Continues(v1, v2) /\ v2.buf = v1.buf /\ v2.fault = "none"
          /\ \A m \in Samples :
               /\ v2.tracked[m] \in {NoSlot, v1.tracked[m]}
               /\ v1.tracked[m] # NoSlot /\ ~isOpen(v1.buf.slot[v1.tracked[m]]) => v2.tracked[m] = NoSlot
      <4>1. CASE ~v1.playing
        BY <2>3, <3>1, <3>2, <3>3, <4>1 DEF rtxOnNewData, Continues
      <4>2. CASE v1.playing
        <5>1. v2 = checkRetransmissions(v1, due)
          BY <3>1, <4>2 DEF rtxOnNewData
        <5> QED
          BY <2>3, <3>2, <5>1, Retransmits
      <4> QED
        BY <4>1, <4>2
    <3>5. v2.buf.active[n] = NoSlot => v2.tracked[n] = NoSlot
      <4> SUFFICES ASSUME v1.buf.active[n] = NoSlot, w.tracked[n] # NoSlot PROVE v2.tracked[n] = NoSlot
        BY <3>2, <3>4
      <4>1. w.tracked[n] = x
        BY <1>3, <1>5, <1>x DEF AskedInOrder
      <4>2. ~isOpen(v1.buf.slot[x])
        BY <1>5, <3>2 DEF isOpen, clear
      <4> QED
        BY <1>5, <3>2, <3>4, <4>1, <4>2
    <3>6. AskedInOrder(v2)
      <4> SUFFICES ASSUME NEW m \in Samples
                   PROVE  /\ v2.buf.active[m] # NoSlot \/ v2.tracked[m] # NoSlot => SeqNo(m) < v2.seqCounter[classOf(m)]
                          /\ v2.buf.active[m] # NoSlot /\ v2.bootstrap.hasMeta => SeqNo(m) >= v2.bootstrap.seq[classOf(m)]
                          /\ v2.buf.active[m] # NoSlot /\ v2.tracked[m] # NoSlot => v2.tracked[m] = v2.buf.active[m]
                          /\ ~v2.playing => v2.tracked[m] = NoSlot
        BY DEF AskedInOrder
      <4>1. /\ v2.buf.active[m] \in {NoSlot, w.buf.active[m]}
            /\ v2.tracked[m] \in {NoSlot, w.tracked[m]}
            /\ v2.seqCounter = w.seqCounter /\ v2.bootstrap = w.bootstrap /\ v2.playing = v1.playing
        BY <3>2, <3>4 DEF Continues, Keeps
      <4>2. /\ w.buf.active[m] # NoSlot \/ w.tracked[m] # NoSlot => SeqNo(m) < w.seqCounter[classOf(m)]
            /\ w.buf.active[m] # NoSlot /\ w.bootstrap.hasMeta => SeqNo(m) >= w.bootstrap.seq[classOf(m)]
            /\ w.buf.active[m] # NoSlot /\ w.tracked[m] # NoSlot => w.tracked[m] = w.buf.active[m]
        BY <1>3 DEF AskedInOrder
      <4>3. ~v2.playing => v2.tracked[m] = NoSlot
        BY <3>2, <3>3, <3>4, <4>1
      <4> QED
        BY <4>1, <4>2, <4>3
    <3>7. Started(v2) /\ Knows(v2)
      BY <1>3, <1>6, <3>2, <3>4 DEF Started, Knows, Keeps, Continues
    <3>8. Going(v2) /\ Asked(v2, n) /\ v2.pipeline >= Limit /\ v2.state = w.state /\ v2.bootstrap = w.bootstrap
      BY <1>3, <1>6, <3>2, <3>4, <3>6, <3>7 DEF Going, Orderly, Asked, Keeps, Continues, Knows
    <3>9. /\ Going(v3) /\ Continues(v2, v3)
          /\ Lost(v3.buf) \subseteq Lost(v1.buf) /\ Coming(v3.buf) \subseteq Coming(v1.buf) \cup {n}
          /\ Settled(v3.buf, n, seg)
          /\ v1.buf.slot[x].name = n => v3.buf.slot[x].name = n
      <4> DEFINE t == v2.buf.slot[x]
                 missing == IF t.name = NoSample THEN {} ELSE getMissingSegments(t)
                 e == express(v2, t.name, missing)
      <4>1. v3 = IF missing = {} THEN v2 ELSE bufferRequested(e, t.name, missing, due)
        BY <3>4 DEF v3, pipelinerOnNewData
      <4>2. CASE missing = {}
        BY <3>2, <3>4, <3>8, <4>1, <4>2 DEF Continues
      <4>3. CASE missing # {}
        <5>1. t.name = n
          BY <3>2, <3>4, <4>3 DEF clear
        <5>2. missing \in SUBSET Segments
          BY <5>1, BufferAssumption DEF getMissingSegments, DataSegs, ParitySegs, DataSeg, ParitySeg, Segments
        <5>m. seg \notin missing
          BY <2>a, <3>2, <3>4, <5>1 DEF getMissingSegments, clear
        <5> HIDE DEF missing, t
        <5>3. e \in Consumer /\ Continues(v2, e) /\ e.buf = v2.buf /\ e.tracked = v2.tracked /\ e.fault = "none"
          BY <3>4, Expresses
        <5> HIDE DEF e
        <5>4. Going(e) /\ Asked(e, n) /\ (e.buf.active[n] = NoSlot => e.tracked[n] = NoSlot)
          BY <3>5, <3>8, <5>3 DEF Going, Orderly, AskedInOrder, Started, Asked, Knows, Continues
        <5>5. v3 = bufferRequested(e, n, missing, due)
          BY <4>1, <4>3, <5>1
        <5>6. Going(v3) /\ Continues(e, v3) /\ v3.buf = requested(v1.buf, n, missing)
          BY <3>4, <5>2, <5>3, <5>4, <5>5, BufferRequested
        <5>7. /\ Lost(v3.buf) \subseteq Lost(v1.buf) /\ Coming(v3.buf) \subseteq Coming(v1.buf) \cup {n}
              /\ Settled(v3.buf, n, seg)
              /\ v1.buf.slot[x].name = n => v3.buf.slot[x].name = n
          BY <1>5, <3>2, <5>2, <5>m, <5>6, RequestedPlaced, RequestedAdds
        <5> QED
          BY <5>3, <5>6, <5>7 DEF Continues
      <4> QED
        BY <4>2, <4>3
    <3>10. v3.fault = "none" /\ v3.pipeline >= Limit /\ v3 \in Consumer /\ Knows(v3) /\ v3.state = w.state /\ v3.bootstrap = w.bootstrap
      BY <3>7, <3>8, <3>9 DEF Going, Continues, Knows
    <3>11. v4 = bufferObserverOnNewData(v3, x, oldState)
      BY <3>10 DEF v4
    <3>12. /\ v4 \in Consumer /\ v4.buf = v3.buf /\ v4.fault = "none" /\ v4.tracked = v3.tracked
           /\ v4.seqCounter = v3.seqCounter /\ v4.state = v3.state /\ v4.bootstrap = v3.bootstrap
           /\ v4.metaPending = v3.metaPending /\ v4.playing = v3.playing /\ v4.allowed = v3.allowed
           /\ v4.lastDelta = v3.lastDelta
           /\ \/ v4.pipeline >= Limit
              \/ v4.pipeline + 1 >= Limit /\ (v3.buf.slot[x].name = n /\ n \notin Deltas => v4.need = "Key")
      <4> DEFINE name == v3.buf.slot[x].name
                 asked == IF name # NoSample /\ name \notin Deltas THEN "Key" ELSE v3.need
                 u == [v3 EXCEPT !.pipeline = v3.pipeline - 1, !.need = asked]
      <4>1. v3.pipeline \in Nat /\ v3.pipeline - 1 \in Nat /\ ~(v3.pipeline - 1 < 0)
        <5>1. v3.pipeline \in Nat
          BY <3>10 DEF Consumer
        <5>2. \A k \in Nat : k >= Limit => k - 1 \in Nat /\ ~(k - 1 < 0)
          BY <1>6
        <5> QED
          BY <3>10, <5>1, <5>2
      <4>2. asked \in Class
        BY <3>10 DEF Consumer, Class
      <4>k. name = n /\ n \notin Deltas => asked = "Key"
        BY BufferAssumption
      <4>n. name = v3.buf.slot[x].name
        OBVIOUS
      <4>3. v4 = v3 \/ v4 = [u EXCEPT !.fault = "none"]
        BY <3>10, <3>11, <4>1 DEF bufferObserverOnNewData
      <4> HIDE DEF asked
      <4>4. PICK q \in Nat : q = v3.pipeline - 1
        BY <4>1
      <4>5. v4 = v3 \/ v4 = [v3 EXCEPT !.pipeline = q, !.need = asked, !.fault = "none"]
        BY <4>3, <4>4
      <4>p. q + 1 >= Limit
        <5>1. v3.pipeline \in Nat
          BY <3>10 DEF Consumer
        <5> QED
          BY <1>6, <3>10, <4>4, <5>1
      <4> HIDE DEF u, name
      <4>6. CASE v4 = v3
        BY <3>10, <4>6
      <4>7. CASE v4 = [v3 EXCEPT !.pipeline = q, !.need = asked, !.fault = "none"]
        <5>1. v4.pipeline = q /\ v4.need = asked
          BY <3>10, <4>7 DEF Consumer
        <5> QED
          BY <3>10, <4>2, <4>7, <4>k, <4>n, <4>p, <5>1 DEF Consumer
      <4> QED
        BY <4>5, <4>6, <4>7
    <3>13. Going(v4) /\ Knows(v4)
      BY <3>9, <3>10, <3>12 DEF Going, Orderly, AskedInOrder, Started, Knows
    <3>14. /\ Asked(v4, n) /\ Settled(v4.buf, n, seg) /\ Lost(v4.buf) \subseteq Lost(v1.buf)
           /\ v4.lastDelta = v1.lastDelta
      BY <3>4, <3>8, <3>9, <3>12 DEF Asked, Continues, Knows
    <3>p. w.playing => v4.playing
      BY <1>3, <3>2, <3>4, <3>9, <3>12 DEF Started, Continues
    <3>15. ASSUME InTurn(w) PROVE InTurn(v4) /\ Ahead(v4)
      <4>1. NothingOlder(v4.buf, v4.lastDelta)
        BY <3>9, <3>12, <3>14, <3>15, <3>a, NotOlder
      <4>2. /\ v4.state # "Running" => ~v4.allowed
            /\ ~v4.playing => v4.lastDelta = NoSample
        BY <3>2, <3>4, <3>9, <3>10, <3>12, <3>14, <3>15, <3>a DEF InTurn, Continues
      <4>3. Ahead(v4)
        <5> SUFFICES ASSUME v4.lastDelta # NoSample, ~(v4.pipeline >= Limit) PROVE Ahead(v4)
          BY DEF Ahead
        <5>1. CASE n \in Deltas
          <6>1. SeqNo(v4.lastDelta) <= SeqNo(n) /\ v4.lastDelta \in Deltas
            BY <3>14, <3>15, <3>a, <5>1, DeltasInOrder
          <6>2. SeqNo(n) < v4.seqCounter["Delta"]
            BY <3>14, <5>1 DEF Asked, classOf
          <6>3. v4.seqCounter["Delta"] \in Nat
            BY <3>12 DEF Consumer, Class
          <6> QED
            BY <5>1, <6>1, <6>2, <6>3, DeltasInOrder DEF Ahead
        <5>2. CASE n \notin Deltas
          BY <3>9, <3>12, <3>14, <3>15, <3>a, <5>2 DEF Ahead
        <5> QED
          BY <5>1, <5>2
      <4> QED
        BY <4>1, <4>2, <4>3 DEF InTurn
    <3> QED
      BY <2>1, <2>b, <2>c, <3>10, <3>12, <3>13, <3>14, <3>15, <3>p DEF Safe, Going
  <2> QED
    BY <2>2, <2>3
<1> QED
  BY <1>7, <1>8 DEF v

(* The pipeline control fills the pipeline up again whenever a segment of   *)
(* the session arrives.                                                     *)
LEMMA Controls ==
  ASSUME NEW w, Going(w), InTurn(w), Ahead(w), NEW n \in Samples, NEW seg, NEW startOff \in BOOLEAN, NEW due,
         w.state = "Running" \/ checkSampleIsExpected(w, n) \/ Full(w)
  PROVE  LET v == onSegment(w, n, startOff, due)
         IN  /\ LInv(v)
             /\ Lost(v.buf) \subseteq Lost(w.buf)
             /\ w.playing => v.lastDelta = w.lastDelta
             /\ (Asked(w, n) \/ Full(w)) /\ Settled(w.buf, n, seg) => Settled(v.buf, n, seg)
<1> DEFINE Result(u) ==
             /\ LInv(u)
             /\ Lost(u.buf) \subseteq Lost(w.buf)
             /\ w.playing => u.lastDelta = w.lastDelta
             /\ (Asked(w, n) \/ Full(w)) /\ Settled(w.buf, n, seg) => Settled(u.buf, n, seg)
           f == fillUpPipeline(w, due)
           a == allowPlayout(f, TRUE)
           r == [a EXCEPT !.state = "Running", !.bootstrap.hasMeta = FALSE]
           v == onSegment(w, n, startOff, due)
<1>1. w \in Consumer /\ w.state \in {"Bootstrapping", "Running"} /\ w.fault = "none"
  BY DEF Going, Consumer
<1>2. ASSUME w.state = "Running" \/ checkSampleIsExpected(w, n)
      PROVE  Going(f) /\ Knows(f) /\ Fills(w, f) /\ f.pipeline >= Limit /\ Result(f)
  <2>1. Knows(w)
    BY <1>2 DEF Knows, checkSampleIsExpected
  <2>2. /\ Going(f) /\ Knows(f) /\ Fills(w, f) /\ f.pipeline >= Limit
        /\ w.pipeline >= Limit => f = w
        /\ Lost(f.buf) \subseteq Lost(w.buf)
        /\ SeqNo(n) < w.seqCounter[classOf(n)] /\ Settled(w.buf, n, seg) => Settled(f.buf, n, seg)
        /\ NothingOlder(w.buf, w.lastDelta) /\ Ahead(w) => NothingOlder(f.buf, f.lastDelta)
    BY <2>1, FillsUp
  <2> HIDE DEF f
  <2>3. InTurn(f)
    BY <2>2 DEF InTurn, Fills
  <2>4. LInv(f)
    BY <2>2, <2>3 DEF LInv, Safe, Going, Full
  <2>5. (Asked(w, n) \/ Full(w)) /\ Settled(w.buf, n, seg) => Settled(f.buf, n, seg)
    BY <2>1, <2>2 DEF Asked, Full
  <2> QED
    BY <2>2, <2>4, <2>5 DEF Fills
<1> HIDE DEF f
<1>3. CASE w.state = "Running"
  <2>1. v = f
    BY <1>3 DEF onSegment, f
  <2> HIDE DEF v
  <2>2. Result(v)
    BY <1>2, <1>3, <2>1
  <2> QED
    BY <2>2 DEF v
<1>4. CASE w.state # "Running" /\ checkSampleIsExpected(w, n)
  <2>1. Going(f) /\ Knows(f) /\ Fills(w, f) /\ f.pipeline >= Limit /\ Result(f)
    BY <1>2, <1>4
  <2>2. v = IF startOff THEN r ELSE f
    <3>1. v = IF startOff /\ f.fault = "none" THEN r ELSE f
      BY <1>1, <1>4 DEF onSegment, f
    <3> HIDE DEF r, v
    <3> QED
      BY <2>1, <3>1 DEF Going
  <2>3. /\ a \in Consumer /\ Placed(a.buf) /\ Drops(f.buf, a.buf) /\ Keeps(f, a)
        /\ a.tracked = f.tracked /\ a.fault = f.fault /\ a.allowed = TRUE
        /\ f.playing => a.playing
        /\ f.playing \/ ~a.playing => a.buf = f.buf /\ a.lastDelta = f.lastDelta
        /\ Plays(f, a)
    BY <2>1, AllowsPlayout DEF Going
  <2> HIDE DEF a
  <2>4. /\ r \in Consumer /\ r.buf = a.buf /\ r.tracked = a.tracked /\ r.fault = a.fault
        /\ r.allowed = a.allowed /\ r.playing = a.playing /\ r.state = "Running"
        /\ r.bootstrap.hasMeta = FALSE /\ r.metaPending = a.metaPending
        /\ r.seqCounter = a.seqCounter /\ r.pipeline = a.pipeline /\ r.lastDelta = a.lastDelta
    <3>1. a.bootstrap \in [hasMeta : BOOLEAN, seq : [Class -> Nat \ {0}]]
      BY <2>3 DEF Consumer
    <3> DEFINE boot == [a.bootstrap EXCEPT !.hasMeta = FALSE]
    <3>2. boot \in [hasMeta : BOOLEAN, seq : [Class -> Nat \ {0}]] /\ boot.hasMeta = FALSE
      BY <3>1
    <3>3. r = [a EXCEPT !.state = "Running", !.bootstrap = boot]
      OBVIOUS
    <3> HIDE DEF boot, r
    <3> QED
      BY <2>3, <3>2, <3>3 DEF Consumer
  <2> HIDE DEF r
  <2>5. AskedInOrder(r)
    <3> SUFFICES ASSUME NEW m \in Samples
                 PROVE  /\ r.buf.active[m] # NoSlot \/ r.tracked[m] # NoSlot => SeqNo(m) < r.seqCounter[classOf(m)]
                        /\ r.buf.active[m] # NoSlot /\ r.tracked[m] # NoSlot => r.tracked[m] = r.buf.active[m]
                        /\ ~r.playing => r.tracked[m] = NoSlot
      BY <2>4 DEF AskedInOrder
    <3>1. /\ r.buf.active[m] \in {NoSlot, f.buf.active[m]} /\ r.tracked = f.tracked
          /\ r.seqCounter = f.seqCounter /\ (f.playing => r.playing)
      BY <2>3, <2>4 DEF Drops, Keeps
    <3>2. /\ f.buf.active[m] # NoSlot \/ f.tracked[m] # NoSlot => SeqNo(m) < f.seqCounter[classOf(m)]
          /\ f.buf.active[m] # NoSlot /\ f.tracked[m] # NoSlot => f.tracked[m] = f.buf.active[m]
          /\ ~f.playing => f.tracked[m] = NoSlot
      BY <2>1 DEF Going, Orderly, AskedInOrder
    <3> QED
      BY <3>1, <3>2
  <2>6. ~f.metaPending
    BY <2>1 DEF Going, Orderly, Started
  <2>7. Started(r) /\ Full(r) /\ Safe(r)
    BY <2>1, <2>3, <2>4, <2>6 DEF Started, Full, Safe, Knows, Keeps, Going
  <2>i. InTurn(f)
    BY <2>1 DEF Going, LInv
  <2>t. InTurn(r)
    BY <2>i, <2>3, <2>4 DEF InTurn, Plays
  <2>d. /\ Lost(a.buf) \subseteq Lost(f.buf)
        /\ Settled(f.buf, n, seg) => Settled(a.buf, n, seg)
    <3>1. Placed(f.buf)
      BY <2>1 DEF Going
    <3> QED
      BY <2>3, <3>1, DropsLess DEF Drops
  <2>8. Result(r)
    <3>1. LInv(r)
      BY <2>5, <2>7, <2>t DEF LInv, Orderly
    <3>2. w.playing => f.playing
      BY <2>1 DEF Fills
    <3> QED
      BY <2>1, <2>3, <2>4, <2>d, <3>1, <3>2
  <2> HIDE DEF v
  <2>9. Result(v)
    BY <2>1, <2>2, <2>8
  <2> QED
    BY <2>9 DEF v
<1>5. CASE w.state # "Running" /\ ~checkSampleIsExpected(w, n)
  <2>1. v = w
    BY <1>5 DEF onSegment
  <2> HIDE DEF v
  <2>2. Result(v)
    BY <1>5, <2>1 DEF LInv, Safe, Going
  <2> QED
    BY <2>2 DEF v
<1> QED
  BY <1>3, <1>4, <1>5

(* Between two callbacks, what is asked for next is not older than what was *)
(* played.                                                                  *)
LEMMA BetweenCallbacks ==
  ASSUME NEW w, LInv(w), w.fault = "none"
  PROVE  Going(w) /\ Full(w) /\ InTurn(w) /\ Ahead(w)
<1>1. Going(w) /\ Full(w) /\ InTurn(w)
  BY DEF LInv, Safe, Going
<1>2. CASE Knows(w)
  BY <1>1, <1>2 DEF Full, Ahead
<1>3. CASE ~Knows(w)
  BY <1>1, <1>3 DEF Going, Orderly, Started, InTurn, Knows, Ahead
<1> QED
  BY <1>1, <1>2, <1>3

(* SegmentController's observers, for one segment: a sample that it makes   *)
(* ready takes the reserved slot of that sample, and only the first copy of *)
(* a segment does so.                                                       *)
LEMMA SegmentArrives ==
  ASSUME NEW w, LInv(w), w.fault = "none", NEW n \in Samples, NEW seg \in Segments,
         NEW startOff \in BOOLEAN, NEW due
  PROVE  LET v == segmentArrived(w, n, seg, startOff, due)
         IN  /\ LInv(v)
             /\ \A y \in Lost(v.buf) :
                  \/ y \in Lost(w.buf)
                  \/ isRequested(w.buf, n) /\ y = w.buf.reserved[n] /\ ~Settled(w.buf, n, seg)
             /\ w.playing => v.lastDelta = w.lastDelta
             /\ v.fault = "none" => Settled(v.buf, n, seg)
<1> DEFINE b == bufferControlArrived(w, n, seg, due)
           v == segmentArrived(w, n, seg, startOff, due)
           c == onSegment(b, n, startOff, due)
           Result(u) ==
             /\ LInv(u)
             /\ \A y \in Lost(u.buf) :
                  \/ y \in Lost(w.buf)
                  \/ isRequested(w.buf, n) /\ y = w.buf.reserved[n] /\ ~Settled(w.buf, n, seg)
             /\ w.playing => u.lastDelta = w.lastDelta
             /\ u.fault = "none" => Settled(u.buf, n, seg)
<1>1. Going(w) /\ Full(w) /\ InTurn(w) /\ Ahead(w)
  BY BetweenCallbacks
<1>2. v = IF b.fault = "none" THEN c ELSE b
  BY DEF segmentArrived, Then
<1>c. c = onSegment(b, n, startOff, due)
  OBVIOUS
<1> HIDE DEF v, c
<1>3. CASE isRequested(w.buf, n)
  <2>1. b = bufferReceived(w, n, seg, due)
    BY <1>3 DEF bufferControlArrived
  <2> HIDE DEF b
  <2>2. /\ Safe(b)
        /\ \A y \in Lost(b.buf) : y \in Lost(w.buf) \/ (y = w.buf.reserved[n] /\ ~Settled(w.buf, n, seg))
        /\ w.playing => b.lastDelta = w.lastDelta
        /\ b.fault = "none" =>
             /\ Going(b) /\ Knows(b) /\ b.state = w.state /\ b.bootstrap = w.bootstrap
             /\ Asked(b, n) /\ Settled(b.buf, n, seg) /\ InTurn(b) /\ Ahead(b)
             /\ w.playing => b.playing
    BY <1>1, <1>3, <2>1, BufferReceives
  <2>3. CASE b.fault # "none"
    BY <1>2, <1>3, <2>2, <2>3 DEF LInv, v
  <2>4. CASE b.fault = "none"
    <3>1. b.state = "Running" \/ checkSampleIsExpected(b, n)
      <4>1. w.bootstrap.hasMeta => SeqNo(n) >= w.bootstrap.seq[classOf(n)]
        BY <1>1, <1>3 DEF Going, Orderly, AskedInOrder, isRequested
      <4> QED
        BY <2>2, <2>4, <4>1 DEF Knows, checkSampleIsExpected
    <3>2. /\ LInv(c)
          /\ Lost(c.buf) \subseteq Lost(b.buf)
          /\ b.playing => c.lastDelta = b.lastDelta
          /\ (Asked(b, n) \/ Full(b)) /\ Settled(b.buf, n, seg) => Settled(c.buf, n, seg)
      BY <1>c, <2>2, <2>4, <3>1, Controls
    <3>3. Result(c)
      BY <1>3, <2>2, <2>4, <3>2
    <3> QED
      BY <1>2, <2>4, <3>3 DEF v
  <2> QED
    BY <2>3, <2>4
<1>4. CASE ~isRequested(w.buf, n)
  <2>1. b = w
    BY <1>4 DEF bufferControlArrived
  <2> HIDE DEF b
  <2>2. Settled(w.buf, n, seg)
    <3>1. w.buf.active[n] = NoSlot
      BY <1>4 DEF isRequested
    <3> QED
      BY <3>1 DEF Settled
  <2>3. /\ LInv(c)
        /\ Lost(c.buf) \subseteq Lost(w.buf)
        /\ w.playing => c.lastDelta = w.lastDelta
        /\ (Asked(w, n) \/ Full(w)) /\ Settled(w.buf, n, seg) => Settled(c.buf, n, seg)
    BY <1>1, <1>c, <2>1, Controls
  <2>4. Result(c)
    BY <1>1, <2>2, <2>3
  <2> QED
    BY <1>2, <2>1, <2>4 DEF v
<1> QED
  BY <1>3, <1>4

(* The state is the record it is read into. *)
LEMMA Becomes ==
  ASSUME NEW w \in Consumer, Become(w)
  PROVE  World' = w
BY DEF Become, World, Consumer

(* In the step from w to v no older delta frame is played, and no slot is   *)
(* lost but the one a sample had that is fetched again.                     *)
Follows(w, v) ==
  /\ v.lastDelta # w.lastDelta =>
       \/ w.lastDelta = NoSample \/ v.lastDelta = NoSample
       \/ Timestamp[w.lastDelta] < Timestamp[v.lastDelta]
  /\ \A y \in Lost(v.buf) \ Lost(w.buf) :
       \E n \in Samples : w.buf.reserved[n] = y /\ isRequested(w.buf, n)

(* A callback for each copy of the Interest *)
LEMMA DataKeeps ==
  ASSUME LInv(World), NEW i \in Interests, NEW startOff \in BOOLEAN, NEW due, OnData(i, startOff, due)
  PROVE  LInv(World)' /\ Follows(World, World')
<1> DEFINE callback(w) == segmentArrived(w, i[1], i[2], startOff, due)
           next(w) == IF w.fault = "none" THEN callback(w) ELSE w
           first == [World EXCEPT !.pit[i] = 0]
           k == pit[i]
           Rec(f, j) == f = [c \in 0 .. j |-> IF c = 0 THEN first ELSE next(f[c - 1])]
           S == {j \in Nat : \E f : Rec(f, j)}
           p == CHOOSE f : Rec(f, k)
           n == i[1]
           Good(w) ==
             /\ LInv(w)
             /\ \A y \in Lost(w.buf) :
                  y \in Lost(first.buf) \/ (isRequested(first.buf, n) /\ y = first.buf.reserved[n])
             /\ first.lastDelta = NoSample \/ w.lastDelta = first.lastDelta
             /\ w = first \/ (w.fault = "none" => Settled(w.buf, n, i[2]))
           T == {j \in Nat : j <= k => Good(p[j])}
<1>1. /\ World \in Consumer /\ World.fault = "none" /\ World.pit = pit
      /\ World.fault = fault /\ i[2] \in SegmentsOf(i[1])
  BY DEF LInv, Safe, OnData, World
<1>p. pit \in [Interests -> 0 .. MaxCopies] /\ MaxCopies \in Nat
  <2>1. World.pit \in [Interests -> 0 .. MaxCopies]
    BY <1>1 DEF Consumer
  <2> QED
    BY <1>1, <2>1, LiveFetchAssumption
<1>2. k \in Nat
  BY <1>p
<1>3. i[1] \in Samples /\ i[2] \in Segments
  <2>1. i[1] \in Samples
    BY DEF Interests
  <2> QED
    BY <1>1, <2>1, BufferAssumption DEF SegmentsOf, DataSegs, ParitySegs, DataSeg, ParitySeg, Segments
<1>4. LInv(first) /\ first.buf = World.buf /\ first.lastDelta = World.lastDelta
  <2> DEFINE q == [pit EXCEPT ![i] = 0]
  <2>1. q \in [Interests -> 0 .. MaxCopies]
    BY <1>p
  <2>2. first = [World EXCEPT !.pit = q]
    BY <1>1
  <2> HIDE DEF q, first
  <2>3. /\ first \in Consumer /\ first.buf = World.buf /\ Continues(World, first)
        /\ first.tracked = World.tracked /\ first.fault = World.fault
    BY <1>1, <2>1, <2>2 DEF Consumer, Continues
  <2> HIDE DEF first
  <2> QED
    BY <2>3 DEF LInv, Safe, Orderly, AskedInOrder, Started, Full, Knows, InTurn, Continues
<1> HIDE DEF first
<1>5. ASSUME NEW w, Good(w) PROVE Good(next(w))
  <2>1. CASE w.fault # "none"
    BY <1>5, <2>1
  <2>2. CASE w.fault = "none"
    <3> DEFINE v == segmentArrived(w, i[1], i[2], startOff, due)
    <3>1. next(w) = v
      BY <2>2
    <3>2. /\ LInv(v)
          /\ \A y \in Lost(v.buf) :
               y \in Lost(w.buf) \/ (isRequested(w.buf, n) /\ y = w.buf.reserved[n] /\ ~Settled(w.buf, n, i[2]))
          /\ w.playing => v.lastDelta = w.lastDelta
          /\ v.fault = "none" => Settled(v.buf, n, i[2])
      <4>1. LInv(w) /\ n \in Samples
        BY <1>3, <1>5
      <4> HIDE DEF Good, next, n
      <4>2. v = segmentArrived(w, n, i[2], startOff, due)
        BY DEF n
      <4> HIDE DEF v
      <4> QED
        BY <1>3, <2>2, <4>1, <4>2, SegmentArrives
    <3> HIDE DEF v, next
    <3>3. ~w.playing => w.lastDelta = NoSample
      BY <1>5, <2>2 DEF LInv, InTurn
    <3>4. Good(v)
      BY <1>5, <2>2, <3>2, <3>3
    <3> QED
      BY <3>1, <3>4
  <2> QED
    BY <2>1, <2>2
<1>6. Become(p[k])
  BY DEF OnData, Then, first
<1> HIDE DEF next, k
<1>7. 0 \in S
  <2> DEFINE z == [c \in 0 .. 0 |-> first]
  <2>1. Rec(z, 0)
    OBVIOUS
  <2> QED
    BY <2>1
<1>8. ASSUME NEW j \in Nat, j \in S PROVE j + 1 \in S
  <2>1. PICK f : Rec(f, j)
    BY <1>8
  <2> DEFINE g == [c \in 0 .. (j + 1) |-> IF c = j + 1 THEN next(f[j]) ELSE f[c]]
  <2>2. \A c \in 0 .. j : f[c] = IF c = 0 THEN first ELSE next(f[c - 1])
    BY <2>1
  <2>3. \A c \in 0 .. (j + 1) : g[c] = IF c = 0 THEN first ELSE next(g[c - 1])
    BY <2>2
  <2>4. Rec(g, j + 1)
    BY <2>3
  <2> HIDE DEF Rec, g
  <2>5. \E h : Rec(h, j + 1)
    BY <2>4
  <2> QED
    BY <2>5
<1> HIDE DEF S
<1>9. k \in S
  BY <1>2, <1>7, <1>8, SetInduction
<1>10. Rec(p, k)
  BY <1>9 DEF S
<1> HIDE DEF p
<1>11. \A c \in 0 .. k : p[c] = IF c = 0 THEN first ELSE next(p[c - 1])
  BY <1>10
<1> HIDE DEF Rec
<1>12. 0 \in T
  <2>1. p[0] = first
    BY <1>2, <1>11
  <2> QED
    BY <1>4, <2>1
<1> HIDE DEF Good
<1>13. ASSUME NEW j \in Nat, j \in T PROVE j + 1 \in T
  <2> SUFFICES ASSUME j + 1 <= k PROVE Good(p[j + 1])
    OBVIOUS
  <2>1. Good(p[j])
    BY <1>2, <1>13
  <2>2. p[j + 1] = next(p[j])
    BY <1>2, <1>11
  <2> QED
    BY <1>5, <2>1, <2>2
<1> HIDE DEF T
<1>14. k \in T
  BY <1>2, <1>12, <1>13, SetInduction
<1>15. Good(p[k])
  BY <1>2, <1>14 DEF T
<1>16. World' = p[k]
  BY <1>6, <1>15, Becomes DEF Good, LInv, Safe
<1>17. Follows(World, p[k])
  BY <1>3, <1>4, <1>15 DEF Good, Follows
<1> QED
  BY <1>15, <1>16, <1>17 DEF Good, LInv

(* Metadata tells where to begin; nothing was asked for before. *)
LEMMA MetadataKeeps ==
  ASSUME LInv(World), NEW p \in Positions, NEW due, OnMetadata(p, due)
  PROVE  LInv(World)' /\ Follows(World, World')
<1> DEFINE w == World
           first == IF Media = "video" THEN "Key" ELSE "Delta"
           boot == [hasMeta |-> TRUE, seq |-> p]
           u == [w EXCEPT !.metaPending = FALSE, !.seqCounter = p, !.need = first, !.bootstrap = boot]
           v == fillUpPipeline(u, due)
<1>1. /\ w.fault = fault /\ w.metaPending = metaPending
  BY DEF World
<1>2. /\ w \in Consumer /\ Placed(w.buf) /\ w.state # "Idle" /\ w.fault = "none" /\ w.metaPending
      /\ AskedInOrder(w) /\ Started(w) /\ InTurn(w)
  BY <1>1 DEF LInv, Safe, Orderly, OnMetadata
<1>w. w = World
  OBVIOUS
<1>3. Become(v)
  <2>1. u = [[w EXCEPT !.metaPending = FALSE] EXCEPT !.seqCounter = p, !.need = first, !.bootstrap = boot]
    BY <1>2 DEF Consumer
  <2> QED
    BY <2>1 DEF OnMetadata, processMetadata
<1>4. p \in [Class -> Nat \ {0}] /\ first \in Class
  BY LiveFetchAssumption DEF Class
<1>5. boot \in [hasMeta : BOOLEAN, seq : [Class -> Nat \ {0}]] /\ boot.hasMeta = TRUE /\ boot.seq = p
  BY <1>4
<1> HIDE DEF w, first, boot
<1>6. /\ u \in Consumer /\ u.buf = w.buf /\ u.tracked = w.tracked /\ u.state = w.state /\ u.fault = "none"
      /\ u.bootstrap = boot /\ u.seqCounter = p /\ u.metaPending = FALSE
      /\ u.playing = w.playing /\ u.allowed = w.allowed /\ u.lastDelta = NoSample
      /\ w.lastDelta = NoSample /\ ~w.allowed
  BY <1>2, <1>4, <1>5 DEF Consumer, InTurn, Started
<1> HIDE DEF u
<1>7. \A n \in Samples : w.buf.active[n] = NoSlot /\ w.tracked[n] = NoSlot
  BY <1>2 DEF Started
<1>8. Going(u) /\ Knows(u)
  <2>1. AskedInOrder(u)
    BY <1>6, <1>7 DEF AskedInOrder
  <2>2. Started(u)
    <3>1. \A c \in Class : p[c] >= p[c]
      BY <1>4
    <3> QED
      BY <1>2, <1>5, <1>6, <3>1 DEF Started, Knows
  <2> QED
    BY <1>2, <1>5, <1>6, <2>1, <2>2 DEF Going, Orderly, Knows
<1>9. /\ Going(v) /\ Knows(v) /\ Fills(u, v) /\ v.pipeline >= Limit
      /\ Lost(v.buf) \subseteq Lost(u.buf)
  BY <1>8, FillsUp
<1> HIDE DEF v
<1>10. World' = v
  BY <1>3, <1>9, Becomes DEF Going
<1>11. InTurn(v)
  BY <1>6, <1>9 DEF InTurn, Fills, NothingOlder
<1>12. LInv(v)
  BY <1>9, <1>11 DEF LInv, Safe, Full, Going
<1>13. Follows(w, v)
  BY <1>6, <1>9 DEF Follows, Fills
<1> QED
  BY <1>10, <1>12, <1>13, <1>w DEF LInv

(* Interests go unanswered. *)
LEMMA FewerInterests ==
  ASSUME LInv(World), NEW q \in [Interests -> 0 .. MaxCopies], NEW m \in BOOLEAN,
         m => metaPending, Become([World EXCEPT !.pit = q, !.metaPending = m])
  PROVE  LInv(World)' /\ Follows(World, World')
<1> DEFINE w == World
           v == [w EXCEPT !.pit = q, !.metaPending = m]
<1>1. w.metaPending = metaPending /\ w \in Consumer
  BY DEF World, LInv, Safe
<1> HIDE DEF w
<1>2. /\ v \in Consumer /\ v.buf = w.buf /\ v.tracked = w.tracked /\ v.seqCounter = w.seqCounter
      /\ v.pipeline = w.pipeline /\ v.state = w.state /\ v.bootstrap = w.bootstrap
      /\ v.allowed = w.allowed /\ v.playing = w.playing /\ v.fault = w.fault
      /\ v.metaPending = m /\ v.lastDelta = w.lastDelta
  BY <1>1 DEF Consumer
<1>3. World' = v
  BY <1>2, Becomes DEF w
<1> HIDE DEF v
<1>4. LInv(v)
  BY <1>1, <1>2 DEF w, LInv, Safe, Orderly, AskedInOrder, Started, Full, Knows, InTurn
<1>5. Follows(w, v)
  BY <1>2 DEF Follows
<1> QED
  BY <1>3, <1>4, <1>5 DEF LInv, w

(* Playing a sample drops others, and nothing else changes. *)
LEMMA PlayKeeps ==
  ASSUME LInv(World), PlayTick
  PROVE  LInv(World)' /\ Follows(World, World')
<1> DEFINE w == World
           v == extractSample(w)
<1>1. w \in Consumer /\ Placed(w.buf) /\ Become(v) /\ LInv(w) /\ w.fault = "none" /\ InTurn(w) /\ w.playing
  <2>1. World.fault = fault /\ World.playing = playing
    BY DEF World
  <2> QED
    BY <2>1 DEF LInv, Safe, PlayTick
<1>w. w = World
  OBVIOUS
<1> HIDE DEF w
<1>2. /\ v \in Consumer /\ Placed(v.buf) /\ Drops(w.buf, v.buf) /\ Keeps(w, v)
      /\ v.tracked = w.tracked /\ v.fault = w.fault
      /\ v.playing = w.playing /\ v.allowed = w.allowed
      /\ Plays(w, v)
  BY <1>1, Extracts
<1> HIDE DEF v
<1>3. World' = v
  BY <1>1, <1>2, Becomes
<1>4. LInv(v)
  <2>1. AskedInOrder(w) => AskedInOrder(v)
    <3> SUFFICES ASSUME AskedInOrder(w), NEW m \in Samples
                 PROVE  /\ v.buf.active[m] # NoSlot \/ v.tracked[m] # NoSlot => SeqNo(m) < v.seqCounter[classOf(m)]
                        /\ v.buf.active[m] # NoSlot /\ v.bootstrap.hasMeta => SeqNo(m) >= v.bootstrap.seq[classOf(m)]
                        /\ v.buf.active[m] # NoSlot /\ v.tracked[m] # NoSlot => v.tracked[m] = v.buf.active[m]
                        /\ ~v.playing => v.tracked[m] = NoSlot
      BY DEF AskedInOrder
    <3>1. v.buf.active[m] \in {NoSlot, w.buf.active[m]}
      BY <1>2 DEF Drops
    <3> QED
      BY <1>2, <3>1 DEF AskedInOrder, Keeps
  <2>2. Started(w) => Started(v)
    BY <1>2 DEF Started, Knows, Keeps, Drops
  <2>3. Full(w) => Full(v)
    BY <1>2 DEF Full, Knows, Keeps
  <2>4. InTurn(v)
    BY <1>1, <1>2 DEF InTurn, Plays, Keeps
  <2> QED
    BY <1>1, <1>2, <2>1, <2>2, <2>3, <2>4 DEF LInv, Safe, Orderly, Keeps
<1>5. Follows(w, v)
  <2>1. ASSUME v.lastDelta # w.lastDelta, w.lastDelta # NoSample
        PROVE  Timestamp[w.lastDelta] < Timestamp[v.lastDelta]
    <3>1. /\ v.lastDelta \in Deltas /\ w.lastDelta \in Deltas
          /\ \E x \in w.buf.queue : v.lastDelta = w.buf.slot[x].name
      BY <1>1, <1>2, <2>1 DEF Plays, InTurn, NothingOlder
    <3>2. Timestamp[w.lastDelta] <= Timestamp[v.lastDelta]
      BY <1>1, <2>1, <3>1 DEF InTurn, NothingOlder, Coming
    <3>3. /\ Timestamp[w.lastDelta] \in Int /\ Timestamp[v.lastDelta] \in Int
          /\ Timestamp[w.lastDelta] # Timestamp[v.lastDelta]
      BY <2>1, <3>1, DeltasInOrder
    <3> QED
      BY <3>2, <3>3
  <2> QED
    BY <1>2, <2>1 DEF Follows, Drops
<1> QED
  BY <1>3, <1>4, <1>5, <1>w DEF LInv

(* Starvation starts the session over. *)
LEMMA StarvationKeeps ==
  ASSUME LInv(World), Starvation
  PROVE  LInv(World)' /\ Follows(World, World')
<1> DEFINE w == World
           b == reset(w.buf)
           none == [n \in Samples |-> NoSlot]
           boot == [w.bootstrap EXCEPT !.hasMeta = FALSE]
           u == [w EXCEPT !.buf = b, !.tracked = none, !.need = "Delta", !.pipeline = 0,
                          !.state = "Idle", !.bootstrap = boot, !.lastDelta = NoSample]
           a == allowPlayout(u, FALSE)
           v == [a EXCEPT !.state = "Bootstrapping", !.metaPending = TRUE]
<1>1. w \in Consumer /\ Placed(w.buf) /\ w.fault = "none" /\ Become(enterBootstrapping(enterIdle(w)))
  <2>1. World.fault = fault
    BY DEF World
  <2> QED
    BY <2>1 DEF LInv, Safe, Starvation
<1>w. w = World
  OBVIOUS
<1> HIDE DEF w
<1>2. Become(v)
  <2>1. u = [w EXCEPT !.buf = reset(@), !.tracked = none, !.need = "Delta", !.pipeline = 0,
                      !.state = "Idle", !.bootstrap.hasMeta = FALSE, !.lastDelta = NoSample]
    OBVIOUS
  <2>2. a = enterIdle(w)
    <3> HIDE DEF u
    <3> QED
      BY <2>1 DEF enterIdle
  <2> HIDE DEF a
  <2> QED
    BY <1>1, <2>2 DEF enterBootstrapping
<1>3. /\ Placed(b) /\ b \in BufferState /\ \A n \in Samples : b.active[n] = NoSlot
      /\ Lost(b) \subseteq Lost(w.buf)
  BY <1>1, ResetPlaced DEF Placed
<1>4. none \in [Samples -> Slots \cup {NoSlot}] /\ \A n \in Samples : none[n] = NoSlot
  OBVIOUS
<1>5. boot \in [hasMeta : BOOLEAN, seq : [Class -> Nat \ {0}]] /\ boot.hasMeta = FALSE
  <2>1. w.bootstrap \in [hasMeta : BOOLEAN, seq : [Class -> Nat \ {0}]]
    BY <1>1 DEF Consumer
  <2> QED
    BY <2>1
<1>6. "Delta" \in Class /\ 0 \in Nat
  BY DEF Class
<1> HIDE DEF b, none, boot
<1>7. /\ u \in Consumer /\ u.buf = b /\ u.tracked = none /\ u.fault = "none" /\ u.bootstrap = boot
      /\ u.lastDelta = NoSample
  BY <1>1, <1>3, <1>4, <1>5, <1>6 DEF Consumer
<1> HIDE DEF u
<1>8. /\ a \in Consumer /\ Placed(a.buf) /\ Drops(b, a.buf) /\ Keeps(u, a)
      /\ a.tracked = none /\ a.fault = "none" /\ a.playing = FALSE
      /\ a.allowed = FALSE /\ a.lastDelta = NoSample
  <2>1. /\ a \in Consumer /\ Placed(a.buf) /\ Drops(u.buf, a.buf) /\ Keeps(u, a)
        /\ a.tracked = u.tracked /\ a.fault = u.fault /\ (a.playing => FALSE)
        /\ a.allowed = FALSE
        /\ u.playing \/ ~a.playing => a.buf = u.buf /\ a.lastDelta = u.lastDelta
    BY <1>3, <1>7, AllowsPlayout
  <2> HIDE DEF a
  <2>2. a.playing \in BOOLEAN
    BY <2>1 DEF Consumer
  <2> QED
    BY <1>7, <2>1, <2>2
<1> HIDE DEF a
<1>9. /\ v \in Consumer /\ v.buf = a.buf /\ v.tracked = none /\ v.fault = "none" /\ v.bootstrap = boot
      /\ v.state = "Bootstrapping" /\ v.playing = FALSE
      /\ v.allowed = FALSE /\ v.lastDelta = NoSample
  <2>1. a.bootstrap = boot
    BY <1>7, <1>8 DEF Keeps
  <2> QED
    BY <1>8, <2>1 DEF Consumer
<1> HIDE DEF v
<1>10. World' = v
  BY <1>2, <1>9, Becomes
<1>11. ~Knows(v)
  BY <1>5, <1>9 DEF Knows
<1>12. \A n \in Samples : v.buf.active[n] = NoSlot /\ v.tracked[n] = NoSlot
  BY <1>3, <1>4, <1>8, <1>9 DEF Drops
<1>13. LInv(v)
  BY <1>5, <1>8, <1>9, <1>11, <1>12 DEF LInv, Safe, Orderly, AskedInOrder, Started, Full, InTurn, NothingOlder
<1>14. Follows(w, v)
  BY <1>3, <1>8, <1>9 DEF Follows, Drops
<1> QED
  BY <1>10, <1>13, <1>14, <1>w DEF LInv

(* The first state *)
LEMMA ConsumerInit == Init => LInv(World)
<1> SUFFICES ASSUME Init PROVE LInv(World)
  OBVIOUS
<1>1. Placed(buf) /\ \A n \in Samples : buf.active[n] = NoSlot /\ tracked[n] = NoSlot
  BY PlacedInit DEF Init, BufferInit
<1>2. World \in Consumer
  <2>1. MaxCopies \in Nat /\ NoSlot \notin Slots /\ "Delta" \in Class
    BY LiveFetchAssumption, BufferAssumption DEF Class
  <2>2. /\ pit \in [Interests -> 0 .. MaxCopies] /\ tracked \in [Samples -> Slots \cup {NoSlot}]
        /\ seqCounter \in [Class -> Nat \ {0}] /\ need \in Class /\ pipeline \in Nat
    BY <2>1 DEF Init
  <2>3. bootstrap \in [hasMeta : BOOLEAN, seq : [Class -> Nat \ {0}]]
    BY DEF Init
  <2>4. buf \in BufferState
    BY <1>1 DEF Placed
  <2>5. /\ metaPending \in BOOLEAN /\ allowed \in BOOLEAN /\ playing \in BOOLEAN
        /\ state \in {"Idle", "Bootstrapping", "Running"} /\ lastDelta \in Samples \cup {NoSample}
        /\ fault \in {"none", "segment not requested", "no header"}
    BY DEF Init
  <2> QED
    BY <2>2, <2>3, <2>4, <2>5 DEF World, Consumer
<1>3. /\ World.buf = buf /\ World.tracked = tracked /\ World.fault = "none" /\ World.state = "Bootstrapping"
      /\ World.bootstrap.hasMeta = FALSE /\ World.playing = FALSE
      /\ World.allowed = FALSE /\ World.lastDelta = NoSample
  BY DEF World, Init
<1> QED
  BY <1>1, <1>2, <1>3 DEF LInv, Safe, Orderly, AskedInOrder, Started, Full, Knows, InTurn, NothingOlder

(* Every step of the consumer keeps the invariant. *)
LEMMA ConsumerNext == LInv(World) /\ [Next]_vars => LInv(World)' /\ Follows(World, World')
<1> SUFFICES ASSUME LInv(World), [Next]_vars PROVE LInv(World)' /\ Follows(World, World')
  OBVIOUS
<1>1. World \in Consumer /\ World.pit = pit /\ World.metaPending = metaPending
  BY DEF LInv, Safe, World
<1>2. pit \in [Interests -> 0 .. MaxCopies] /\ metaPending \in BOOLEAN /\ MaxCopies \in Nat
  BY <1>1, LiveFetchAssumption DEF Consumer
<1>3. ASSUME NEW i \in Interests, NEW startOff \in BOOLEAN, NEW due, OnData(i, startOff, due)
      PROVE  LInv(World)' /\ Follows(World, World')
  BY <1>3, DataKeeps
<1>4. ASSUME NEW i \in Interests, OnTimeout(i) \/ OnNack(i)
      PROVE  LInv(World)' /\ Follows(World, World')
  <2>1. pit[i] \in 0 .. MaxCopies /\ pit[i] > 0
    BY <1>2, <1>4 DEF OnTimeout, OnNack
  <2>2. PICK d \in 0 .. MaxCopies : Become([World EXCEPT !.pit[i] = d])
    <3>1. pit[i] - 1 \in 0 .. MaxCopies
      BY <1>2, <2>1
    <3> QED
      BY <1>1, <1>4, <2>1, <3>1 DEF OnTimeout, OnNack
  <2> DEFINE q == [pit EXCEPT ![i] = d]
  <2>3. q \in [Interests -> 0 .. MaxCopies]
    BY <1>2, <2>2
  <2>4. [World EXCEPT !.pit[i] = d] = [World EXCEPT !.pit = q, !.metaPending = metaPending]
    BY <1>1 DEF Consumer
  <2> HIDE DEF q
  <2> QED
    BY <1>2, <2>2, <2>3, <2>4, FewerInterests
<1>5. ASSUME NEW p \in Positions, NEW due, OnMetadata(p, due)
      PROVE  LInv(World)' /\ Follows(World, World')
  BY <1>5, MetadataKeeps
<1>6. CASE OnMetadataNack
  <2>1. metaPending /\ Become([World EXCEPT !.metaPending = FALSE])
    BY <1>6 DEF OnMetadataNack
  <2>2. [World EXCEPT !.metaPending = FALSE] = [World EXCEPT !.pit = pit, !.metaPending = FALSE]
    BY <1>1 DEF Consumer
  <2> QED
    BY <1>2, <2>1, <2>2, FewerInterests
<1>7. CASE PlayTick
  BY <1>7, PlayKeeps
<1>8. CASE Starvation
  BY <1>8, StarvationKeeps
<1>9. CASE UNCHANGED vars
  BY <1>9 DEF vars, World, LInv, Follows
<1> QED
  BY <1>3, <1>4, <1>5, <1>6, <1>7, <1>8, <1>9 DEF Next

(* Whatever the network does, the consumer's state is well typed, its slots *)
(* are where their contents say, what waits for playback is locked, and of  *)
(* all that its callbacks may throw or assert only two things can happen: a *)
(* segment that the fresh slot of its sample has not asked for, and a       *)
(* sample that parity completed without its header.                         *)
THEOREM SlotsSurviveCallbacks ==
  Spec => [](TypeOK /\ SlotsKeptApart /\ QueuedStayLocked
               /\ (fault \in {"none", "segment not requested"} \/ Recoverable # {}))
<1>1. LInv(World) =>
        /\ TypeOK /\ SlotsKeptApart /\ QueuedStayLocked
        /\ fault \in {"none", "segment not requested"} \/ Recoverable # {}
  <2> SUFFICES ASSUME LInv(World)
               PROVE  /\ TypeOK /\ SlotsKeptApart /\ QueuedStayLocked
                      /\ fault \in {"none", "segment not requested"} \/ Recoverable # {}
    OBVIOUS
  <2>1. /\ World \in Consumer /\ Placed(World.buf) /\ World.state # "Idle"
        /\ World.fault = "no header" => Recoverable # {}
    BY DEF LInv, Safe
  <2>2. /\ buf \in BufferState /\ Placed(buf)
        /\ pit \in [Interests -> 0 .. MaxCopies]
        /\ tracked \in [Samples -> Slots \cup {NoSlot}]
        /\ seqCounter \in [Class -> Nat \ {0}] /\ need \in Class /\ pipeline \in Nat
        /\ state \in {"Bootstrapping", "Running"}
        /\ bootstrap \in [hasMeta : BOOLEAN, seq : [Class -> Nat \ {0}]]
        /\ metaPending \in BOOLEAN /\ allowed \in BOOLEAN /\ playing \in BOOLEAN
        /\ lastDelta \in Samples \cup {NoSample}
        /\ fault \in {"none", "segment not requested", "no header"}
        /\ fault = "no header" => Recoverable # {}
    <3>1. /\ World.buf = buf /\ World.pit = pit /\ World.metaPending = metaPending
          /\ World.tracked = tracked /\ World.seqCounter = seqCounter /\ World.need = need
          /\ World.pipeline = pipeline /\ World.state = state /\ World.bootstrap = bootstrap
          /\ World.allowed = allowed /\ World.playing = playing
          /\ World.lastDelta = lastDelta /\ World.fault = fault
      BY DEF World
    <3> DEFINE w == World
    <3>w. w = World
      OBVIOUS
    <3> HIDE DEF w
    <3>2. /\ w.buf \in BufferState /\ w.pit \in [Interests -> 0 .. MaxCopies]
          /\ w.tracked \in [Samples -> Slots \cup {NoSlot}]
          /\ w.seqCounter \in [Class -> Nat \ {0}] /\ w.need \in Class /\ w.pipeline \in Nat
      BY <2>1, <3>w DEF Consumer
    <3>3. /\ w.state \in {"Bootstrapping", "Running"}
          /\ w.bootstrap \in [hasMeta : BOOLEAN, seq : [Class -> Nat \ {0}]]
          /\ w.metaPending \in BOOLEAN /\ w.allowed \in BOOLEAN /\ w.playing \in BOOLEAN
          /\ w.lastDelta \in Samples \cup {NoSample}
          /\ w.fault \in {"none", "segment not requested", "no header"}
      BY <2>1, <3>w DEF Consumer
    <3> QED
      BY <2>1, <3>1, <3>2, <3>3, <3>w
  <2>3. /\ seqCounter \in [Class -> Nat] /\ bootstrap \in [hasMeta : BOOLEAN, seq : [Class -> Nat]]
        /\ pipeline \in Int /\ {metaPending, allowed, playing} \subseteq BOOLEAN
    <3>1. seqCounter \in [Class -> Nat] /\ pipeline \in Int
      <4>1. seqCounter \in [Class -> Nat \ {0}] /\ pipeline \in Nat
        BY <2>2
      <4> QED
        BY <4>1
    <3>2. bootstrap \in [hasMeta : BOOLEAN, seq : [Class -> Nat]]
      BY <2>2
    <3>3. {metaPending, allowed, playing} \subseteq BOOLEAN
      BY <2>2, Zenon
    <3> QED
      BY <3>1, <3>2, <3>3
  <2>4. TypeOK
    BY <2>2, <2>3 DEF TypeOK, BufferTypeOK
  <2>5. SlotsKeptApart /\ QueuedStayLocked
    BY <2>2 DEF SlotsKeptApart, QueuedStayLocked, Placed, QueuedLocked
  <2> QED
    BY <2>2, <2>4, <2>5
<1> QED
  BY <1>1, ConsumerInit, ConsumerNext, PTL DEF Spec

(* The delta frames of a session are played in publishing order, whatever   *)
(* the order their segments arrive in and however often the consumer is     *)
(* starved.                                                                 *)
THEOREM DeltasPlayInOrder == Spec => DeltaOrder
<1>1. Follows(World, World') =>
        [lastDelta' # lastDelta =>
           \/ lastDelta = NoSample \/ lastDelta' = NoSample
           \/ Timestamp[lastDelta] < Timestamp[lastDelta']]_vars
  BY DEF Follows, World
<1> QED
  BY <1>1, ConsumerInit, ConsumerNext, PTL DEF Spec, DeltaOrder

(* No slot of the buffer is lost but the one a sample had that was fetched  *)
(* a second time while its first slot waited for playback.                  *)
THEOREM SlotsLostToRefetching == Spec => LostOnlyWhenRefetched
<1>1. Follows(World, World') =>
        [\A x \in Lost(buf') \ Lost(buf) :
           \E n \in Samples : buf.reserved[n] = x /\ isRequested(buf, n)]_vars
  BY DEF Follows, World
<1> QED
  BY <1>1, ConsumerInit, ConsumerNext, PTL DEF Spec, LostOnlyWhenRefetched

(* The callbacks of a live consumer return and leave the slots where they   *)
(* belong, as long as no sample has more than one segment of parity.        *)
THEOREM CallbacksReturn ==
  ASSUME Recoverable = {}
  PROVE  Spec => []CallbacksSucceed
<1>1. TypeOK /\ SlotsKeptApart /\ QueuedStayLocked
        /\ (fault \in {"none", "segment not requested"} \/ Recoverable # {}) => CallbacksSucceed
  BY DEF CallbacksSucceed, NoFault
<1> QED
  BY <1>1, SlotsSurviveCallbacks, PTL
=============================================================================
