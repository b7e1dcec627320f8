------------------------ MODULE VideoProducer_proofs ------------------------
(***************************************************************************)
(* The numbers of published frames fit together and a consumer that starts *)
(* from any published metadata starts at the beginning of a GOP, for any   *)
(* set of threads, any GOP size a metadata packet can express, and any     *)
(* behaviour of the encoders.                                              *)
(***************************************************************************)
EXTENDS VideoProducer, TLAPS

(* The numbers in the frames F of a thread, given its counters. *)
NumbersFit(F, s) ==
  /\ \A f \in F : f.key => f.no <= s.key /\ f.paired <= s.delta + 1 /\ f.gop = 0
  /\ \A f \in F : ~f.key => f.no <= s.delta
  /\ \A f, g \in F : f.key /\ g.key /\ f.no = g.no => f = g
  /\ s.key >= 0 => \E k \in F : k.key /\ k.no = s.key

(* A delta frame belongs to the GOP of the key frame k. *)
InGopOf(d, k, F) ==
  /\ k.key /\ k.no = d.paired /\ k.paired <= d.no
  /\ d.gop = d.no - k.paired + 1
  /\ \A later \in F : later.key /\ later.no > k.no => later.paired > d.no

DeltasPaired(F) == \A d \in F : ~d.key => \E k \in F : InGopOf(d, k, F)

(* The coder's position is the distance from the last key frame, where      *)
(* left says which frame was encoded but is not numbered yet.  After a      *)
(* dropped key frame it is not, but then a key frame is asked for again.    *)
PositionFits(F, s, c, left) ==
  /\ left = "drop" /\ c.trigger # 0 =>
       /\ s.key >= 0 /\ 0 <= c.pos /\ c.pos <= c.trigger - 1
       /\ \A k \in F : k.key /\ k.no = s.key => c.pos = s.delta - k.paired + 1
  /\ left = "delta" =>
       /\ s.key >= 0 /\ 1 <= c.pos /\ c.pos <= Gop - 1
       /\ c.trigger # 0 => c.pos <= c.trigger - 1
       /\ \A k \in F : k.key /\ k.no = s.key => c.pos = s.delta - k.paired + 2
  /\ left = "key" => c.pos = 0

ThreadInv(F, s, c, left) ==
  NumbersFit(F, s) /\ DeltasPaired(F) /\ PositionFits(F, s, c, left)

Describes(m, f) ==
  /\ m.delta = (IF f.key THEN f.paired ELSE f.no)
  /\ m.key = (IF f.key THEN f.no ELSE f.paired)
  /\ m.gop = f.gop

(* The inductive invariant. *)
PInv ==
  /\ ProducerTypeOK
  /\ capture.at # "publish" => \A t \in Threads : capture.left[t] = "drop"
  /\ \A t \in Threads : ThreadInv(frames[t], seq[t], coder[t], capture.left[t])
  /\ busy = Len(tasks)
  /\ \A i \in 1..Len(tasks) : tasks[i].frame \in frames[tasks[i].thread]
  /\ \A t \in Threads : keeper[t].version > 0 => \E f \in frames[t] : Describes(keeper[t], f)
  /\ \A t \in Threads : got[t].version > 0 => \E f \in frames[t] : Describes(got[t], f)

Sequel == [key : Nat \cup {-1}, delta : Nat \cup {-1}]
Coder == [trigger : 0..(Gop - 1), pos : Int]

-----------------------------------------------------------------------------
(* A position within a GOP survives the conversion to an unsigned char. *)
LEMMA PositionFitsChar == \A p \in 0..(Gop - 1) : p % PosMod = p
BY ProducerAssumption

(* Numbering a key frame keeps the numbers of a thread fitting. *)
LEMMA KeyNumbered ==
  ASSUME NEW F \in SUBSET Frame, NEW s \in Sequel, NEW c \in Coder,
         ThreadInv(F, s, c, "key"), NEW f \in Frame, f.key,
         f.no = s.key + 1, f.paired = s.delta + 1, f.gop = 0
  PROVE  ThreadInv(F \cup {f}, [s EXCEPT !.key = f.no], c, "drop")
<1> DEFINE G == F \cup {f}
           r == [s EXCEPT !.key = f.no]
<1>0. r.key = s.key + 1 /\ r.delta = s.delta /\ s.key \in Int /\ s.delta \in Int
      /\ s.key >= -1 /\ s.delta >= -1
  BY DEF Sequel
<1>1. NumbersFit(G, r)
  BY <1>0 DEF ThreadInv, NumbersFit, Frame
<1>2. DeltasPaired(G)
  <2> SUFFICES ASSUME NEW d \in G, ~d.key PROVE \E k \in G : InGopOf(d, k, G)
    BY DEF DeltasPaired
  <2>1. d \in F
    OBVIOUS
  <2>2. PICK k \in F : InGopOf(d, k, F)
    BY <2>1 DEF ThreadInv, DeltasPaired
  <2>3. d.no <= s.delta
    BY <2>1 DEF ThreadInv, NumbersFit
  <2>4. f.paired > d.no
    BY <2>1, <2>3, <1>0 DEF Frame
  <2>5. InGopOf(d, k, G)
    BY <2>2, <2>4 DEF InGopOf
  <2> QED BY <2>5
<1>3. PositionFits(G, r, c, "drop")
  <2>1. c.pos = 0 /\ c.trigger \in Nat
    BY ProducerAssumption DEF ThreadInv, PositionFits, Coder
  <2>2. \A k \in G : k.key /\ k.no = r.key => k = f
    BY <1>0 DEF ThreadInv, NumbersFit, Frame
  <2>3. c.pos = r.delta - f.paired + 1
    BY <2>1, <1>0 DEF Frame
  <2> QED BY <2>1, <2>2, <2>3, <1>0 DEF PositionFits
<1> QED BY <1>1, <1>2, <1>3 DEF ThreadInv

(* Numbering a delta frame does. *)
LEMMA DeltaNumbered ==
  ASSUME NEW F \in SUBSET Frame, NEW s \in Sequel, NEW c \in Coder,
         ThreadInv(F, s, c, "delta"), NEW f \in Frame, ~f.key,
         f.no = s.delta + 1, f.paired = s.key, f.gop = c.pos
  PROVE  ThreadInv(F \cup {f}, [s EXCEPT !.delta = f.no], c, "drop")
<1> DEFINE G == F \cup {f}
           r == [s EXCEPT !.delta = f.no]
<1>0. r.key = s.key /\ r.delta = s.delta + 1 /\ s.key \in Int /\ s.delta \in Int
      /\ s.key >= -1 /\ s.delta >= -1
  BY DEF Sequel
<1>1. NumbersFit(G, r)
  BY <1>0 DEF ThreadInv, NumbersFit, Frame
<1>k. PICK k \in F : k.key /\ k.no = s.key
  BY DEF ThreadInv, NumbersFit, PositionFits
<1>p. c.pos = s.delta - k.paired + 2 /\ k.paired <= s.delta + 1
  BY <1>k DEF ThreadInv, NumbersFit, PositionFits
<1>2. DeltasPaired(G)
  <2> SUFFICES ASSUME NEW d \in G, ~d.key PROVE \E l \in G : InGopOf(d, l, G)
    BY DEF DeltasPaired
  <2>1. CASE d \in F
    <3>1. PICK l \in F : InGopOf(d, l, F)
      BY <2>1 DEF ThreadInv, DeltasPaired
    <3>2. InGopOf(d, l, G)
      BY <3>1 DEF InGopOf
    <3> QED BY <3>2
  <2>2. CASE d = f
    <3>1. \A later \in G : later.key => later.no <= k.no
      BY <1>k DEF ThreadInv, NumbersFit
    <3>2. \A later \in G : ~(later.key /\ later.no > k.no)
      BY <3>1 DEF Frame
    <3>3. k.paired <= f.no /\ f.gop = f.no - k.paired + 1
      BY <1>p, <1>0 DEF Frame
    <3>4. InGopOf(f, k, G)
      BY <3>2, <3>3, <1>k DEF InGopOf
    <3> QED BY <3>4, <2>2
  <2> QED BY <2>1, <2>2
<1>3. PositionFits(G, r, c, "drop")
  <2>1. \A l \in G : l.key /\ l.no = r.key => l = k
    BY <1>0, <1>k DEF ThreadInv, NumbersFit
  <2>2. c.pos = r.delta - k.paired + 1
    BY <1>p, <1>0 DEF Frame
  <2>3. /\ s.key >= 0 /\ 1 <= c.pos /\ c.pos \in Int
        /\ c.trigger # 0 => c.pos <= c.trigger - 1
    BY DEF ThreadInv, PositionFits, Coder
  <2> QED BY <2>1, <2>2, <2>3, <1>0 DEF PositionFits
<1> QED BY <1>1, <1>2, <1>3 DEF ThreadInv

(* What the coder does with a raw frame keeps its position fitting. *)
LEMMA FrameEncoded ==
  ASSUME NEW F \in SUBSET Frame, NEW s \in Sequel, NEW c \in Coder,
         ThreadInv(F, s, c, "drop"), NEW o \in Outcomes,
         keyAsked(c) => o \in {"key", "drop"}
  PROVE  onRawFrame(c, o) \in Coder /\ ThreadInv(F, s, onRawFrame(c, o), o)
<1> DEFINE r == onRawFrame(c, o)
<1>0. Gop \in Nat /\ Gop >= 1 /\ c.trigger \in 0..(Gop - 1) /\ c.pos \in Int
  BY ProducerAssumption DEF Coder
<1>t. triggerNext(c) \in 0..(Gop - 1) /\ (triggerNext(c) # 0 => triggerNext(c) = c.trigger + 1)
  BY <1>0 DEF triggerNext
<1>1. CASE o = "key"
  <2>1. r = [trigger |-> triggerNext(c), pos |-> 0]
    BY <1>1 DEF onRawFrame
  <2>2. r \in Coder /\ PositionFits(F, s, r, o)
    BY <2>1, <1>1, <1>t DEF PositionFits, Coder
  <2> QED BY <2>2 DEF ThreadInv
<1>2. CASE o = "delta"
  <2>1. c.trigger # 0
    BY <1>2 DEF keyAsked
  <2>2. r = [trigger |-> triggerNext(c), pos |-> c.pos + 1]
    BY <1>2, <2>1 DEF onRawFrame, keyAsked
  <2>3. /\ s.key >= 0 /\ 0 <= c.pos /\ c.pos <= c.trigger - 1
        /\ \A k \in F : k.key /\ k.no = s.key => c.pos = s.delta - k.paired + 1
    BY <2>1 DEF ThreadInv, PositionFits
  <2>4. \A k \in F : k.key /\ k.no = s.key => c.pos + 1 = s.delta - k.paired + 2
    BY <2>3, <1>0 DEF Frame, Sequel
  <2>5. /\ 1 <= c.pos + 1 /\ c.pos + 1 <= Gop - 1
        /\ triggerNext(c) # 0 => c.pos + 1 <= triggerNext(c) - 1
    BY <2>3, <1>0, <1>t
  <2>6. r \in Coder /\ PositionFits(F, s, r, o)
    BY <2>2, <2>3, <2>4, <2>5, <1>2, <1>0, <1>t DEF PositionFits, Coder
  <2> QED BY <2>6 DEF ThreadInv
<1>3. CASE o = "drop"
  <2>1. CASE c.trigger = 0
    <3>1. r = [trigger |-> c.trigger, pos |-> 0 - 1]
      BY <1>3, <2>1 DEF onRawFrame, keyAsked
    <3>2. r \in Coder /\ r.trigger = 0
      BY <3>1, <2>1 DEF Coder
    <3>3. PositionFits(F, s, r, o)
      BY <3>2, <1>3 DEF PositionFits
    <3> QED BY <3>2, <3>3 DEF ThreadInv
  <2>2. CASE c.trigger # 0
    <3>1. r = [trigger |-> c.trigger, pos |-> (c.pos + 1) - 1]
      BY <1>3, <2>2 DEF onRawFrame, keyAsked
    <3>2. r = c
      BY <3>1, <1>0 DEF Coder
    <3> QED BY <3>2, <1>3
  <2> QED BY <2>1, <2>2
<1> QED BY <1>1, <1>2, <1>3 DEF Outcomes

-----------------------------------------------------------------------------
(* The frame that publish() numbers next, and what it does with it. *)
LEMMA FrameNumbered ==
  ASSUME PInv, NEW t \in Threads, Publish(t)
  PROVE  /\ capture.at = "publish" /\ capture.left[t] \in {"key", "delta"}
         /\ UNCHANGED <<threads, coder, playback, face, keeper, timer, published, got, fault>>
         /\ capture' = [capture EXCEPT !.left[t] = "drop"]
         /\ busy' = busy + 1
         /\ \E f \in Frame, s \in Sequel :
              /\ f.key <=> capture.left[t] = "key"
              /\ f.play = playback /\ f.gop = coder[t].pos /\ (f.key => f.gop = 0)
              /\ f.key => /\ f.no = seq[t].key + 1 /\ f.paired = seq[t].delta + 1
                          /\ s = [seq[t] EXCEPT !.key = f.no]
              /\ ~f.key => /\ f.no = seq[t].delta + 1 /\ f.paired = seq[t].key
                           /\ s = [seq[t] EXCEPT !.delta = f.no]
              /\ seq' = [seq EXCEPT ![t] = s]
              /\ frames' = [frames EXCEPT ![t] = @ \cup {f}]
              /\ tasks' = Append(tasks, [thread |-> t, frame |-> f])
<1> DEFINE left == capture.left[t]
           isKey == left = "key"
           f == nextFrame(t, isKey)
           sNew == IF isKey THEN [seq[t] EXCEPT !.key = f.no] ELSE [seq[t] EXCEPT !.delta = f.no]
<1>0. /\ seq[t] \in Sequel /\ coder[t] \in Coder
      /\ playback \in Nat /\ left \in {"key", "delta"}
      /\ ThreadInv(frames[t], seq[t], coder[t], left)
  BY DEF PInv, ProducerTypeOK, Publish, Sequel, Coder, Outcomes
<1>1. coder[t].pos \in 0..(Gop - 1) /\ (isKey => coder[t].pos = 0) /\ (~isKey => seq[t].key >= 0)
  BY <1>0, ProducerAssumption DEF ThreadInv, PositionFits, Coder
<1>2. coder[t].pos % PosMod = coder[t].pos /\ coder[t].pos \in 0..(PosMod - 1)
  BY <1>1, PositionFitsChar, ProducerAssumption
<1>3. /\ f.key = isKey /\ f.play = playback /\ f.gop = coder[t].pos
      /\ isKey => f.no = seq[t].key + 1 /\ f.paired = seq[t].delta + 1
      /\ ~isKey => f.no = seq[t].delta + 1 /\ f.paired = seq[t].key
  BY <1>0, <1>2 DEF nextFrame, Sequel
<1>4. f \in Frame /\ sNew \in Sequel
  <2>1. f = [key |-> f.key, no |-> f.no, paired |-> f.paired, play |-> f.play, gop |-> f.gop]
    BY DEF nextFrame
  <2>2. f.no \in Nat /\ f.paired \in Nat /\ f.play \in Nat /\ f.gop \in 0..(PosMod - 1)
    <3>1. CASE isKey
      BY <3>1, <1>0, <1>1, <1>2, <1>3 DEF Sequel
    <3>2. CASE ~isKey
      BY <3>2, <1>0, <1>1, <1>2, <1>3 DEF Sequel
    <3> QED BY <3>1, <3>2
  <2>b. f.key \in BOOLEAN
    BY <1>3
  <2>3. f \in Frame
    BY <2>1, <2>2, <2>b DEF Frame
  <2>4. sNew \in Sequel
    BY <2>2, <1>0 DEF Sequel
  <2> QED BY <2>3, <2>4
<1>5. /\ seq' = [seq EXCEPT ![t] = sNew] /\ frames' = [frames EXCEPT ![t] = @ \cup {f}]
      /\ busy' = busy + 1 /\ tasks' = Append(tasks, [thread |-> t, frame |-> f])
      /\ capture' = [capture EXCEPT !.left[t] = "drop"] /\ capture.at = "publish"
      /\ UNCHANGED <<threads, coder, playback, face, keeper, timer, published, got, fault>>
  BY DEF Publish
<1>6. /\ isKey => sNew = [seq[t] EXCEPT !.key = f.no]
      /\ ~isKey => sNew = [seq[t] EXCEPT !.delta = f.no]
  OBVIOUS
<1> HIDE DEF f, sNew
<1> QED BY <1>0, <1>1, <1>3, <1>4, <1>5, <1>6

(* Numbering a frame and dispatching its task keeps the invariant. *)
LEMMA PublishKeeps ==
  ASSUME PInv, NEW t \in Threads, Publish(t)
  PROVE  PInv'
<1> DEFINE left == capture.left[t]
<1>0. /\ seq[t] \in Sequel /\ coder[t] \in Coder /\ frames[t] \in SUBSET Frame
      /\ left \in {"key", "delta"} /\ ThreadInv(frames[t], seq[t], coder[t], left)
  BY FrameNumbered DEF PInv, ProducerTypeOK, Sequel, Coder
<1>3. PICK f \in Frame, sNew \in Sequel :
        /\ f.key <=> capture.left[t] = "key"
        /\ f.play = playback /\ f.gop = coder[t].pos /\ (f.key => f.gop = 0)
        /\ f.key => /\ f.no = seq[t].key + 1 /\ f.paired = seq[t].delta + 1
                    /\ sNew = [seq[t] EXCEPT !.key = f.no]
        /\ ~f.key => /\ f.no = seq[t].delta + 1 /\ f.paired = seq[t].key
                     /\ sNew = [seq[t] EXCEPT !.delta = f.no]
        /\ seq' = [seq EXCEPT ![t] = sNew]
        /\ frames' = [frames EXCEPT ![t] = @ \cup {f}]
        /\ tasks' = Append(tasks, [thread |-> t, frame |-> f])
  BY FrameNumbered
<1>4. f \in Frame /\ sNew \in Sequel
  OBVIOUS
<1>5. ThreadInv(frames[t] \cup {f}, sNew, coder[t], "drop")
  <2>1. CASE f.key
    <3>1. left = "key"
      BY <2>1, <1>3
    <3> QED BY <2>1, <3>1, <1>0, <1>3, <1>4, KeyNumbered
  <2>2. CASE ~f.key
    <3>1. left = "delta"
      BY <2>2, <1>0, <1>3
    <3> QED BY <2>2, <3>1, <1>0, <1>3, <1>4, DeltaNumbered
  <2> QED BY <2>1, <2>2
<1>6. /\ seq' = [seq EXCEPT ![t] = sNew] /\ frames' = [frames EXCEPT ![t] = @ \cup {f}]
      /\ busy' = busy + 1 /\ tasks' = Append(tasks, [thread |-> t, frame |-> f])
      /\ capture' = [capture EXCEPT !.left[t] = "drop"] /\ capture.at = "publish"
      /\ UNCHANGED <<threads, coder, playback, face, keeper, timer, published, got, fault>>
  BY <1>3, FrameNumbered
<1> HIDE DEF left
<1>7. ProducerTypeOK' /\ busy' = Len(tasks')
  <2>0. [thread |-> t, frame |-> f] \in Task
    BY <1>4 DEF Task
  <2>1. tasks' \in Seq(Task) /\ Len(tasks') = Len(tasks) + 1
    BY <2>0, <1>6 DEF PInv, ProducerTypeOK
  <2>2. capture' \in [at : {"idle", "publish", "setRunning", "setWork", "setTimer"},
                      left : [Threads -> Outcomes], any : BOOLEAN]
    BY <1>6 DEF PInv, ProducerTypeOK, Outcomes
  <2>3. seq' \in [Threads -> Sequel] /\ frames' \in [Threads -> SUBSET Frame] /\ busy' \in Nat
    BY <1>6, <1>4 DEF PInv, ProducerTypeOK, Sequel
  <2>4. busy' = Len(tasks')
    BY <2>1, <1>6 DEF PInv
  <2> QED BY <2>1, <2>2, <2>3, <2>4, <1>6 DEF PInv, ProducerTypeOK, Sequel
<1>8. capture'.at = "publish" /\ capture'.left = [capture.left EXCEPT ![t] = "drop"]
  BY <1>6 DEF PInv, ProducerTypeOK
<1>9. \A u \in Threads : ThreadInv(frames'[u], seq'[u], coder'[u], capture'.left[u])
  <2> SUFFICES ASSUME NEW u \in Threads
               PROVE  ThreadInv(frames'[u], seq'[u], coder'[u], capture'.left[u])
    OBVIOUS
  <2>1. CASE u = t
    BY <2>1, <1>5, <1>6, <1>8 DEF PInv, ProducerTypeOK
  <2>2. CASE u # t
    <3>1. frames'[u] = frames[u] /\ seq'[u] = seq[u] /\ coder'[u] = coder[u]
          /\ capture'.left[u] = capture.left[u]
      BY <2>2, <1>6, <1>8 DEF PInv, ProducerTypeOK
    <3> QED BY <3>1 DEF PInv
  <2> QED BY <2>1, <2>2
<1>10. \A u \in Threads : frames[u] \subseteq frames'[u]
  BY <1>6 DEF PInv, ProducerTypeOK
<1>11. \A i \in 1..Len(tasks') : tasks'[i].frame \in frames'[tasks'[i].thread]
  <2> SUFFICES ASSUME NEW i \in 1..Len(tasks')
               PROVE  tasks'[i].frame \in frames'[tasks'[i].thread]
    OBVIOUS
  <2>0. tasks \in Seq(Task) /\ frames \in [Threads -> SUBSET Frame]
    BY DEF PInv, ProducerTypeOK
  <2>1. CASE i <= Len(tasks)
    <3>1. i \in 1..Len(tasks)
      BY <2>0, <2>1, <1>6
    <3>2. tasks'[i] = tasks[i]
      BY <2>0, <3>1, <1>6
    <3>r. tasks[i] \in Task
      BY <2>0, <3>1
    <3>3. tasks[i].thread \in Threads
      BY <3>r DEF Task
    <3> QED BY <3>1, <3>2, <3>3, <1>10 DEF PInv
  <2>2. CASE i = Len(tasks) + 1
    <3>1. tasks'[i] = [thread |-> t, frame |-> f]
      BY <2>0, <2>2, <1>6
    <3> QED BY <3>1, <1>6, <2>0
  <2>3. i <= Len(tasks) \/ i = Len(tasks) + 1
    BY <2>0, <1>6
  <2> QED BY <2>1, <2>2, <2>3
<1>12. \A u \in Threads :
         /\ keeper'[u].version > 0 => \E g \in frames'[u] : Describes(keeper'[u], g)
         /\ got'[u].version > 0 => \E g \in frames'[u] : Describes(got'[u], g)
  BY <1>6, <1>10 DEF PInv
<1> QED BY <1>7, <1>8, <1>9, <1>11, <1>12 DEF PInv

(* feedFrame's encoding keeps the invariant. *)
LEMMA FeedKeeps ==
  ASSUME PInv, NEW outcome \in [Threads -> Outcomes], FeedFrame(outcome)
  PROVE  PInv'
<1>0. /\ coder \in [Threads -> Coder] /\ seq \in [Threads -> Sequel]
      /\ frames \in [Threads -> SUBSET Frame]
  BY DEF PInv, ProducerTypeOK, Coder, Sequel
<1>1. /\ coder' = [t \in Threads |-> IF t \in Active THEN onRawFrame(coder[t], outcome[t])
                                     ELSE coder[t]]
      /\ capture' = [at |-> "publish", left |-> outcome,
                     any |-> \E t \in Threads : outcome[t] # "drop"]
      /\ UNCHANGED <<threads, seq, playback, busy, face, tasks, keeper, timer, frames, published,
                     got, fault>>
      /\ capture.at = "idle"
  BY DEF FeedFrame, Unlocked
<1>2. \A t \in Threads : coder'[t] \in Coder /\ ThreadInv(frames[t], seq[t], coder'[t], outcome[t])
  <2> SUFFICES ASSUME NEW t \in Threads
               PROVE  coder'[t] \in Coder /\ ThreadInv(frames[t], seq[t], coder'[t], outcome[t])
    OBVIOUS
  <2>0. /\ ThreadInv(frames[t], seq[t], coder[t], "drop") /\ outcome[t] \in Outcomes
        /\ coder[t] \in Coder /\ seq[t] \in Sequel /\ frames[t] \in SUBSET Frame
    BY <1>0, <1>1 DEF PInv
  <2>1. CASE t \in Active
    <3>1. outcome[t] \in encoderMay(t)
      BY <2>1 DEF FeedFrame
    <3>2. keyAsked(coder[t]) => outcome[t] \in {"key", "drop"}
      BY <3>1 DEF encoderMay
    <3>3. coder'[t] = onRawFrame(coder[t], outcome[t])
      BY <2>1, <1>1
    <3> QED BY <3>2, <3>3, <2>0, FrameEncoded
  <2>2. CASE t \notin Active
    <3>1. coder'[t] = coder[t] /\ outcome[t] = "drop"
      BY <2>2, <1>1 DEF FeedFrame
    <3> QED BY <3>1, <2>0
  <2> QED BY <2>1, <2>2
<1>3. coder' \in [Threads -> Coder]
  BY <1>1, <1>2
<1>4. capture' \in [at : {"idle", "publish", "setRunning", "setWork", "setTimer"},
                    left : [Threads -> Outcomes], any : BOOLEAN]
  BY <1>1
<1>5. ProducerTypeOK'
  BY <1>1, <1>3, <1>4 DEF PInv, ProducerTypeOK, Coder
<1>6. capture'.at = "publish" /\ capture'.left = outcome
  BY <1>1
<1> QED BY <1>1, <1>2, <1>5, <1>6 DEF PInv

(* A publishing task, and with it the metadata of a thread, describes a     *)
(* frame that was numbered.                                                 *)
LEMMA RunTaskKeeps ==
  ASSUME PInv, RunTask
  PROVE  PInv'
<1> DEFINE t == Head(tasks).thread
           f == Head(tasks).frame
<1>0. /\ tasks \in Seq(Task) /\ tasks # <<>>
      /\ frames \in [Threads -> SUBSET Frame] /\ published \in [Threads -> SUBSET Frame]
      /\ keeper \in [Threads -> Meta]
  BY DEF PInv, ProducerTypeOK, RunTask
<1>1. Head(tasks) = tasks[1] /\ 1 \in 1..Len(tasks)
  BY <1>0
<1>2. tasks[1] \in Task
  BY <1>0, <1>1
<1>3. t \in Threads /\ f \in Frame
  BY <1>1, <1>2 DEF Task
<1>4. f \in frames[t]
  BY <1>1 DEF PInv
<1>5. /\ published' = [published EXCEPT ![t] = @ \cup {f}]
      /\ keeper' = [keeper EXCEPT ![t] = updateMeta(@, f)]
      /\ tasks' = Tail(tasks) /\ busy' = busy - 1
      /\ UNCHANGED <<threads, coder, seq, playback, capture, face, timer, frames, got, fault>>
  BY DEF RunTask
<1> HIDE DEF t, f
<1>6. updateMeta(keeper[t], f) \in Meta /\ Describes(updateMeta(keeper[t], f), f)
  <2>1. keeper[t].version \in Nat
    BY <1>0, <1>3 DEF Meta
  <2> QED BY <2>1, <1>3 DEF updateMeta, Describes, Meta, Frame
<1>7. \A u \in Threads : keeper'[u].version > 0 => \E g \in frames'[u] : Describes(keeper'[u], g)
  <2> SUFFICES ASSUME NEW u \in Threads, keeper'[u].version > 0
               PROVE  \E g \in frames'[u] : Describes(keeper'[u], g)
    OBVIOUS
  <2>1. CASE u = t
    BY <2>1, <1>0, <1>3, <1>4, <1>5, <1>6
  <2>2. CASE u # t
    <3>1. keeper'[u] = keeper[u] /\ frames' = frames
      BY <2>2, <1>0, <1>3, <1>5
    <3> QED BY <3>1 DEF PInv
  <2> QED BY <2>1, <2>2
<1>8. \A i \in 1..Len(tasks') : tasks'[i].frame \in frames'[tasks'[i].thread]
  <2> SUFFICES ASSUME NEW i \in 1..Len(tasks')
               PROVE  tasks'[i].frame \in frames'[tasks'[i].thread]
    OBVIOUS
  <2>1. Len(tasks') = Len(tasks) - 1 /\ Len(tasks) \in Nat
    BY <1>0, <1>5
  <2>2. i + 1 \in 1..Len(tasks)
    BY <2>1
  <2>3. tasks'[i] = tasks[i + 1]
    BY <2>1, <1>0, <1>5
  <2> QED BY <2>2, <2>3, <1>5 DEF PInv
<1>9. tasks' \in Seq(Task) /\ busy' = Len(tasks') /\ busy' \in Nat
  <2>1. Len(tasks') = Len(tasks) - 1 /\ Len(tasks) \in Nat /\ Len(tasks) > 0
    BY <1>0, <1>5
  <2> QED BY <2>1, <1>0, <1>5 DEF PInv
<1>10. ProducerTypeOK'
  BY <1>3, <1>5, <1>6, <1>9 DEF PInv, ProducerTypeOK
<1> QED BY <1>5, <1>7, <1>8, <1>9, <1>10 DEF PInv

(* The timer and the metadata it publishes. *)
LEMMA UpdateMetaKeeps ==
  ASSUME PInv, UpdateMeta
  PROVE  PInv'
<1>1. PICK fetched \in SUBSET Active :
        got' = [t \in Threads |-> IF t \in fetched THEN keeper[t] ELSE got[t]]
  BY DEF UpdateMeta
<1>2. /\ UNCHANGED <<threads, coder, seq, playback, busy, capture, tasks, keeper, timer, frames,
                     published, fault>>
      /\ face' = "unsetRunning"
  BY DEF UpdateMeta
<1>3. ProducerTypeOK'
  BY <1>1, <1>2 DEF PInv, ProducerTypeOK
<1>4. \A t \in Threads : got'[t].version > 0 => \E f \in frames[t] : Describes(got'[t], f)
  <2> SUFFICES ASSUME NEW t \in Threads, got'[t].version > 0
               PROVE  \E f \in frames[t] : Describes(got'[t], f)
    OBVIOUS
  <2>1. got'[t] = keeper[t] \/ got'[t] = got[t]
    BY <1>1
  <2> QED BY <2>1 DEF PInv
<1> QED BY <1>2, <1>3, <1>4 DEF PInv

(* The other steps leave numbers, tasks and metadata alone. *)
LEMMA OthersKeep ==
  ASSUME PInv,
         \/ \E t \in Threads : Add(t) \/ Remove(t)
         \/ FinishFeed \/ SetupInvocation \/ Fire \/ Cancel
  PROVE  PInv'
<1> DEFINE Kept == /\ UNCHANGED <<coder, seq, busy, tasks, keeper, frames, published, got>>
                   /\ capture'.left = capture.left
                   /\ capture'.at # "publish" => \A t \in Threads : capture.left[t] = "drop"
                   /\ ProducerTypeOK'
<1>1. ASSUME NEW t \in Threads, Add(t) \/ Remove(t) PROVE Kept
  BY <1>1 DEF Add, Remove, PInv, ProducerTypeOK
<1>2. ASSUME FinishFeed PROVE Kept
  <2>1. capture' = [capture EXCEPT !.at = "idle"] \/ capture' = [capture EXCEPT !.at = "setRunning"]
    BY <1>2 DEF FinishFeed
  <2>2. /\ capture'.left = capture.left
        /\ capture' \in [at : {"idle", "publish", "setRunning", "setWork", "setTimer"},
                         left : [Threads -> Outcomes], any : BOOLEAN]
    BY <2>1 DEF PInv, ProducerTypeOK
  <2>3. playback' \in Nat
    BY <1>2 DEF FinishFeed, PInv, ProducerTypeOK
  <2> QED BY <1>2, <2>2, <2>3 DEF FinishFeed, PInv, ProducerTypeOK
<1>3. ASSUME SetupInvocation PROVE Kept
  BY <1>3 DEF SetupInvocation, SetupStep, PInv, ProducerTypeOK
<1>4. ASSUME Fire PROVE Kept
  BY <1>4 DEF Fire, PInv, ProducerTypeOK
<1>5. ASSUME Cancel PROVE Kept
  BY <1>5 DEF Cancel, CancelStep, PInv, ProducerTypeOK
<1>6. Kept
  BY <1>1, <1>2, <1>3, <1>4, <1>5
<1> QED BY <1>6 DEF PInv

(* Nothing changes, so nothing is lost.                                     *)
LEMMA PInvStuttering == PInv /\ UNCHANGED vars => PInv'
BY DEF PInv, ProducerTypeOK, vars

(* No frame is numbered and every keeper starts at position zero of a GOP   *)
(* or with garbage.                                                         *)
LEMMA PInvInit == Init => PInv
<1> SUFFICES ASSUME Init PROVE PInv
  OBVIOUS
<1>0. Gop \in Nat \ {0} /\ PosMod \in Nat \ {0} /\ Garbage \subseteq 0..(PosMod - 1)
  BY ProducerAssumption
<1>1. keeper \in [Threads -> Meta] /\ \A t \in Threads : keeper[t].version = 0
  BY <1>0 DEF Init, Meta
<1>2. got \in [Threads -> Meta] /\ \A t \in Threads : got[t].version = 0
  BY <1>0 DEF Init, Meta
<1>3. coder \in [Threads -> [trigger : 0..(Gop - 1), pos : Int]]
  BY <1>0 DEF Init
<1>4. tasks \in Seq(Task) /\ Len(tasks) = 0
  BY DEF Init
<1>5. seq \in [Threads -> [key : Nat \cup {-1}, delta : Nat \cup {-1}]]
  BY DEF Init
<1>6. ProducerTypeOK
  BY <1>1, <1>2, <1>3, <1>4, <1>5 DEF Init, ProducerTypeOK, Outcomes
<1>7. \A t \in Threads : ThreadInv(frames[t], seq[t], coder[t], capture.left[t])
  BY DEF Init, ThreadInv, NumbersFit, DeltasPaired, PositionFits
<1> QED BY <1>1, <1>2, <1>4, <1>6, <1>7 DEF PInv, Init

-----------------------------------------------------------------------------
(* In every reachable state the producer's counters, the numbered frames,   *)
(* the tasks underway and the metadata fit together.                        *)
THEOREM ProducerInvariant == Spec => []PInv
<1>1. PInv /\ [Next]_vars => PInv'
  <2> SUFFICES ASSUME PInv, [Next]_vars PROVE PInv'
    OBVIOUS
  <2>1. CASE \E t \in Threads : Add(t) \/ Remove(t)
    BY <2>1, OthersKeep
  <2>2. CASE \E outcome \in [Threads -> Outcomes] : FeedFrame(outcome)
    BY <2>2, FeedKeeps
  <2>3. CASE Capture
    BY <2>3, PublishKeeps, OthersKeep DEF Capture
  <2>4. CASE Face
    BY <2>4, RunTaskKeeps, UpdateMetaKeeps, OthersKeep DEF Face
  <2>5. CASE UNCHANGED vars
    BY <2>5, PInvStuttering
  <2> QED BY <2>1, <2>2, <2>3, <2>4, <2>5 DEF Next
<1> QED BY <1>1, PInvInit, PTL DEF Spec

(* The producer's state stays well typed; in particular feedFrame and the   *)
(* publishing tasks never take busyPublishing_ below zero.                  *)
THEOREM ProducerTypeCorrect == Spec => []ProducerTypeOK
<1>1. PInv => ProducerTypeOK
  BY DEF PInv
<1> QED BY <1>1, ProducerInvariant, PTL

(* The numbers that VideoStreamImpl::publish puts into segment headers let  *)
(* a consumer find the GOP of every delta frame, whatever frames the        *)
(* encoder drops or turns into key frames.                                  *)
THEOREM NumbersMeet == Spec => []PairedNumbersMeet
<1>1. PInv => PairedNumbersMeet
  <2> SUFFICES ASSUME PInv, NEW t \in Threads, NEW d \in Deltas(t)
               PROVE  \E k \in Keys(t) :
                        /\ k.no = d.paired /\ k.paired <= d.no
                        /\ d.gop = d.no - k.paired + 1
                        /\ \A later \in Keys(t) : later.no > k.no => later.paired > d.no
    BY DEF PairedNumbersMeet
  <2>1. PICK k \in frames[t] : InGopOf(d, k, frames[t])
    BY DEF PInv, ThreadInv, DeltasPaired, Deltas
  <2>2. k \in Keys(t)
    BY <2>1 DEF Keys, InGopOf
  <2> QED BY <2>1, <2>2 DEF InGopOf, Keys
<1> QED BY <1>1, ProducerInvariant, PTL

(* processMetadata computes the beginning of a GOP from any metadata that   *)
(* the producer publishes, for every GOP size up to the range of gopPos.    *)
THEOREM BootstrapStartsRight == Spec => []BootstrapsAtGopStart
<1>1. PInv => BootstrapsAtGopStart
  <2> SUFFICES ASSUME PInv, NEW t \in Threads, got[t].version > 0,
                      NEW k \in Keys(t), k.no = processMetadata(got[t], 1).key
               PROVE  IF 2 * got[t].gop < Gop
                      THEN processMetadata(got[t], 1).delta = k.paired
                      ELSE processMetadata(got[t], 1).delta < k.paired
    BY DEF BootstrapsAtGopStart
  <2> DEFINE m == got[t]
             F == frames[t]
  <2>0. /\ k \in F /\ k.key /\ F \subseteq Frame /\ NumbersFit(F, seq[t])
        /\ Gop \in Nat /\ Gop >= 1
    BY ProducerAssumption DEF Keys, PInv, ProducerTypeOK, ThreadInv
  <2>1. PICK f \in F : Describes(m, f)
    BY DEF PInv
  <2>t. k \in Frame /\ f \in Frame
    BY <2>0, <2>1
  <2>2. CASE f.key
    <3>1. m.gop = 0 /\ m.key = f.no /\ m.delta = f.paired
      BY <2>0, <2>1, <2>2 DEF Describes, NumbersFit
    <3>2. processMetadata(m, 1).key = m.key /\ processMetadata(m, 1).delta = m.delta /\ 2 * m.gop < Gop
      BY <3>1, <2>0 DEF processMetadata
    <3>3. k = f
      BY <3>1, <3>2, <2>0, <2>2 DEF NumbersFit
    <3> QED BY <3>1, <3>2, <3>3
  <2>3. CASE ~f.key
    <3>1. m.gop = f.gop /\ m.key = f.paired /\ m.delta = f.no
      BY <2>1, <2>3 DEF Describes
    <3>2. PICK l \in F : InGopOf(f, l, F)
      BY <2>1, <2>3 DEF PInv, ThreadInv, DeltasPaired
    <3>3. l \in Frame /\ l.key /\ l.no = f.paired /\ l.paired <= f.no /\ f.gop = f.no - l.paired + 1
      BY <3>2, <2>0 DEF InGopOf
    <3>4. m.gop > 0 /\ m.gop \in Nat /\ m.delta - (m.gop - 1) = l.paired
      BY <3>1, <3>3, <2>t DEF Frame
    <3>5. CASE 2 * m.gop < Gop
      <4>1. processMetadata(m, 1).key = m.key /\ processMetadata(m, 1).delta = l.paired
        BY <3>4, <3>5 DEF processMetadata
      <4>2. k = l
        BY <4>1, <3>1, <3>3, <2>0, <3>2 DEF NumbersFit
      <4> QED BY <4>1, <4>2, <3>5
    <3>6. CASE ~(2 * m.gop < Gop)
      <4>1. processMetadata(m, 1).key = m.key + 1 /\ processMetadata(m, 1).delta = m.delta
        BY <3>6 DEF processMetadata
      <4>2. k.no > l.no
        BY <4>1, <3>1, <3>3, <2>t DEF Frame
      <4>3. k.paired > f.no
        BY <4>2, <3>2, <2>0 DEF InGopOf
      <4> QED BY <4>1, <4>3, <3>1, <3>6, <2>t DEF Frame
    <3> QED BY <3>5, <3>6
  <2> QED BY <2>2, <2>3
<1> QED BY <1>1, ProducerInvariant, PTL

-----------------------------------------------------------------------------
(* Publication.  Frames of a thread carry the playback numbers of distinct  *)
(* captures, the tasks that publish them are queued in the same order, and  *)
(* what is neither published nor queued does not exist.                     *)

Numbered(F, s) ==
  /\ {f.no : f \in {g \in F : g.key}} = 0..s.key
  /\ {f.no : f \in {g \in F : ~g.key}} = 0..s.delta

InPlayOrder(F) ==
  /\ \A f, g \in F :
       /\ f.play = g.play => f = g
       /\ f.key = g.key => (f.no < g.no <=> f.play < g.play)
  /\ \A k, d \in F : k.key /\ ~d.key /\ k.no = d.paired => k.play < d.play

(* No frame is ahead of the capture, and only one that feedFrame has just   *)
(* numbered is as far.                                                      *)
PlaysBehind(F, left) ==
  \A f \in F :
    /\ f.play <= playback
    /\ f.play = playback => capture.at = "publish" /\ capture.any /\ left = "drop"

Queued(t, f) == \E i \in 1..Len(tasks) : tasks[i].thread = t /\ tasks[i].frame = f

TasksInOrder ==
  /\ \A i, j \in 1..Len(tasks) :
       i < j /\ tasks[i].thread = tasks[j].thread => tasks[i].frame.play < tasks[j].frame.play
  /\ \A i \in 1..Len(tasks) : \A f \in published[tasks[i].thread] :
       f.play < tasks[i].frame.play

PublicationFits(t) ==
  /\ Numbered(frames[t], seq[t])
  /\ InPlayOrder(frames[t])
  /\ PlaysBehind(frames[t], capture.left[t])
  /\ capture.left[t] # "drop" => capture.any
  /\ published[t] \subseteq frames[t]
  /\ \A f \in frames[t] : f \in published[t] \/ Queued(t, f)
  /\ keeper[t].version > 0 => \E f \in published[t] : Describes(keeper[t], f)
  /\ got[t].version > 0 => \E f \in published[t] : Describes(got[t], f)

(* The second inductive invariant, on top of the first. *)
OInv == TasksInOrder /\ \A t \in Threads : PublicationFits(t)

(* The next number extends the numbers of its kind. *)
LEMMA NumberedNext ==
  ASSUME NEW F \in SUBSET Frame, NEW s \in Sequel, Numbered(F, s), NEW f \in Frame, NEW r \in Sequel,
         f.key => f.no = s.key + 1 /\ r = [s EXCEPT !.key = f.no],
         ~f.key => f.no = s.delta + 1 /\ r = [s EXCEPT !.delta = f.no]
  PROVE  Numbered(F \cup {f}, r)
<1> DEFINE G == F \cup {f}
           numbers(H, isKey) == {g.no : g \in {h \in H : h.key = isKey}}
<1>0. f.key \in BOOLEAN /\ (\A g \in F : g.key \in BOOLEAN) /\ s.key \in Int /\ s.delta \in Int
      /\ s.key >= -1 /\ s.delta >= -1
  BY DEF Frame, Sequel
<1>1. CASE f.key
  <2>1. r.key = s.key + 1 /\ r.delta = s.delta /\ f.no = s.key + 1
    BY <1>1 DEF Sequel
  <2>2. {g.no : g \in {h \in G : h.key}} = {g.no : g \in {h \in F : h.key}} \cup {f.no}
    BY <1>1
  <2>3. {h \in G : ~h.key} = {h \in F : ~h.key}
    BY <1>1
  <2>4. 0..r.key = 0..s.key \cup {s.key + 1}
    BY <1>0, <2>1
  <2> QED BY <2>1, <2>2, <2>3, <2>4 DEF Numbered
<1>2. CASE ~f.key
  <2>1. r.key = s.key /\ r.delta = s.delta + 1 /\ f.no = s.delta + 1
    BY <1>2 DEF Sequel
  <2>2. {g.no : g \in {h \in G : ~h.key}} = {g.no : g \in {h \in F : ~h.key}} \cup {f.no}
    BY <1>2
  <2>3. {h \in G : h.key} = {h \in F : h.key}
    BY <1>2
  <2>4. 0..r.delta = 0..s.delta \cup {s.delta + 1}
    BY <1>0, <2>1
  <2> QED BY <2>1, <2>2, <2>3, <2>4 DEF Numbered
<1> QED BY <1>1, <1>2

(* A frame that is played after all others, with the next number of its     *)
(* kind, keeps the frames in order.                                         *)
LEMMA InPlayOrderNext ==
  ASSUME NEW F \in SUBSET Frame, NEW s \in Sequel, Numbered(F, s), NumbersFit(F, s),
         DeltasPaired(F), InPlayOrder(F), NEW f \in Frame,
         \A g \in F : g.play < f.play,
         f.key => f.no = s.key + 1,
         ~f.key => f.no = s.delta + 1
  PROVE  InPlayOrder(F \cup {f})
<1>0. /\ s.key \in Int /\ s.delta \in Int
      /\ \A g \in F \cup {f} : g.no \in Nat /\ g.play \in Nat /\ g.paired \in Nat /\ g.key \in BOOLEAN
  BY DEF Sequel, Frame
<1>1. \A g \in F : /\ g.key => g.no <= s.key
                   /\ ~g.key => g.no <= s.delta
                   /\ g.key = f.key => g.no < f.no
  BY <1>0 DEF NumbersFit
<1>2. \A g, h \in F \cup {f} :
        /\ g.play = h.play => g = h
        /\ g.key = h.key => (g.no < h.no <=> g.play < h.play)
  <2> SUFFICES ASSUME NEW g \in F \cup {f}, NEW h \in F \cup {f}
               PROVE  /\ g.play = h.play => g = h
                      /\ g.key = h.key => (g.no < h.no <=> g.play < h.play)
    OBVIOUS
  <2>1. CASE g \in F /\ h \in F
    BY <2>1 DEF InPlayOrder
  <2>2. CASE g = f /\ h \in F
    BY <2>2, <1>0, <1>1
  <2>3. CASE g \in F /\ h = f
    BY <2>3, <1>0, <1>1
  <2>4. CASE g = f /\ h = f
    BY <2>4, <1>0
  <2> QED BY <2>1, <2>2, <2>3, <2>4
<1>3. \A k, d \in F \cup {f} : k.key /\ ~d.key /\ k.no = d.paired => k.play < d.play
  <2> SUFFICES ASSUME NEW k \in F \cup {f}, NEW d \in F \cup {f}, k.key, ~d.key, k.no = d.paired
               PROVE  k.play < d.play
    OBVIOUS
  <2>1. CASE k \in F /\ d \in F
    BY <2>1 DEF InPlayOrder
  <2>2. CASE k \in F /\ d = f
    BY <2>2
  <2>3. CASE k = f /\ d \in F
    <3>1. PICK l \in F : l.key /\ l.no = d.paired
      BY <2>3 DEF DeltasPaired, InGopOf
    <3> QED BY <2>3, <3>1, <1>0, <1>1
  <2>4. ~(k = f /\ d = f)
    OBVIOUS
  <2> QED BY <2>1, <2>2, <2>3, <2>4
<1> QED BY <1>2, <1>3 DEF InPlayOrder

(* Numbering a frame keeps the order of publication. *)
LEMMA PublishKeepsOrder ==
  ASSUME PInv, OInv, NEW t \in Threads, Publish(t)
  PROVE  OInv'
<1> DEFINE task(f) == [thread |-> t, frame |-> f]
<1>0. /\ frames \in [Threads -> SUBSET Frame] /\ published \in [Threads -> SUBSET Frame]
      /\ seq \in [Threads -> Sequel] /\ tasks \in Seq(Task) /\ Len(tasks) \in Nat
      /\ playback \in Nat
      /\ capture \in [at : {"idle", "publish", "setRunning", "setWork", "setTimer"},
                      left : [Threads -> Outcomes], any : BOOLEAN]
  BY DEF PInv, ProducerTypeOK, Sequel
<1>1. /\ capture.at = "publish" /\ capture.left[t] # "drop" /\ capture.any
      /\ UNCHANGED <<playback, keeper, published, got>>
      /\ capture' = [capture EXCEPT !.left[t] = "drop"]
  BY FrameNumbered DEF OInv, PublicationFits
<1>2. PICK f \in Frame, s \in Sequel :
        /\ f.key <=> capture.left[t] = "key"
        /\ f.play = playback /\ f.gop = coder[t].pos /\ (f.key => f.gop = 0)
        /\ f.key => /\ f.no = seq[t].key + 1 /\ f.paired = seq[t].delta + 1
                    /\ s = [seq[t] EXCEPT !.key = f.no]
        /\ ~f.key => /\ f.no = seq[t].delta + 1 /\ f.paired = seq[t].key
                     /\ s = [seq[t] EXCEPT !.delta = f.no]
        /\ seq' = [seq EXCEPT ![t] = s]
        /\ frames' = [frames EXCEPT ![t] = @ \cup {f}]
        /\ tasks' = Append(tasks, task(f))
  BY FrameNumbered
<1>3. /\ capture'.at = "publish" /\ capture'.any
      /\ capture'.left[t] = "drop" /\ \A u \in Threads : u # t => capture'.left[u] = capture.left[u]
  BY <1>0, <1>1
<1>4. /\ frames'[t] = frames[t] \cup {f} /\ seq'[t] = s
      /\ \A u \in Threads : u # t => frames'[u] = frames[u] /\ seq'[u] = seq[u]
  BY <1>0, <1>2
<1>5. /\ Len(tasks') = Len(tasks) + 1
      /\ \A i \in 1..Len(tasks) : tasks'[i] = tasks[i]
      /\ tasks'[Len(tasks) + 1] = task(f)
  BY <1>0, <1>2
<1>6. \A i \in 1..Len(tasks) : tasks[i].thread \in Threads /\ tasks[i].frame \in frames[tasks[i].thread]
  <2> SUFFICES ASSUME NEW i \in 1..Len(tasks)
               PROVE  tasks[i].thread \in Threads /\ tasks[i].frame \in frames[tasks[i].thread]
    OBVIOUS
  <2>1. tasks[i] \in Task
    BY <1>0
  <2> QED BY <2>1 DEF Task, PInv
<1>7. \A g \in frames[t] : g.play < f.play
  <2> SUFFICES ASSUME NEW g \in frames[t] PROVE g.play < f.play
    OBVIOUS
  <2>1. g.play \in Nat /\ g.play <= playback /\ g.play # playback
    BY <1>0, <1>1 DEF OInv, PublicationFits, PlaysBehind, Frame
  <2> QED BY <2>1, <1>0, <1>2
<1>8. TasksInOrder'
  <2>1. ASSUME NEW i \in 1..Len(tasks'), NEW j \in 1..Len(tasks'), i < j,
               tasks'[i].thread = tasks'[j].thread
        PROVE  tasks'[i].frame.play < tasks'[j].frame.play
    <3>1. i \in 1..Len(tasks) /\ (j \in 1..Len(tasks) \/ j = Len(tasks) + 1)
      <4>1. Len(tasks') = Len(tasks) + 1
        BY <1>5
      <4>2. i \in 1..(Len(tasks) + 1) /\ j \in 1..(Len(tasks) + 1) /\ i < j
        BY <2>1, <4>1
      <4> QED BY <4>2, <1>0
    <3>2. CASE j \in 1..Len(tasks)
      BY <2>1, <3>1, <3>2, <1>5 DEF OInv, TasksInOrder
    <3>3. CASE j = Len(tasks) + 1
      <4>1. tasks'[j].thread = t /\ tasks'[j].frame = f /\ tasks'[i] = tasks[i]
        BY <3>1, <3>3, <1>5
      <4>2. tasks[i].frame \in frames[t]
        BY <2>1, <3>1, <4>1, <1>6
      <4> QED BY <4>1, <4>2, <1>7
    <3> QED BY <3>1, <3>2, <3>3
  <2>2. ASSUME NEW i \in 1..Len(tasks'), NEW g \in published'[tasks'[i].thread]
        PROVE  g.play < tasks'[i].frame.play
    <3>1. i \in 1..Len(tasks) \/ i = Len(tasks) + 1
      BY <1>0, <1>5
    <3>2. CASE i \in 1..Len(tasks)
      BY <3>2, <1>1, <1>5, <2>2 DEF OInv, TasksInOrder
    <3>3. CASE i = Len(tasks) + 1
      <4>1. tasks'[i].thread = t /\ tasks'[i].frame = f
        BY <3>3, <1>5
      <4>2. g \in frames[t]
        BY <4>1, <1>1 DEF OInv, PublicationFits
      <4> QED BY <4>1, <4>2, <1>7
    <3> QED BY <3>1, <3>2, <3>3
  <2> QED BY <2>1, <2>2 DEF TasksInOrder
<1>9. ASSUME NEW u \in Threads PROVE PublicationFits(u)'
  <2>1. \A g : Queued(u, g) => Queued(u, g)'
    BY <1>0, <1>5 DEF Queued
  <2>2. CASE u # t
    <3>1. PublicationFits(u)
      BY DEF OInv
    <3> QED BY <2>1, <2>2, <3>1, <1>1, <1>3, <1>4 DEF PublicationFits, PlaysBehind
  <2>3. CASE u = t
    <3>1. PublicationFits(t) /\ ThreadInv(frames[t], seq[t], coder[t], capture.left[t])
      BY DEF OInv, PInv
    <3>2. Numbered(frames'[t], seq'[t]) /\ InPlayOrder(frames'[t])
      <4>1. frames[t] \in SUBSET Frame /\ seq[t] \in Sequel
        BY <1>0
      <4>2. Numbered(frames[t] \cup {f}, s)
        BY <3>1, <4>1, <1>2, NumberedNext DEF PublicationFits
      <4>3. InPlayOrder(frames[t] \cup {f})
        BY <3>1, <4>1, <1>2, <1>7, InPlayOrderNext DEF PublicationFits, ThreadInv
      <4> QED BY <4>2, <4>3, <1>4
    <3>3. PlaysBehind(frames[t], capture.left[t])'
      BY <3>1, <1>0, <1>1, <1>2, <1>3, <1>4 DEF PublicationFits, PlaysBehind
    <3>4. \A g \in frames'[t] : g \in published'[t] \/ Queued(t, g)'
      <4>1. Queued(t, f)'
        BY <1>0, <1>5 DEF Queued
      <4> QED BY <2>1, <2>3, <3>1, <4>1, <1>1, <1>4 DEF PublicationFits
    <3> QED BY <2>3, <3>1, <3>2, <3>3, <3>4, <1>1, <1>3, <1>4 DEF PublicationFits
  <2> QED BY <2>2, <2>3
<1> QED BY <1>8, <1>9 DEF OInv

(* Publishing the first task does, since it precedes all others of its      *)
(* thread.                                                                  *)
LEMMA RunTaskKeepsOrder ==
  ASSUME PInv, OInv, RunTask
  PROVE  OInv'
<1> DEFINE t == Head(tasks).thread
           f == Head(tasks).frame
<1>0. /\ tasks \in Seq(Task) /\ tasks # <<>> /\ Len(tasks) \in Nat
      /\ frames \in [Threads -> SUBSET Frame] /\ published \in [Threads -> SUBSET Frame]
      /\ keeper \in [Threads -> Meta]
  BY DEF PInv, ProducerTypeOK, RunTask
<1>1. /\ Head(tasks) = tasks[1] /\ 1 \in 1..Len(tasks) /\ tasks[1] \in Task
      /\ Len(Tail(tasks)) = Len(tasks) - 1
      /\ \A i \in 1..Len(Tail(tasks)) : i + 1 \in 1..Len(tasks) /\ Tail(tasks)[i] = tasks[i + 1]
  BY <1>0
<1>2. /\ t \in Threads /\ f \in Frame /\ f \in frames[t]
      /\ tasks[1].thread = t /\ tasks[1].frame = f
  BY <1>1 DEF PInv, Task
<1>3. /\ published' = [published EXCEPT ![t] = @ \cup {f}]
      /\ keeper' = [keeper EXCEPT ![t] = updateMeta(@, f)]
      /\ tasks' = Tail(tasks)
      /\ UNCHANGED <<seq, playback, capture, frames, got>>
  BY DEF RunTask
<1> HIDE DEF t, f
<1>4. /\ published'[t] = published[t] \cup {f}
      /\ \A u \in Threads : u # t => published'[u] = published[u] /\ keeper'[u] = keeper[u]
  BY <1>0, <1>2, <1>3
<1>5. Describes(keeper'[t], f)
  <2>1. Describes(updateMeta(keeper[t], f), f)
    BY DEF updateMeta, Describes
  <2> QED BY <2>1, <1>0, <1>2, <1>3
<1>6. \A i \in 1..Len(tasks') : /\ i + 1 \in 1..Len(tasks) /\ tasks'[i] = tasks[i + 1]
                               /\ tasks'[i].thread \in Threads
  <2> SUFFICES ASSUME NEW i \in 1..Len(tasks')
               PROVE  /\ i + 1 \in 1..Len(tasks) /\ tasks'[i] = tasks[i + 1]
                      /\ tasks'[i].thread \in Threads
    OBVIOUS
  <2>1. i + 1 \in 1..Len(tasks) /\ tasks'[i] = tasks[i + 1]
    BY <1>1, <1>3
  <2>2. tasks[i + 1] \in Task
    BY <2>1, <1>0
  <2> QED BY <2>1, <2>2 DEF Task
<1>7. TasksInOrder'
  <2>1. ASSUME NEW i \in 1..Len(tasks'), NEW j \in 1..Len(tasks'), i < j,
               tasks'[i].thread = tasks'[j].thread
        PROVE  tasks'[i].frame.play < tasks'[j].frame.play
    <3>1. /\ i + 1 \in 1..Len(tasks) /\ j + 1 \in 1..Len(tasks) /\ i + 1 < j + 1
          /\ tasks'[i] = tasks[i + 1] /\ tasks'[j] = tasks[j + 1]
      BY <2>1, <1>6
    <3> QED BY <2>1, <3>1 DEF OInv, TasksInOrder
  <2>2. ASSUME NEW i \in 1..Len(tasks'), NEW g \in published'[tasks'[i].thread]
        PROVE  g.play < tasks'[i].frame.play
    <3>1. /\ i + 1 \in 1..Len(tasks) /\ 1 < i + 1 /\ tasks'[i] = tasks[i + 1]
          /\ tasks'[i].thread \in Threads
      BY <1>6
    <3>2. CASE g \in published[tasks'[i].thread]
      BY <3>1, <3>2 DEF OInv, TasksInOrder
    <3>3. CASE g = f /\ tasks'[i].thread = t
      BY <3>1, <3>3, <1>1, <1>2 DEF OInv, TasksInOrder
    <3> QED BY <2>2, <3>1, <3>2, <3>3, <1>4
  <2> QED BY <2>1, <2>2 DEF TasksInOrder
<1>8. ASSUME NEW u \in Threads PROVE PublicationFits(u)'
  <2>0. PublicationFits(u)
    BY DEF OInv
  <2>1. ASSUME NEW g \in frames'[u], g \notin published'[u] PROVE Queued(u, g)'
    <3>1. g \in frames[u] /\ g \notin published[u] /\ ~(u = t /\ g = f)
      BY <2>1, <1>3, <1>4
    <3>2. PICK i \in 1..Len(tasks) : tasks[i].thread = u /\ tasks[i].frame = g
      BY <2>0, <3>1 DEF PublicationFits, Queued
    <3>3. i # 1
      BY <3>1, <3>2, <1>2
    <3>4. i - 1 \in 1..Len(tasks') /\ tasks'[i - 1] = tasks[i]
      BY <3>2, <3>3, <1>0, <1>1, <1>3
    <3> QED BY <3>2, <3>4 DEF Queued
  <2>2. published'[u] \subseteq frames'[u] /\ published[u] \subseteq published'[u]
    BY <2>0, <1>2, <1>3, <1>4 DEF PublicationFits
  <2>3. keeper'[u].version > 0 => \E g \in published'[u] : Describes(keeper'[u], g)
    BY <2>0, <1>4, <1>5 DEF PublicationFits
  <2>4. got'[u].version > 0 => \E g \in published'[u] : Describes(got'[u], g)
    BY <2>0, <2>2, <1>3 DEF PublicationFits
  <2> QED BY <2>0, <2>1, <2>2, <2>3, <2>4, <1>3 DEF PublicationFits, PlaysBehind
<1> QED BY <1>7, <1>8 DEF OInv

(* Encoding a raw frame and the end of feedFrame: numbered frames fall      *)
(* behind the capture.                                                      *)
LEMMA FeedKeepsOrder ==
  ASSUME PInv, OInv, (\E outcome \in [Threads -> Outcomes] : FeedFrame(outcome)) \/ FinishFeed
  PROVE  OInv'
<1>0. /\ UNCHANGED <<seq, tasks, keeper, frames, published, got>>
      /\ playback \in Nat /\ frames \in [Threads -> SUBSET Frame]
      /\ capture \in [at : {"idle", "publish", "setRunning", "setWork", "setTimer"},
                      left : [Threads -> Outcomes], any : BOOLEAN]
  BY DEF FeedFrame, FinishFeed, PInv, ProducerTypeOK
<1>1. ASSUME NEW t \in Threads
      PROVE  PlaysBehind(frames[t], capture.left[t])' /\ (capture.left[t] # "drop" => capture.any)'
  <2>0. /\ PlaysBehind(frames[t], capture.left[t])
        /\ \A f \in frames[t] : f.play \in Nat
    BY <1>0 DEF OInv, PublicationFits, Frame
  <2>1. ASSUME NEW outcome \in [Threads -> Outcomes], FeedFrame(outcome)
        PROVE  PlaysBehind(frames[t], capture.left[t])' /\ (capture.left[t] # "drop" => capture.any)'
    <3>1. /\ capture.at = "idle" /\ playback' = playback
          /\ capture'.left = outcome
          /\ capture'.any <=> \E u \in Threads : outcome[u] # "drop"
      BY <2>1 DEF FeedFrame, Unlocked
    <3> QED BY <2>0, <3>1, <1>0 DEF PlaysBehind
  <2>2. CASE FinishFeed
    <3>1. /\ \A u \in Threads : capture.left[u] = "drop"
          /\ capture'.left = capture.left
          /\ playback' = IF capture.any THEN playback + 1 ELSE playback
      BY <2>2, <1>0 DEF FinishFeed
    <3> QED BY <2>0, <3>1, <1>0 DEF PlaysBehind
  <2> QED BY <2>1, <2>2
<1>2. TasksInOrder'
  BY <1>0 DEF OInv, TasksInOrder
<1>3. ASSUME NEW t \in Threads PROVE PublicationFits(t)'
  BY <1>0, <1>1 DEF OInv, PublicationFits, Queued
<1> QED BY <1>2, <1>3 DEF OInv

(* What the timer publishes describes published frames; the other steps     *)
(* change nothing of this.                                                  *)
LEMMA OthersKeepOrder ==
  ASSUME PInv, OInv,
         \/ \E t \in Threads : Add(t) \/ Remove(t)
         \/ SetupInvocation \/ Fire \/ UpdateMeta \/ Cancel \/ UNCHANGED vars
  PROVE  OInv'
<1> DEFINE Kept == /\ UNCHANGED <<seq, playback, tasks, keeper, frames, published>>
                   /\ capture'.left = capture.left /\ capture'.any = capture.any
                   /\ capture.at = "publish" <=> capture'.at = "publish"
                   /\ \A t \in Threads : got'[t] = got[t] \/ got'[t] = keeper[t]
<1>1. ASSUME NEW t \in Threads, Add(t) \/ Remove(t) PROVE Kept
  BY <1>1 DEF Add, Remove
<1>2. ASSUME SetupInvocation PROVE Kept
  BY <1>2 DEF SetupInvocation, SetupStep, PInv, ProducerTypeOK
<1>3. ASSUME Fire \/ Cancel \/ UNCHANGED vars PROVE Kept
  BY <1>3 DEF Fire, Cancel, CancelStep, vars
<1>4. ASSUME UpdateMeta PROVE Kept
  BY <1>4 DEF UpdateMeta
<1>5. Kept
  BY <1>1, <1>2, <1>3, <1>4
<1>6. TasksInOrder'
  BY <1>5 DEF OInv, TasksInOrder
<1>7. ASSUME NEW t \in Threads PROVE PublicationFits(t)'
  BY <1>5 DEF OInv, PublicationFits, PlaysBehind, Queued
<1> QED BY <1>6, <1>7 DEF OInv

(* Nothing is numbered at first. *)
LEMMA OInvInit == Init => OInv
<1> SUFFICES ASSUME Init PROVE OInv
  OBVIOUS
<1>1. /\ Len(tasks) = 0 /\ \A t \in Threads : frames[t] = {} /\ published[t] = {}
      /\ \A t \in Threads : seq[t].key = -1 /\ seq[t].delta = -1 /\ capture.left[t] = "drop"
      /\ \A t \in Threads : got[t].version = 0 /\ keeper[t].version = 0
  BY DEF Init
<1>2. 0..(-1) = {}
  OBVIOUS
<1>3. ASSUME NEW t \in Threads PROVE Numbered(frames[t], seq[t])
  BY <1>1, <1>2 DEF Numbered
<1> QED BY <1>1, <1>3 DEF OInv, TasksInOrder, PublicationFits, InPlayOrder, PlaysBehind

(* The order of publication is an invariant. *)
THEOREM PublicationInvariant == Spec => []OInv
<1>1. PInv /\ OInv /\ [Next]_vars => OInv'
  <2> SUFFICES ASSUME PInv, OInv, [Next]_vars PROVE OInv'
    OBVIOUS
  <2>1. CASE \E t \in Threads : Add(t) \/ Remove(t)
    BY <2>1, OthersKeepOrder
  <2>2. CASE \E outcome \in [Threads -> Outcomes] : FeedFrame(outcome)
    BY <2>2, FeedKeepsOrder
  <2>3. CASE Capture
    BY <2>3, PublishKeepsOrder, FeedKeepsOrder, OthersKeepOrder DEF Capture
  <2>4. CASE Face
    BY <2>4, RunTaskKeepsOrder, OthersKeepOrder DEF Face
  <2>5. CASE UNCHANGED vars
    BY <2>5, OthersKeepOrder
  <2> QED BY <2>1, <2>2, <2>3, <2>4, <2>5 DEF Next
<1> QED BY <1>1, OInvInit, ProducerInvariant, PTL DEF Spec

(* Although frames are numbered on the capture thread and published on the  *)
(* face thread, the cache never holds a frame without all that precede it,  *)
(* and the metadata a consumer gets names frames that are in the cache, for *)
(* every number of threads and frames and every behaviour of the encoders.  *)
THEOREM PublishedStaysAsDescribed == Spec => []PublishedAsDescribed
<1>1. PInv /\ OInv => PublishedInOrder
  <2> SUFFICES ASSUME PInv, OInv, NEW t \in Threads
               PROVE  /\ {f.no : f \in Keys(t)} = 0..seq[t].key
                      /\ {f.no : f \in Deltas(t)} = 0..seq[t].delta
                      /\ \A f, g \in frames[t] :
                           /\ f.play = g.play => f = g
                           /\ f.key = g.key => (f.no < g.no <=> f.play < g.play)
                      /\ \A f \in published[t], g \in frames[t] :
                           g.play <= f.play => g \in published[t]
    BY DEF PublishedInOrder
  <2>0. PublicationFits(t) /\ TasksInOrder /\ frames[t] \in SUBSET Frame
    BY DEF OInv, PInv, ProducerTypeOK
  <2>1. ASSUME NEW f \in published[t], NEW g \in frames[t], g.play <= f.play, g \notin published[t]
        PROVE  FALSE
    <3>1. PICK i \in 1..Len(tasks) : tasks[i].thread = t /\ tasks[i].frame = g
      BY <2>0, <2>1 DEF PublicationFits, Queued
    <3>2. f.play < g.play
      BY <2>0, <3>1 DEF TasksInOrder
    <3>3. f \in Frame /\ g \in Frame
      BY <2>0 DEF PublicationFits
    <3> QED BY <2>1, <3>2, <3>3 DEF Frame
  <2> QED BY <2>0, <2>1 DEF PublicationFits, Numbered, InPlayOrder, Keys, Deltas
<1>2. PInv /\ OInv => MetaDescribesPublished
  <2> SUFFICES ASSUME PInv, OInv, NEW t \in Threads, got[t].version > 0
               PROVE  /\ \E k \in published[t] : k.key /\ k.no = got[t].key
                      /\ got[t].gop > 0 => \E d \in published[t] :
                                             ~d.key /\ d.no = got[t].delta /\ d.paired = got[t].key
    BY DEF MetaDescribesPublished
  <2>0. /\ PublicationFits(t) /\ ThreadInv(frames[t], seq[t], coder[t], capture.left[t])
        /\ PublishedInOrder /\ frames[t] \in SUBSET Frame
    BY <1>1 DEF OInv, PInv, ProducerTypeOK
  <2>1. PICK f \in published[t] : Describes(got[t], f)
    BY <2>0 DEF PublicationFits
  <2>2. f \in frames[t] /\ f \in Frame
    BY <2>0 DEF PublicationFits
  <2>3. CASE f.key
    BY <2>0, <2>1, <2>2, <2>3 DEF Describes, ThreadInv, NumbersFit
  <2>4. CASE ~f.key
    <3>1. PICK k \in frames[t] : InGopOf(f, k, frames[t])
      BY <2>0, <2>2, <2>4 DEF ThreadInv, DeltasPaired
    <3>2. k.key /\ k.no = f.paired /\ k.play < f.play
      BY <2>0, <2>2, <2>4, <3>1 DEF InGopOf, PublicationFits, InPlayOrder
    <3>3. k \in Frame
      BY <2>0
    <3>4. k \in published[t]
      BY <2>0, <2>2, <3>2, <3>3 DEF PublishedInOrder, Frame
    <3> QED BY <2>1, <2>4, <3>2, <3>4 DEF Describes
  <2> QED BY <2>3, <2>4
<1>3. PInv /\ OInv => PublishedAsDescribed
  BY <1>1, <1>2 DEF PublishedAsDescribed, PInv
<1> QED BY <1>3, ProducerInvariant, PublicationInvariant, PTL
=============================================================================
