------------------------ MODULE VideoPlayout_proofs ------------------------
(***************************************************************************)
(* The playout keeps the schedule of the timestamps, for every set of      *)
(* frames, period, lateness of timers and targets of the queue.            *)
(***************************************************************************)
EXTENDS VideoPlayout, TLAPS

Playout == [running : BOOLEAN, lastTs : Int, lastDelay : Nat \cup {-1}, adjustment : Int]
Jitter == [playTime : Nat, processing : Nat]
Control == [allowed : BOOLEAN, ffwd : Nat, user : Nat, threshold : Nat]
GopState == [valid : BOOLEAN, playNo : Frames \cup {-1}]

(* A queue that ran empty gave its last sample the default duration, which  *)
(* is what an extraction from an empty queue assumes.                       *)
EmptyAfterPeriod == playout.running /\ queue = {} => playout.lastDelay = Period

Timer == {"off", "armed", "expired"}

SInv == KeepsSchedule /\ EmptyAfterPeriod

(* The whole milliseconds that updatePlayoutTime takes off the wait. *)
LEMMA WholeMilliseconds ==
  ASSUME NEW p \in Nat
  PROVE  /\ p \div Ms \in Nat /\ (p \div Ms) * Ms \in Nat
         /\ (p \div Ms) * Ms <= p /\ p - (p \div Ms) * Ms < Ms
<1>1. Ms \in Nat /\ Ms > 0
  BY PlayoutAssumption
<1>2. p \div Ms \in Int /\ p % Ms \in 0..(Ms - 1) /\ p = Ms * (p \div Ms) + (p % Ms)
  BY <1>1
<1>3. p \div Ms >= 0
  BY <1>1
<1>4. Ms * (p \div Ms) = (p \div Ms) * Ms
  BY <1>1, <1>2
<1>5. (p \div Ms) * Ms \in Nat
  BY <1>1, <1>2, <1>3
<1> QED
  BY <1>1, <1>2, <1>3, <1>4, <1>5

(* updatePlayoutTime takes the processing off the wait, or keeps account of *)
(* what it could not take off.                                              *)
LEMMA UpdateTime ==
  ASSUME NEW j \in Jitter, NEW wait \in Nat
  PROVE  LET r == updatePlayoutTime(j, wait)
         IN /\ r \in Jitter
            /\ r.playTime * Ms - r.processing = wait * Ms - j.processing
            /\ r.processing >= Ms => r.playTime = 0
<1> DEFINE k == j.processing \div Ms
           whole == k * Ms
           r == updatePlayoutTime(j, wait)
<1>1. Ms \in Nat /\ Ms > 0 /\ j.processing \in Nat /\ wait * Ms \in Nat
  BY PlayoutAssumption DEF Jitter
<1>2. k \in Nat /\ whole \in Nat /\ whole <= j.processing /\ j.processing - whole < Ms
  BY <1>1, WholeMilliseconds
<1>3. CASE j.processing < Ms
  <2>1. r = [j EXCEPT !.playTime = wait]
    BY <1>3 DEF updatePlayoutTime
  <2> QED
    BY <1>1, <1>3, <2>1 DEF Jitter
<1>4. CASE ~(j.processing < Ms) /\ whole > wait * Ms
  <2>1. r = [playTime |-> 0, processing |-> j.processing - wait * Ms]
    BY <1>4 DEF updatePlayoutTime
  <2>2. j.processing - wait * Ms \in Nat
    BY <1>1, <1>2, <1>4
  <2> QED
    BY <1>1, <2>1, <2>2 DEF Jitter
<1>5. CASE ~(j.processing < Ms) /\ ~(whole > wait * Ms)
  <2>1. r = [playTime |-> wait - k, processing |-> j.processing - whole]
    BY <1>5 DEF updatePlayoutTime
  <2>2. (wait - k) * Ms = wait * Ms - whole
    BY <1>1, <1>2
  <2>3. wait - k \in Nat
    BY <1>1, <1>2, <1>5, <2>2
  <2>4. j.processing - whole \in Nat
    BY <1>1, <1>2
  <2> QED
    BY <1>1, <1>2, <2>1, <2>2, <2>3, <2>4 DEF Jitter
<1> QED
  BY <1>3, <1>4, <1>5

(* adjustDelay waits for the duration of the sample but for the part of the *)
(* adjustment that it made, and never a negative time.                      *)
LEMMA AdjustDelay ==
  ASSUME NEW p \in Playout, NEW d \in Nat
  PROVE  LET a == adjustDelay(p, d)
         IN a.left \in Int /\ a.wait \in Nat /\ a.wait = d + p.adjustment - a.left
<1>1. p.adjustment \in Int
  BY DEF Playout
<1> QED
  BY <1>1 DEF adjustDelay

(* One extraction: if the timer was due by the schedule for a sample at     *)
(* time t of the stream, the next one is due by the schedule d later.       *)
LEMMA OneExtraction ==
  ASSUME NEW p \in Playout, NEW j \in Jitter, NEW d \in Nat,
         NEW x \in Int, NEW b \in Int, NEW t \in Int,
         x - j.processing = Ms * (t - b - p.adjustment)
  PROVE  LET a == adjustDelay(p, d)
             r == updatePlayoutTime(j, a.wait)
         IN /\ r \in Jitter /\ (r.processing >= Ms => r.playTime = 0)
            /\ x + r.playTime * Ms - r.processing = Ms * (t + d - b - a.left)
<1> DEFINE a == adjustDelay(p, d)
           r == updatePlayoutTime(j, a.wait)
<1>1. a.left \in Int /\ a.wait \in Nat /\ a.wait = d + p.adjustment - a.left
  BY AdjustDelay
<1>2. /\ r \in Jitter
      /\ r.playTime * Ms - r.processing = a.wait * Ms - j.processing
      /\ r.processing >= Ms => r.playTime = 0
  BY <1>1, UpdateTime
<1>3. Ms \in Int /\ p.adjustment \in Int /\ j.processing \in Int
      /\ r.playTime \in Int /\ r.processing \in Int
  BY <1>2, PlayoutAssumption DEF Playout, Jitter
<1> HIDE DEF a, r
<1>4. t - b - p.adjustment \in Int /\ (t - b - p.adjustment) + a.wait = t + d - b - a.left
  BY <1>1, <1>3
<1>5. \A u, v \in Int : Ms * (u + v) = Ms * u + v * Ms
  BY <1>3
<1>6. Ms * ((t - b - p.adjustment) + a.wait) = Ms * (t - b - p.adjustment) + a.wait * Ms
  BY <1>1, <1>4, <1>5
<1>7. Ms * (t + d - b - a.left) = x - j.processing + a.wait * Ms
  BY <1>4, <1>6
<1>8. r.playTime * Ms \in Int /\ a.wait * Ms \in Int
  BY <1>1, <1>3
<1>9. x + r.playTime * Ms - r.processing = x - j.processing + a.wait * Ms
  BY <1>2, <1>3, <1>8
<1> QED
  BY <1>2, <1>7, <1>9 DEF a, r

-----------------------------------------------------------------------------
(* The account that OnSchedule keeps, of a playout p whose timer fires at   *)
(* time x with the frames q in its queue: p goes on after a sample, or      *)
(* starts with the first of q.                                              *)
Due(q, p, j, x, b) ==
  \/ /\ p.lastDelay >= 0 /\ (q = {} => p.lastDelay = Period)
     /\ x - j.processing = Ms * (p.lastTs + p.lastDelay - b - p.adjustment)
  \/ /\ p.lastDelay = -1
     /\ \E f \in q : IsFirst(f, q) /\ x - j.processing = Ms * (Ts[f] - b - p.adjustment)

(* What correctAdjustment moves between the adjustment and the timestamp    *)
(* leaves the moment at which the first frame is due where it was.          *)
LEMMA CorrectionKeepsDue ==
  ASSUME NEW q \in SUBSET Frames, NEW p \in Playout, NEW j \in Jitter,
         NEW x \in Int, NEW b \in Int, NEW f \in q,
         IsFirst(f, q), Due(q, p, j, x, b)
  PROVE  LET c == correctAdjustment(p, f)
         IN c \in Playout /\ c.running = p.running
            /\ x - j.processing = Ms * (Ts[f] - b - c.adjustment)
<1> DEFINE c == correctAdjustment(p, f)
<1>1. /\ Ts[f] \in Int /\ p.lastTs \in Int /\ p.adjustment \in Int
      /\ p.lastDelay \in Int /\ f \in Nat
  BY PlayoutAssumption DEF Playout
<1>2. CASE p.lastDelay >= 0
  <2>1. c = [p EXCEPT !.adjustment = @ + Ts[f] - p.lastTs - p.lastDelay]
    BY <1>2 DEF correctAdjustment
  <2>2. c \in Playout /\ c.running = p.running
        /\ c.adjustment = p.adjustment + Ts[f] - p.lastTs - p.lastDelay
    BY <1>1, <2>1 DEF Playout
  <2>3. p.lastTs + p.lastDelay - b - p.adjustment = Ts[f] - b - c.adjustment
    BY <1>1, <2>2
  <2>4. x - j.processing = Ms * (p.lastTs + p.lastDelay - b - p.adjustment)
    BY <1>1, <1>2 DEF Due
  <2> QED
    BY <2>2, <2>3, <2>4
<1>3. CASE ~(p.lastDelay >= 0)
  <2>1. c = p
    BY <1>3 DEF correctAdjustment
  <2>2. PICK g \in q : IsFirst(g, q) /\ x - j.processing = Ms * (Ts[g] - b - p.adjustment)
    BY <1>1, <1>3 DEF Due
  <2>3. g = f
    BY <2>2, PlayoutAssumption DEF IsFirst
  <2> QED
    BY <2>1, <2>2, <2>3
<1> QED
  BY <1>2, <1>3

(* processSample keeps the type of what it decides from. *)
LEMMA GopTyped ==
  ASSUME NEW g \in GopState, NEW f \in Frames
  PROVE  processSample(g, f) \in GopState
BY DEF processSample, GopState

(* An extraction that was due by the schedule leaves the next one due.      *)
LEMMA ExtractionKeepsSchedule ==
  ASSUME NEW q \in SUBSET Frames, NEW p \in Playout, NEW j \in Jitter,
         NEW g \in GopState, NEW s \in Seq(Frames), NEW x \in Int, NEW b \in Int,
         Due(q, p, j, x, b), ExtractSample(q, p, j, g, s)
  PROVE  /\ queue' \subseteq q /\ gop' \in GopState /\ shown' \in Seq(Frames)
         /\ playout' \in Playout /\ playout'.running = p.running /\ playout'.lastDelay >= 0
         /\ jitter' \in Jitter /\ (jitter'.processing >= Ms => jitter'.playTime = 0)
         /\ x + jitter'.playTime * Ms - jitter'.processing
              = Ms * (playout'.lastTs + playout'.lastDelay - b - playout'.adjustment)
         /\ queue' = {} => playout'.lastDelay = Period
         /\ timer' = "armed"
<1>0. Sample(q, p, j, g, s) /\ timer' = "armed"
  BY DEF ExtractSample
<1>1. Period \in Nat /\ p.lastTs \in Int /\ p.adjustment \in Int /\ p.lastDelay \in Int
  BY PlayoutAssumption DEF Playout
<1>2. CASE /\ q = {}
           /\ queue' = q /\ gop' = g /\ shown' = s
           /\ playout' = starved(p)
           /\ jitter' = updatePlayoutTime(j, starvedWait(p))
  <2> DEFINE a == adjustDelay(p, Period)
             t == p.lastTs + Period
  <2>1. p.lastDelay = Period /\ x - j.processing = Ms * (p.lastTs + p.lastDelay - b - p.adjustment)
    BY <1>1, <1>2 DEF Due
  <2>2. t \in Int /\ x - j.processing = Ms * (t - b - p.adjustment)
    BY <1>1, <2>1
  <2>3. jitter' = updatePlayoutTime(j, a.wait)
    BY <1>2 DEF starvedWait
  <2>4. playout' = [p EXCEPT !.lastTs = t, !.lastDelay = Period, !.adjustment = a.left]
    BY <1>2 DEF starved
  <2> HIDE DEF t
  <2>5. /\ jitter' \in Jitter /\ (jitter'.processing >= Ms => jitter'.playTime = 0)
        /\ x + jitter'.playTime * Ms - jitter'.processing = Ms * (t + Period - b - a.left)
    BY <1>1, <2>2, <2>3, OneExtraction
  <2>6. a.left \in Int
    BY <1>1, AdjustDelay
  <2> HIDE DEF a
  <2>7. /\ playout' \in Playout /\ playout'.running = p.running
        /\ playout'.lastTs = t /\ playout'.lastDelay = Period /\ playout'.adjustment = a.left
    BY <1>1, <2>2, <2>4, <2>6 DEF Playout
  <2> QED
    BY <1>0, <1>1, <1>2, <2>5, <2>7
<1>3. CASE \E f \in q, delay \in 0..MaxClock :
       /\ IsFirst(f, q) /\ IsPlayTime(delay, f, q \ {f})
       /\ queue' = q \ {f}
       /\ playout' = popped(p, f, delay)
       /\ jitter' = updatePlayoutTime(j, poppedWait(p, f, delay))
       /\ \/ gop' = g /\ shown' = s
          \/ /\ gop' = processSample(g, f)
             /\ shown' = IF gop'.valid THEN Append(s, f) ELSE s
  <2>1. PICK f \in q, d \in 0..MaxClock :
       /\ IsFirst(f, q) /\ IsPlayTime(d, f, q \ {f})
       /\ queue' = q \ {f}
       /\ playout' = popped(p, f, d)
       /\ jitter' = updatePlayoutTime(j, poppedWait(p, f, d))
       /\ \/ gop' = g /\ shown' = s
          \/ /\ gop' = processSample(g, f)
             /\ shown' = IF gop'.valid THEN Append(s, f) ELSE s
    BY <1>3
  <2> DEFINE c == correctAdjustment(p, f)
             a == adjustDelay(c, d)
             t == Ts[f]
  <2>2. d \in Nat /\ t \in Int /\ f \in Frames
    BY PlayoutAssumption
  <2>3. c \in Playout /\ c.running = p.running /\ x - j.processing = Ms * (t - b - c.adjustment)
    BY <2>1, CorrectionKeepsDue
  <2>4. jitter' = updatePlayoutTime(j, a.wait)
    BY <2>1 DEF poppedWait
  <2>5. playout' = [c EXCEPT !.lastTs = t, !.lastDelay = d, !.adjustment = a.left]
    BY <2>1 DEF popped
  <2>6. (q \ {f}) = {} => d = Period
    BY <2>1 DEF IsPlayTime
  <2>7. gop' \in GopState /\ shown' \in Seq(Frames)
    BY <2>1, <2>2, GopTyped
  <2> HIDE DEF c, t
  <2>8. /\ jitter' \in Jitter /\ (jitter'.processing >= Ms => jitter'.playTime = 0)
        /\ x + jitter'.playTime * Ms - jitter'.processing = Ms * (t + d - b - a.left)
    BY <2>2, <2>3, <2>4, OneExtraction
  <2>9. a.left \in Int
    BY <2>2, <2>3, AdjustDelay
  <2> HIDE DEF a
  <2>10. /\ playout' \in Playout /\ playout'.running = c.running
         /\ playout'.lastTs = t /\ playout'.lastDelay = d /\ playout'.adjustment = a.left
    BY <2>2, <2>3, <2>5, <2>9 DEF Playout
  <2> QED
    BY <1>0, <2>1, <2>2, <2>3, <2>6, <2>7, <2>8, <2>10
<1> QED
  BY <1>0, <1>2, <1>3 DEF Sample

-----------------------------------------------------------------------------
(* The inductive invariant, in the terms of the lemmas. *)
Typed ==
  /\ queue \subseteq seen /\ seen \subseteq Frames
  /\ control \in Control /\ playout \in Playout /\ jitter \in Jitter /\ timer \in Timer
  /\ gop \in GopState /\ shown \in Seq(Frames) /\ clock \in Nat /\ base \in Int

(* The type invariant in the terms of the lemmas. *)
LEMMA TypesAgree == PlayoutTypeOK <=> Typed
BY DEF PlayoutTypeOK, Typed, Control, Playout, Jitter, Timer, GopState

(* What a session that runs, or none, owes to the schedule. *)
Kept ==
  /\ OnSchedule /\ TimerSet /\ ProcessingAbsorbed /\ EmptyAfterPeriod
  /\ playout.running => playout.lastDelay >= 0

(* The invariant is its types, its account and the two facts of control. *)
LEMMA InvariantParts ==
  SInv <=> /\ Typed /\ Kept /\ control.threshold >= MinLevel
           /\ playout.running => control.allowed
BY TypesAgree DEF SInv, KeepsSchedule, StartsFromSample, Kept

(* The same, of the state after a step. *)
LEMMA NextInvariantParts ==
  ASSUME Typed', Kept', control'.threshold >= MinLevel, playout'.running => control'.allowed
  PROVE  SInv'
<1>1. PlayoutTypeOK'
  BY DEF PlayoutTypeOK, Typed, Control, Playout, Jitter, Timer, GopState
<1> QED
  BY <1>1 DEF SInv, KeepsSchedule, StartsFromSample, Kept

(* While the playout runs the next extraction is due, whenever it happens. *)
LEMMA RunningIsDue ==
  ASSUME Typed, Kept, playout.running, NEW late \in Nat
  PROVE  LET x == clock + jitter.playTime * Ms + late
             j == startFramePlayout(jitter, late)
         IN x \in Nat /\ j \in Jitter /\ Due(queue, playout, j, x, base)
<1> DEFINE x == clock + jitter.playTime * Ms + late
           j == startFramePlayout(jitter, late)
<1>1. /\ clock \in Nat /\ jitter.playTime \in Nat /\ jitter.processing \in Nat
      /\ Ms \in Nat /\ jitter.playTime * Ms \in Nat
  BY PlayoutAssumption DEF Typed, Jitter
<1>2. j \in Jitter /\ j.processing = jitter.processing + late
  BY <1>1 DEF startFramePlayout, Jitter, Typed
<1>3. x \in Nat /\ x - j.processing = clock + jitter.playTime * Ms - jitter.processing
  BY <1>1, <1>2
<1>4. clock + jitter.playTime * Ms - jitter.processing
        = Ms * (playout.lastTs + playout.lastDelay - base - playout.adjustment)
  BY DEF Kept, OnSchedule
<1>5. playout.lastDelay >= 0 /\ (queue = {} => playout.lastDelay = Period)
  BY DEF Kept, EmptyAfterPeriod
<1>6. Due(queue, playout, j, x, base)
  BY <1>3, <1>4, <1>5 DEF Due
<1> QED
  BY <1>2, <1>3, <1>6

(* start: the first sample is due at once, the fast forward taken off. *)
LEMMA StartKeepsSchedule ==
  ASSUME Typed, NEW q \in SUBSET Frames, NEW c, NEW ffwd \in Int, Start(q, c, ffwd)
  PROVE  /\ queue' \subseteq q /\ control' = c /\ Kept'
         /\ gop' \in GopState /\ shown' \in Seq(Frames) /\ playout' \in Playout
         /\ jitter' \in Jitter /\ clock' \in Nat /\ base' \in Int /\ timer' \in Timer
<1> DEFINE p == [stopped EXCEPT !.running = TRUE, !.adjustment = -ffwd]
<1>1. PICK f \in q : IsFirst(f, q) /\ base' = Ts[f] + ffwd
  BY DEF Start
<1>2. Ts[f] \in Int /\ base' \in Int /\ clock' = 0 /\ control' = c /\ Ms \in Nat
  BY <1>1, PlayoutAssumption DEF Start
<1>3. p \in Playout /\ p.running /\ p.lastDelay = -1 /\ p.adjustment = -ffwd
  <2>1. stopped \in Playout /\ stopped.lastDelay = -1 /\ -ffwd \in Int
    BY DEF stopped, Playout
  <2>2. p.running
    BY <2>1 DEF Playout
  <2> QED
    BY <2>1, <2>2 DEF Playout
<1>4. fresh \in Jitter /\ fresh.processing = 0
  BY DEF fresh, Jitter
<1>5. ExtractSample(q, p, fresh, gop, <<>>)
  BY DEF Start
<1> HIDE DEF p
<1>6. Ts[f] - base' - p.adjustment = 0
  BY <1>1, <1>2, <1>3
<1>7. 0 - fresh.processing = Ms * (Ts[f] - base' - p.adjustment)
  BY <1>2, <1>4, <1>6
<1>8. Due(q, p, fresh, 0, base')
  BY <1>1, <1>3, <1>7 DEF Due
<1>9. gop \in GopState /\ <<>> \in Seq(Frames) /\ 0 \in Int
  BY DEF Typed
<1> DEFINE b == base'
           s == <<>>
           x == 0
<1>10. /\ b \in Int /\ s \in Seq(Frames) /\ x \in Int
       /\ Due(q, p, fresh, x, b) /\ ExtractSample(q, p, fresh, gop, s)
  BY <1>2, <1>5, <1>8, <1>9
<1> HIDE DEF b, s, x
<1>11. /\ queue' \subseteq q /\ gop' \in GopState /\ shown' \in Seq(Frames)
       /\ playout' \in Playout /\ playout'.running = p.running /\ playout'.lastDelay >= 0
       /\ jitter' \in Jitter /\ (jitter'.processing >= Ms => jitter'.playTime = 0)
       /\ x + jitter'.playTime * Ms - jitter'.processing
            = Ms * (playout'.lastTs + playout'.lastDelay - b - playout'.adjustment)
       /\ queue' = {} => playout'.lastDelay = Period
       /\ timer' = "armed"
  BY <1>3, <1>4, <1>9, <1>10, ExtractionKeepsSchedule
<1> QED
  BY <1>2, <1>3, <1>11
  DEF b, x, Timer, Kept, OnSchedule, TimerSet, ProcessingAbsorbed, EmptyAfterPeriod

(* checkPlayout starts, stops or leaves the playout with the queue q, which *)
(* has all the frames that were queued.                                     *)
LEMMA CheckKeepsSchedule ==
  ASSUME SInv, NEW q \in SUBSET Frames, queue \subseteq q,
         NEW c \in Control, c.threshold >= MinLevel, CheckPlayout(q, c)
  PROVE  /\ queue' \subseteq q /\ control' \in Control /\ Kept'
         /\ gop' \in GopState /\ shown' \in Seq(Frames) /\ playout' \in Playout
         /\ jitter' \in Jitter /\ clock' \in Nat /\ base' \in Int /\ timer' \in Timer
         /\ control'.threshold >= MinLevel /\ (playout'.running => control'.allowed)
<1>1. Typed /\ Kept /\ (playout.running => control.allowed)
  BY InvariantParts
<1>2. PICK ms \in 0..MaxClock :
        IF playout.running = c.allowed THEN Unmoved(q, c)
        ELSE IF ~c.allowed THEN StopPlayout(q, c)
        ELSE IF ms >= c.threshold + c.ffwd THEN Start(q, c, ms - c.threshold)
        ELSE Unmoved(q, c)
  BY DEF CheckPlayout
<1>3. CASE (playout.running => c.allowed) /\ Unmoved(q, c)
  <2>2. Kept'
    BY <1>1, <1>3 DEF Unmoved, Kept, OnSchedule, TimerSet, ProcessingAbsorbed, EmptyAfterPeriod
  <2> QED
    BY <1>1, <1>3, <2>2 DEF Unmoved, Typed
<1>4. CASE StopPlayout(q, c)
  <2>1. playout' \in Playout /\ ~playout'.running
    BY <1>4 DEF StopPlayout, stopped, Playout
  <2>2. jitter' \in Jitter /\ jitter'.playTime = 0
    BY <1>4 DEF StopPlayout, fresh, Jitter
  <2>3. gop' \in GopState /\ timer' \in Timer
    BY <1>1, <1>4 DEF StopPlayout, Typed, GopState, Timer
  <2>4. Kept'
    BY <2>1, <2>2 DEF Kept, OnSchedule, TimerSet, ProcessingAbsorbed, EmptyAfterPeriod
  <2> QED
    BY <1>4, <2>1, <2>2, <2>3, <2>4 DEF StopPlayout
<1>5. CASE c.allowed /\ Start(q, c, ms - c.threshold)
  <2>1. ms - c.threshold \in Int
    BY PlayoutAssumption DEF Control
  <2> QED
    BY <1>1, <1>5, <2>1, StartKeepsSchedule
<1> QED
  BY <1>2, <1>3, <1>4, <1>5

-----------------------------------------------------------------------------
(* Every step keeps the invariant, action by action. *)
(* Before the first sample nothing plays and nothing is owed. *)
LEMMA InitHolds == Init => SInv
<1> SUFFICES ASSUME Init PROVE SInv
  OBVIOUS
<1>1. MinLevel \in Nat /\ Levels \subseteq Nat
  BY PlayoutAssumption
<1>2. PICK u \in Levels :
        control = [allowed |-> FALSE, ffwd |-> 0, user |-> u,
                   threshold |-> IF u > MinLevel THEN u ELSE MinLevel]
  BY DEF Init
<1>3. control \in Control /\ control.threshold >= MinLevel
  BY <1>1, <1>2 DEF Control
<1>4. playout \in Playout /\ ~playout.running
  BY DEF Init, stopped, Playout
<1>5. jitter \in Jitter /\ jitter.playTime = 0
  BY DEF Init, fresh, Jitter
<1>6. gop \in GopState /\ timer \in Timer
  BY DEF Init, GopState, Timer
<1>7. Typed
  BY <1>3, <1>4, <1>5, <1>6 DEF Init, Typed
<1>8. Kept
  BY <1>4, <1>5 DEF Kept, OnSchedule, TimerSet, ProcessingAbsorbed, EmptyAfterPeriod
<1> QED
  BY <1>3, <1>4, <1>7, <1>8, InvariantParts

(* A frame is assembled: the playout may start with it. *)
LEMMA NewSampleStep ==
  ASSUME SInv, NEW f \in Frames, OnNewSampleReady(f)
  PROVE  SInv'
<1>1. Typed /\ control.threshold >= MinLevel
  BY InvariantParts
<1>2. /\ queue \cup {f} \in SUBSET Frames /\ queue \subseteq queue \cup {f}
      /\ control \in Control
  BY <1>1 DEF Typed
<1>3. CheckPlayout(queue \cup {f}, control) /\ seen' = seen \cup {f}
  BY DEF OnNewSampleReady
<1>4. /\ queue' \subseteq queue \cup {f} /\ control' \in Control /\ Kept'
      /\ gop' \in GopState /\ shown' \in Seq(Frames) /\ playout' \in Playout
      /\ jitter' \in Jitter /\ clock' \in Nat /\ base' \in Int /\ timer' \in Timer
      /\ control'.threshold >= MinLevel /\ (playout'.running => control'.allowed)
  BY <1>1, <1>2, <1>3, CheckKeepsSchedule
<1>5. Typed'
  BY <1>1, <1>3, <1>4 DEF Typed
<1> QED
  BY <1>4, <1>5, NextInvariantParts

(* The state machine allows or forbids the playout. *)
LEMMA AllowStep ==
  ASSUME SInv, NEW allow \in BOOLEAN, NEW ffwd \in Nat, AllowPlayout(allow, ffwd)
  PROVE  SInv'
<1> DEFINE c == [control EXCEPT !.allowed = allow, !.ffwd = ffwd]
<1>1. Typed /\ control.threshold >= MinLevel
  BY InvariantParts
<1>2. c \in Control /\ c.threshold >= MinLevel
  BY <1>1 DEF Typed, Control
<1>3. CheckPlayout(queue, c) /\ seen' = seen /\ queue \in SUBSET Frames
  BY <1>1 DEF AllowPlayout, Typed
<1> HIDE DEF c
<1>4. /\ queue' \subseteq queue /\ control' \in Control /\ Kept'
      /\ gop' \in GopState /\ shown' \in Seq(Frames) /\ playout' \in Playout
      /\ jitter' \in Jitter /\ clock' \in Nat /\ base' \in Int /\ timer' \in Timer
      /\ control'.threshold >= MinLevel /\ (playout'.running => control'.allowed)
  BY <1>2, <1>3, CheckKeepsSchedule
<1>5. Typed'
  BY <1>1, <1>3, <1>4 DEF Typed
<1> QED
  BY <1>4, <1>5, NextInvariantParts

(* A correction of the queue's size moves the schedule with the adjustment. *)
LEMMA QueueSizeStep ==
  ASSUME SInv, NEW f \in Frames, CheckQueueSize(f)
  PROVE  SInv'
<1>1. /\ Typed /\ Kept /\ control.threshold >= MinLevel /\ playout.running
      /\ control.allowed
  BY InvariantParts DEF CheckQueueSize
<1>2. PICK ms \in 0..MaxClock :
        LET adj == queueAdjustment(ms, control)
        IN playout' = [playout EXCEPT !.adjustment = @ + adj] /\ base' = base - adj
  BY DEF CheckQueueSize
<1> DEFINE adj == queueAdjustment(ms, control)
<1>3. /\ seen' = seen \cup {f} /\ queue' = queue \cup {f}
      /\ UNCHANGED <<control, jitter, timer, gop, shown, clock>>
  BY DEF CheckQueueSize
<1>4. adj \in Int
  <2>1. ms \in Int /\ control.threshold \in Int /\ Period \in Nat /\ (3 * Period) \div 2 \in Int
    BY <1>1, PlayoutAssumption DEF Typed, Control
  <2> QED
    BY <2>1 DEF queueAdjustment
<1>5. playout' = [playout EXCEPT !.adjustment = @ + adj] /\ base' = base - adj
  BY <1>2
<1> HIDE DEF adj
<1>6. /\ playout' \in Playout /\ playout'.adjustment = playout.adjustment + adj
      /\ playout'.lastTs = playout.lastTs /\ playout'.lastDelay = playout.lastDelay
      /\ playout'.running = playout.running /\ base' \in Int
  <2>1. playout \in Playout /\ base \in Int /\ playout.adjustment + adj \in Int
    BY <1>1, <1>4 DEF Typed, Playout
  <2>2. playout' = [playout EXCEPT !.adjustment = playout.adjustment + adj]
    BY <1>5
  <2>3. base' \in Int
    BY <1>4, <1>5, <2>1
  <2> QED
    BY <2>1, <2>2, <2>3 DEF Playout
<1>7. playout'.lastTs + playout'.lastDelay - base' - playout'.adjustment
        = playout.lastTs + playout.lastDelay - base - playout.adjustment
  <2>1. playout \in Playout /\ base \in Int
    BY <1>1 DEF Typed
  <2>2. playout.lastTs \in Int /\ playout.lastDelay \in Int /\ playout.adjustment \in Int
    BY <2>1 DEF Playout
  <2>3. base' = base - adj
    BY <1>5
  <2> QED
    BY <1>4, <1>6, <2>1, <2>2, <2>3
<1>8. OnSchedule'
  BY <1>1, <1>3, <1>7 DEF Kept, OnSchedule
<1>9. Kept'
  BY <1>1, <1>3, <1>6, <1>8 DEF Kept, TimerSet, ProcessingAbsorbed, EmptyAfterPeriod
<1>10. Typed'
  BY <1>1, <1>3, <1>6 DEF Typed
<1> QED
  BY <1>1, <1>3, <1>9, <1>10, NextInvariantParts

(* Steps that only choose another target for the size of the queue. *)
LEMMA TargetStep ==
  ASSUME SInv, NEW t \in Levels, SetThreshold(t) \/ OnOriginalDrdUpdate(t)
  PROVE  SInv'
<1>1. Typed /\ Kept /\ control.threshold >= MinLevel /\ (playout.running => control.allowed)
  BY InvariantParts
<1>2. t \in Nat /\ MinLevel \in Nat /\ control \in Control
  BY <1>1, PlayoutAssumption DEF Typed
<1>3. UNCHANGED <<queue, seen, playout, jitter, timer, gop, shown, clock, base>>
  BY DEF SetThreshold, OnOriginalDrdUpdate
<1>4. /\ control' \in Control /\ control'.threshold >= MinLevel
      /\ control'.allowed = control.allowed
  <2>1. PICK u \in Nat, v \in Nat :
          v >= MinLevel /\ control' = [control EXCEPT !.user = u, !.threshold = v]
    <3>1. CASE SetThreshold(t)
      <4> DEFINE v == IF control.threshold > t /\ t < MinLevel THEN MinLevel ELSE t
      <4>1. control' = [control EXCEPT !.user = t, !.threshold = v]
        BY <3>1 DEF SetThreshold
      <4>2. v \in Nat /\ v >= MinLevel
        BY <1>1, <1>2 DEF Control
      <4> QED
        BY <1>2, <4>1, <4>2
    <3>2. CASE OnOriginalDrdUpdate(t)
      <4>1. t >= MinLevel /\ control' = [control EXCEPT !.user = control.user, !.threshold = t]
        BY <1>2, <3>2 DEF OnOriginalDrdUpdate, Control
      <4>2. control.user \in Nat
        BY <1>2 DEF Control
      <4> QED
        BY <1>2, <4>1, <4>2
    <3> QED
      BY <3>1, <3>2
  <2> QED
    BY <1>2, <2>1 DEF Control
<1>5. Kept'
  BY <1>1, <1>3 DEF Kept, OnSchedule, TimerSet, ProcessingAbsorbed, EmptyAfterPeriod
<1>6. Typed'
  BY <1>1, <1>3, <1>4 DEF Typed
<1> QED
  BY <1>1, <1>3, <1>4, <1>5, <1>6, NextInvariantParts

(* The handler of the timer runs, on time or late, and extracts a sample. *)
LEMMA TimerStep ==
  ASSUME SInv, NEW late \in Lateness, ExtractNext(late)
  PROVE  SInv'
<1> DEFINE x == clock + jitter.playTime * Ms + late
           j == startFramePlayout(jitter, late)
<1>2. /\ Typed /\ Kept /\ control.threshold >= MinLevel /\ playout.running
      /\ control.allowed /\ late \in Nat
  BY InvariantParts, PlayoutAssumption DEF ExtractNext
<1>3. x \in Nat /\ x \in Int /\ j \in Jitter /\ Due(queue, playout, j, x, base)
  BY <1>2, RunningIsDue
<1>4. /\ clock' = x /\ ExtractSample(queue, playout, j, gop, shown)
      /\ UNCHANGED <<seen, control, base>>
  BY DEF ExtractNext
<1>5. /\ queue \in SUBSET Frames /\ playout \in Playout /\ gop \in GopState
      /\ shown \in Seq(Frames) /\ base \in Int
  BY <1>2 DEF Typed
<1> HIDE DEF x, j
<1>6. /\ queue' \subseteq queue /\ gop' \in GopState /\ shown' \in Seq(Frames)
      /\ playout' \in Playout /\ playout'.running = playout.running /\ playout'.lastDelay >= 0
      /\ jitter' \in Jitter /\ (jitter'.processing >= Ms => jitter'.playTime = 0)
      /\ x + jitter'.playTime * Ms - jitter'.processing
           = Ms * (playout'.lastTs + playout'.lastDelay - base - playout'.adjustment)
      /\ queue' = {} => playout'.lastDelay = Period
      /\ timer' = "armed"
  BY <1>3, <1>4, <1>5, ExtractionKeepsSchedule
<1>7. Kept'
  BY <1>4, <1>6 DEF Kept, OnSchedule, TimerSet, ProcessingAbsorbed, EmptyAfterPeriod
<1>8. Typed'
  BY <1>2, <1>3, <1>4, <1>6 DEF Typed, Timer
<1> QED
  BY <1>2, <1>4, <1>7, <1>8, NextInvariantParts

(* The timer expires, or its handler finds the playout stopped. *)
LEMMA IdleTimerStep ==
  ASSUME SInv, TimerExpires \/ ExtractNothing
  PROVE  SInv'
<1>1. Typed /\ Kept /\ control.threshold >= MinLevel /\ (playout.running => control.allowed)
  BY InvariantParts
<1>2. /\ UNCHANGED <<queue, seen, control, playout, jitter, gop, shown, clock, base>>
      /\ timer' \in Timer /\ (playout.running => timer' # "off")
  BY DEF TimerExpires, ExtractNothing, Timer
<1>3. Kept'
  BY <1>1, <1>2 DEF Kept, OnSchedule, TimerSet, ProcessingAbsorbed, EmptyAfterPeriod
<1>4. Typed'
  BY <1>1, <1>2 DEF Typed
<1> QED
  BY <1>1, <1>2, <1>3, <1>4, NextInvariantParts

(* The invariant is inductive. *)
LEMMA NextKeepsInvariant == SInv /\ [Next]_vars => SInv'
<1> SUFFICES ASSUME SInv, [Next]_vars PROVE SInv'
  OBVIOUS
<1>1. CASE \E f \in Frames : OnNewSampleReady(f) \/ CheckQueueSize(f)
  BY <1>1, NewSampleStep, QueueSizeStep
<1>2. CASE (\E ffwd \in Ffwds : AllowPlayout(TRUE, ffwd)) \/ AllowPlayout(FALSE, 0)
  BY <1>2, AllowStep, PlayoutAssumption
<1>3. CASE \E t \in Levels : SetThreshold(t) \/ OnOriginalDrdUpdate(t)
  BY <1>3, TargetStep
<1>4. CASE TimerExpires \/ TimerHandler
  BY <1>4, TimerStep, IdleTimerStep DEF TimerHandler
<1>5. CASE UNCHANGED vars
  BY <1>5 DEF vars, SInv, KeepsSchedule, PlayoutTypeOK, OnSchedule, TimerSet, ProcessingAbsorbed,
              StartsFromSample, EmptyAfterPeriod
<1> QED
  BY <1>1, <1>2, <1>3, <1>4, <1>5 DEF Next

(* PlayoutImpl and JitterTiming keep to the schedule of the timestamps: for *)
(* every stream, period, unit of time, lateness of timers and target, late  *)
(* frames, empty queues, fast forwards and corrections of the queue's size  *)
(* never add up to a drift, and no wait is negative.                        *)
THEOREM PlayoutKeepsSchedule == Spec => []KeepsSchedule
<1>1. Init => SInv
  BY InitHolds
<1>2. SInv /\ [Next]_vars => SInv'
  BY NextKeepsInvariant
<1>3. SInv => KeepsSchedule
  BY DEF SInv
<1> QED
  BY <1>1, <1>2, <1>3, PTL DEF Spec

-----------------------------------------------------------------------------
(* What the decoder gets.  Whether a delta frame may be shown is decided    *)
(* from currentPlayNo_, whether it follows is a matter of what was shown:   *)
(* the two agree as long as the GOP is valid.                               *)
WholeGops(s) == \A i \in 2..Len(s) : s[i] \in KeyFrames \/ s[i] = s[i - 1] + 1
LastShown(s, g) == g.valid /\ s # <<>> => s[Len(s)] = g.playNo

GInv == WholeGops(shown) /\ LastShown(shown, gop)

(* One sample is extracted and processed, or skipped. *)
LEMMA ExtractionKeepsGops ==
  ASSUME NEW q \in SUBSET Frames, NEW p, NEW j, NEW g \in GopState, NEW s \in Seq(Frames),
         WholeGops(s), LastShown(s, g), ExtractSample(q, p, j, g, s)
  PROVE  GInv'
<1>1. CASE gop' = g /\ shown' = s
  BY <1>1 DEF GInv, WholeGops, LastShown
<1>2. CASE \E f \in q : /\ gop' = processSample(g, f)
                        /\ shown' = IF gop'.valid THEN Append(s, f) ELSE s
  <2>1. PICK f \in q : /\ gop' = processSample(g, f)
                       /\ shown' = IF gop'.valid THEN Append(s, f) ELSE s
    BY <1>2
  <2>2. f \in Frames /\ Frames \subseteq Nat /\ gop'.playNo = f
    BY <2>1, PlayoutAssumption DEF processSample
  <2>3. CASE ~gop'.valid
    BY <2>1, <2>3 DEF GInv, WholeGops, LastShown
  <2>4. CASE gop'.valid
    <3>1. shown' = Append(s, f)
      BY <2>1, <2>4
    <3>2. /\ Len(s) \in Nat /\ Len(shown') = Len(s) + 1 /\ shown'[Len(s) + 1] = f
          /\ \A i \in 1..Len(s) : shown'[i] = s[i] /\ s[i] \in Frames
      BY <2>2, <3>1
    <3>3. ASSUME s # <<>>, f \notin KeyFrames
          PROVE  f = s[Len(s)] + 1
      <4>1. g.valid /\ (g.playNo >= 0 => f = g.playNo + 1)
        BY <2>1, <2>4, <3>3 DEF processSample
      <4>2. s[Len(s)] = g.playNo /\ Len(s) \in 1..Len(s)
        BY <3>2, <3>3, <4>1 DEF LastShown
      <4>3. g.playNo \in Nat
        BY <2>2, <3>2, <4>2
      <4> QED
        BY <4>1, <4>2, <4>3
    <3>4. ASSUME NEW i \in 2..Len(shown')
          PROVE  shown'[i] \in KeyFrames \/ shown'[i] = shown'[i - 1] + 1
      <4>1. CASE i <= Len(s)
        <5>1. i \in 2..Len(s) /\ i \in 1..Len(s) /\ i - 1 \in 1..Len(s)
          BY <3>2, <4>1
        <5> QED
          BY <3>2, <5>1 DEF WholeGops
      <4>2. CASE ~(i <= Len(s))
        <5>1. i = Len(s) + 1 /\ Len(s) \in 1..Len(s) /\ i - 1 = Len(s) /\ s # <<>>
          BY <3>2, <4>2
        <5> QED
          BY <3>2, <3>3, <5>1
      <4> QED
        BY <4>1, <4>2
    <3>5. shown' # <<>> => shown'[Len(shown')] = gop'.playNo
      BY <2>2, <3>2
    <3> QED
      BY <3>4, <3>5 DEF GInv, WholeGops, LastShown
  <2> QED
    BY <2>3, <2>4
<1> QED
  BY <1>1, <1>2 DEF ExtractSample, Sample

(* A session begins with nothing shown. *)
LEMMA CheckKeepsGops ==
  ASSUME Typed, GInv, NEW q \in SUBSET Frames, NEW c, CheckPlayout(q, c)
  PROVE  GInv'
<1>1. PICK ms \in 0..MaxClock :
        Unmoved(q, c) \/ StopPlayout(q, c) \/ Start(q, c, ms - c.threshold)
  BY DEF CheckPlayout
<1>2. CASE Unmoved(q, c)
  BY <1>2 DEF Unmoved, GInv, WholeGops, LastShown
<1>3. CASE StopPlayout(q, c)
  <2>1. shown' = <<>>
    BY <1>3 DEF StopPlayout
  <2> QED
    BY <2>1 DEF GInv, WholeGops, LastShown
<1>4. CASE Start(q, c, ms - c.threshold)
  <2> DEFINE p == [stopped EXCEPT !.running = TRUE, !.adjustment = -(ms - c.threshold)]
             s == <<>>
  <2>1. ExtractSample(q, p, fresh, gop, s)
    BY <1>4 DEF Start
  <2>2. gop \in GopState /\ s \in Seq(Frames) /\ WholeGops(s) /\ LastShown(s, gop)
    BY DEF Typed, WholeGops, LastShown
  <2> HIDE DEF p, s
  <2> QED
    BY <2>1, <2>2, ExtractionKeepsGops
<1> QED
  BY <1>1, <1>2, <1>3, <1>4

(* Every step keeps what was shown whole. *)
LEMMA NextKeepsGops == SInv /\ GInv /\ [Next]_vars => GInv'
<1> SUFFICES ASSUME SInv, GInv, [Next]_vars PROVE GInv'
  OBVIOUS
<1>1. Typed
  BY InvariantParts
<1>2. queue \in SUBSET Frames
  BY <1>1 DEF Typed
<1>3. ASSUME NEW f \in Frames, OnNewSampleReady(f) PROVE GInv'
  <2>1. queue \cup {f} \in SUBSET Frames /\ CheckPlayout(queue \cup {f}, control)
    BY <1>2, <1>3 DEF OnNewSampleReady
  <2> QED
    BY <1>1, <2>1, CheckKeepsGops
<1>4. ASSUME NEW allow, NEW ffwd, AllowPlayout(allow, ffwd) PROVE GInv'
  <2> DEFINE c == [control EXCEPT !.allowed = allow, !.ffwd = ffwd]
  <2>1. CheckPlayout(queue, c)
    BY <1>4 DEF AllowPlayout
  <2> HIDE DEF c
  <2> QED
    BY <1>1, <1>2, <2>1, CheckKeepsGops
<1>5. ASSUME NEW late \in Lateness, ExtractNext(late) PROVE GInv'
  <2>1. ExtractSample(queue, playout, startFramePlayout(jitter, late), gop, shown)
    BY <1>5 DEF ExtractNext
  <2> DEFINE j == startFramePlayout(jitter, late)
  <2>2. ExtractSample(queue, playout, j, gop, shown)
    BY <2>1
  <2> HIDE DEF j
  <2>3. gop \in GopState /\ shown \in Seq(Frames) /\ WholeGops(shown) /\ LastShown(shown, gop)
    BY <1>1 DEF Typed, GInv
  <2> QED
    BY <1>2, <2>2, <2>3, ExtractionKeepsGops
<1>6. ASSUME UNCHANGED <<gop, shown>> PROVE GInv'
  BY <1>6 DEF GInv, WholeGops, LastShown
<1>7. CASE \E f \in Frames : CheckQueueSize(f)
  BY <1>6, <1>7 DEF CheckQueueSize
<1>8. CASE \E t \in Levels : SetThreshold(t) \/ OnOriginalDrdUpdate(t)
  BY <1>6, <1>8 DEF SetThreshold, OnOriginalDrdUpdate
<1>9. CASE TimerExpires \/ ExtractNothing
  BY <1>6, <1>9 DEF TimerExpires, ExtractNothing
<1>10. CASE UNCHANGED vars
  BY <1>6, <1>10 DEF vars
<1> QED
  BY <1>3, <1>4, <1>5, <1>7, <1>8, <1>9, <1>10 DEF Next, TimerHandler

(* VideoPlayoutImpl::processSample: in one session the decoder gets a delta *)
(* frame only straight after the frame before it, for every set of frames   *)
(* and key frames, whatever is lost, late or unreadable.                    *)
THEOREM DecoderGetsWholeGops == Spec => []DecodesWholeGops
<1>1. Init => SInv /\ GInv
  BY InitHolds DEF Init, GInv, WholeGops, LastShown
<1>2. SInv /\ GInv /\ [Next]_vars => (SInv /\ GInv)'
  BY NextKeepsInvariant, NextKeepsGops
<1>3. GInv => DecodesWholeGops
  BY DEF GInv, WholeGops, DecodesWholeGops
<1> QED
  BY <1>1, <1>2, <1>3, PTL DEF Spec
=============================================================================
