------------------------- MODULE Applications_proofs -------------------------
(***************************************************************************)
(* Proofs about the programs around the library, for all values of the     *)
(* constants: the frame fetcher, the stream recorder and the               *)
(* TouchDesigner operators.                                                *)
(***************************************************************************)
EXTENDS StreamRecorder, TouchOperator, TLAPS, SequenceTheorems,
        FiniteSetTheorems, WellFoundedInduction

-----------------------------------------------------------------------------
(* FrameFetching and StreamRecorder: numbers in ascending order, and the    *)
(* segments that are asked for.                                             *)

(* A set that holds 0, and each successor of what it holds, holds them all. *)
LEMMA SetInduction ==
  ASSUME NEW S, 0 \in S, \A n \in Nat : n \in S => n + 1 \in S
  PROVE  \A n \in Nat : n \in S
<1> SUFFICES ASSUME NEW n \in Nat, n \notin S PROVE FALSE
  OBVIOUS
<1> DEFINE T == Nat \ S
           R == OpToRel(<, Nat)
<1>1. IsWellFoundedOn(R, Nat)
  BY NatLessThanWellFounded
<1>2. \A x, y \in Nat : y < x => <<y, x>> \in R
  BY DEF OpToRel
<1> HIDE DEF R
<1>3. T \in SUBSET Nat /\ T # {}
  OBVIOUS
<1>4. PICK x \in T : \A y \in T : ~(<<y, x>> \in R)
  BY <1>1, <1>3, WFMin
<1>5. x \in Nat /\ x # 0 /\ x \notin S
  BY <1>4
<1>6. x - 1 \in Nat /\ x - 1 < x /\ (x - 1) + 1 = x
  BY <1>5
<1>7. x - 1 \notin T
  BY <1>2, <1>4, <1>5, <1>6
<1> QED
  BY <1>5, <1>6, <1>7

IsAscending(s, T) ==
  /\ s \in [1..Cardinality(T) -> T]
  /\ \A i, j \in 1..Cardinality(T) : i < j => s[i] < s[j]

(* A bounded set of numbers can be put in ascending order. *)
LEMMA AscendingExists ==
  ASSUME NEW N \in Nat, NEW T \in SUBSET (0..N)
  PROVE  IsFiniteSet(T) /\ Cardinality(T) \in Nat /\ IsAscending(ascending(T), T)
<1> DEFINE S == {n \in Nat : \A U \in SUBSET (0..n - 1) : \E s : IsAscending(s, U)}
<1>1. \A n \in Nat : \A U \in SUBSET (0..n - 1) : IsFiniteSet(U) /\ Cardinality(U) \in Nat
  <2> SUFFICES ASSUME NEW n \in Nat, NEW U \in SUBSET (0..n - 1) PROVE IsFiniteSet(U) /\ Cardinality(U) \in Nat
    OBVIOUS
  <2>1. U \in SUBSET Nat /\ \A s \in U : s <= n
    OBVIOUS
  <2> QED
    BY <2>1, FS_BoundedSetOfNaturals, FS_CardinalityType
<1>2. 0 \in S
  <2>1. \A U \in SUBSET (0..0 - 1) : U = {}
    OBVIOUS
  <2>2. IsAscending([i \in 1..0 |-> 0], {})
    BY FS_EmptySet DEF IsAscending
  <2> QED
    BY <2>1, <2>2
<1>3. ASSUME NEW n \in Nat, n \in S PROVE n + 1 \in S
  <2> SUFFICES ASSUME NEW U \in SUBSET (0..n) PROVE \E s : IsAscending(s, U)
    OBVIOUS
  <2>1. U \ {n} \in SUBSET (0..n - 1)
    OBVIOUS
  <2>2. PICK s : IsAscending(s, U \ {n})
    BY <1>3, <2>1
  <2>3. CASE n \notin U
    <3>1. U \ {n} = U
      BY <2>3
    <3> QED
      BY <2>2, <3>1
  <2>4. CASE n \in U
    <3> DEFINE c == Cardinality(U \ {n})
               r == [i \in 1..c + 1 |-> IF i = c + 1 THEN n ELSE s[i]]
    <3>1. c \in Nat
      BY <1>1, <2>1
    <3>2. U = (U \ {n}) \cup {n} /\ IsFiniteSet(U \ {n})
      BY <1>1, <2>1, <2>4
    <3>3. Cardinality(U) = c + 1
      BY <3>2, FS_AddElement
    <3>4. \A i \in 1..c : s[i] \in U /\ s[i] \in 0..n - 1
      BY <2>1, <2>2 DEF IsAscending
    <3>5. \A i, j \in 1..c : i < j => s[i] < s[j]
      BY <2>2 DEF IsAscending
    <3> HIDE DEF c
    <3>6. r \in [1..c + 1 -> U] /\ \A i, j \in 1..c + 1 : i < j => r[i] < r[j]
      BY <2>4, <3>1, <3>4, <3>5
    <3> QED
      BY <3>3, <3>6 DEF IsAscending
  <2> QED
    BY <2>3, <2>4
<1> HIDE DEF S
<1>4. N + 1 \in S
  BY <1>2, <1>3, SetInduction
<1>5. T \in SUBSET (0..(N + 1) - 1)
  OBVIOUS
<1>6. \E s : IsAscending(s, T)
  BY <1>4, <1>5 DEF S
<1>7. \E s \in [1..Cardinality(T) -> T] : \A i, j \in DOMAIN s : i < j => s[i] < s[j]
  BY <1>6 DEF IsAscending
<1>8. ascending(T) = CHOOSE s \in [1..Cardinality(T) -> T] : \A i, j \in DOMAIN s : i < j => s[i] < s[j]
  BY DEF ascending
<1>9. IsAscending(ascending(T), T)
  BY <1>7, <1>8 DEF IsAscending
<1>10. IsFiniteSet(T) /\ Cardinality(T) \in Nat
  <2>1. N + 1 \in Nat
    OBVIOUS
  <2> QED
    BY <1>1, <1>5, <2>1
<1> QED
  BY <1>9, <1>10

(* A whole interval in ascending order *)
LEMMA AscendingInterval ==
  ASSUME NEW N \in Nat
  PROVE  ascending(0..N) = [i \in 1..N + 1 |-> i - 1]
<1> DEFINE s == ascending(0..N)
<1>1. Cardinality(0..N) = N + 1
  BY FS_Interval
<1>2. s \in [1..N + 1 -> 0..N] /\ \A i, j \in 1..N + 1 : i < j => s[i] < s[j]
  BY <1>1, AscendingExists DEF IsAscending
<1> HIDE DEF s
<1>3. \A n \in Nat : n <= N => s[n + 1] >= n
  <2> DEFINE S == {n \in Nat : n <= N => s[n + 1] >= n}
  <2>1. 0 \in S
    BY <1>2
  <2>2. ASSUME NEW n \in Nat, n \in S PROVE n + 1 \in S
    BY <1>2, <2>2
  <2> HIDE DEF S
  <2>3. \A n \in Nat : n \in S
    BY <2>1, <2>2, SetInduction
  <2> QED
    BY <2>3 DEF S
<1>4. \A n \in Nat : n <= N => s[N + 1 - n] <= N - n
  <2> DEFINE S == {n \in Nat : n <= N => s[N + 1 - n] <= N - n}
  <2>1. 0 \in S
    BY <1>2
  <2>2. ASSUME NEW n \in Nat, n \in S PROVE n + 1 \in S
    <3> SUFFICES ASSUME n + 1 <= N PROVE s[N + 1 - (n + 1)] <= N - (n + 1)
      OBVIOUS
    <3>1. N + 1 - (n + 1) \in 1..N + 1 /\ N + 1 - n \in 1..N + 1 /\ N + 1 - (n + 1) < N + 1 - n
      OBVIOUS
    <3>2. s[N + 1 - (n + 1)] < s[N + 1 - n] /\ s[N + 1 - n] <= N - n
      BY <1>2, <2>2, <3>1
    <3>3. s[N + 1 - (n + 1)] \in Nat /\ s[N + 1 - n] \in Nat
      BY <1>2, <3>1
    <3> QED
      BY <3>2, <3>3
  <2> HIDE DEF S
  <2>3. \A n \in Nat : n \in S
    BY <2>1, <2>2, SetInduction
  <2> QED
    BY <2>3 DEF S
<1>5. ASSUME NEW i \in 1..N + 1 PROVE s[i] = i - 1
  <2>1. i - 1 \in Nat /\ i - 1 <= N /\ (i - 1) + 1 = i /\ s[i] \in Nat
    BY <1>2
  <2>2. N - (i - 1) \in Nat /\ N - (i - 1) <= N /\ N + 1 - (N - (i - 1)) = i /\ N - (N - (i - 1)) = i - 1
    OBVIOUS
  <2>3. s[i] >= i - 1
    BY <1>3, <2>1
  <2>4. s[i] <= i - 1
    BY <1>4, <2>2
  <2> QED
    BY <2>1, <2>3, <2>4
<1> QED
  BY <1>2, <1>5 DEF s

Segment == {"data", "parity"} \X Nat

IsDistinct(s) == \A i, j \in 1..Len(s) : s[i] = s[j] => i = j

IsData(s) == s[1] = "data"
DataFirst(segs) == \A i, j \in 1..Len(segs) : i < j /\ IsData(segs[j]) => IsData(segs[i])

(* The number of segments in a batch *)
LEMMA RangeOfBatch ==
  ASSUME NEW s \in Seq(Segment)
  PROVE  /\ IsFiniteSet(Range(s)) /\ Cardinality(Range(s)) \in Nat /\ Len(s) \in Nat
         /\ Range(s) \subseteq Segment
         /\ Cardinality(Range(s)) <= Len(s)
         /\ IsDistinct(s) => Cardinality(Range(s)) = Len(s)
<1>1. Len(s) \in Nat /\ s \in [1..Len(s) -> Segment] /\ DOMAIN s = 1..Len(s)
  OBVIOUS
<1>2. Range(s) = {s[i] : i \in 1..Len(s)}
  BY <1>1 DEF Range
<1>3. s \in [1..Len(s) -> Range(s)] /\ \A y \in Range(s) : \E i \in 1..Len(s) : s[i] = y
  BY <1>1, <1>2
<1>4. s \in Surjection(1..Len(s), Range(s))
  BY <1>3 DEF Surjection
<1>5. IsFiniteSet(1..Len(s)) /\ Cardinality(1..Len(s)) = Len(s)
  <2> DEFINE n == Len(s)
  <2>1. n \in Nat
    BY <1>1
  <2> HIDE DEF n
  <2>2. n \in Int /\ 1 \in Int /\ (1 > n => n = 0) /\ n - 1 + 1 = n
    BY <2>1
  <2>3. IsFiniteSet(1..n) /\ Cardinality(1..n) = IF 1 > n THEN 0 ELSE n - 1 + 1
    BY <2>2, FS_Interval
  <2>4. IsFiniteSet(1..n) /\ Cardinality(1..n) = n
    BY <2>2, <2>3
  <2> QED
    BY <2>4 DEF n
<1>6. IsFiniteSet(Range(s)) /\ Cardinality(Range(s)) <= Len(s)
  BY <1>4, <1>5, FS_Surjection
<1>7. ASSUME IsDistinct(s) PROVE Cardinality(Range(s)) = Len(s)
  <2>1. s \in Injection(1..Len(s), Range(s))
    BY <1>3, <1>7 DEF Injection, IsInjective, IsDistinct
  <2>2. Cardinality(Range(s)) = Cardinality(1..Len(s)) <=> s \in Injection(1..Len(s), Range(s))
    BY <1>4, <1>5, FS_Surjection
  <2> QED
    BY <1>5, <2>1, <2>2
<1>8. Cardinality(Range(s)) \in Nat
  BY <1>6, FS_CardinalityType
<1>9. Range(s) \subseteq Segment
  BY <1>1, <1>2
<1> QED
  BY <1>1, <1>6, <1>7, <1>8, <1>9

(* The first data segments and the first parity segments *)
Both(n, m) == [i \in 1..n |-> D(i - 1)] \o [i \in 1..m |-> P(i - 1)]

(* The data segments and the parity segments after them are distinct,       *)
(* and the data comes first.                                                *)
LEMMA DataThenParity ==
  ASSUME NEW n \in Nat, NEW m \in Nat
  PROVE  LET all == Both(n, m)
         IN /\ all \in Seq(Segment) /\ Len(all) = n + m /\ DOMAIN all = 1..n + m
            /\ IsDistinct(all) /\ DataFirst(all)
            /\ \A i \in 1..n : all[i] = D(i - 1)
            /\ \A i \in 1..m : all[n + i] = P(i - 1)
<1> DEFINE d == [i \in 1..n |-> D(i - 1)]
           p == [i \in 1..m |-> P(i - 1)]
           all == d \o p
<1>1. \A i \in Nat : D(i) \in Segment /\ P(i) \in Segment
  BY DEF D, P, Segment
<1>2. d \in Seq(Segment) /\ Len(d) = n
  BY <1>1
<1>3. p \in Seq(Segment) /\ Len(p) = m
  BY <1>1
<1>4. \A i \in 1..n : d[i] = D(i - 1)
  OBVIOUS
<1>5. \A i \in 1..m : p[i] = P(i - 1)
  OBVIOUS
<1> HIDE DEF d, p
<1>6. /\ all \in Seq(Segment) /\ Len(all) = n + m
      /\ \A i \in 1..n + m : all[i] = IF i <= n THEN d[i] ELSE p[i - n]
  BY <1>2, <1>3, ConcatProperties
<1> HIDE DEF all
<1>7. \A i \in 1..n : all[i] = D(i - 1)
  BY <1>4, <1>6
<1>8. \A i \in n + 1..n + m : all[i] = P(i - n - 1)
  <2> SUFFICES ASSUME NEW i \in n + 1..n + m PROVE all[i] = P(i - n - 1)
    OBVIOUS
  <2>1. i \in 1..n + m /\ ~(i <= n) /\ i - n \in 1..m
    OBVIOUS
  <2> QED
    BY <1>5, <1>6, <2>1
<1>9. \A i \in 1..m : all[n + i] = P(i - 1)
  BY <1>8
<1>10. IsDistinct(all)
  <2> SUFFICES ASSUME NEW i \in 1..n + m, NEW j \in 1..n + m, all[i] = all[j] PROVE i = j
    BY <1>6 DEF IsDistinct
  <2>1. \A x, y \in Int : D(x) # P(y) /\ (D(x) = D(y) => x = y) /\ (P(x) = P(y) => x = y)
    BY DEF D, P
  <2>2. CASE i <= n /\ j <= n
    BY <1>7, <2>1, <2>2
  <2>3. CASE i <= n /\ j > n
    BY <1>7, <1>8, <2>1, <2>3
  <2>4. CASE i > n /\ j <= n
    BY <1>7, <1>8, <2>1, <2>4
  <2>5. CASE i > n /\ j > n
    BY <1>8, <2>1, <2>5
  <2> QED
    BY <2>2, <2>3, <2>4, <2>5
<1>11. DOMAIN all = 1..n + m
  BY <1>6
<1>12. DataFirst(all)
  <2>1. \A x \in Int : IsData(D(x)) /\ ~IsData(P(x))
    BY DEF D, P, IsData
  <2>2. \A i \in 1..n + m : (i <= n => IsData(all[i])) /\ (i > n => ~IsData(all[i]))
    BY <1>7, <1>8, <2>1
  <2> QED
    BY <1>6, <2>2 DEF DataFirst
<1> QED
  BY <1>6, <1>7, <1>9, <1>10, <1>11, <1>12 DEF all, d, p, Both

(* What a task asks for at first *)
LEMMA Batch ==
  ASSUME NEW f
  PROVE  /\ prepareBatch(f) \in Seq(Segment) /\ IsDistinct(prepareBatch(f)) /\ DataFirst(prepareBatch(f))
         /\ Len(prepareBatch(f)) \in Nat \ {0} /\ prepareBatch(f)[1] = D(0)
<1> DEFINE n == IF f = 0 THEN GuessKey ELSE GuessDelta
           m == IF f = 0 THEN ParityKey ELSE ParityDelta
<1>1. n \in Nat \ {0} /\ m \in Nat
  BY FetcherAssumption
<1>2. prepareBatch(f) = Both(n, m)
  BY DEF prepareBatch, Both
<1> HIDE DEF n, m
<1> DEFINE all == Both(n, m)
<1>3. /\ all \in Seq(Segment) /\ IsDistinct(all) /\ DataFirst(all)
      /\ Len(all) = n + m /\ \A i \in 1..n : all[i] = D(i - 1)
  BY <1>1, DataThenParity
<1> HIDE DEF all
<1>4. Len(all) \in Nat \ {0} /\ all[1] = D(1 - 1)
  BY <1>1, <1>3
<1> QED
  BY <1>2, <1>3, <1>4 DEF all

(* The shape of the GOP *)
LEMMA GopShape ==
  ASSUME gop \in Gops
  PROVE  /\ target \in Nat /\ Frames = 0..target /\ 0 \in Frames /\ target \in Frames
         /\ NData \in [Frames -> Nat \ {0}] /\ NParity \in [Frames -> Nat]
<1>1. /\ gop.target \in Nat
      /\ gop.nData \in [0..gop.target -> Nat \ {0}] /\ gop.nParity \in [0..gop.target -> Nat]
  BY FetcherAssumption
<1>2. target \in Nat /\ Frames = 0..target
  BY <1>1 DEF target, Frames, NData
<1>3. 0 \in Frames /\ target \in Frames
  BY <1>2
<1>4. NData \in [Frames -> Nat \ {0}] /\ NParity \in [Frames -> Nat]
  BY <1>1 DEF target, Frames, NData, NParity
<1> QED
  BY <1>2, <1>3, <1>4

(* What checkMissingSegments asks for was not asked for before. *)
LEMMA Missing ==
  ASSUME gop \in Gops, NEW k, k.frame \in Frames
  PROVE  /\ getMissingSegments(k) \in Seq(Segment) /\ IsDistinct(getMissingSegments(k))
         /\ Range(getMissingSegments(k)) \cap k.requested = {}
         /\ DataFirst(getMissingSegments(k))
         /\ ~isNew(k) => DataSegments(k.frame) \subseteq k.requested \cup Range(getMissingSegments(k))
         /\ k.fetched \subseteq DataSegments(k.frame) => \A s \in Range(getMissingSegments(k)) : IsData(s)
<1> DEFINE n == IF isNew(k) THEN 0 ELSE NData[k.frame]
           m == IF k.fetched = fetchedData(k) THEN 0 ELSE NParity[k.frame]
           all == Both(n, m)
           T == {i \in DOMAIN all : all[i] \notin k.requested}
           a == ascending(T)
           r == [i \in 1..Len(a) |-> all[a[i]]]
<1>1. n \in Nat /\ m \in Nat
  BY GopShape
<1>2. getMissingSegments(k) = r
  <2>1. /\ [i \in 1..0 |-> D(i - 1)] \in Seq(Segment) /\ Len([i \in 1..0 |-> D(i - 1)]) = 0
        /\ [i \in 1..0 |-> P(i - 1)] \in Seq(Segment) /\ Len([i \in 1..0 |-> P(i - 1)]) = 0
    OBVIOUS
  <2>2. [i \in 1..0 |-> D(i - 1)] = <<>> /\ [i \in 1..0 |-> P(i - 1)] = <<>>
    BY <2>1, EmptySeq
  <2>3. CASE isNew(k) /\ k.fetched = fetchedData(k)
    BY <2>2, <2>3 DEF getMissingSegments, Both
  <2>4. CASE isNew(k) /\ k.fetched # fetchedData(k)
    BY <2>2, <2>4 DEF getMissingSegments, Both
  <2>5. CASE ~isNew(k) /\ k.fetched = fetchedData(k)
    BY <2>2, <2>5 DEF getMissingSegments, Both
  <2>6. CASE ~isNew(k) /\ k.fetched # fetchedData(k)
    BY <2>6 DEF getMissingSegments, Both
  <2> QED
    BY <2>3, <2>4, <2>5, <2>6
<1>n. (~isNew(k) => n = NData[k.frame]) /\ (k.fetched \subseteq DataSegments(k.frame) => m = 0)
  BY DEF fetchedData
<1> HIDE DEF n, m
<1>3. /\ all \in Seq(Segment) /\ Len(all) \in Nat /\ DOMAIN all = 1..n + m /\ IsDistinct(all) /\ Len(all) = n + m
      /\ DataFirst(all) /\ \A i \in 1..n : all[i] = D(i - 1)
  BY <1>1, DataThenParity
<1>d. all \in [1..n + m -> Segment]
  BY <1>3
<1> HIDE DEF all
<1>4. T \in SUBSET (0..n + m)
  BY <1>1, <1>3
<1>5. Cardinality(T) \in Nat /\ IsAscending(a, T)
  <2>1. n + m \in Nat
    BY <1>1
  <2> HIDE DEF T
  <2> QED
    BY <1>4, <2>1, AscendingExists
<1>6. a \in [1..Cardinality(T) -> T]
  BY <1>5 DEF IsAscending
<1>7. Len(a) = Cardinality(T)
  BY <1>5, <1>6
<1> DEFINE c == Cardinality(T)
<1>8. c \in Nat /\ Len(a) = c /\ a \in [1..c -> T] /\ \A i, j \in 1..c : i < j => a[i] < a[j]
  BY <1>5, <1>7 DEF IsAscending
<1> HIDE DEF c, a
<1>9. \A i \in 1..c : a[i] \in 1..n + m /\ all[a[i]] \in Segment \ k.requested
  BY <1>3, <1>8
<1>10. r \in Seq(Segment) /\ Len(r) = c /\ \A i \in 1..c : r[i] = all[a[i]]
  BY <1>8, <1>9
<1>t. T = {i \in 1..n + m : all[i] \notin k.requested} /\ \A i \in T : \E j \in 1..c : a[j] = i
  <2>1. IsFiniteSet(T) /\ c = Cardinality(T)
    <3>1. n + m \in Nat
      BY <1>1
    <3> HIDE DEF T
    <3> QED
      BY <1>4, <3>1, AscendingExists DEF c
  <2>2. a \in [1..c -> T] /\ \A i, j \in 1..c : a[i] = a[j] => i = j
    <3>1. \A i \in 1..c : a[i] \in Int
      BY <1>1, <1>9
    <3>2. \A i, j \in 1..c : i = j \/ i < j \/ j < i
      BY <1>8
    <3>3. \A i, j \in 1..c : i < j => a[i] < a[j]
      BY <1>8
    <3>4. \A i, j \in 1..c : a[i] = a[j] => i = j
      BY <3>1, <3>2, <3>3
    <3> QED
      BY <1>8, <3>4
  <2> HIDE DEF T
  <2>3. a \in Injection(1..c, T)
    BY <2>2 DEF Injection, IsInjective
  <2>4. Cardinality(1..c) = c
    BY <1>8, FS_Interval
  <2>5. a \in Surjection(1..c, T)
    BY <2>1, <2>3, <2>4, FS_Injection
  <2> QED
    BY <1>3, <2>5 DEF T, Surjection
<1> HIDE DEF r, T
<1>13. DataFirst(r)
  <2> SUFFICES ASSUME NEW i \in 1..c, NEW j \in 1..c, i < j, IsData(r[j]) PROVE IsData(r[i])
    BY <1>10 DEF DataFirst
  <2>1. a[i] \in 1..n + m /\ a[j] \in 1..n + m /\ a[i] < a[j] /\ IsData(all[a[j]])
    BY <1>8, <1>9, <1>10
  <2> QED
    BY <1>3, <1>10, <2>1 DEF DataFirst
<1>14. ASSUME ~isNew(k), NEW s \in DataSegments(k.frame), s \notin k.requested PROVE s \in Range(r)
  <2>1. PICK i \in 0..n - 1 : s = D(i)
    BY <1>n, <1>14 DEF DataSegments
  <2>2. i + 1 \in 1..n /\ i + 1 \in 1..n + m /\ (i + 1) - 1 = i
    BY <1>1
  <2>3. all[i + 1] = s
    BY <1>3, <2>1, <2>2
  <2>4. i + 1 \in T
    BY <1>t, <1>14, <2>2, <2>3
  <2>5. PICK j \in 1..c : a[j] = i + 1
    BY <1>t, <2>4
  <2>6. r[j] = s
    BY <1>10, <2>3, <2>5
  <2>7. DOMAIN r = 1..c
    BY <1>10
  <2> QED
    BY <2>6, <2>7 DEF Range
<1>15. ASSUME k.fetched \subseteq DataSegments(k.frame), NEW s \in Range(r) PROVE IsData(s)
  <2>1. PICK i \in 1..c : s = r[i]
    BY <1>10 DEF Range
  <2>2. a[i] \in 1..n /\ s = all[a[i]]
    BY <1>1, <1>n, <1>9, <1>10, <1>15, <2>1
  <2> QED
    BY <1>3, <2>2 DEF IsData, D
<1>11. Range(r) \cap k.requested = {}
  BY <1>9, <1>10 DEF Range
<1>12. IsDistinct(r)
  <2> SUFFICES ASSUME NEW i \in 1..c, NEW j \in 1..c, r[i] = r[j] PROVE i = j
    BY <1>10 DEF IsDistinct
  <2>1. a[i] = a[j] /\ a[i] \in Nat
    BY <1>3, <1>9, <1>10 DEF IsDistinct
  <2>2. ~(i < j) /\ ~(j < i)
    BY <1>8, <2>1
  <2> QED
    BY <2>2
<1> QED
  BY <1>2, <1>10, <1>11, <1>12, <1>13, <1>14, <1>15

-----------------------------------------------------------------------------
(* FrameFetching.  Which handlers may be under way above which others tells *)
(* what is still going to happen; the requests on the stack and the         *)
(* outstanding Interests are what the count of progress lacks.              *)

States == {"Fetching", "Canceled", "Completed", "Failed"}

Task == [frame : Nat, state : States, progress : Nat, fetched : SUBSET Segment,
         requested : SUBSET Segment, completion : Nat]

Call ==
  {Request(t, segs, start) : t \in Nat, segs \in Seq(Segment), start \in BOOLEAN}
    \cup {CheckMissing(t) : t \in Nat} \cup {CheckCompletion(t) : t \in Nat}
    \cup {FetchDelta(n) : n \in Nat} \cup {Decode}

OfTask(c) == c.op \in {"request", "missing", "completion"}

(* The segments that a handler of task t is going to ask for *)
WillAsk(c, t) == IF c.op = "request" /\ c.task = t THEN Range(c.segs) ELSE {}

TaskOK(k) ==
  /\ k.frame \in Frames
  /\ k.fetched \subseteq k.requested /\ IsFiniteSet(k.requested)
  /\ k.completion <= (1 + nRtx) * Cardinality(k.requested)

CallOK(c) ==
  /\ OfTask(c) => c.task \in DOMAIN tasks
  /\ c.op = "request" => Range(c.segs) \subseteq tasks[c.task].requested
  /\ c.op = "delta" => target # 0 /\ c.frame \in 0..target

FetchTypes ==
  /\ remote \in BOOLEAN /\ gop \in Gops
  /\ fetcher \in {"Idle", "Fetching", "Decoding", "Failed", "Completed"}
  /\ tasks \in Seq(Task) /\ \A t \in DOMAIN tasks : TaskOK(tasks[t])
  /\ current \in [Frames -> Nat]
  /\ \A f \in Frames : current[f] # 0 => current[f] \in DOMAIN tasks /\ tasks[current[f]].frame = f
  /\ \A x \in pit : x[1] \in DOMAIN tasks /\ x[2] \in tasks[x[1]].requested
  /\ calls \in Seq(Call) /\ \A c \in Range(calls) : CallOK(c)
  /\ reports \in Seq({"failed", "fetched"}) /\ excused \in BOOLEAN

(* decode and fetchGopKey are only on top.  No handler of the key frame or  *)
(* of the target is above the loop of fetchGopDelta, nor one of a task      *)
(* above its check for missing segments.                                    *)
MayRest(ts, a, b) ==
  /\ b # Decode /\ b # FetchDelta(0)
  /\ b.op = "delta" => a = Decode \/ (OfTask(a) /\ ts[a.task].frame \notin {0, target})
  /\ b.op = "missing" /\ OfTask(a) => a.task # b.task

Nested == \A i, j \in DOMAIN calls : i < j => MayRest(tasks, calls[i], calls[j])

Unasked(t) == {s \in tasks[t].requested : \E c \in Range(calls) : s \in WillAsk(c, t)}
Waiting(t) == {s \in tasks[t].requested : <<t, s>> \in pit}
Asked(t) == tasks[t].requested \ Unasked(t)
Answered(t) == Asked(t) \ Waiting(t)

(* A task has counted each request, and each answer nRtx times; it asks,    *)
(* waits or looks whether it is completed.                                  *)
TaskCounted(t) ==
  /\ tasks[t].progress >= Cardinality(Asked(t)) + nRtx * Cardinality(Answered(t))
  /\ Unasked(t) = {} /\ Waiting(t) = {} => CheckCompletion(t) \in Range(calls)

Counted == \A t \in DOMAIN tasks : tasks[t].state = "Fetching" /\ ~excused => TaskCounted(t)

Deltas(n) == \E m \in 1..n : FetchDelta(m) \in Range(calls)

(* The target names the key frame, the key frame the delta frames. *)
TaskLearns(t) ==
  /\ tasks[t].frame = target =>
       /\ ~isNew(tasks[t]) => current[0] # 0 \/ FetchDelta(0) \in Range(calls)
       /\ tasks[t].state = "Completed" => current[0] # 0
  /\ tasks[t].frame = 0 => \A n \in 1..target - 1 :
       /\ ~isNew(tasks[t]) => current[n] # 0 \/ Deltas(n)
       /\ tasks[t].state = "Completed" => current[n] # 0

Learns ==
  fetcher = "Fetching" => current[target] # 0 /\ (target # 0 => \A t \in DOMAIN tasks : TaskLearns(t))

Decodes ==
  Decode \in Range(calls) =>
    /\ fetcher = "Decoding" /\ reports = <<>>
    /\ \A f \in Frames : current[f] # 0 /\ tasks[current[f]].state = "Completed"

AllEnded ==
  /\ \A t \in DOMAIN tasks : tasks[t].state # "Fetching"
  /\ \A f \in Frames : \E t \in DOMAIN tasks : tasks[t].frame = f

Outcome ==
  /\ fetcher = "Idle" => tasks = <<>> /\ calls = <<>> /\ pit = {}
  /\ fetcher \in {"Idle", "Fetching", "Decoding"} => reports = <<>>
  /\ OneTaskPerFrame => Len(reports) <= 1
  /\ OneTaskPerFrame /\ fetcher \in {"Decoding", "Completed"} => AllEnded
  /\ DecodesWholeGop

FetchInv == FetchTypes /\ Nested /\ Counted /\ Learns /\ Decodes /\ Outcome

(* What stays on the stack when the handler on top has returned *)
Rest == IF calls = <<>> THEN <<>> ELSE Tail(calls)

(* Handlers that are pushed in the place of the one on top *)
LEMMA Push ==
  ASSUME NEW new \in Seq(Call), NEW rest \in Seq(Call)
  PROVE  /\ new \o rest \in Seq(Call) /\ Range(new \o rest) = Range(new) \cup Range(rest)
         /\ \A i, j \in DOMAIN (new \o rest) : i < j =>
              \/ i \in DOMAIN new /\ j \in DOMAIN new /\ (new \o rest)[i] = new[i] /\ (new \o rest)[j] = new[j]
              \/ (new \o rest)[i] \in Range(new) /\ (new \o rest)[j] \in Range(rest)
              \/ \E k, l \in DOMAIN rest : k < l /\ (new \o rest)[i] = rest[k] /\ (new \o rest)[j] = rest[l]
<1> DEFINE s == new \o rest
           n == Len(new)
           m == Len(rest)
<1>1. n \in Nat /\ m \in Nat /\ DOMAIN new = 1..n /\ DOMAIN rest = 1..m
  OBVIOUS
<1>2. s \in Seq(Call) /\ Len(s) = n + m /\ \A i \in 1..n + m : s[i] = IF i <= n THEN new[i] ELSE rest[i - n]
  BY ConcatProperties
<1>3. DOMAIN s = 1..n + m
  BY <1>2
<1>4. Range(s) = Range(new) \cup Range(rest)
  BY RangeConcatenation
<1> HIDE DEF s, n, m
<1>5. \A i \in 1..n + m : i <= n => i \in 1..n /\ s[i] = new[i]
  BY <1>1, <1>2
<1>6. \A i \in 1..n + m : i > n => i - n \in 1..m /\ s[i] = rest[i - n]
  BY <1>1, <1>2
<1>7. \A i \in 1..n + m : i <= n => s[i] \in Range(new)
  BY <1>1, <1>5 DEF Range
<1>8. \A i \in 1..n + m : i > n => s[i] \in Range(rest)
  BY <1>1, <1>6 DEF Range
<1>9. ASSUME NEW i \in 1..n + m, NEW j \in 1..n + m, i < j
      PROVE  \/ i \in 1..n /\ j \in 1..n /\ s[i] = new[i] /\ s[j] = new[j]
             \/ s[i] \in Range(new) /\ s[j] \in Range(rest)
             \/ \E k, l \in 1..m : k < l /\ s[i] = rest[k] /\ s[j] = rest[l]
  <2>1. CASE j <= n
    BY <1>1, <1>5, <1>9, <2>1
  <2>2. CASE i <= n /\ j > n
    BY <1>7, <1>8, <2>2
  <2>3. CASE i > n
    <3>1. i - n \in 1..m /\ j - n \in 1..m /\ i - n < j - n /\ s[i] = rest[i - n] /\ s[j] = rest[j - n]
      BY <1>1, <1>6, <1>9, <2>3
    <3> QED
      BY <3>1
  <2> QED
    BY <1>1, <2>1, <2>2, <2>3
<1>10. ASSUME NEW i \in DOMAIN s, NEW j \in DOMAIN s, i < j
       PROVE  \/ i \in DOMAIN new /\ j \in DOMAIN new /\ s[i] = new[i] /\ s[j] = new[j]
              \/ s[i] \in Range(new) /\ s[j] \in Range(rest)
              \/ \E k, l \in DOMAIN rest : k < l /\ s[i] = rest[k] /\ s[j] = rest[l]
  <2>1. i \in 1..n + m /\ j \in 1..n + m
    BY <1>3
  <2>2. \/ i \in 1..n /\ j \in 1..n /\ s[i] = new[i] /\ s[j] = new[j]
        \/ s[i] \in Range(new) /\ s[j] \in Range(rest)
        \/ \E k, l \in 1..m : k < l /\ s[i] = rest[k] /\ s[j] = rest[l]
    BY <1>9, <1>10, <2>1
  <2> QED
    BY <1>1, <2>2
<1> QED
  BY <1>2, <1>4, <1>10 DEF s

(* Handlers are told apart by their fields. *)
LEMMA CallFacts ==
  ASSUME NEW c \in Call
  PROVE  /\ c.op \in {"request", "missing", "completion", "delta", "decode"}
         /\ c.op = "request" => /\ c.task \in Nat /\ c.segs \in Seq(Segment) /\ c.start \in BOOLEAN
                                /\ c = Request(c.task, c.segs, c.start)
         /\ c.op = "missing" => c.task \in Nat /\ c = CheckMissing(c.task)
         /\ c.op = "completion" => c.task \in Nat /\ c = CheckCompletion(c.task)
         /\ c.op = "delta" => c.frame \in Nat /\ c = FetchDelta(c.frame)
         /\ c.op = "decode" => c = Decode
<1>1. CASE \E t \in Nat, segs \in Seq(Segment), start \in BOOLEAN : c = Request(t, segs, start)
  <2>1. PICK t \in Nat, segs \in Seq(Segment), start \in BOOLEAN : c = Request(t, segs, start)
    BY <1>1
  <2>2. c.op = "request" /\ c.task = t /\ c.segs = segs /\ c.start = start
    BY <2>1 DEF Request
  <2> QED
    BY <2>1, <2>2
<1>2. CASE \E t \in Nat : c = CheckMissing(t)
  BY <1>2 DEF CheckMissing
<1>3. CASE \E t \in Nat : c = CheckCompletion(t)
  BY <1>3 DEF CheckCompletion
<1>4. CASE \E n \in Nat : c = FetchDelta(n)
  BY <1>4 DEF FetchDelta
<1>5. CASE c = Decode
  BY <1>5 DEF Decode
<1> QED
  BY <1>1, <1>2, <1>3, <1>4, <1>5 DEF Call

(* The handlers that the code starts are calls with the fields they were    *)
(* made of.                                                                 *)
LEMMA CallsMade ==
  /\ \A t \in Nat, segs \in Seq(Segment), start \in BOOLEAN :
       /\ Request(t, segs, start) \in Call /\ OfTask(Request(t, segs, start))
       /\ Request(t, segs, start).op = "request" /\ Request(t, segs, start).task = t
       /\ Request(t, segs, start).segs = segs /\ Request(t, segs, start).start = start
  /\ \A t \in Nat :
       /\ CheckMissing(t) \in Call /\ OfTask(CheckMissing(t))
       /\ CheckMissing(t).op = "missing" /\ CheckMissing(t).task = t
       /\ CheckCompletion(t) \in Call /\ OfTask(CheckCompletion(t))
       /\ CheckCompletion(t).op = "completion" /\ CheckCompletion(t).task = t
  /\ \A n \in Nat : FetchDelta(n) \in Call /\ FetchDelta(n).op = "delta" /\ FetchDelta(n).frame = n
  /\ Decode \in Call /\ Decode.op = "decode"
<1>1. /\ \A t \in Nat, segs \in Seq(Segment), start \in BOOLEAN : Request(t, segs, start) \in Call
      /\ \A t \in Nat : CheckMissing(t) \in Call /\ CheckCompletion(t) \in Call
      /\ \A n \in Nat : FetchDelta(n) \in Call
      /\ Decode \in Call
  BY DEF Call
<1>2. /\ \A t, segs, start :
          /\ Request(t, segs, start).op = "request" /\ Request(t, segs, start).task = t
          /\ Request(t, segs, start).segs = segs /\ Request(t, segs, start).start = start
      /\ \A t : /\ CheckMissing(t).op = "missing" /\ CheckMissing(t).task = t
                /\ CheckCompletion(t).op = "completion" /\ CheckCompletion(t).task = t
      /\ \A n : FetchDelta(n).op = "delta" /\ FetchDelta(n).frame = n
      /\ Decode.op = "decode"
  BY DEF Request, CheckMissing, CheckCompletion, FetchDelta, Decode
<1> QED
  BY <1>1, <1>2 DEF OfTask

(* What a request is made of                                                *)
LEMMA RequestMade ==
  ASSUME NEW t \in Nat, NEW segs \in Seq(Segment), NEW start \in BOOLEAN
  PROVE  LET r == Request(t, segs, start)
         IN r \in Call /\ OfTask(r) /\ r.op = "request" /\ r.task = t /\ r.segs = segs /\ r.start = start
BY DEF Call, Request, OfTask

(* The stack, the handler on top and what is below *)
LEMMA Stack ==
  ASSUME FetchTypes
  PROVE  /\ Rest \in Seq(Call) /\ \A c \in Range(Rest) : c \in Call /\ CallOK(c) /\ c \in Range(calls)
         /\ calls = <<>> => Rest = <<>> /\ Range(calls) = {} /\ Range(Rest) = {}
         /\ calls # <<>> => /\ Head(calls) \in Call /\ CallOK(Head(calls)) /\ Rest = Tail(calls)
                            /\ Range(calls) = {Head(calls)} \cup Range(Rest)
         /\ Nested => /\ \A i, j \in DOMAIN Rest : i < j => MayRest(tasks, Rest[i], Rest[j])
                      /\ \A c \in Range(Rest) : MayRest(tasks, Head(calls), c) /\ c # Decode /\ c # FetchDelta(0)
<1>1. calls \in Seq(Call) /\ \A c \in Range(calls) : CallOK(c)
  BY DEF FetchTypes
<1>2. CASE calls = <<>>
  <2>1. Rest = <<>> /\ DOMAIN Rest = {} /\ Range(Rest) = {} /\ Range(calls) = {} /\ Rest \in Seq(Call)
    BY <1>2 DEF Rest, Range
  <2> QED
    BY <1>2, <2>1
<1>3. CASE calls # <<>>
  <2> DEFINE n == Len(calls)
  <2>1. /\ n \in Nat \ {0} /\ Rest = Tail(calls) /\ Rest \in Seq(Call) /\ DOMAIN calls = 1..n
        /\ DOMAIN Rest = 1..n - 1 /\ \A i \in 1..n - 1 : Rest[i] = calls[i + 1]
        /\ Head(calls) = calls[1]
    BY <1>1, <1>3 DEF Rest
  <2>2. \A i \in 1..n : calls[i] \in Call /\ calls[i] \in Range(calls)
    BY <1>1, <2>1 DEF Range
  <2>3. \A c \in Range(Rest) : \E i \in 1..n - 1 : c = calls[i + 1]
    BY <2>1 DEF Range
  <2>4. \A c \in Range(Rest) : c \in Call /\ CallOK(c) /\ c \in Range(calls)
    BY <1>1, <2>1, <2>2, <2>3
  <2>5. Range(calls) = {Head(calls)} \cup Range(Rest)
    <3>1. ASSUME NEW i \in 1..n, i # 1 PROVE calls[i] \in Range(Rest)
      <4>1. i - 1 \in 1..n - 1 /\ Rest[i - 1] = calls[i]
        BY <2>1, <3>1
      <4> QED
        BY <2>1, <4>1 DEF Range
    <3>2. \A c \in Range(calls) : \E i \in 1..n : c = calls[i]
      BY <2>1 DEF Range
    <3> QED
      BY <2>1, <2>2, <2>4, <3>1, <3>2
  <2>6. ASSUME Nested
        PROVE  /\ \A i, j \in DOMAIN Rest : i < j => MayRest(tasks, Rest[i], Rest[j])
               /\ \A c \in Range(Rest) : MayRest(tasks, Head(calls), c)
    <3>1. \A i, j \in 1..n : i < j => MayRest(tasks, calls[i], calls[j])
      BY <2>1, <2>6 DEF Nested
    <3>2. \A i, j \in 1..n - 1 : i < j => i + 1 \in 1..n /\ j + 1 \in 1..n /\ i + 1 < j + 1
      BY <2>1
    <3>3. \A i, j \in 1..n - 1 : i < j => MayRest(tasks, Rest[i], Rest[j])
      BY <2>1, <3>1, <3>2
    <3>4. \A i \in 1..n - 1 : i + 1 \in 1..n /\ 1 < i + 1 /\ 1 \in 1..n
      BY <2>1
    <3>5. \A c \in Range(Rest) : MayRest(tasks, Head(calls), c)
      BY <2>1, <2>3, <3>1, <3>4
    <3> QED
      BY <2>1, <3>3, <3>5
  <2>7. Head(calls) \in Call /\ CallOK(Head(calls))
    BY <1>1, <2>1, <2>2
  <2> QED
    BY <1>3, <2>1, <2>4, <2>5, <2>6, <2>7 DEF MayRest
<1> QED
  BY <1>2, <1>3

(* Tasks keep their frames. *)
FramesKept == gop' = gop /\ \A t \in DOMAIN tasks : t \in DOMAIN tasks' /\ tasks'[t].frame = tasks[t].frame

(* The order on the stack is kept by what may rest upon the others. *)
LEMMA NestedKept ==
  ASSUME FetchTypes, Nested, FramesKept, NEW new \in Seq(Call), calls' = new \o Rest,
         \A i, j \in DOMAIN new : i < j => MayRest(tasks', new[i], new[j]),
         \A a \in Range(new) : \A b \in Range(Rest) : MayRest(tasks', a, b)
  PROVE  Nested' /\ calls' \in Seq(Call) /\ Range(calls') = Range(new) \cup Range(Rest)
<1>1. /\ Rest \in Seq(Call) /\ \A c \in Range(Rest) : c \in Call /\ CallOK(c)
      /\ \A i, j \in DOMAIN Rest : i < j => MayRest(tasks, Rest[i], Rest[j])
  <2>1. calls = <<>> => Rest = <<>> /\ DOMAIN Rest = {}
    BY DEF Rest
  <2> QED
    BY Stack, <2>1
<1>2. /\ calls' \in Seq(Call) /\ Range(calls') = Range(new) \cup Range(Rest)
      /\ \A i, j \in DOMAIN calls' : i < j =>
              \/ i \in DOMAIN new /\ j \in DOMAIN new /\ calls'[i] = new[i] /\ calls'[j] = new[j]
              \/ calls'[i] \in Range(new) /\ calls'[j] \in Range(Rest)
              \/ \E k, l \in DOMAIN Rest : k < l /\ calls'[i] = Rest[k] /\ calls'[j] = Rest[l]
  BY <1>1, Push
<1>3. ASSUME NEW k \in DOMAIN Rest, NEW l \in DOMAIN Rest, k < l PROVE MayRest(tasks', Rest[k], Rest[l])
  <2>1. MayRest(tasks, Rest[k], Rest[l])
    BY <1>1, <1>3
  <2>2. CallOK(Rest[k])
    BY <1>1 DEF Range
  <2> QED
    BY <2>1, <2>2 DEF MayRest, CallOK, FramesKept
<1>4. ASSUME NEW i \in DOMAIN calls', NEW j \in DOMAIN calls', i < j PROVE MayRest(tasks', calls'[i], calls'[j])
  <2>1. CASE i \in DOMAIN new /\ j \in DOMAIN new /\ calls'[i] = new[i] /\ calls'[j] = new[j]
    BY <1>4, <2>1
  <2>2. CASE calls'[i] \in Range(new) /\ calls'[j] \in Range(Rest)
    BY <2>2
  <2>3. CASE \E k, l \in DOMAIN Rest : k < l /\ calls'[i] = Rest[k] /\ calls'[j] = Rest[l]
    BY <1>3, <2>3
  <2> QED
    BY <1>2, <1>4, <2>1, <2>2, <2>3
<1>5. Nested'
  <2>1. target' = target
    BY DEF FramesKept, target
  <2> SUFFICES ASSUME NEW i \in DOMAIN calls', NEW j \in DOMAIN calls', i < j
               PROVE  MayRest(tasks, calls[i], calls[j])'
    BY DEF Nested
  <2>2. MayRest(tasks', calls'[i], calls'[j])
    BY <1>4
  <2> QED
    BY <2>1, <2>2 DEF MayRest
<1> QED
  BY <1>2, <1>5

(* A task is changed, or made anew. *)
LEMMA TaskChanged ==
  ASSUME NEW ts \in Seq(Task), NEW t \in DOMAIN ts, NEW k \in Task
  PROVE  LET new == [ts EXCEPT ![t] = k]
         IN new \in Seq(Task) /\ DOMAIN new = DOMAIN ts /\ \A u \in DOMAIN ts : new[u] = IF u = t THEN k ELSE ts[u]
BY ExceptSeq

(* A task more leaves the others as they are.                               *)
LEMMA TaskAdded ==
  ASSUME NEW ts \in Seq(Task), NEW k \in Task
  PROVE  LET new == Append(ts, k)
         IN /\ new \in Seq(Task) /\ DOMAIN ts = 1..Len(ts) /\ DOMAIN new = DOMAIN ts \cup {Len(ts) + 1}
            /\ Len(ts) \in Nat /\ Len(new) = Len(ts) + 1 /\ Len(ts) + 1 \notin DOMAIN ts
            /\ \A u \in DOMAIN ts : new[u] = ts[u]
            /\ new[Len(ts) + 1] = k
BY AppendProperties

(* The count of requests and answers, when X is asked for and Y answered *)
LEMMA CountGrows ==
  ASSUME NEW A, NEW B, NEW A2, NEW B2, NEW X, NEW Y,
         IsFiniteSet(A), IsFiniteSet(X), IsFiniteSet(Y), B \subseteq A, B2 \subseteq A2,
         A2 \subseteq A \cup X, B2 \subseteq B \cup Y,
         NEW p \in Nat, NEW q \in Nat, NEW x \in Nat, NEW y \in {0, 1},
         Cardinality(X) <= x, Cardinality(Y) <= y,
         p >= Cardinality(A) + nRtx * Cardinality(B),
         q >= p + x + nRtx * y
  PROVE  q >= Cardinality(A2) + nRtx * Cardinality(B2)
<1>1. IsFiniteSet(B) /\ IsFiniteSet(A \cup X) /\ IsFiniteSet(B \cup Y)
  BY FS_Subset, FS_Union
<1>2. IsFiniteSet(A2) /\ IsFiniteSet(B2)
  BY <1>1, FS_Subset
<1> DEFINE a == Cardinality(A)
           b == Cardinality(B)
           a2 == Cardinality(A2)
           b2 == Cardinality(B2)
<1>3. a \in Nat /\ b \in Nat /\ a2 \in Nat /\ b2 \in Nat
  BY <1>1, <1>2, FS_CardinalityType
<1>4. a2 <= a + x /\ b2 <= b + y
  <2>1. Cardinality(A \cup X) = Cardinality(A) + Cardinality(X) - Cardinality(A \cap X)
    BY FS_Union
  <2>2. Cardinality(B \cup Y) = Cardinality(B) + Cardinality(Y) - Cardinality(B \cap Y)
    BY <1>1, FS_Union
  <2>3. /\ Cardinality(A \cap X) \in Nat /\ Cardinality(B \cap Y) \in Nat
        /\ Cardinality(X) \in Nat /\ Cardinality(Y) \in Nat
    BY <1>1, FS_Intersection, FS_CardinalityType
  <2>4. a2 <= Cardinality(A \cup X) /\ b2 <= Cardinality(B \cup Y)
    BY <1>1, FS_Subset
  <2>5. Cardinality(A \cup X) \in Nat /\ Cardinality(B \cup Y) \in Nat
    BY <1>1, FS_CardinalityType
  <2> QED
    BY <1>3, <2>1, <2>2, <2>3, <2>4, <2>5
<1> HIDE DEF a, b, a2, b2
<1>5. nRtx \in Nat
  BY FetcherAssumption
<1>6. nRtx * b2 <= nRtx * (b + y)
  BY <1>3, <1>4, <1>5
<1>7. nRtx * (b + y) = nRtx * b + nRtx * y
  BY <1>3, <1>5
<1>8. nRtx * b \in Nat /\ nRtx * y \in Nat /\ nRtx * b2 \in Nat
  BY <1>3, <1>5
<1>9. p >= a + nRtx * b /\ q >= p + x + nRtx * y
  BY DEF a, b
<1>10. q >= a2 + nRtx * b2
  BY <1>3, <1>4, <1>6, <1>7, <1>8, <1>9
<1> QED
  BY <1>10 DEF a2, b2

(* The counts of a task are finite. *)
LEMMA CountsFinite ==
  ASSUME FetchTypes, NEW t \in DOMAIN tasks
  PROVE  /\ tasks[t] \in Task /\ TaskOK(tasks[t])
         /\ IsFiniteSet(Asked(t)) /\ Answered(t) \subseteq Asked(t)
         /\ Unasked(t) \subseteq tasks[t].requested /\ Waiting(t) \subseteq tasks[t].requested
<1>1. tasks[t] \in Task /\ TaskOK(tasks[t])
  BY DEF FetchTypes
<1>2. Asked(t) \subseteq tasks[t].requested
  BY DEF Asked
<1> QED
  BY <1>1, <1>2, FS_Subset DEF TaskOK, Answered, Unasked, Waiting

(* How the handlers of task t go on: a task that has learnt a name begins   *)
(* with the frames it names.                                                *)
Learnt(t) == FetchDelta(IF tasks[t].frame = 0 THEN 1 ELSE 0)

GoesOn(t, k, new) ==
  /\ \A i \in DOMAIN new :
       \/ /\ OfTask(new[i]) /\ new[i].task = t
          /\ new[i].op = "request" => Range(new[i].segs) \subseteq k.requested
       \/ i = 1 /\ new[i] = Learnt(t) /\ target # 0 /\ tasks[t].frame \in {0, target}
  /\ \A i, j \in DOMAIN new : i < j /\ new[j].op = "missing" => ~OfTask(new[i])

(* Task t becomes k, by its handler on top or by an answer; it has received *)
(* or asked for more.                                                       *)
Progresses(t, k, new) ==
  /\ t \in DOMAIN tasks /\ k \in Task /\ TaskOK(k)
  /\ k.frame = tasks[t].frame /\ k.state = tasks[t].state
  /\ tasks[t].fetched \subseteq k.fetched /\ tasks[t].requested \subseteq k.requested
  /\ new \in Seq(Call) /\ GoesOn(t, k, new)
  /\ calls # <<>> => OfTask(Head(calls)) /\ Head(calls).task = t
  /\ target # 0 /\ tasks[t].frame \in {0, target} /\ isNew(tasks[t]) =>
       isNew(k) \/ Learnt(t) \in Range(new)
  /\ tasks' = [tasks EXCEPT ![t] = k] /\ calls' = new \o Rest
  /\ fetcher # "Idle"
  /\ UNCHANGED <<remote, gop, fetcher, current, decoded, reports>>

(* A task that goes on keeps its place, and the stack below it stays        *)
(* nested.                                                                  *)
LEMMA ProgressStack ==
  ASSUME FetchInv, NEW t, NEW k, NEW new, Progresses(t, k, new)
  PROVE  /\ tasks' \in Seq(Task) /\ DOMAIN tasks' = DOMAIN tasks
         /\ \A u \in DOMAIN tasks : tasks'[u] = IF u = t THEN k ELSE tasks[u]
         /\ Nested' /\ calls' \in Seq(Call) /\ Range(calls') = Range(new) \cup Range(Rest)
         /\ \A c \in Range(calls') : CallOK(c)'
         /\ Decode \notin Range(calls') /\ Decode \notin Range(calls)
         /\ \A n \in Nat : FetchDelta(n) \in Range(calls) => FetchDelta(n) \in Range(Rest)
<1>1. FetchTypes /\ Nested /\ t \in DOMAIN tasks /\ tasks \in Seq(Task) /\ k \in Task
  BY DEF FetchInv, FetchTypes, Progresses
<1>2. /\ tasks' \in Seq(Task) /\ DOMAIN tasks' = DOMAIN tasks
      /\ \A u \in DOMAIN tasks : tasks'[u] = IF u = t THEN k ELSE tasks[u]
  BY <1>1, TaskChanged DEF Progresses
<1>3. gop' = gop /\ target \in Nat /\ Frames = 0..target
  BY <1>1, GopShape DEF Progresses, FetchTypes
<1>4. FramesKept
  BY <1>2, <1>3 DEF FramesKept, Progresses
<1>5. new \in Seq(Call) /\ calls' = new \o Rest /\ GoesOn(t, k, new)
  BY DEF Progresses
<1>6. \A i \in DOMAIN new : new[i] \in Call /\ i \in Nat /\ i >= 1
  BY <1>5
<1>7. Learnt(t) \in Call /\ Learnt(t).op = "delta" /\ ~OfTask(Learnt(t)) /\ Learnt(t).frame \in {0, 1}
  BY CallsMade DEF Learnt, OfTask
<1>8. ASSUME NEW i \in DOMAIN new, NEW j \in DOMAIN new, i < j PROVE MayRest(tasks', new[i], new[j])
  <2>1. OfTask(new[j]) /\ new[j].op # "delta" /\ new[j].op # "decode"
    BY <1>5, <1>6, <1>8 DEF GoesOn, OfTask
  <2>2. new[j] # Decode /\ new[j] # FetchDelta(0)
    BY <2>1, CallsMade
  <2>3. new[j].op = "missing" => ~OfTask(new[i])
    BY <1>5, <1>8 DEF GoesOn
  <2> QED
    BY <2>1, <2>2, <2>3 DEF MayRest
<1>9. ASSUME NEW a \in Range(new), NEW b \in Range(Rest) PROVE MayRest(tasks', a, b)
  <2>1. calls # <<>>
    BY <1>1, <1>9, Stack
  <2>2. MayRest(tasks, Head(calls), b) /\ OfTask(Head(calls)) /\ Head(calls).task = t /\ Head(calls) # Decode
    BY <1>1, <2>1, Stack, CallsMade DEF Progresses, OfTask
  <2>3. PICK i \in DOMAIN new : a = new[i]
    BY <1>9 DEF Range
  <2>4. CASE OfTask(a) /\ a.task = t
    <3>1. tasks'[t].frame = tasks[t].frame
      BY <1>1, <1>4 DEF FramesKept
    <3> QED
      BY <2>2, <2>4, <3>1 DEF MayRest
  <2>5. CASE a = Learnt(t) /\ tasks[t].frame \in {0, target}
    <3>1. b.op # "delta"
      BY <2>2, <2>5 DEF MayRest
    <3> QED
      BY <1>7, <2>2, <2>5, <3>1 DEF MayRest
  <2> QED
    BY <1>5, <2>3, <2>4, <2>5 DEF GoesOn
<1>10. Nested' /\ calls' \in Seq(Call) /\ Range(calls') = Range(new) \cup Range(Rest)
  BY <1>1, <1>4, <1>5, <1>8, <1>9, NestedKept
<1>11. ASSUME NEW c \in Range(calls') PROVE CallOK(c)'
  <2>1. CASE c \in Range(new)
    <3>1. PICK i \in DOMAIN new : c = new[i]
      BY <2>1 DEF Range
    <3>2. CASE OfTask(c) /\ c.task = t /\ (c.op = "request" => Range(c.segs) \subseteq k.requested)
      <4>1. c.op # "delta"
        BY <3>2 DEF OfTask
      <4> QED
        BY <1>1, <1>2, <3>2, <4>1 DEF CallOK
    <3>3. CASE c = Learnt(t) /\ target # 0
      <4>1. c.op = "delta" /\ c.frame \in 0..target /\ c.op # "request" /\ ~OfTask(c)
        BY <1>3, <1>7, <3>3
      <4> QED
        BY <1>3, <3>3, <4>1 DEF CallOK, target
    <3> QED
      BY <1>5, <3>1, <3>2, <3>3 DEF GoesOn
  <2>2. CASE c \in Range(Rest)
    <3>1. c \in Call /\ CallOK(c)
      BY <1>1, <2>2, Stack
    <3>2. \A u \in DOMAIN tasks : u \in DOMAIN tasks' /\ tasks[u].requested \subseteq tasks'[u].requested
      BY <1>1, <1>2 DEF Progresses
    <3>3. c.op = "request" => OfTask(c)
      BY DEF OfTask
    <3> QED
      BY <1>3, <3>1, <3>2, <3>3 DEF CallOK, target
  <2> QED
    BY <1>10, <2>1, <2>2
<1>12. Decode \notin Range(Rest) /\ Decode \notin Range(calls) /\ \A n \in Nat : FetchDelta(n) \in Range(calls) => FetchDelta(n) \in Range(Rest)
  <2>1. CASE calls = <<>>
    BY <1>1, <2>1, Stack
  <2>2. CASE calls # <<>>
    <3>1. Head(calls).op # "decode" /\ Head(calls).op # "delta"
      BY <2>2 DEF Progresses, OfTask
    <3> QED
      BY <1>1, <2>2, <3>1, Stack, CallsMade
  <2> QED
    BY <2>1, <2>2
<1>13. Decode \notin Range(new)
  <2> SUFFICES ASSUME NEW i \in DOMAIN new, new[i] = Decode PROVE FALSE
    BY DEF Range
  <2> QED
    BY <1>5, <1>7, CallsMade DEF GoesOn, OfTask
<1> QED
  BY <1>2, <1>10, <1>11, <1>12, <1>13

(* All of the invariant but the counts survives a task that goes on.        *)
LEMMA ProgressKeeps ==
  ASSUME FetchInv, NEW t, NEW k, NEW new, Progresses(t, k, new),
         \A x \in pit' : x[1] \in DOMAIN tasks /\ x[2] \in tasks'[x[1]].requested, excused' \in BOOLEAN
  PROVE  FetchTypes' /\ Nested' /\ Learns' /\ Decodes' /\ Outcome'
<1>1. /\ FetchTypes /\ Nested /\ Learns /\ Outcome /\ gop' = gop /\ fetcher' = fetcher /\ current' = current
      /\ decoded' = decoded /\ reports' = reports /\ remote' = remote /\ fetcher # "Idle"
      /\ t \in DOMAIN tasks /\ k \in Task /\ TaskOK(k)
      /\ k.frame = tasks[t].frame /\ k.state = tasks[t].state
      /\ tasks[t].fetched \subseteq k.fetched
  BY DEF FetchInv, Progresses
<1>2. /\ tasks' \in Seq(Task) /\ DOMAIN tasks' = DOMAIN tasks
      /\ \A u \in DOMAIN tasks : tasks'[u] = IF u = t THEN k ELSE tasks[u]
      /\ Nested' /\ calls' \in Seq(Call) /\ Range(calls') = Range(new) \cup Range(Rest)
      /\ \A c \in Range(calls') : CallOK(c)'
      /\ Decode \notin Range(calls')
      /\ \A n \in Nat : FetchDelta(n) \in Range(calls) => FetchDelta(n) \in Range(Rest)
  BY ProgressStack
<1>3. \A u \in DOMAIN tasks : tasks'[u].frame = tasks[u].frame /\ tasks'[u].state = tasks[u].state
  BY <1>1, <1>2
<1>4. target' = target /\ Frames' = Frames /\ NData' = NData /\ target \in Nat /\ Frames = 0..target
  BY <1>1, GopShape DEF target, Frames, NData, FetchTypes
<1>5. FetchTypes'
  <2>1. \A u \in DOMAIN tasks' : TaskOK(tasks'[u])
    BY <1>1, <1>2 DEF FetchTypes
  <2>2. \A u \in DOMAIN tasks' : TaskOK(tasks[u])'
    BY <1>4, <2>1 DEF TaskOK
  <2>3. \A f \in Frames : current[f] # 0 => current[f] \in DOMAIN tasks' /\ tasks'[current[f]].frame = f
    BY <1>1, <1>2, <1>3 DEF FetchTypes
  <2> QED
    BY <1>1, <1>2, <1>4, <2>2, <2>3 DEF FetchTypes
<1>6. Learns'
  <2> SUFFICES ASSUME fetcher = "Fetching" PROVE (current[target] # 0 /\ (target # 0 => \A u \in DOMAIN tasks : TaskLearns(u)))'
    BY <1>1 DEF Learns
  <2>1. \A n \in Nat : FetchDelta(n) \in Range(calls) => FetchDelta(n) \in Range(calls')
    BY <1>2
  <2>2. \A n \in Nat : Deltas(n) => Deltas(n)'
    BY <2>1 DEF Deltas
  <2>3. ASSUME target # 0, NEW u \in DOMAIN tasks PROVE TaskLearns(u)'
    <3>1. TaskLearns(u)
      BY <1>1, <2>3 DEF Learns
    <3>2. isNew(tasks[u]) /\ ~isNew(tasks[u])' /\ tasks[u].frame \in {0, target} => Learnt(u) \in Range(calls')
      <4> SUFFICES ASSUME isNew(tasks[u]), ~isNew(tasks[u])', tasks[u].frame \in {0, target} PROVE Learnt(u) \in Range(calls')
        OBVIOUS
      <4>1. u = t
        BY <1>2, <1>4 DEF isNew, fetchedData, DataSegments
      <4>2. ~isNew(k)
        BY <1>2, <1>4, <4>1 DEF isNew, fetchedData, DataSegments
      <4> QED
        BY <1>2, <2>3, <4>1, <4>2 DEF Progresses
    <3>3. Learnt(u) = FetchDelta(IF tasks[u].frame = 0 THEN 1 ELSE 0)
      BY DEF Learnt
    <3>4. CASE tasks[u].frame = target
      <4>1. ~isNew(tasks[u])' => current[0] # 0 \/ FetchDelta(0) \in Range(calls')
        <5>1. CASE isNew(tasks[u])
          BY <2>3, <3>2, <3>3, <3>4, <5>1
        <5>2. CASE ~isNew(tasks[u])
          BY <2>1, <3>1, <3>4, <5>2 DEF TaskLearns
        <5> QED
          BY <5>1, <5>2
      <4> QED
        BY <1>1, <1>3, <1>4, <2>3, <3>1, <3>4, <4>1 DEF TaskLearns
    <3>5. CASE tasks[u].frame = 0
      <4>1. ASSUME NEW n \in 1..target - 1, ~isNew(tasks[u])' PROVE current[n] # 0 \/ Deltas(n)'
        <5>1. CASE isNew(tasks[u])
          <6>1. FetchDelta(1) \in Range(calls') /\ 1 \in 1..n
            BY <3>2, <3>3, <3>5, <4>1, <5>1
          <6> QED
            BY <6>1 DEF Deltas
        <5>2. CASE ~isNew(tasks[u])
          BY <2>2, <3>1, <3>5, <4>1, <5>2 DEF TaskLearns
        <5> QED
          BY <5>1, <5>2
      <4> QED
        BY <1>1, <1>3, <1>4, <2>3, <3>1, <3>5, <4>1 DEF TaskLearns
    <3>6. CASE tasks[u].frame \notin {0, target}
      BY <1>3, <1>4, <3>6 DEF TaskLearns
    <3> QED
      BY <3>4, <3>5, <3>6
  <2> QED
    BY <1>1, <1>2, <1>4, <2>3 DEF Learns
<1>7. Decodes'
  BY <1>2, CallsMade DEF Decodes, Decode
<1>8. Outcome'
  <2>1. OneTaskPerFrame' => OneTaskPerFrame
    BY <1>2, <1>3 DEF OneTaskPerFrame
  <2>2. AllEnded => AllEnded'
    BY <1>2, <1>3, <1>4 DEF AllEnded
  <2> QED
    BY <1>1, <1>4, <2>1, <2>2 DEF Outcome, DecodesWholeGop
<1> QED
  BY <1>2, <1>5, <1>6, <1>7, <1>8

(* The count of a task that a step does not concern *)
LEMMA OthersCounted ==
  ASSUME FetchTypes, Counted, NEW u \in DOMAIN tasks,
         tasks'[u].requested = tasks[u].requested, tasks'[u].progress = tasks[u].progress,
         tasks'[u].state = "Fetching" => tasks[u].state = "Fetching", ~excused' => ~excused,
         \A s : <<u, s>> \in pit' <=> <<u, s>> \in pit,
         \A c : OfTask(c) /\ c.task = u => (c \in Range(calls') <=> c \in Range(calls))
  PROVE  tasks'[u].state = "Fetching" /\ ~excused' => TaskCounted(u)'
<1> SUFFICES ASSUME tasks'[u].state = "Fetching", ~excused' PROVE TaskCounted(u)'
  OBVIOUS
<1>1. TaskCounted(u)
  BY DEF Counted
<1>2. \A c, s : s \in WillAsk(c, u) => OfTask(c) /\ c.task = u
  BY DEF WillAsk, OfTask
<1>3. \A s : (\E c \in Range(calls') : s \in WillAsk(c, u)) <=> (\E c \in Range(calls) : s \in WillAsk(c, u))
  BY <1>2
<1>4. Unasked(u)' = Unasked(u)
  BY <1>3 DEF Unasked, WillAsk
<1>5. Waiting(u)' = Waiting(u)
  BY DEF Waiting
<1>6. Asked(u)' = Asked(u) /\ Answered(u)' = Answered(u)
  BY <1>4, <1>5 DEF Asked, Answered
<1>7. CheckCompletion(u) \in Range(calls') <=> CheckCompletion(u) \in Range(calls)
  BY DEF CheckCompletion, OfTask
<1> QED
  BY <1>1, <1>4, <1>5, <1>6, <1>7 DEF TaskCounted

(* The count of the task that makes progress: it asks for X more and has Y  *)
(* answered.                                                                *)
LEMMA TaskStaysCounted ==
  ASSUME FetchTypes, Counted, NEW u \in DOMAIN tasks, tasks[u].state = "Fetching", ~excused,
         NEW X, NEW Y, IsFiniteSet(X), IsFiniteSet(Y), NEW x \in Nat, NEW y \in {0, 1},
         Cardinality(X) <= x, Cardinality(Y) <= y,
         Asked(u)' \subseteq Asked(u) \cup X, Answered(u)' \subseteq Answered(u) \cup Y,
         tasks'[u].progress >= tasks[u].progress + x + nRtx * y, tasks'[u].progress \in Nat,
         Unasked(u)' = {} /\ Waiting(u)' = {} => CheckCompletion(u) \in Range(calls')
  PROVE  TaskCounted(u)'
<1>1. TaskCounted(u) /\ tasks[u].progress \in Nat /\ IsFiniteSet(Asked(u)) /\ Answered(u) \subseteq Asked(u)
  BY CountsFinite DEF Counted, Task
<1>2. Answered(u)' \subseteq Asked(u)'
  BY DEF Answered
<1>3. tasks[u].progress >= Cardinality(Asked(u)) + nRtx * Cardinality(Answered(u))
  BY <1>1 DEF TaskCounted
<1> DEFINE A2 == Asked(u)'
           B2 == Answered(u)'
<1>4. A2 \subseteq Asked(u) \cup X /\ B2 \subseteq Answered(u) \cup Y /\ B2 \subseteq A2
  BY <1>2
<1> HIDE DEF A2, B2
<1>5. tasks'[u].progress >= Cardinality(A2) + nRtx * Cardinality(B2)
  BY <1>1, <1>3, <1>4, CountGrows
<1> QED
  BY <1>5 DEF TaskCounted, A2, B2, CheckCompletion

(* A step of task t keeps the invariant if it keeps the count of t. *)
LEMMA ProgressSuffices ==
  ASSUME FetchInv, NEW t, NEW k, NEW new, Progresses(t, k, new),
         \A x \in pit' : x[1] \in DOMAIN tasks /\ x[2] \in tasks'[x[1]].requested,
         \A u, s : u # t => (<<u, s>> \in pit' <=> <<u, s>> \in pit),
         excused' \in BOOLEAN, ~excused' => ~excused,
         tasks[t].state = "Fetching" /\ ~excused' => TaskCounted(t)'
  PROVE  FetchInv'
<1>1. FetchTypes' /\ Nested' /\ Learns' /\ Decodes' /\ Outcome'
  BY ProgressKeeps
<1>2. /\ DOMAIN tasks' = DOMAIN tasks
      /\ \A u \in DOMAIN tasks : tasks'[u] = IF u = t THEN k ELSE tasks[u]
      /\ Range(calls') = Range(new) \cup Range(Rest)
  BY ProgressStack
<1>3. FetchTypes /\ Counted /\ k.state = tasks[t].state /\ GoesOn(t, k, new) /\ t \in DOMAIN tasks
  BY DEF FetchInv, Progresses
<1>4. ASSUME NEW u \in DOMAIN tasks, tasks'[u].state = "Fetching", ~excused' PROVE TaskCounted(u)'
  <2>1. CASE u = t
    BY <1>2, <1>3, <1>4, <2>1
  <2>2. CASE u # t
    <3>1. ASSUME NEW c, OfTask(c), c.task = u PROVE c \in Range(calls') <=> c \in Range(calls)
      <4>1. c \notin Range(new)
        <5> SUFFICES ASSUME NEW i \in DOMAIN new, c = new[i] PROVE FALSE
          BY DEF Range
        <5>1. Learnt(t).op = "delta"
          BY DEF Learnt, FetchDelta
        <5> QED
          BY <1>3, <2>2, <3>1, <5>1 DEF GoesOn, OfTask
      <4>2. CASE calls = <<>>
        BY <1>2, <1>3, <4>1, <4>2, Stack
      <4>3. CASE calls # <<>>
        <5>1. Range(calls) = {Head(calls)} \cup Range(Rest) /\ Head(calls).task = t
          BY <1>3, <4>3, Stack DEF Progresses
        <5> QED
          BY <1>2, <2>2, <3>1, <4>1, <5>1
      <4> QED
        BY <4>2, <4>3
    <3>2. tasks'[u] = tasks[u]
      BY <1>2, <2>2
    <3>3. \A s : <<u, s>> \in pit' <=> <<u, s>> \in pit
      BY <2>2
    <3> QED
      BY <1>3, <1>4, <3>1, <3>2, <3>3, OthersCounted
  <2> QED
    BY <2>1, <2>2
<1> QED
  BY <1>1, <1>2, <1>4 DEF FetchInv, Counted

(* The fields of a task that is changed *)
Counts(k, p) == [k EXCEPT !.progress = p]
Receives(k, p, g) == [k EXCEPT !.progress = p, !.fetched = g]
Requests(k, g, p) == [k EXCEPT !.requested = g, !.completion = p]
Becomes(k, s) == [k EXCEPT !.state = s]

(* What a task is after its progress is counted                             *)
LEMMA CountsFields ==
  ASSUME NEW k \in Task, NEW p \in Nat
  PROVE  LET new == Counts(k, p)
         IN /\ new \in Task /\ new.progress = p /\ new.frame = k.frame /\ new.state = k.state
            /\ new.fetched = k.fetched /\ new.requested = k.requested /\ new.completion = k.completion
BY DEF Task, Counts

(* What a task is after it received a segment                               *)
LEMMA ReceivesFields ==
  ASSUME NEW k \in Task, NEW p \in Nat, NEW g \in SUBSET Segment
  PROVE  LET new == Receives(k, p, g)
         IN /\ new \in Task /\ new.progress = p /\ new.frame = k.frame /\ new.state = k.state
            /\ new.fetched = g /\ new.requested = k.requested /\ new.completion = k.completion
BY DEF Task, Receives

(* What a task is after it asked for more                                   *)
LEMMA RequestsFields ==
  ASSUME NEW k \in Task, NEW g \in SUBSET Segment, NEW p \in Nat
  PROVE  LET new == Requests(k, g, p)
         IN /\ new \in Task /\ new.progress = k.progress /\ new.frame = k.frame /\ new.state = k.state
            /\ new.fetched = k.fetched /\ new.requested = g /\ new.completion = p
BY DEF Task, Requests

(* What a task is after its state changed                                   *)
LEMMA BecomesFields ==
  ASSUME NEW k \in Task, NEW s \in States
  PROVE  LET new == Becomes(k, s)
         IN /\ new \in Task /\ new.progress = k.progress /\ new.frame = k.frame /\ new.state = s
            /\ new.fetched = k.fetched /\ new.requested = k.requested /\ new.completion = k.completion
BY DEF Task, Becomes

(* What the handlers below the one on top are going to ask for *)
Below(t) == {s \in Segment : \E c \in Range(Rest) : s \in WillAsk(c, t)}

(* What is still to be asked for is asked for by the handler on top or      *)
(* by those below it.                                                       *)
LEMMA UnaskedParts ==
  ASSUME FetchTypes, NEW t \in DOMAIN tasks
  PROVE  /\ calls = <<>> => Unasked(t) = {} /\ Below(t) = {}
         /\ calls # <<>> => Unasked(t) = Below(t) \cup WillAsk(Head(calls), t)
         /\ tasks[t].requested \subseteq Segment
<1>1. /\ calls = <<>> => Range(Rest) = {} /\ Range(calls) = {}
      /\ calls # <<>> => Range(calls) = {Head(calls)} \cup Range(Rest)
  BY Stack
<1>2. tasks[t].requested \subseteq Segment
  BY CountsFinite DEF Task
<1>3. \A c \in Range(calls) : WillAsk(c, t) \subseteq tasks[t].requested
  BY DEF FetchTypes, CallOK, WillAsk
<1> QED
  BY <1>1, <1>2, <1>3 DEF Unasked, Below

(* requestSegment over the network *)
LEMMA RequestRemoteKeeps == FetchInv /\ RequestRemote => FetchInv'
<1> SUFFICES ASSUME FetchInv, RequestRemote PROVE FetchInv'
  OBVIOUS
<1>1. FetchTypes /\ Nested /\ Counted /\ Outcome /\ calls # <<>> /\ Head(calls).op = "request"
  BY DEF FetchInv, RequestRemote, Top
<1> PICK c : c = Head(calls)
  OBVIOUS
<1> PICK t : t = c.task
  OBVIOUS
<1>2. c \in Call /\ CallOK(c) /\ OfTask(c)
  BY <1>1, Stack DEF OfTask
<1>3. /\ c.segs \in Seq(Segment) /\ t \in DOMAIN tasks /\ Range(c.segs) \subseteq tasks[t].requested
  BY <1>1, <1>2, CallFacts DEF CallOK
<1>4. tasks[t] \in Task /\ TaskOK(tasks[t]) /\ tasks \in Seq(Task) /\ Len(c.segs) \in Nat
  BY <1>1, <1>3, CountsFinite DEF FetchTypes
<1>5. PICK k : k = Counts(tasks[t], tasks[t].progress + Len(c.segs))
  OBVIOUS
<1>6. /\ tasks' = [tasks EXCEPT ![t] = k] /\ calls' = Tail(calls) /\ Rest = Tail(calls)
      /\ pit' = pit \cup {<<t, s>> : s \in Range(c.segs)}
      /\ UNCHANGED <<remote, gop, fetcher, current, decoded, reports, excused>>
  BY <1>1, <1>5 DEF RequestRemote, Rest, Counts
<1>o. PICK old, p : old = tasks[t] /\ p = tasks[t].progress + Len(c.segs)
  OBVIOUS
<1>7. tasks[t].progress + Len(c.segs) \in Nat
  <2>1. old \in Task
    BY <1>4, <1>o
  <2>2. old.progress \in Nat
    BY <2>1 DEF Task
  <2> QED
    BY <1>4, <1>o, <2>2
<1>8. /\ k \in Task /\ k.frame = tasks[t].frame /\ k.state = tasks[t].state /\ k.fetched = tasks[t].fetched
      /\ k.requested = tasks[t].requested /\ k.completion = tasks[t].completion
      /\ k.progress = tasks[t].progress + Len(c.segs)
  <2>1. old \in Task /\ k = Counts(old, p) /\ p \in Nat
    BY <1>4, <1>5, <1>7, <1>o
  <2>2. /\ k \in Task /\ k.progress = p /\ k.frame = old.frame /\ k.state = old.state
        /\ k.fetched = old.fetched /\ k.requested = old.requested /\ k.completion = old.completion
    BY <2>1 DEF Task, Counts
  <2> QED
    BY <1>o, <2>2
<1>9. tasks'[t] = k /\ DOMAIN tasks' = DOMAIN tasks /\ \A u \in DOMAIN tasks : u # t => tasks'[u] = tasks[u]
  BY <1>3, <1>4, <1>6, <1>8, TaskChanged
<1>10. Progresses(t, k, <<>>)
  <2>1. <<>> \in Seq(Call) /\ GoesOn(t, k, <<>>) /\ calls' = <<>> \o Rest
    BY <1>1, <1>6, Stack DEF GoesOn
  <2>2. TaskOK(k)
    BY <1>4, <1>8 DEF TaskOK
  <2>3. isNew(k) = isNew(tasks[t])
    BY <1>8 DEF isNew, fetchedData
  <2>4. fetcher # "Idle"
    BY <1>1 DEF Outcome
  <2> QED
    BY <1>2, <1>3, <1>6, <1>8, <2>1, <2>2, <2>3, <2>4 DEF Progresses
<1>11. \A x \in pit' : x[1] \in DOMAIN tasks /\ x[2] \in tasks'[x[1]].requested
  <2> SUFFICES ASSUME NEW x \in pit' PROVE x[1] \in DOMAIN tasks /\ x[2] \in tasks'[x[1]].requested
    OBVIOUS
  <2>1. CASE x \in pit
    BY <1>1, <1>8, <1>9, <2>1 DEF FetchTypes
  <2>2. CASE x \in {<<t, s>> : s \in Range(c.segs)}
    BY <1>3, <1>8, <1>9, <2>2
  <2> QED
    BY <1>6, <2>1, <2>2
<1>12. ASSUME tasks[t].state = "Fetching", ~excused' PROVE TaskCounted(t)'
  <2>1. Range(calls') = Range(Rest)
    BY <1>6
  <2>2. tasks[t].requested \subseteq Segment /\ Unasked(t) = Below(t) \cup Range(c.segs)
        /\ Unasked(t) \subseteq tasks[t].requested
    BY <1>1, <1>3, UnaskedParts, CountsFinite DEF WillAsk
  <2>3. Unasked(t)' = Below(t)
    BY <1>8, <1>9, <2>1, <2>2 DEF Unasked, Below, WillAsk
  <2>4. Waiting(t)' = Waiting(t) \cup Range(c.segs)
    BY <1>3, <1>6, <1>8, <1>9 DEF Waiting
  <2>5. Asked(t)' = tasks[t].requested \ Unasked(t)' /\ Answered(t)' = Asked(t)' \ Waiting(t)'
    BY <1>8, <1>9 DEF Asked, Answered
  <2>6. Asked(t)' \subseteq Asked(t) \cup Range(c.segs) /\ Answered(t)' \subseteq Answered(t) \cup {}
    BY <2>2, <2>3, <2>4, <2>5 DEF Asked, Answered
  <2>7. ASSUME Unasked(t)' = {}, Waiting(t)' = {} PROVE CheckCompletion(t) \in Range(calls')
    <3>1. CheckCompletion(t) \in Range(calls)
      BY <1>3, <1>6, <1>1, <1>12, <2>2, <2>3, <2>4, <2>7 DEF Counted, TaskCounted
    <3>2. CheckCompletion(t) # c
      BY <1>1 DEF CheckCompletion
    <3> QED
      BY <1>1, <2>1, <3>1, <3>2, Stack
  <2>8. /\ IsFiniteSet(Range(c.segs)) /\ Cardinality(Range(c.segs)) <= Len(c.segs)
        /\ IsFiniteSet({}) /\ Cardinality({}) <= 0
    BY <1>3, RangeOfBatch, FS_EmptySet
  <2>9. tasks'[t].progress \in Nat /\ tasks'[t].progress >= tasks[t].progress + Len(c.segs) + nRtx * 0
    BY <1>4, <1>7, <1>8, <1>9, FetcherAssumption DEF Task
  <2> QED
    BY <1>1, <1>3, <1>4, <1>6, <1>12, <2>6, <2>7, <2>8, <2>9, TaskStaysCounted
<1>13. \A u, s : u # t => (<<u, s>> \in pit' <=> <<u, s>> \in pit)
  BY <1>6
<1>14. excused' \in BOOLEAN /\ (~excused' => ~excused)
  BY <1>1, <1>6 DEF FetchTypes
<1> QED
  BY <1>10, <1>11, <1>12, <1>13, <1>14, ProgressSuffices

(* The handlers that data starts *)
LEMMA OnDataCalls ==
  ASSUME FetchTypes, NEW t \in DOMAIN tasks, NEW s, NEW k
  PROVE  /\ onData(t, s) \in Seq(Call) /\ GoesOn(t, k, onData(t, s))
         /\ CheckCompletion(t) \in Range(onData(t, s))
         /\ \A c \in Range(onData(t, s)) : c.op # "request"
         /\ target # 0 /\ tasks[t].frame \in {0, target} /\ isNew(tasks[t]) => Learnt(t) \in Range(onData(t, s))
<1> DEFINE two == <<CheckMissing(t), CheckCompletion(t)>>
           three == <<Learnt(t), CheckMissing(t), CheckCompletion(t)>>
<1>1. t \in Nat /\ Learnt(t) \in Call /\ Learnt(t).op = "delta"
  BY CallsMade DEF FetchTypes, Learnt
<1>2. /\ CheckMissing(t) \in Call /\ OfTask(CheckMissing(t)) /\ CheckMissing(t).op = "missing" /\ CheckMissing(t).task = t
      /\ CheckCompletion(t) \in Call /\ OfTask(CheckCompletion(t)) /\ CheckCompletion(t).op = "completion"
      /\ CheckCompletion(t).task = t
  BY <1>1, CallsMade
<1>3. two \in Seq(Call) /\ Len(two) = 2 /\ DOMAIN two = {1, 2} /\ two[1] = CheckMissing(t) /\ two[2] = CheckCompletion(t)
  BY <1>2
<1>4. /\ three \in Seq(Call) /\ DOMAIN three = {1, 2, 3} /\ three[1] = Learnt(t)
      /\ three[2] = CheckMissing(t) /\ three[3] = CheckCompletion(t)
  BY <1>1, <1>2
<1>5. CASE isNew(tasks[t]) /\ target # 0 /\ tasks[t].frame \in {0, target}
  <2>1. onData(t, s) = <<Learnt(t)>> \o two
    BY <1>5 DEF onData, Learnt
  <2>2. <<Learnt(t)>> \o two = three
    <3> HIDE DEF Learnt, CheckMissing, CheckCompletion
    <3> DEFINE one == <<Learnt(t)>>
    <3>1. one \in Seq(Call) /\ Len(one) = 1 /\ one[1] = Learnt(t)
      BY <1>1
    <3> HIDE DEF one, two
    <3>2. /\ one \o two \in Seq(Call) /\ Len(one \o two) = Len(one) + Len(two)
          /\ \A i \in 1..Len(one) + Len(two) : (one \o two)[i] = IF i <= Len(one) THEN one[i] ELSE two[i - Len(one)]
      BY <1>3, <3>1, ConcatProperties
    <3>3. Len(one \o two) = 3 /\ (one \o two)[1] = three[1] /\ (one \o two)[2] = three[2] /\ (one \o two)[3] = three[3]
      BY <1>3, <1>4, <3>1, <3>2
    <3>4. Len(three) = 3
      OBVIOUS
    <3> HIDE DEF three
    <3>5. \A i \in 1..3 : i \in {1, 2, 3}
      OBVIOUS
    <3> QED
      BY <1>4, <3>2, <3>3, <3>4, <3>5, SeqEqual DEF one
  <2> HIDE DEF two, three
  <2>3. onData(t, s) = three
    BY <2>1, <2>2
  <2>4. GoesOn(t, k, three)
    BY <1>1, <1>2, <1>4, <1>5 DEF GoesOn, OfTask
  <2> QED
    BY <1>1, <1>2, <1>4, <2>3, <2>4 DEF Range
<1>6. CASE ~(isNew(tasks[t]) /\ target # 0 /\ tasks[t].frame \in {0, target})
  <2>1. onData(t, s) = <<>> \o two
    BY <1>6 DEF onData
  <2> HIDE DEF two
  <2>2. onData(t, s) = two
    BY <1>3, <2>1, ConcatEmptySeq
  <2>3. GoesOn(t, k, two)
    BY <1>2, <1>3 DEF GoesOn, OfTask
  <2> QED
    BY <1>2, <1>3, <1>6, <2>2, <2>3 DEF Range
<1> QED
  BY <1>5, <1>6

(* An answer for segment s of task t, which is looked at for completion *)
LEMMA AnswerKeeps ==
  ASSUME FetchInv, calls = <<>>, NEW t, NEW s, NEW k, NEW new, Progresses(t, k, new),
         CheckCompletion(t) \in Range(new), \A c \in Range(new) : c.op # "request",
         k.requested = tasks[t].requested,
         pit' \in {pit, pit \ {<<t, s>>}}, excused' = excused,
         k.progress >= tasks[t].progress, pit' # pit => k.progress >= tasks[t].progress + nRtx
  PROVE  FetchInv'
<1>1. FetchTypes /\ Counted /\ t \in DOMAIN tasks /\ k \in Task /\ k.state = tasks[t].state
  BY DEF FetchInv, Progresses
<1>2. /\ DOMAIN tasks' = DOMAIN tasks
      /\ \A u \in DOMAIN tasks : tasks'[u] = IF u = t THEN k ELSE tasks[u]
      /\ Range(calls') = Range(new) \cup Range(Rest)
  BY ProgressStack
<1>3. Range(Rest) = {} /\ Unasked(t) = {}
  BY <1>1, Stack, UnaskedParts
<1>4. ASSUME tasks[t].state = "Fetching", ~excused' PROVE TaskCounted(t)'
  <2> DEFINE y == IF pit' = pit THEN 0 ELSE 1
  <2>1. Unasked(t)' = {}
    BY <1>2, <1>3 DEF Unasked, WillAsk
  <2>2. Waiting(t) \subseteq Waiting(t)' \cup (IF y = 1 THEN {s} ELSE {})
    BY <1>1, <1>2 DEF Waiting
  <2>3. Asked(t)' = Asked(t) /\ Answered(t)' \subseteq Answered(t) \cup (IF y = 1 THEN {s} ELSE {})
    BY <1>1, <1>2, <1>3, <2>1, <2>2 DEF Asked, Answered
  <2>4. IsFiniteSet({}) /\ Cardinality({}) = 0 /\ IsFiniteSet({s}) /\ Cardinality({s}) = 1
    BY FS_EmptySet, FS_Singleton
  <2>5. k.progress \in Nat /\ tasks[t].progress \in Nat /\ nRtx \in Nat
    BY <1>1, CountsFinite, FetcherAssumption DEF Task
  <2>6. tasks'[t] = k /\ CheckCompletion(t) \in Range(calls')
    BY <1>1, <1>2
  <2>7. CASE pit' = pit
    <3>1. Answered(t)' \subseteq Answered(t) \cup {} /\ Asked(t)' \subseteq Asked(t) \cup {}
      BY <2>3, <2>7
    <3>2. k.progress >= tasks[t].progress + 0 + nRtx * 0
      BY <2>5
    <3> HIDE DEF y
    <3> QED
      BY <1>1, <1>4, <2>4, <2>5, <2>6, <3>1, <3>2, TaskStaysCounted
  <2>8. CASE pit' # pit
    <3>1. Answered(t)' \subseteq Answered(t) \cup {s} /\ Asked(t)' \subseteq Asked(t) \cup {}
      BY <2>3, <2>8
    <3>2. k.progress >= tasks[t].progress + 0 + nRtx * 1
      BY <2>5, <2>8
    <3> HIDE DEF y
    <3> QED
      BY <1>1, <1>4, <2>4, <2>5, <2>6, <3>1, <3>2, TaskStaysCounted
  <2> QED
    BY <2>7, <2>8
<1>5. \A x \in pit' : x[1] \in DOMAIN tasks /\ x[2] \in tasks'[x[1]].requested
  BY <1>1, <1>2 DEF FetchTypes
<1>6. \A u, z : u # t => (<<u, z>> \in pit' <=> <<u, z>> \in pit)
  OBVIOUS
<1> QED
  BY <1>1, <1>4, <1>5, <1>6, ProgressSuffices DEF FetchTypes

(* An Interest that waits belongs to a task and was requested by it.        *)
LEMMA Outstanding ==
  ASSUME FetchInv, NEW t, NEW s, <<t, s>> \in pit
  PROVE  /\ FetchTypes /\ t \in DOMAIN tasks /\ t \in Nat /\ s \in tasks[t].requested /\ s \in Segment
         /\ tasks \in Seq(Task) /\ tasks[t] \in Task /\ TaskOK(tasks[t]) /\ tasks[t].progress \in Nat
         /\ fetcher # "Idle"
<1>1. FetchTypes /\ fetcher # "Idle" /\ tasks \in Seq(Task)
  BY DEF FetchInv, Outcome, FetchTypes
<1>2. <<t, s>>[1] \in DOMAIN tasks /\ <<t, s>>[2] \in tasks[<<t, s>>[1]].requested
  BY <1>1 DEF FetchTypes
<1>3. t \in DOMAIN tasks /\ s \in tasks[t].requested
  BY <1>2
<1> QED
  BY <1>1, <1>3, CountsFinite DEF Task

(* onData, from the network *)
LEMMA OnDataKeeps == ASSUME FetchInv, NEW t, NEW s, OnData(t, s) PROVE FetchInv'
<1>1. calls = <<>> /\ <<t, s>> \in pit /\ pit' = pit \ {<<t, s>>} /\ excused' = excused
  BY DEF OnData
<1>2. /\ FetchTypes /\ t \in DOMAIN tasks /\ s \in tasks[t].requested /\ tasks[t] \in Task /\ TaskOK(tasks[t])
      /\ tasks[t].progress \in Nat /\ fetcher # "Idle" /\ nRtx \in Nat
  BY <1>1, Outstanding, FetcherAssumption
<1>3. PICK k : k = Receives(tasks[t], tasks[t].progress + nRtx, tasks[t].fetched \cup {s})
  OBVIOUS
<1>4. tasks' = [tasks EXCEPT ![t] = k] /\ calls' = onData(t, s)
  BY <1>3 DEF OnData, receive, Receives
<1>5. tasks[t].fetched \cup {s} \subseteq tasks[t].requested /\ tasks[t].fetched \cup {s} \in SUBSET Segment
  BY <1>2 DEF TaskOK, Task
<1>6. /\ k \in Task /\ k.progress = tasks[t].progress + nRtx /\ k.frame = tasks[t].frame /\ k.state = tasks[t].state
      /\ k.fetched = tasks[t].fetched \cup {s} /\ k.requested = tasks[t].requested
      /\ k.completion = tasks[t].completion
  BY <1>2, <1>3, <1>5, ReceivesFields
<1>7. /\ onData(t, s) \in Seq(Call) /\ GoesOn(t, k, onData(t, s)) /\ CheckCompletion(t) \in Range(onData(t, s))
      /\ \A c \in Range(onData(t, s)) : c.op # "request"
      /\ target # 0 /\ tasks[t].frame \in {0, target} /\ isNew(tasks[t]) => Learnt(t) \in Range(onData(t, s))
  BY <1>2, OnDataCalls
<1>8. calls' = onData(t, s) \o Rest
  BY <1>1, <1>2, <1>4, <1>7, Stack, ConcatEmptySeq
<1>9. TaskOK(k)
  BY <1>2, <1>5, <1>6 DEF TaskOK
<1>10. UNCHANGED <<remote, gop, fetcher, current, decoded, reports>>
  BY DEF OnData
<1>11. Progresses(t, k, onData(t, s))
  BY <1>1, <1>2, <1>4, <1>6, <1>7, <1>8, <1>9, <1>10 DEF Progresses
<1> DEFINE new == onData(t, s)
<1>12. Progresses(t, k, new) /\ CheckCompletion(t) \in Range(new) /\ \A c \in Range(new) : c.op # "request"
  BY <1>7, <1>11
<1> HIDE DEF new
<1>13. k.progress >= tasks[t].progress /\ k.progress >= tasks[t].progress + nRtx
  BY <1>2, <1>6
<1> QED
  BY <1>1, <1>6, <1>12, <1>13, AnswerKeeps

(* A task that is not told of anything new looks whether it is completed. *)
LEMMA LookKeeps ==
  ASSUME FetchInv, calls = <<>>, NEW t, NEW s, <<t, s>> \in pit, NEW p \in Nat,
         p >= tasks[t].progress, pit' \in {pit, pit \ {<<t, s>>}},
         pit' # pit => p >= tasks[t].progress + nRtx,
         tasks' = [tasks EXCEPT ![t] = Counts(tasks[t], p)], calls' = <<CheckCompletion(t)>>,
         UNCHANGED <<remote, gop, fetcher, current, decoded, reports, excused>>
  PROVE  FetchInv'
<1>1. /\ FetchTypes /\ t \in DOMAIN tasks /\ t \in Nat /\ tasks[t] \in Task /\ TaskOK(tasks[t]) /\ fetcher # "Idle"
  BY Outstanding
<1>2. PICK k : k = Counts(tasks[t], p)
  OBVIOUS
<1>3. /\ k \in Task /\ k.progress = p /\ k.frame = tasks[t].frame /\ k.state = tasks[t].state
      /\ k.fetched = tasks[t].fetched /\ k.requested = tasks[t].requested
      /\ k.completion = tasks[t].completion /\ tasks' = [tasks EXCEPT ![t] = k]
  BY <1>1, <1>2, CountsFields
<1> DEFINE new == <<CheckCompletion(t)>>
<1>4. /\ CheckCompletion(t) \in Call /\ OfTask(CheckCompletion(t)) /\ CheckCompletion(t).op = "completion"
      /\ CheckCompletion(t).task = t
  BY <1>1, CallsMade
<1>5. new \in Seq(Call) /\ DOMAIN new = {1} /\ new[1] = CheckCompletion(t)
  BY <1>4
<1>6. calls' = new
  OBVIOUS
<1> HIDE DEF new
<1>7. GoesOn(t, k, new) /\ CheckCompletion(t) \in Range(new) /\ \A c \in Range(new) : c.op # "request"
  BY <1>4, <1>5 DEF GoesOn, Range
<1>8. calls' = new \o Rest
  BY <1>1, <1>5, <1>6, Stack, ConcatEmptySeq
<1>9. TaskOK(k) /\ isNew(k) = isNew(tasks[t])
  BY <1>1, <1>3 DEF TaskOK, isNew, fetchedData
<1>10. Progresses(t, k, new)
  BY <1>1, <1>3, <1>5, <1>7, <1>8, <1>9 DEF Progresses
<1> QED
  BY <1>3, <1>7, <1>10, AnswerKeeps

(* onTimeout *)
LEMMA OnTimeoutKeeps == ASSUME FetchInv, NEW t, NEW s, OnTimeout(t, s) PROVE FetchInv'
<1>1. /\ calls = <<>> /\ <<t, s>> \in pit /\ calls' = <<CheckCompletion(t)>>
      /\ UNCHANGED <<remote, gop, fetcher, current, decoded, reports, excused>>
  BY DEF OnTimeout
<1>2. t \in DOMAIN tasks /\ tasks \in Seq(Task) /\ tasks[t] \in Task /\ tasks[t].progress \in Nat /\ nRtx \in Nat /\ FetchTypes
  BY <1>1, Outstanding, FetcherAssumption
<1>3. CASE tasks[t].state = "Fetching" /\ nRtx > 0
  <2>1. tasks' = [tasks EXCEPT ![t] = Counts(tasks[t], tasks[t].progress + 1)] /\ pit' = pit
    BY <1>3 DEF OnTimeout, Counts
  <2>2. tasks[t].progress + 1 \in Nat /\ tasks[t].progress + 1 >= tasks[t].progress
    BY <1>2
  <2> QED
    BY <1>1, <2>1, <2>2, LookKeeps
<1>4. CASE ~(tasks[t].state = "Fetching" /\ nRtx > 0)
  <2>1. tasks' = tasks /\ pit' = pit \ {<<t, s>>}
    BY <1>4 DEF OnTimeout
  <2>2. CASE nRtx = 0
    <3>1. tasks' = [tasks EXCEPT ![t] = Counts(tasks[t], tasks[t].progress)]
      BY <1>2, <2>1 DEF Counts, Task
    <3>2. tasks[t].progress >= tasks[t].progress + nRtx /\ tasks[t].progress >= tasks[t].progress
      BY <1>2, <2>2
    <3> QED
      BY <1>1, <1>2, <2>1, <3>1, <3>2, LookKeeps
  <2>3. CASE tasks[t].state # "Fetching"
    <3> DEFINE new == <<CheckCompletion(t)>>
    <3>1. /\ FetchTypes /\ t \in Nat /\ TaskOK(tasks[t]) /\ fetcher # "Idle"
      BY <1>1, Outstanding
    <3>2. /\ CheckCompletion(t) \in Call /\ OfTask(CheckCompletion(t)) /\ CheckCompletion(t).op = "completion"
          /\ CheckCompletion(t).task = t
      BY <3>1, CallsMade
    <3>3. new \in Seq(Call) /\ DOMAIN new = {1} /\ new[1] = CheckCompletion(t) /\ calls' = new
      BY <1>1, <3>2
    <3> HIDE DEF new
    <3>4. GoesOn(t, tasks[t], new)
      BY <3>2, <3>3 DEF GoesOn
    <3>5. calls' = new \o Rest
      BY <1>1, <3>1, <3>3, Stack, ConcatEmptySeq
    <3> PICK k : k = tasks[t]
      OBVIOUS
    <3>6. tasks' = [tasks EXCEPT ![t] = k]
      BY <1>2, <2>1
    <3>7. Progresses(t, k, new)
      BY <1>1, <1>2, <2>1, <3>1, <3>3, <3>4, <3>5, <3>6 DEF Progresses
    <3>8. \A x \in pit' : x[1] \in DOMAIN tasks /\ x[2] \in tasks'[x[1]].requested
      BY <2>1, <3>1 DEF FetchTypes
    <3>9. \A u, z : u # t => (<<u, z>> \in pit' <=> <<u, z>> \in pit)
      BY <2>1
    <3>10. excused' \in BOOLEAN /\ (~excused' => ~excused)
      BY <1>1, <3>1 DEF FetchTypes
    <3> QED
      BY <2>3, <3>7, <3>8, <3>9, <3>10, ProgressSuffices
  <2> QED
    BY <1>2, <1>4, <2>2, <2>3
<1> QED
  BY <1>3, <1>4

(* onNetworkNack *)
LEMMA OnNetworkNackKeeps == ASSUME FetchInv, NEW t, NEW s, OnNetworkNack(t, s) PROVE FetchInv'
<1>1. /\ calls = <<>> /\ <<t, s>> \in pit /\ pit' = pit \ {<<t, s>>} /\ calls' = <<CheckCompletion(t)>>
      /\ UNCHANGED <<remote, gop, fetcher, current, decoded, reports, excused>>
      /\ tasks' = [tasks EXCEPT ![t] = Counts(tasks[t], tasks[t].progress + nRtx)]
  BY DEF OnNetworkNack, nacked, Counts
<1>2. tasks[t].progress \in Nat /\ nRtx \in Nat
  BY <1>1, Outstanding, FetcherAssumption
<1> DEFINE p == tasks[t].progress + nRtx
<1>3. p \in Nat /\ p >= tasks[t].progress /\ p >= tasks[t].progress + nRtx
  BY <1>2
<1>4. tasks' = [tasks EXCEPT ![t] = Counts(tasks[t], p)]
  BY <1>1
<1> HIDE DEF p
<1> QED
  BY <1>1, <1>3, <1>4, LookKeeps

(* Data of type NACK *)
LEMMA OnApplicationNackKeeps == ASSUME FetchInv, NEW t, NEW s, OnApplicationNack(t, s) PROVE FetchInv'
<1>1. /\ calls = <<>> /\ <<t, s>> \in pit /\ pit' = pit \ {<<t, s>>} /\ excused' = TRUE /\ tasks' = tasks /\ calls' = calls
      /\ UNCHANGED <<remote, gop, fetcher, current, decoded, reports>>
  BY DEF OnApplicationNack
<1>2. /\ FetchTypes /\ t \in DOMAIN tasks /\ tasks \in Seq(Task) /\ tasks[t] \in Task /\ TaskOK(tasks[t]) /\ fetcher # "Idle"
  BY <1>1, Outstanding
<1> PICK k : k = tasks[t]
  OBVIOUS
<1>3. tasks' = [tasks EXCEPT ![t] = k]
  BY <1>1, <1>2
<1>4. <<>> \in Seq(Call) /\ GoesOn(t, k, <<>>) /\ calls' = <<>> \o Rest
  BY <1>1, <1>2, Stack DEF GoesOn
<1>5. Progresses(t, k, <<>>)
  BY <1>1, <1>2, <1>3, <1>4 DEF Progresses
<1>6. \A x \in pit' : x[1] \in DOMAIN tasks /\ x[2] \in tasks'[x[1]].requested
  BY <1>1, <1>2 DEF FetchTypes
<1>7. \A u, z : u # t => (<<u, z>> \in pit' <=> <<u, z>> \in pit)
  BY <1>1
<1> QED
  BY <1>1, <1>5, <1>6, <1>7, ProgressSuffices

(* Handlers of t are pushed above the rest of a request. *)
LEMMA GoesOnWith ==
  ASSUME NEW t, NEW k, NEW X \in Seq(Call), GoesOn(t, k, X), NEW r \in Call, NEW rest \in Seq(Call),
         r.op = "request", r.task = t, Range(r.segs) \subseteq k.requested
  PROVE  LET new == X \o <<r>>
         IN new \in Seq(Call) /\ GoesOn(t, k, new) /\ Range(new) = Range(X) \cup {r} /\ new \o rest = X \o (<<r>> \o rest)
<1> DEFINE one == <<r>>
           new == X \o one
<1>1. one \in Seq(Call) /\ Len(one) = 1 /\ DOMAIN one = {1} /\ one[1] = r
  OBVIOUS
<1> HIDE DEF one
<1>2. Range(one) = {r}
  BY <1>1 DEF Range
<1>3. new \o rest = X \o (one \o rest)
  BY <1>1, ConcatAssociative
<1>4. Len(X) \in Nat /\ DOMAIN X = 1..Len(X)
  OBVIOUS
<1>5. new \in Seq(Call) /\ Len(new) = Len(X) + 1 /\ \A i \in 1..Len(X) + 1 : new[i] = IF i <= Len(X) THEN X[i] ELSE one[i - Len(X)]
  BY <1>1, ConcatProperties
<1>6. Range(new) = Range(X) \cup {r}
  BY <1>1, <1>2, Push
<1> HIDE DEF new
<1>7. DOMAIN new = 1..Len(X) + 1 /\ (\A i \in 1..Len(X) : new[i] = X[i]) /\ new[Len(X) + 1] = r
  <2> DEFINE n == Len(X)
  <2>1. n \in Nat /\ new \in Seq(Call) /\ Len(new) = n + 1
    BY <1>4, <1>5
  <2>2. \A i \in 1..n + 1 : new[i] = IF i <= n THEN X[i] ELSE one[i - n]
    BY <1>5
  <2> HIDE DEF n
  <2>3. DOMAIN new = 1..n + 1
    BY <2>1
  <2>4. ASSUME NEW i \in 1..n PROVE new[i] = X[i]
    <3>1. i \in 1..n + 1 /\ i <= n
      BY <2>1
    <3> QED
      BY <2>2, <3>1
  <2>5. new[n + 1] = r
    <3>1. PICK last, k1 : last = n + 1 /\ k1 = last - n
      OBVIOUS
    <3>2. last \in 1..n + 1 /\ ~(last <= n) /\ k1 = 1
      BY <2>1, <3>1
    <3>3. new[last] = IF last <= n THEN X[last] ELSE one[last - n]
      BY <2>2, <3>2
    <3>4. new[last] = one[k1]
      BY <3>1, <3>2, <3>3
    <3>5. new[last] = r
      BY <1>1, <3>2, <3>4
    <3> QED
      BY <3>1, <3>5
  <2> QED
    BY <2>3, <2>4, <2>5 DEF n
<1>8. \A i \in DOMAIN new : (i \in DOMAIN X /\ new[i] = X[i]) \/ (i = Len(X) + 1 /\ new[i] = r)
  BY <1>4, <1>7
<1>9. OfTask(r) /\ r.op # "missing"
  BY DEF OfTask
<1>10. ASSUME NEW i \in DOMAIN new, NEW j \in DOMAIN new, i < j, new[j].op = "missing" PROVE ~OfTask(new[i])
  <2>1. j \in DOMAIN X /\ new[j] = X[j]
    BY <1>8, <1>9, <1>10
  <2>2. i \in DOMAIN X /\ new[i] = X[i]
    BY <1>4, <1>7, <1>10, <2>1
  <2> QED
    BY <1>10, <2>1, <2>2 DEF GoesOn
<1>11. ASSUME NEW i \in DOMAIN new
       PROVE \/ /\ OfTask(new[i]) /\ new[i].task = t
                /\ new[i].op = "request" => Range(new[i].segs) \subseteq k.requested
             \/ i = 1 /\ new[i] = Learnt(t) /\ target # 0 /\ tasks[t].frame \in {0, target}
  BY <1>8, <1>9 DEF GoesOn
<1>12. GoesOn(t, k, new)
  BY <1>10, <1>11 DEF GoesOn
<1> QED
  BY <1>3, <1>5, <1>6, <1>12 DEF new, one

(* The loop of requestSegments, a segment later, is a request for the       *)
(* rest.                                                                    *)
LEMMA RequestTail ==
  ASSUME NEW c, NEW t, c = Request(t, c.segs, c.start)
  PROVE  [c EXCEPT !.segs = Tail(@)] = Request(t, Tail(c.segs), c.start)
<1>1. ASSUME NEW segs, NEW start, NEW u PROVE [Request(t, segs, start) EXCEPT !.segs = u] = Request(t, u, start)
  BY DEF Request
<1>q. PICK segs, start, u : segs = c.segs /\ start = c.start /\ u = Tail(c.segs)
  OBVIOUS
<1>2. [Request(t, segs, start) EXCEPT !.segs = u] = Request(t, u, start)
  BY <1>1
<1> QED
  BY <1>2, <1>q

(* A segment is requested and answered at once. *)
AnsweredAtOnce(t, k, X) ==
  /\ calls # <<>> /\ Head(calls).op = "request" /\ t = Head(calls).task /\ Head(calls).segs # <<>>
  /\ X \in Seq(Call) /\ k \in Task /\ TaskOK(k)
  /\ k.frame = tasks[t].frame /\ k.state = tasks[t].state /\ k.requested = tasks[t].requested
  /\ tasks[t].fetched \subseteq k.fetched /\ k.progress >= tasks[t].progress + 1 + nRtx
  /\ GoesOn(t, k, X) /\ CheckCompletion(t) \in Range(X) /\ \A c \in Range(X) : c.op # "request"
  /\ target # 0 /\ tasks[t].frame \in {0, target} /\ isNew(tasks[t]) => isNew(k) \/ Learnt(t) \in Range(X)
  /\ tasks' = [tasks EXCEPT ![t] = k]
  /\ calls' = X \o (<<Request(t, Tail(Head(calls).segs), Head(calls).start)>> \o Tail(calls))
  /\ UNCHANGED <<remote, gop, fetcher, current, decoded, reports, pit, excused>>

(* requestSegments, when the storage answers from the call itself           *)
LEMMA LocalAnswerKeeps ==
  ASSUME FetchInv, NEW t, NEW k, NEW X, AnsweredAtOnce(t, k, X)
  PROVE  FetchInv'
<1>1. FetchTypes /\ Nested /\ Counted /\ Outcome /\ calls # <<>> /\ Head(calls).op = "request"
  BY DEF FetchInv, AnsweredAtOnce
<1>c. PICK c : c = Head(calls)
  OBVIOUS
<1>2. c \in Call /\ CallOK(c) /\ OfTask(c) /\ Rest = Tail(calls) /\ Rest \in Seq(Call) /\ c.op = "request" /\ t = c.task
  BY <1>1, <1>c, Stack DEF OfTask, AnsweredAtOnce
<1>3. /\ c.segs \in Seq(Segment) /\ t \in DOMAIN tasks /\ Range(c.segs) \subseteq tasks[t].requested
      /\ t \in Nat /\ c.start \in BOOLEAN
  BY <1>2, CallFacts DEF CallOK
<1>s. PICK s : s = Head(c.segs)
  OBVIOUS
<1>4. Tail(c.segs) \in Seq(Segment) /\ Range(c.segs) = {s} \cup Range(Tail(c.segs))
  <2> DEFINE n == Len(c.segs)
             q == c.segs
  <2>1. /\ n \in Nat \ {0} /\ Tail(q) \in Seq(Segment) /\ DOMAIN q = 1..n /\ DOMAIN Tail(q) = 1..n - 1
        /\ \A i \in 1..n - 1 : Tail(q)[i] = q[i + 1]
        /\ s = q[1]
    BY <1>3, <1>s, <1>c DEF AnsweredAtOnce
  <2> HIDE DEF n, q
  <2>2. ASSUME NEW i \in 1..n, i # 1 PROVE q[i] \in Range(Tail(q))
    <3>1. i - 1 \in 1..n - 1 /\ Tail(q)[i - 1] = q[i]
      BY <2>1, <2>2
    <3> QED
      BY <2>1, <3>1 DEF Range
  <2>3. Range(q) \subseteq {s} \cup Range(Tail(q))
    BY <2>1, <2>2 DEF Range
  <2>4. s \in Range(q) /\ \A i \in 1..n - 1 : Tail(q)[i] \in Range(q)
    <3>1. 1 \in 1..n /\ \A i \in 1..n - 1 : i + 1 \in 1..n
      BY <2>1
    <3>2. \A i \in 1..n : q[i] \in Range(q)
      BY <2>1 DEF Range
    <3> QED
      BY <2>1, <3>1, <3>2
  <2>5. Range(Tail(q)) \subseteq Range(q)
    BY <2>1, <2>4 DEF Range
  <2> QED
    BY <2>1, <2>3, <2>4, <2>5 DEF q
<1>r. PICK r : r = Request(t, Tail(c.segs), c.start)
  OBVIOUS
<1>5. r \in Call /\ r.op = "request" /\ r.task = t /\ r.segs = Tail(c.segs)
  <2>q. PICK q, b : q = Tail(c.segs) /\ b = c.start
    OBVIOUS
  <2>1. q \in Seq(Segment) /\ t \in Nat /\ b \in BOOLEAN /\ r = Request(t, q, b)
    BY <1>3, <1>4, <1>r, <2>q
  <2>2. r \in Call
    BY <2>1 DEF Call
  <2>3. r.op = "request" /\ r.task = t /\ r.segs = q
    BY <2>1 DEF Request
  <2> QED
    BY <2>2, <2>3, <2>q
<1>6. PICK new : new = X \o <<r>>
  OBVIOUS
<1>7. new \in Seq(Call) /\ GoesOn(t, k, new) /\ Range(new) = Range(X) \cup {r} /\ calls' = new \o Rest
  <2>1. Range(r.segs) \subseteq k.requested
    BY <1>3, <1>4, <1>5 DEF AnsweredAtOnce
  <2>2. QED
    <3>1. calls' = X \o (<<r>> \o Rest)
      BY <1>2, <1>c, <1>r DEF AnsweredAtOnce
    <3>2. /\ X \o <<r>> \in Seq(Call) /\ GoesOn(t, k, X \o <<r>>) /\ Range(X \o <<r>>) = Range(X) \cup {r}
          /\ (X \o <<r>>) \o Rest = X \o (<<r>> \o Rest)
      <4>1. X \in Seq(Call) /\ GoesOn(t, k, X)
        BY DEF AnsweredAtOnce
      <4> QED
        BY <1>2, <1>5, <2>1, <4>1, GoesOnWith
    <3> QED
      BY <1>6, <3>1, <3>2
<1>8. fetcher # "Idle" /\ tasks[t] \in Task /\ TaskOK(tasks[t]) /\ tasks \in Seq(Task)
  BY <1>1, <1>3, CountsFinite DEF Outcome, FetchTypes
<1>9. Progresses(t, k, new)
  <2>1. k \in Task /\ TaskOK(k) /\ k.frame = tasks[t].frame /\ k.state = tasks[t].state
        /\ tasks[t].fetched \subseteq k.fetched /\ tasks[t].requested \subseteq k.requested
        /\ tasks' = [tasks EXCEPT ![t] = k] /\ UNCHANGED <<remote, gop, fetcher, current, decoded, reports>>
        /\ (target # 0 /\ tasks[t].frame \in {0, target} /\ isNew(tasks[t]) => isNew(k) \/ Learnt(t) \in Range(new))
    BY <1>7 DEF AnsweredAtOnce
  <2> QED
    BY <1>2, <1>3, <1>7, <1>8, <1>c, <2>1 DEF Progresses
<1>10. /\ DOMAIN tasks' = DOMAIN tasks /\ tasks'[t] = k
       /\ \A u \in DOMAIN tasks : u # t => tasks'[u] = tasks[u]
       /\ Range(calls') = Range(X) \cup {r} \cup Range(Rest)
       /\ pit' = pit /\ excused' = excused /\ k.requested = tasks[t].requested /\ CheckCompletion(t) \in Range(X)
       /\ \A d \in Range(X) : d.op # "request"
  <2>1. /\ DOMAIN tasks' = DOMAIN tasks
        /\ \A u \in DOMAIN tasks : tasks'[u] = IF u = t THEN k ELSE tasks[u]
        /\ Range(calls') = Range(new) \cup Range(Rest)
    BY <1>9, ProgressStack
  <2>2. /\ pit' = pit /\ excused' = excused /\ k.requested = tasks[t].requested /\ CheckCompletion(t) \in Range(X)
        /\ \A d \in Range(X) : d.op # "request"
    BY DEF AnsweredAtOnce
  <2> QED
    BY <1>3, <1>7, <2>1, <2>2
<1>11. ASSUME tasks[t].state = "Fetching", ~excused' PROVE TaskCounted(t)'
  <2>1. tasks[t].requested \subseteq Segment /\ Unasked(t) = Below(t) \cup Range(c.segs)
        /\ Unasked(t) \subseteq tasks[t].requested
    BY <1>1, <1>2, <1>3, <1>c, UnaskedParts, CountsFinite DEF WillAsk
  <2>2. \A d, z : z \in WillAsk(d, t) <=> d.op = "request" /\ d.task = t /\ z \in Range(d.segs)
    BY DEF WillAsk
  <2>3. Below(t) \cup Range(Tail(c.segs)) \subseteq tasks[t].requested
    BY <1>4, <2>1
  <2>4. \A z \in tasks[t].requested :
          (\E d \in Range(calls') : z \in WillAsk(d, t)) <=> z \in Below(t) \/ z \in Range(Tail(c.segs))
    BY <1>5, <1>10, <2>1, <2>2 DEF Below
  <2>5. Unasked(t)' = Below(t) \cup Range(Tail(c.segs))
    BY <1>10, <2>3, <2>4 DEF Unasked, WillAsk
  <2>6. Waiting(t)' = Waiting(t)
    BY <1>10 DEF Waiting
  <2>7. Asked(t)' = tasks[t].requested \ Unasked(t)' /\ Answered(t)' = Asked(t)' \ Waiting(t)'
    BY <1>10 DEF Asked, Answered
  <2>8. Asked(t)' \subseteq Asked(t) \cup {s} /\ Answered(t)' \subseteq Answered(t) \cup {s}
    BY <1>4, <2>1, <2>5, <2>6, <2>7 DEF Asked, Answered
  <2>9. IsFiniteSet({s}) /\ Cardinality({s}) <= 1 /\ 1 \in Nat /\ 1 \in {0, 1}
    <3>1. IsFiniteSet({s}) /\ Cardinality({s}) = 1
      BY FS_Singleton
    <3> QED
      BY <3>1
  <2>10. tasks'[t].progress \in Nat /\ tasks'[t].progress >= tasks[t].progress + 1 + nRtx * 1
    <3>1. nRtx \in Nat
      BY FetcherAssumption
    <3>2. k.progress \in Nat /\ tasks[t].progress \in Nat
      BY <1>8 DEF Task, AnsweredAtOnce
    <3>3. k.progress >= tasks[t].progress + 1 + nRtx
      BY DEF AnsweredAtOnce
    <3> QED
      BY <1>10, <3>1, <3>2, <3>3
  <2>11. CheckCompletion(t) \in Range(calls')
    BY <1>10
  <2> QED
    BY <1>1, <1>3, <1>10, <1>11, <2>8, <2>9, <2>10, <2>11, TaskStaysCounted
<1>12. \A x \in pit' : x[1] \in DOMAIN tasks /\ x[2] \in tasks'[x[1]].requested
  BY <1>1, <1>10 DEF FetchTypes
<1>13. excused' \in BOOLEAN /\ (~excused' => ~excused)
  BY <1>1, <1>10 DEF FetchTypes
<1>14. \A u, z : u # t => (<<u, z>> \in pit' <=> <<u, z>> \in pit)
  BY <1>10
<1> QED
  BY <1>9, <1>11, <1>12, <1>13, <1>14, ProgressSuffices

(* requestSegment from the storage *)
LEMMA RequestLocalKeeps == FetchInv /\ RequestLocal => FetchInv'
<1> SUFFICES ASSUME FetchInv, RequestLocal PROVE FetchInv'
  OBVIOUS
<1>1. /\ FetchTypes /\ Nested /\ Counted /\ Outcome /\ calls # <<>> /\ Head(calls).op = "request"
      /\ UNCHANGED <<remote, gop, fetcher, current, decoded, reports, pit, excused>>
  BY DEF FetchInv, RequestLocal, Top
<1> PICK c : c = Head(calls)
  OBVIOUS
<1> PICK t : t = c.task
  OBVIOUS
<1>2. c \in Call /\ CallOK(c) /\ OfTask(c) /\ Rest = Tail(calls) /\ Rest \in Seq(Call)
  BY <1>1, Stack DEF OfTask
<1>3. /\ c.segs \in Seq(Segment) /\ t \in DOMAIN tasks /\ Range(c.segs) \subseteq tasks[t].requested
      /\ t \in Nat /\ c = Request(t, c.segs, c.start)
  BY <1>1, <1>2, CallFacts DEF CallOK
<1>4. /\ tasks[t] \in Task /\ TaskOK(tasks[t]) /\ tasks \in Seq(Task) /\ fetcher # "Idle"
      /\ tasks[t].progress \in Nat /\ nRtx \in Nat
  BY <1>1, <1>3, CountsFinite, FetcherAssumption DEF Outcome, FetchTypes, Task
<1>5. CASE c.segs = <<>> \/ (c.start /\ tasks[t].state # "Fetching")
  <2>1. calls' = Tail(calls) /\ tasks' = tasks
    BY <1>5 DEF RequestLocal
  <2> PICK k : k = tasks[t]
    OBVIOUS
  <2>2. tasks' = [tasks EXCEPT ![t] = k]
    BY <1>4, <2>1
  <2>3. <<>> \in Seq(Call) /\ GoesOn(t, k, <<>>) /\ calls' = <<>> \o Rest
    BY <1>2, <2>1 DEF GoesOn
  <2>4. Progresses(t, k, <<>>)
    BY <1>1, <1>2, <1>3, <1>4, <2>2, <2>3 DEF Progresses
  <2>5. ASSUME tasks[t].state = "Fetching", ~excused' PROVE TaskCounted(t)'
    <3>1. Range(calls') = Range(Rest) /\ Range(calls) = {c} \cup Range(Rest)
      BY <1>1, <1>2, <2>1, Stack
    <3>2. Range(c.segs) = {}
      BY <1>5, <2>5 DEF Range
    <3>3. \A z, d : z \in WillAsk(d, t) <=> d.op = "request" /\ d.task = t /\ z \in Range(d.segs)
      BY DEF WillAsk
    <3>4. Unasked(t)' = Unasked(t)
      BY <2>1, <3>1, <3>2, <3>3 DEF Unasked, WillAsk
    <3>5. Waiting(t)' = Waiting(t) /\ Asked(t)' = Asked(t) /\ Answered(t)' = Answered(t)
      BY <1>1, <2>1, <3>4 DEF Waiting, Asked, Answered
    <3>6. CheckCompletion(t) # c
      BY <1>1 DEF CheckCompletion
    <3>7. TaskCounted(t)
      BY <1>1, <1>3, <2>5 DEF Counted
    <3> QED
      BY <2>1, <3>1, <3>4, <3>5, <3>6, <3>7 DEF TaskCounted, CheckCompletion
  <2>6. \A x \in pit' : x[1] \in DOMAIN tasks /\ x[2] \in tasks'[x[1]].requested
    BY <1>1, <2>1 DEF FetchTypes
  <2>7. excused' \in BOOLEAN /\ (~excused' => ~excused)
    BY <1>1 DEF FetchTypes
  <2> QED
    BY <1>1, <2>4, <2>5, <2>6, <2>7, ProgressSuffices
<1>6. CASE ~(c.segs = <<>> \/ (c.start /\ tasks[t].state # "Fetching"))
  <2> PICK s : s = Head(c.segs)
    OBVIOUS
  <2> DEFINE rest == <<[c EXCEPT !.segs = Tail(@)]>> \o Tail(calls)
             p == tasks[t].progress + 1 + nRtx
  <2>1. rest = <<Request(t, Tail(c.segs), c.start)>> \o Tail(calls)
    <3>1. [c EXCEPT !.segs = Tail(@)] = Request(t, Tail(c.segs), c.start)
      BY <1>3, RequestTail
    <3> QED
      BY <3>1
  <2>2. s \in Range(c.segs) /\ s \in Segment
    BY <1>3, <1>6 DEF Range
  <2>3. p \in Nat /\ p >= tasks[t].progress + 1 + nRtx
    BY <1>4
  <2>4. CASE <<tasks[t].frame, s>> \in stored
    <3>1. PICK k : k = Receives(tasks[t], p, tasks[t].fetched \cup {s})
      OBVIOUS
    <3>2. tasks' = receive([tasks EXCEPT ![t].progress = @ + 1], t, s) /\ calls' = onData(t, s) \o rest
      BY <1>6, <2>4 DEF RequestLocal
    <3>3. tasks' = [tasks EXCEPT ![t] = k]
      <4>o. PICK old, one : old = tasks[t] /\ one = [old EXCEPT !.progress = @ + 1]
        OBVIOUS
      <4>1. old \in Task /\ one.progress = old.progress + 1 /\ one.fetched = old.fetched
        <5>1. old \in Task
          BY <1>4, <4>o
        <5> QED
          BY <4>o, <5>1 DEF Task
      <4>2. [tasks EXCEPT ![t].progress = @ + 1] = [tasks EXCEPT ![t] = one]
        BY <4>o
      <4>3. receive([tasks EXCEPT ![t] = one], t, s)
              = [tasks EXCEPT ![t] = [one EXCEPT !.progress = @ + nRtx, !.fetched = @ \cup {s}]]
        BY <1>3, <1>4 DEF receive
      <4>4. k = [old EXCEPT !.progress = old.progress + 1 + nRtx, !.fetched = old.fetched \cup {s}]
        BY <3>1, <4>o DEF Receives
      <4>5. [one EXCEPT !.progress = @ + nRtx, !.fetched = @ \cup {s}] = k
        BY <4>1, <4>4, <4>o DEF Task
      <4> QED
        BY <3>2, <4>2, <4>3, <4>5
    <3>4. tasks[t].fetched \cup {s} \subseteq tasks[t].requested /\ tasks[t].fetched \cup {s} \in SUBSET Segment
      BY <1>3, <1>4, <2>2 DEF TaskOK, Task
    <3> HIDE DEF p, rest
    <3>5. /\ k \in Task /\ k.progress = p /\ k.frame = tasks[t].frame /\ k.state = tasks[t].state
          /\ k.fetched = tasks[t].fetched \cup {s} /\ k.requested = tasks[t].requested
          /\ k.completion = tasks[t].completion
      BY <1>4, <2>3, <3>1, <3>4, ReceivesFields
    <3>6. TaskOK(k)
      BY <1>4, <3>4, <3>5 DEF TaskOK
    <3> DEFINE X == onData(t, s)
    <3>7. /\ X \in Seq(Call) /\ GoesOn(t, k, X) /\ CheckCompletion(t) \in Range(X)
          /\ \A d \in Range(X) : d.op # "request"
          /\ target # 0 /\ tasks[t].frame \in {0, target} /\ isNew(tasks[t]) => Learnt(t) \in Range(X)
      BY <1>1, <1>3, OnDataCalls
    <3>8. calls' = X \o (<<Request(t, Tail(c.segs), c.start)>> \o Tail(calls))
      BY <2>1, <3>2
    <3> HIDE DEF X
    <3> QED
      <4>1. AnsweredAtOnce(t, k, X)
        BY <1>1, <1>6, <2>3, <3>3, <3>5, <3>6, <3>7, <3>8 DEF AnsweredAtOnce
      <4> QED
        BY <4>1, LocalAnswerKeeps
  <2>5. CASE <<tasks[t].frame, s>> \notin stored
    <3>1. PICK k : k = Counts(tasks[t], p)
      OBVIOUS
    <3>2. tasks' = nacked([tasks EXCEPT ![t].progress = @ + 1], t) /\ calls' = <<CheckCompletion(t)>> \o rest
      BY <1>6, <2>5 DEF RequestLocal
    <3>3. tasks' = [tasks EXCEPT ![t] = k]
      BY <1>3, <1>4, <3>1, <3>2 DEF nacked, Counts, Task
    <3> HIDE DEF p, rest
    <3>4. /\ k \in Task /\ k.progress = p /\ k.frame = tasks[t].frame /\ k.state = tasks[t].state
          /\ k.fetched = tasks[t].fetched /\ k.requested = tasks[t].requested
          /\ k.completion = tasks[t].completion
      BY <1>4, <2>3, <3>1, CountsFields
    <3>5. TaskOK(k) /\ isNew(k) = isNew(tasks[t])
      BY <1>4, <3>4 DEF TaskOK, isNew, fetchedData
    <3> DEFINE X == <<CheckCompletion(t)>>
    <3>6. /\ CheckCompletion(t) \in Call /\ OfTask(CheckCompletion(t)) /\ CheckCompletion(t).op = "completion"
          /\ CheckCompletion(t).task = t
      BY <1>3, CallsMade
    <3>7. X \in Seq(Call) /\ DOMAIN X = {1} /\ X[1] = CheckCompletion(t)
      BY <3>6
    <3>8. calls' = X \o (<<Request(t, Tail(c.segs), c.start)>> \o Tail(calls))
      BY <2>1, <3>2
    <3> HIDE DEF X
    <3>9. GoesOn(t, k, X) /\ CheckCompletion(t) \in Range(X) /\ \A d \in Range(X) : d.op # "request"
      BY <3>6, <3>7 DEF GoesOn, Range
    <3> QED
      <4>1. AnsweredAtOnce(t, k, X)
        BY <1>1, <1>6, <2>3, <3>3, <3>4, <3>5, <3>7, <3>8, <3>9 DEF AnsweredAtOnce
      <4> QED
        BY <4>1, LocalAnswerKeeps
  <2> QED
    BY <2>4, <2>5
<1> QED
  BY <1>5, <1>6

(* The counts are products; this is the arithmetic of them.                 *)
LEMMA Distributes ==
  ASSUME NEW n \in Nat, NEW a \in Nat, NEW b \in Nat
  PROVE  (1 + n) * (a + b) = (1 + n) * a + b * (1 + n)
OBVIOUS

(* checkMissingSegments *)
LEMMA CheckMissingKeeps == FetchInv /\ CheckMissingSegments => FetchInv'
<1> SUFFICES ASSUME FetchInv, CheckMissingSegments PROVE FetchInv'
  OBVIOUS
<1>1. /\ FetchTypes /\ Nested /\ Counted /\ Outcome /\ calls # <<>> /\ Head(calls).op = "missing"
      /\ UNCHANGED <<remote, gop, fetcher, current, decoded, reports, pit, excused>>
  BY DEF FetchInv, CheckMissingSegments, Top
<1>c. PICK c : c = Head(calls)
  OBVIOUS
<1>t. PICK t : t = c.task
  OBVIOUS
<1>2. c \in Call /\ CallOK(c) /\ OfTask(c) /\ Rest = Tail(calls) /\ Rest \in Seq(Call) /\ c.op = "missing" /\ t = c.task
  BY <1>1, <1>c, <1>t, Stack DEF OfTask
<1>3. t \in DOMAIN tasks /\ t \in Nat
  BY <1>2, CallFacts DEF CallOK
<1>4. /\ tasks[t] \in Task /\ TaskOK(tasks[t]) /\ tasks \in Seq(Task) /\ fetcher # "Idle" /\ gop \in Gops
      /\ tasks[t].frame \in Frames /\ IsFiniteSet(tasks[t].requested) /\ tasks[t].fetched \subseteq tasks[t].requested
      /\ tasks[t].completion <= (1 + nRtx) * Cardinality(tasks[t].requested)
  BY <1>1, <1>3, CountsFinite DEF Outcome, FetchTypes, TaskOK
<1>m. PICK m : m = getMissingSegments(tasks[t])
  OBVIOUS
<1>5. m \in Seq(Segment) /\ IsDistinct(m) /\ Range(m) \cap tasks[t].requested = {}
  BY <1>4, <1>m, Missing
<1>6. /\ IsFiniteSet(Range(m)) /\ Len(m) \in Nat /\ Cardinality(Range(m)) = Len(m) /\ Range(m) \subseteq Segment
  BY <1>5, RangeOfBatch
<1>p. PICK p : p = tasks[t].completion + Len(m) * (1 + nRtx)
  OBVIOUS
<1>g. PICK g : g = tasks[t].requested \cup Range(m)
  OBVIOUS
<1>k. PICK k : k = Requests(tasks[t], g, p)
  OBVIOUS
<1>7. /\ tasks' = [tasks EXCEPT ![t] = k]
      /\ calls' = (IF m = <<>> THEN <<>> ELSE <<Request(t, m, FALSE)>>) \o Tail(calls)
  BY <1>c, <1>t, <1>m, <1>p, <1>g, <1>k DEF CheckMissingSegments, Requests
<1>8. p \in Nat /\ IsFiniteSet(g) /\ g \in SUBSET Segment /\ p <= (1 + nRtx) * Cardinality(g)
  <2>1. nRtx \in Nat /\ tasks[t].completion \in Nat /\ tasks[t].requested \subseteq Segment
    BY <1>4, FetcherAssumption DEF Task
  <2>2. Len(m) * (1 + nRtx) \in Nat
    BY <1>6, <2>1
  <2>3. IsFiniteSet(g) /\ Cardinality(g) = Cardinality(tasks[t].requested) + Cardinality(Range(m)) - Cardinality(tasks[t].requested \cap Range(m))
    BY <1>4, <1>6, <1>g, FS_Union
  <2>4. Cardinality(tasks[t].requested \cap Range(m)) = 0 /\ Cardinality(tasks[t].requested) \in Nat
    <3>1. tasks[t].requested \cap Range(m) = {} /\ Cardinality({}) = 0
      BY <1>5, FS_EmptySet
    <3> QED
      BY <1>4, <3>1, FS_CardinalityType
  <2>5. Cardinality(g) = Cardinality(tasks[t].requested) + Len(m)
    BY <1>6, <2>3, <2>4
  <2>6. (1 + nRtx) * Cardinality(g) = (1 + nRtx) * Cardinality(tasks[t].requested) + Len(m) * (1 + nRtx)
    BY <1>6, <2>1, <2>4, <2>5, Distributes
  <2>7. (1 + nRtx) * Cardinality(tasks[t].requested) \in Nat
    BY <2>1, <2>4
  <2>8. p <= (1 + nRtx) * Cardinality(g)
    BY <1>4, <1>p, <2>1, <2>2, <2>6, <2>7
  <2>9. p \in Nat /\ g \in SUBSET Segment
    BY <1>6, <1>p, <1>g, <2>1, <2>2
  <2> QED
    BY <2>3, <2>8, <2>9
<1>9. /\ k \in Task /\ k.progress = tasks[t].progress /\ k.frame = tasks[t].frame /\ k.state = tasks[t].state
      /\ k.fetched = tasks[t].fetched /\ k.requested = g /\ k.completion = p
  BY <1>4, <1>8, <1>k, RequestsFields
<1>10. TaskOK(k) /\ isNew(k) = isNew(tasks[t]) /\ tasks[t].requested \subseteq g
  BY <1>4, <1>8, <1>9, <1>g DEF TaskOK, isNew, fetchedData
<1>n. PICK new : new = IF m = <<>> THEN <<>> ELSE <<Request(t, m, FALSE)>>
  OBVIOUS
<1>11. /\ new \in Seq(Call) /\ GoesOn(t, k, new) /\ calls' = new \o Rest
       /\ \A c2 \in Range(new) : WillAsk(c2, t) = Range(m)
       /\ Range(m) # {} => \E c2 \in Range(new) : TRUE
  <2>1. calls' = new \o Rest
    BY <1>2, <1>7, <1>n
  <2>2. CASE m = <<>>
    <3>1. new = <<>>
      BY <1>n, <2>2
    <3>2. Range(m) = {} /\ Range(new) = {} /\ new \in Seq(Call) /\ DOMAIN new = {}
      BY <2>2, <3>1 DEF Range
    <3> QED
      BY <2>1, <3>2 DEF GoesOn
  <2>3. CASE m # <<>>
    <3>1. new = <<Request(t, m, FALSE)>>
      BY <1>n, <2>3
    <3>r. PICK r : r = Request(t, m, FALSE)
      OBVIOUS
    <3>2. r \in Call /\ OfTask(r) /\ r.op = "request" /\ r.task = t /\ r.segs = m
      BY <1>3, <1>5, <3>r, RequestMade
    <3>3. new \in Seq(Call) /\ DOMAIN new = {1} /\ new[1] = r
      <4>1. new = <<r>>
        BY <3>1, <3>r
      <4> QED
        BY <3>2, <4>1
    <3>4. GoesOn(t, k, new)
      BY <1>9, <1>g, <3>2, <3>3 DEF GoesOn
    <3>5. \A c2 \in Range(new) : c2 = r
      BY <3>3 DEF Range
    <3>6. r \in Range(new)
      BY <3>3 DEF Range
    <3> QED
      BY <2>1, <3>2, <3>3, <3>4, <3>5, <3>6 DEF WillAsk
  <2> QED
    BY <2>2, <2>3
<1>12. Progresses(t, k, new)
  BY <1>1, <1>2, <1>3, <1>4, <1>7, <1>9, <1>10, <1>11, <1>c DEF Progresses
<1>13. /\ DOMAIN tasks' = DOMAIN tasks /\ tasks'[t] = k
       /\ \A u \in DOMAIN tasks : u # t => tasks'[u] = tasks[u]
       /\ Range(calls') = Range(new) \cup Range(Rest)
  <2>1. /\ DOMAIN tasks' = DOMAIN tasks
        /\ \A u \in DOMAIN tasks : tasks'[u] = IF u = t THEN k ELSE tasks[u]
        /\ Range(calls') = Range(new) \cup Range(Rest)
    BY <1>12, ProgressStack
  <2> QED
    BY <1>3, <2>1
<1>14. ASSUME tasks[t].state = "Fetching", ~excused' PROVE TaskCounted(t)'
  <2>1. tasks[t].requested \subseteq Segment /\ Unasked(t) = Below(t) \cup WillAsk(c, t)
        /\ Unasked(t) \subseteq tasks[t].requested
    BY <1>1, <1>3, <1>c, UnaskedParts, CountsFinite
  <2>2. Unasked(t) = Below(t)
    BY <1>2, <2>1 DEF WillAsk
  <2>3. \A z \in g : (\E d \in Range(calls') : z \in WillAsk(d, t)) <=> z \in Below(t) \/ z \in Range(m)
    BY <1>8, <1>11, <1>13 DEF Below
  <2>4. Unasked(t)' = {z \in g : \E d \in Range(calls') : z \in WillAsk(d, t)}
    BY <1>9, <1>13 DEF Unasked, WillAsk
  <2>5. Unasked(t)' = Below(t) \cup Range(m)
    BY <1>g, <2>1, <2>2, <2>3, <2>4
  <2>6. Waiting(t) \subseteq Waiting(t)'
    BY <1>1, <1>9, <1>13, <1>g DEF Waiting
  <2>7. Asked(t)' = g \ Unasked(t)' /\ Answered(t)' = Asked(t)' \ Waiting(t)'
    BY <1>9, <1>13 DEF Asked, Answered
  <2>8. Asked(t)' \subseteq Asked(t) \cup {} /\ Answered(t)' \subseteq Answered(t) \cup {}
    BY <1>g, <2>2, <2>5, <2>6, <2>7 DEF Asked, Answered
  <2>9. ASSUME Unasked(t)' = {}, Waiting(t)' = {} PROVE CheckCompletion(t) \in Range(calls')
    <3>1. CheckCompletion(t) \in Range(calls)
      BY <1>1, <1>3, <1>14, <2>2, <2>5, <2>6, <2>9 DEF Counted, TaskCounted
    <3>2. CheckCompletion(t) # c
      BY <1>2 DEF CheckCompletion
    <3> QED
      BY <1>1, <1>13, <1>c, <3>1, <3>2, Stack
  <2>10. IsFiniteSet({}) /\ Cardinality({}) <= 0 /\ 0 \in Nat /\ 0 \in {0, 1}
    BY FS_EmptySet
  <2>11. tasks'[t].progress \in Nat /\ tasks'[t].progress >= tasks[t].progress + 0 + nRtx * 0
    BY <1>4, <1>9, <1>13, FetcherAssumption DEF Task
  <2> QED
    BY <1>1, <1>3, <1>14, <2>8, <2>9, <2>10, <2>11, TaskStaysCounted
<1>15. \A x \in pit' : x[1] \in DOMAIN tasks /\ x[2] \in tasks'[x[1]].requested
  BY <1>1, <1>9, <1>10, <1>13 DEF FetchTypes
<1>16. excused' \in BOOLEAN /\ (~excused' => ~excused)
  BY <1>1 DEF FetchTypes
<1>17. \A u, z : u # t => (<<u, z>> \in pit' <=> <<u, z>> \in pit)
  BY <1>1
<1> QED
  BY <1>12, <1>14, <1>15, <1>16, <1>17, ProgressSuffices

(* A task is created for frame f. *)
Created(f) == Request(Len(tasks) + 1, prepareBatch(f), TRUE)

Spawns(f, new) ==
  /\ f \in Frames
  /\ tasks' = Append(tasks, newTask(f)) /\ current' = [current EXCEPT ![f] = Len(tasks) + 1]
  /\ new \in Seq(Call) /\ calls' = new \o Rest
  /\ \A i \in DOMAIN new :
       \/ i = 1 /\ new[i] = Created(f)
       \/ i = 2 /\ new[i] = FetchDelta(f + 1) /\ f \notin {0, target}
  /\ Created(f) \in Range(new)
  /\ calls # <<>> => Head(calls).op = "delta"
  /\ UNCHANGED <<remote, gop, pit, decoded, reports, excused>>

(* A new task asks for its first batch, the first data segment in it.       *)
LEMMA NewTask ==
  ASSUME FetchTypes, NEW f \in Frames
  PROVE  LET k == newTask(f)
         IN /\ k \in Task /\ TaskOK(k) /\ isNew(k) /\ k.frame = f /\ k.state = "Fetching" /\ k.progress = 0
            /\ k.requested = Range(prepareBatch(f)) /\ D(0) \in k.requested
<1> DEFINE b == prepareBatch(f)
           k == newTask(f)
           n == Len(b)
<1>1. b \in Seq(Segment) /\ IsDistinct(b) /\ n \in Nat \ {0} /\ b[1] = D(0)
  BY Batch
<1>2. IsFiniteSet(Range(b)) /\ Cardinality(Range(b)) = n /\ Range(b) \subseteq Segment
  BY <1>1, RangeOfBatch
<1>3. D(0) \in Range(b)
  <2>1. 1 \in DOMAIN b
    BY <1>1
  <2> QED
    BY <1>1, <2>1 DEF Range
<1>4. nRtx \in Nat /\ f \in Nat
  BY GopShape, FetcherAssumption DEF FetchTypes
<1>5. n * (1 + nRtx) \in Nat /\ n * (1 + nRtx) = (1 + nRtx) * n
  BY <1>1, <1>4
<1>6. /\ k.frame = f /\ k.state = "Fetching" /\ k.progress = 0 /\ k.fetched = {}
      /\ k.requested = Range(b) /\ k.completion = n * (1 + nRtx)
  BY DEF newTask
<1>7. k \in Task
  <2> DEFINE p == n * (1 + nRtx)
             R == Range(b)
  <2>1. k = [frame |-> f, state |-> "Fetching", progress |-> 0, fetched |-> {}, requested |-> R, completion |-> p]
    BY DEF newTask
  <2>2. p \in Nat /\ R \in SUBSET Segment
    BY <1>2, <1>5
  <2> HIDE DEF p, R, k
  <2> QED
    BY <1>4, <2>1, <2>2 DEF Task, States
<1> HIDE DEF b, k, n
<1>8. TaskOK(k) /\ isNew(k)
  BY <1>2, <1>5, <1>6 DEF TaskOK, isNew, fetchedData
<1> QED
  BY <1>3, <1>6, <1>7, <1>8 DEF b, k

(* A new task on the stack keeps the types, the nesting and the counts.     *)
LEMMA SpawnKeeps ==
  ASSUME FetchInv, NEW f, NEW new, Spawns(f, new), fetcher' \in {fetcher, "Fetching"}
  PROVE  /\ FetchTypes' /\ Nested' /\ Counted' /\ Decodes'
         /\ DOMAIN tasks' = DOMAIN tasks \cup {Len(tasks) + 1} /\ Len(tasks) + 1 \notin DOMAIN tasks
         /\ Len(tasks) + 1 # 0
         /\ \A u \in DOMAIN tasks : tasks'[u] = tasks[u]
         /\ tasks'[Len(tasks) + 1].frame = f /\ isNew(tasks'[Len(tasks) + 1])
         /\ tasks'[Len(tasks) + 1].state = "Fetching"
         /\ Range(calls') = Range(new) \cup Range(Rest)
<1>1. /\ FetchTypes /\ Nested /\ Counted /\ tasks \in Seq(Task) /\ gop' = gop /\ f \in Frames
      /\ new \in Seq(Call) /\ calls' = new \o Rest /\ Created(f) \in Range(new)
      /\ \A i \in DOMAIN new :
           \/ i = 1 /\ new[i] = Created(f)
           \/ i = 2 /\ new[i] = FetchDelta(f + 1) /\ f \notin {0, target}
      /\ tasks' = Append(tasks, newTask(f)) /\ current' = [current EXCEPT ![f] = Len(tasks) + 1]
  BY DEF FetchInv, FetchTypes, Spawns
<1>k. PICK k : k = newTask(f)
  OBVIOUS
<1>n. PICK n : n = Len(tasks) + 1
  OBVIOUS
<1>2. /\ k \in Task /\ TaskOK(k) /\ isNew(k) /\ k.frame = f /\ k.state = "Fetching" /\ k.progress = 0
      /\ k.requested = Range(prepareBatch(f)) /\ D(0) \in k.requested
  BY <1>1, <1>k, NewTask
<1>3. /\ tasks' \in Seq(Task) /\ DOMAIN tasks = 1..Len(tasks) /\ DOMAIN tasks' = DOMAIN tasks \cup {n}
      /\ n \in Nat /\ n # 0 /\ n \notin DOMAIN tasks
      /\ \A u \in DOMAIN tasks : tasks'[u] = tasks[u]
      /\ tasks'[n] = k
  BY <1>1, <1>2, <1>k, <1>n, TaskAdded
<1>r. PICK r : r = Created(f)
  OBVIOUS
<1>4. r \in Call /\ OfTask(r) /\ r.op = "request" /\ r.task = n /\ r.segs = prepareBatch(f) /\ r \in Range(new)
  <2>b. PICK b : b = prepareBatch(f)
    OBVIOUS
  <2>1. b \in Seq(Segment) /\ n \in Nat /\ TRUE \in BOOLEAN
    BY <1>3, <2>b, Batch
  <2>q. PICK q : q = Request(n, b, TRUE)
    OBVIOUS
  <2>2. q \in Call /\ OfTask(q) /\ q.op = "request" /\ q.task = n /\ q.segs = b
    <3>1. q \in Call
      <4>1. \A start \in BOOLEAN : Request(n, b, start) \in Call
        BY <2>1 DEF Call
      <4> QED
        BY <2>q, <4>1
    <3> QED
      BY <2>q, <3>1 DEF Request, OfTask
  <2>3. r = q
    BY <1>n, <1>r, <2>b, <2>q DEF Created
  <2> QED
    BY <1>1, <1>r, <2>b, <2>2, <2>3
<1>5. target \in Nat /\ Frames = 0..target /\ target' = target /\ Frames' = Frames /\ f \in 0..target
  BY <1>1, GopShape DEF FetchTypes, target, Frames, NData
<1>d. PICK d : d = FetchDelta(f + 1)
  OBVIOUS
<1>6. d \in Call /\ d.op = "delta" /\ d.frame = f + 1 /\ ~OfTask(d) /\ d # FetchDelta(0) /\ d # Decode
  <2>1. f + 1 \in Nat /\ f + 1 # 0 /\ FetchDelta(0).frame = 0 /\ Decode.op = "decode"
    BY <1>5, CallsMade
  <2> QED
    BY <1>d, <2>1, CallsMade DEF OfTask
<1>7. /\ \A i \in DOMAIN new : (i = 1 /\ new[i] = r) \/ (i = 2 /\ new[i] = d /\ f \notin {0, target})
      /\ \A a \in Range(new) : a = r \/ (a = d /\ f \notin {0, target})
  BY <1>1, <1>r, <1>d DEF Range
<1>8. FramesKept
  BY <1>1, <1>3 DEF FramesKept
<1>9. ASSUME NEW i \in DOMAIN new, NEW j \in DOMAIN new, i < j PROVE MayRest(tasks', new[i], new[j])
  <2>1. new[i] = r /\ new[j] = d /\ f \notin {0, target}
    BY <1>7, <1>9
  <2> QED
    BY <1>2, <1>3, <1>4, <1>6, <2>1 DEF MayRest
<1>10. ASSUME NEW a \in Range(new), NEW b \in Range(Rest) PROVE MayRest(tasks', a, b)
  <2>1. calls # <<>>
    BY <1>1, <1>10, Stack
  <2>2. /\ MayRest(tasks, Head(calls), b) /\ b # Decode /\ b # FetchDelta(0) /\ b \in Call /\ CallOK(b)
        /\ Head(calls).op = "delta"
    BY <1>1, <1>10, <2>1, Stack DEF Spawns
  <2>3. Head(calls) # Decode /\ ~OfTask(Head(calls))
    BY <2>2, CallsMade DEF OfTask
  <2>4. b.op # "delta"
    BY <2>2, <2>3 DEF MayRest
  <2>5. b.op = "missing" => b.task \in DOMAIN tasks
    BY <2>2 DEF CallOK, OfTask
  <2>6. CASE a = r
    BY <1>3, <1>4, <2>2, <2>4, <2>5, <2>6 DEF MayRest
  <2>7. CASE a = d
    BY <1>6, <2>2, <2>4, <2>7 DEF MayRest
  <2> QED
    BY <1>7, <2>6, <2>7
<1>11. Nested' /\ calls' \in Seq(Call) /\ Range(calls') = Range(new) \cup Range(Rest)
  BY <1>1, <1>8, <1>9, <1>10, NestedKept
<1>12. ASSUME NEW c \in Range(calls') PROVE CallOK(c)'
  <2>1. CASE c = r
    <3>1. c.op # "delta"
      BY <1>4, <2>1
    <3> QED
      BY <1>2, <1>3, <1>4, <2>1, <3>1 DEF CallOK
  <2>2. CASE c = d /\ f \notin {0, target}
    <3>1. d.frame \in 0..target /\ target # 0 /\ d.op # "request"
      BY <1>5, <1>6, <2>2
    <3> QED
      BY <1>5, <1>6, <2>2, <3>1 DEF CallOK
  <2>3. CASE c \in Range(Rest)
    <3>1. c \in Call /\ CallOK(c)
      BY <1>1, <2>3, Stack
    <3>2. c.op = "request" => OfTask(c)
      BY DEF OfTask
    <3> QED
      BY <1>3, <1>5, <3>1, <3>2 DEF CallOK
  <2> QED
    BY <1>7, <1>11, <2>1, <2>2, <2>3
<1>13. FetchTypes'
  <2>1. \A u \in DOMAIN tasks' : TaskOK(tasks'[u])
    BY <1>1, <1>2, <1>3 DEF FetchTypes
  <2>2. \A u \in DOMAIN tasks' : TaskOK(tasks[u])'
    BY <1>5, <2>1 DEF TaskOK
  <2>3. current' \in [Frames -> Nat] /\ \A e \in Frames : current'[e] = IF e = f THEN n ELSE current[e]
    BY <1>1, <1>3, <1>n DEF FetchTypes
  <2>4. \A e \in Frames : current'[e] # 0 => current'[e] \in DOMAIN tasks' /\ tasks'[current'[e]].frame = e
    BY <1>1, <1>2, <1>3, <2>3 DEF FetchTypes
  <2>5. \A x \in pit : x[1] \in DOMAIN tasks' /\ x[2] \in tasks'[x[1]].requested
    BY <1>1, <1>3 DEF FetchTypes
  <2>6. /\ remote' \in BOOLEAN /\ gop' \in Gops /\ pit' = pit /\ reports' \in Seq({"failed", "fetched"})
        /\ excused' \in BOOLEAN /\ fetcher' \in {"Idle", "Fetching", "Decoding", "Failed", "Completed"}
    BY <1>1 DEF FetchTypes, Spawns
  <2> QED
    BY <1>3, <1>5, <1>11, <1>12, <2>2, <2>3, <2>4, <2>5, <2>6 DEF FetchTypes
<1>14. Counted'
  <2> SUFFICES ASSUME NEW u \in DOMAIN tasks', tasks'[u].state = "Fetching", ~excused' PROVE TaskCounted(u)'
    BY DEF Counted
  <2>1. excused' = excused /\ pit' = pit
    BY DEF Spawns
  <2>2. CASE u \in DOMAIN tasks
    <3>1. tasks'[u] = tasks[u] /\ u # n
      BY <1>3, <2>2
    <3>2. ASSUME NEW c, OfTask(c), c.task = u PROVE c \in Range(calls') <=> c \in Range(calls)
      <4>1. c \notin Range(new)
        BY <1>4, <1>6, <1>7, <3>1, <3>2
      <4>2. CASE calls = <<>>
        BY <1>1, <1>11, <4>1, <4>2, Stack
      <4>3. CASE calls # <<>>
        <5>1. Range(calls) = {Head(calls)} \cup Range(Rest) /\ Head(calls).op = "delta"
          BY <1>1, <4>3, Stack DEF Spawns
        <5> QED
          BY <1>11, <3>2, <4>1, <5>1 DEF OfTask
      <4> QED
        BY <4>2, <4>3
    <3> QED
      BY <1>1, <2>1, <2>2, <3>1, <3>2, OthersCounted
  <2>3. CASE u = n
    <3>1. r \in Range(calls') /\ WillAsk(r, u) = k.requested
      BY <1>2, <1>4, <1>11, <2>3 DEF WillAsk
    <3>2. Unasked(u)' = k.requested
      BY <1>3, <2>3, <3>1 DEF Unasked, WillAsk
    <3>3. Unasked(u)' # {}
      BY <1>2, <3>2
    <3>4. Asked(u)' = {} /\ Answered(u)' = {}
      BY <1>3, <2>3, <3>2 DEF Asked, Answered
    <3>5. Cardinality({}) = 0 /\ nRtx * 0 = 0 /\ 0 >= 0 + 0
      BY FS_EmptySet, FetcherAssumption
    <3>6. tasks'[u].progress = 0
      BY <1>2, <1>3, <2>3
    <3>7. tasks'[u].progress >= Cardinality(Asked(u)') + nRtx * Cardinality(Answered(u)')
      BY <3>4, <3>5, <3>6
    <3> QED
      BY <3>3, <3>7 DEF TaskCounted
  <2> QED
    BY <1>3, <2>2, <2>3
<1>15. Decode \notin Range(calls')
  <2>1. Decode \notin Range(Rest)
    <3>1. CASE calls = <<>>
      BY <1>1, <3>1, Stack
    <3>2. CASE calls # <<>>
      BY <1>1, <3>2, Stack
    <3> QED
      BY <3>1, <3>2
  <2>2. r # Decode
    BY <1>4, CallsMade
  <2> QED
    BY <1>6, <1>7, <1>11, <2>1, <2>2
<1>16. Decodes'
  BY <1>15 DEF Decodes, Decode
<1> QED
  BY <1>2, <1>3, <1>11, <1>13, <1>14, <1>16, <1>n

(* With a second task for a frame nothing is promised about the outcome;    *)
(* while the GOP is decoded every frame has its task.                       *)
LEMMA SpawnOutcome ==
  ASSUME FetchInv, NEW f, NEW new, Spawns(f, new), fetcher' # "Idle",
         fetcher' = fetcher \/ (fetcher = "Idle" /\ fetcher' = "Fetching")
  PROVE  Outcome'
<1>1. /\ DOMAIN tasks' = DOMAIN tasks \cup {Len(tasks) + 1} /\ Len(tasks) + 1 \notin DOMAIN tasks
      /\ \A u \in DOMAIN tasks : tasks'[u] = tasks[u]
      /\ tasks'[Len(tasks) + 1].frame = f
  BY SpawnKeeps
<1>n. PICK n : n = Len(tasks) + 1
  OBVIOUS
<1>2. FetchTypes /\ Outcome /\ f \in Frames /\ gop' = gop /\ decoded' = decoded /\ reports' = reports
  BY DEF FetchInv, Spawns
<1>3. OneTaskPerFrame' => OneTaskPerFrame
  BY <1>1 DEF OneTaskPerFrame
<1>4. OneTaskPerFrame' /\ AllEnded => FALSE
  <2> SUFFICES ASSUME OneTaskPerFrame', AllEnded PROVE FALSE
    OBVIOUS
  <2>1. PICK t \in DOMAIN tasks : tasks[t].frame = f
    BY <1>2 DEF AllEnded
  <2>2. t \in DOMAIN tasks' /\ n \in DOMAIN tasks' /\ tasks'[t].frame = tasks'[n].frame /\ t # n
    BY <1>1, <1>n, <2>1
  <2> QED
    BY <2>2 DEF OneTaskPerFrame
<1>5. DecodesWholeGop'
  BY <1>2 DEF Outcome, DecodesWholeGop, target
<1> QED
  BY <1>2, <1>3, <1>4, <1>5 DEF Outcome

(* The target is asked for. *)
LEMMA FetchSpawns ==
  ASSUME FetchInv, Fetch
  PROVE  /\ FetchTypes /\ fetcher = "Idle" /\ fetcher' = "Fetching" /\ tasks = <<>>
         /\ target \in Frames /\ \E new : Spawns(target, new)
<1>1. /\ FetchTypes /\ fetcher = "Idle" /\ fetcher' = "Fetching" /\ tasks = <<>> /\ calls = <<>>
      /\ Rest = <<>> /\ Spawn(target, <<>>)
      /\ UNCHANGED <<remote, gop, pit, decoded, reports, excused>>
  BY DEF FetchInv, Outcome, Fetch, Rest
<1>2. target \in Frames /\ target \in Nat /\ Frames = 0..target /\ target' = target
  BY <1>1, GopShape DEF FetchTypes, target
<1>3. newTask(target) \in Task /\ tasks \in Seq(Task)
  BY <1>1, <1>2, NewTask
<1>4. Len(tasks') = Len(tasks) + 1 /\ Len(tasks) + 1 \in Nat
  BY <1>1, <1>3, TaskAdded DEF Spawn
<1>c. PICK c : c = Created(target)
  OBVIOUS
<1>n. PICK new : new = <<c>>
  OBVIOUS
<1>5. c \in Call
  <2>1. prepareBatch(target) \in Seq(Segment)
    BY Batch
  <2> QED
    BY <1>4, <1>c, <2>1, RequestMade DEF Created
<1>6. new \in Seq(Call) /\ DOMAIN new = {1} /\ new[1] = c /\ Range(new) = {c}
  BY <1>5, <1>n DEF Range
<1>7. calls' = <<c>> \o <<>>
  BY <1>1, <1>4, <1>c DEF Spawn, Created
<1>8. calls' = new \o Rest
  BY <1>1, <1>7, <1>n
<1>9. Spawns(target, new)
  BY <1>1, <1>2, <1>4, <1>6, <1>8, <1>c DEF Spawns, Spawn
<1> QED
  BY <1>1, <1>2, <1>9

(* fetch                                                                    *)
LEMMA FetchKeeps == FetchInv /\ Fetch => FetchInv'
<1> SUFFICES ASSUME FetchInv, Fetch PROVE FetchInv'
  OBVIOUS
<1>1. /\ FetchTypes /\ fetcher = "Idle" /\ fetcher' = "Fetching" /\ tasks = <<>> /\ gop' = gop
      /\ target \in Frames /\ current \in [Frames -> Nat]
  BY FetchSpawns DEF Fetch, FetchTypes
<1>2. target' = target
  BY <1>1 DEF target
<1>9. PICK new : Spawns(target, new)
  BY FetchSpawns
<1>4. current' = [current EXCEPT ![target] = Len(tasks) + 1]
  BY <1>9 DEF Spawns
<1>10. /\ FetchTypes' /\ Nested' /\ Counted' /\ Decodes'
       /\ DOMAIN tasks' = DOMAIN tasks \cup {Len(tasks) + 1} /\ Len(tasks) + 1 # 0
       /\ isNew(tasks'[Len(tasks) + 1])
       /\ tasks'[Len(tasks) + 1].state = "Fetching"
  BY <1>1, <1>9, SpawnKeeps
<1>11. Outcome'
  BY <1>1, <1>9, SpawnOutcome
<1>12. \A u \in DOMAIN tasks' : isNew(tasks'[u]) /\ tasks'[u].state # "Completed"
  BY <1>1, <1>10
<1>13. \A u \in DOMAIN tasks' : isNew(tasks[u])'
  BY <1>1, <1>12 DEF isNew, fetchedData, DataSegments, NData
<1>14. current'[target] # 0
  BY <1>1, <1>2, <1>4, <1>10
<1>15. Learns'
  BY <1>2, <1>12, <1>13, <1>14 DEF Learns, TaskLearns
<1> QED
  BY <1>10, <1>11, <1>15 DEF FetchInv

(* The loop of fetchGopDelta goes on until each frame has its task. *)
LoopGoesOn(j) ==
  /\ gop' = gop /\ fetcher' = fetcher /\ calls # <<>> /\ Head(calls) = FetchDelta(j) /\ j \in 0..target
  /\ \A u \in DOMAIN tasks : u \in DOMAIN tasks' /\ tasks'[u] = tasks[u]
  /\ \A u \in DOMAIN tasks' : u \in DOMAIN tasks \/ (isNew(tasks'[u]) /\ tasks'[u].state # "Completed")
  /\ \A m \in Frames : current[m] # 0 => current'[m] # 0
  /\ Range(Rest) \subseteq Range(calls')
  /\ j = 0 => current'[0] # 0
  /\ 0 < j /\ j < target => current'[j] # 0 /\ FetchDelta(j + 1) \in Range(calls')

(* While fetchGopDelta goes on, the tasks that are to come are known to     *)
(* come.                                                                    *)
LEMMA LoopLearns ==
  ASSUME FetchInv, NEW j, LoopGoesOn(j)
  PROVE  Learns'
<1>1. FetchTypes /\ Learns /\ calls # <<>> /\ gop' = gop /\ fetcher' = fetcher
  BY DEF FetchInv, LoopGoesOn
<1>2. /\ target' = target /\ Frames' = Frames /\ target \in Nat /\ Frames = 0..target /\ NData' = NData
      /\ target \in Frames /\ 0 \in Frames
  BY <1>1, GopShape DEF target, Frames, NData, FetchTypes
<1> SUFFICES ASSUME fetcher = "Fetching" PROVE (current[target] # 0 /\ (target # 0 => \A t \in DOMAIN tasks : TaskLearns(t)))'
  BY <1>1 DEF Learns
<1>3. current'[target] # 0
  BY <1>1, <1>2 DEF Learns, LoopGoesOn
<1>4. \A u \in DOMAIN tasks' : isNew(tasks[u])' = isNew(tasks'[u])
  BY <1>2 DEF isNew, fetchedData, DataSegments
<1>5. Range(calls) = {FetchDelta(j)} \cup Range(Rest)
  BY <1>1, Stack DEF LoopGoesOn
<1>6. \A m, n \in Nat : FetchDelta(m) = FetchDelta(n) => m = n
  BY DEF FetchDelta
<1>7. j \in Nat /\ j <= target
  BY <1>2 DEF LoopGoesOn
<1>8. FetchDelta(0) \in Range(calls) => current'[0] # 0 \/ FetchDelta(0) \in Range(calls')
  BY <1>5, <1>6, <1>7 DEF LoopGoesOn
<1>9. ASSUME NEW n \in 1..target - 1, Deltas(n) PROVE current'[n] # 0 \/ Deltas(n)'
  <2>1. PICK i \in 1..n : FetchDelta(i) \in Range(calls)
    BY <1>9 DEF Deltas
  <2>2. CASE FetchDelta(i) \in Range(Rest)
    BY <2>2 DEF Deltas, LoopGoesOn
  <2>3. CASE FetchDelta(i) = FetchDelta(j)
    <3>1. j = i /\ 0 < j /\ j < target
      BY <1>2, <1>6, <1>7, <2>3
    <3>2. current'[j] # 0 /\ FetchDelta(j + 1) \in Range(calls')
      BY <3>1 DEF LoopGoesOn
    <3>3. CASE j = n
      BY <3>2, <3>3
    <3>4. CASE j # n
      <4>1. j + 1 \in 1..n
        BY <3>1, <3>4
      <4> QED
        BY <3>2, <4>1 DEF Deltas
    <3> QED
      BY <3>3, <3>4
  <2> QED
    BY <1>5, <2>1, <2>2, <2>3
<1>10. ASSUME target # 0, NEW u \in DOMAIN tasks' PROVE TaskLearns(u)'
  <2>1. CASE u \in DOMAIN tasks
    <3>1. TaskLearns(u) /\ tasks'[u] = tasks[u]
      BY <1>1, <1>10, <2>1 DEF Learns, LoopGoesOn
    <3>2. isNew(tasks[u])' = isNew(tasks[u])
      BY <1>4, <1>10, <3>1
    <3>3. \A m \in Frames : current[m] # 0 => current'[m] # 0
      BY DEF LoopGoesOn
    <3>4. ASSUME tasks[u].frame = target
          PROVE  /\ ~isNew(tasks[u])' => current'[0] # 0 \/ FetchDelta(0) \in Range(calls')
                 /\ tasks[u].state = "Completed" => current'[0] # 0
      BY <1>2, <1>8, <3>1, <3>2, <3>3, <3>4 DEF TaskLearns
    <3>5. ASSUME tasks[u].frame = 0, NEW n \in 1..target - 1
          PROVE  /\ ~isNew(tasks[u])' => current'[n] # 0 \/ Deltas(n)'
                 /\ tasks[u].state = "Completed" => current'[n] # 0
      <4>1. n \in Frames
        BY <1>2
      <4> QED
        BY <1>9, <3>1, <3>2, <3>3, <3>5, <4>1 DEF TaskLearns
    <3> QED
      BY <1>2, <3>1, <3>4, <3>5 DEF TaskLearns, FetchDelta
  <2>2. CASE u \notin DOMAIN tasks
    <3>1. isNew(tasks'[u]) /\ tasks'[u].state # "Completed"
      BY <1>10, <2>2 DEF LoopGoesOn
    <3> QED
      BY <1>4, <1>10, <3>1 DEF TaskLearns
  <2> QED
    BY <2>1, <2>2
<1> QED
  BY <1>2, <1>3, <1>10

(* A frame is created in the loop. *)
LEMMA LoopSpawns ==
  ASSUME FetchInv, NEW j, NEW new, Spawns(j, new), calls # <<>>, Head(calls) = FetchDelta(j), fetcher' = fetcher,
         0 < j /\ j < target => FetchDelta(j + 1) \in Range(new)
  PROVE  FetchInv'
<1>1. FetchTypes /\ Outcome /\ fetcher # "Idle" /\ j \in Frames /\ gop' = gop
  BY DEF FetchInv, Outcome, Spawns
<1>2. target \in Nat /\ Frames = 0..target
  BY <1>1, GopShape DEF FetchTypes
<1>3. /\ FetchTypes' /\ Nested' /\ Counted' /\ Decodes'
      /\ DOMAIN tasks' = DOMAIN tasks \cup {Len(tasks) + 1} /\ Len(tasks) + 1 # 0
      /\ \A u \in DOMAIN tasks : tasks'[u] = tasks[u]
      /\ isNew(tasks'[Len(tasks) + 1])
      /\ tasks'[Len(tasks) + 1].state = "Fetching"
      /\ Range(calls') = Range(new) \cup Range(Rest)
  BY SpawnKeeps
<1>4. \A m \in Frames : current'[m] = IF m = j THEN Len(tasks) + 1 ELSE current[m]
  BY <1>1 DEF FetchTypes, Spawns
<1>5. LoopGoesOn(j)
  BY <1>1, <1>2, <1>3, <1>4 DEF LoopGoesOn
<1>6. Learns'
  BY <1>5, LoopLearns
<1>7. Outcome'
  BY <1>1, SpawnOutcome
<1> QED
  BY <1>3, <1>6, <1>7 DEF FetchInv

(* A turn of the loop over the GOP makes a task, or ends the loop at the    *)
(* target.                                                                  *)
LEMMA LoopSteps ==
  ASSUME FetchInv, FetchGop, NEW j, j = Head(calls).frame
  PROVE  /\ FetchTypes /\ calls # <<>> /\ Head(calls) = FetchDelta(j) /\ fetcher' = fetcher /\ j \in Frames
         /\ \/ \E new : Spawns(j, new) /\ (0 < j /\ j < target => FetchDelta(j + 1) \in Range(new))
            \/ j = target /\ calls' = Rest /\ tasks' = tasks /\ current' = current
<1>1. /\ FetchTypes /\ Nested /\ Counted /\ Outcome /\ calls # <<>> /\ Head(calls).op = "delta"
      /\ UNCHANGED <<remote, stored, gop, fetcher, pit, decoded, reports, excused>>
      /\ tasks \in Seq(Task) /\ fetcher # "Idle"
  BY DEF FetchInv, FetchTypes, FetchGop, Top, Outcome
<1>j. j = Head(calls).frame
  OBVIOUS
<1>2. /\ Head(calls) = FetchDelta(j) /\ j \in 0..target /\ target # 0 /\ Rest = Tail(calls) /\ Rest \in Seq(Call)
      /\ ~OfTask(Head(calls))
  BY <1>1, <1>j, Stack, CallFacts DEF CallOK, OfTask
<1>3. target \in Nat /\ Frames = 0..target /\ j \in Frames /\ target' = target /\ Frames' = Frames /\ NData' = NData
  BY <1>1, <1>2, GopShape DEF FetchTypes, target, Frames, NData
<1>4. Len(Append(tasks, newTask(j))) = Len(tasks) + 1 /\ Len(tasks) + 1 \in Nat
  BY <1>1, <1>3, NewTask, TaskAdded
<1>c. PICK c : c = Created(j)
  OBVIOUS
<1>5. c \in Call
  <2>1. prepareBatch(j) \in Seq(Segment)
    BY Batch
  <2> QED
    BY <1>4, <1>c, <2>1, RequestMade DEF Created
<1>6. CASE j = 0
  <2>n. PICK new : new = <<c>>
    OBVIOUS
  <2>1. Spawn(0, Tail(calls))
    BY <1>6, <1>j DEF FetchGop
  <2>2. tasks' = Append(tasks, newTask(0)) /\ current' = [current EXCEPT ![0] = Len(tasks) + 1]
    BY <1>4, <1>6, <2>1 DEF Spawn
  <2>3. calls' = <<Created(0)>> \o Tail(calls)
    BY <1>4, <1>6, <2>1 DEF Spawn, Created
  <2>4. calls' = new \o Rest
    BY <1>2, <1>6, <1>c, <2>3, <2>n
  <2>5. new \in Seq(Call) /\ DOMAIN new = {1} /\ new[1] = c /\ Range(new) = {c}
    BY <1>5, <2>n DEF Range
  <2>6. Spawns(j, new)
    BY <1>1, <1>3, <1>6, <1>c, <2>2, <2>4, <2>5 DEF Spawns
  <2> QED
    BY <1>1, <1>2, <1>3, <1>6, <2>6
<1>7. CASE 0 < j /\ j < target
  <2>d. PICK d : d = FetchDelta(j + 1)
    OBVIOUS
  <2>n. PICK new : new = <<c, d>>
    OBVIOUS
  <2>1. Spawn(j, <<FetchDelta(j + 1)>> \o Tail(calls))
    BY <1>7, <1>j DEF FetchGop
  <2>2. tasks' = Append(tasks, newTask(j)) /\ current' = [current EXCEPT ![j] = Len(tasks) + 1]
    BY <1>4, <2>1 DEF Spawn
  <2>3. calls' = <<c>> \o (<<d>> \o Tail(calls))
    BY <1>4, <1>c, <2>d, <2>1 DEF Spawn, Created
  <2>4. d \in Call
    BY <1>3, <2>d, CallsMade
  <2>5. calls' = new \o Rest
    BY <1>2, <1>5, <2>3, <2>4, <2>n
  <2>6. new \in Seq(Call) /\ DOMAIN new = {1, 2} /\ new[1] = c /\ new[2] = d /\ Range(new) = {c, d}
    BY <1>5, <2>4, <2>n DEF Range
  <2>7. Spawns(j, new)
    BY <1>1, <1>3, <1>7, <1>c, <2>d, <2>2, <2>5, <2>6 DEF Spawns
  <2> QED
    BY <1>1, <1>2, <1>3, <2>6, <2>7, <2>d
<1>8. CASE j = target
  BY <1>1, <1>2, <1>3, <1>8, <1>j DEF FetchGop
<1> QED
  BY <1>2, <1>3, <1>6, <1>7, <1>8

(* fetchGopKey and fetchGopDelta *)
LEMMA FetchGopKeeps == FetchInv /\ FetchGop => FetchInv'
<1> SUFFICES ASSUME FetchInv, FetchGop PROVE FetchInv'
  OBVIOUS
<1>1. /\ FetchTypes /\ Nested /\ Counted /\ Outcome /\ calls # <<>> /\ Head(calls).op = "delta"
      /\ UNCHANGED <<remote, stored, gop, fetcher, pit, decoded, reports, excused>>
      /\ tasks \in Seq(Task) /\ fetcher # "Idle"
  BY DEF FetchInv, FetchTypes, FetchGop, Top, Outcome
<1>j. PICK j : j = Head(calls).frame
  OBVIOUS
<1>2. /\ Head(calls) = FetchDelta(j) /\ j \in 0..target /\ target # 0 /\ Rest = Tail(calls) /\ Rest \in Seq(Call)
      /\ ~OfTask(Head(calls))
  BY <1>1, <1>j, Stack, CallFacts DEF CallOK, OfTask
<1>3. target \in Nat /\ Frames = 0..target /\ j \in Frames /\ target' = target /\ Frames' = Frames /\ NData' = NData
  BY <1>1, <1>2, GopShape DEF FetchTypes, target, Frames, NData
<1>4. CASE \E new : Spawns(j, new) /\ (0 < j /\ j < target => FetchDelta(j + 1) \in Range(new))
  <2>1. PICK new : Spawns(j, new) /\ (0 < j /\ j < target => FetchDelta(j + 1) \in Range(new))
    BY <1>4
  <2> QED
    BY <1>1, <1>2, <2>1, LoopSpawns
<1>8. CASE j = target /\ calls' = Rest /\ tasks' = tasks /\ current' = current
  <2>1. calls' = Rest /\ tasks' = tasks /\ current' = current
    BY <1>8
  <2>2. <<>> \in Seq(Call) /\ calls' = <<>> \o Rest /\ DOMAIN <<>> = {} /\ Range(<<>>) = {}
    BY <1>2, <2>1 DEF Range
  <2>3. FramesKept
    BY <1>1, <2>1 DEF FramesKept
  <2>4. Nested'
    BY <1>1, <2>2, <2>3, NestedKept
  <2>5. \A x \in Range(Rest) : x \in Call /\ CallOK(x) /\ x \in Range(calls) /\ x # Decode
    BY <1>1, Stack
  <2>6. FetchTypes'
    <3>1. \A x \in Range(Rest) : CallOK(x)'
      BY <1>3, <2>1, <2>5 DEF CallOK
    <3>2. \A u \in DOMAIN tasks : TaskOK(tasks[u])'
      BY <1>1, <1>3, <2>1 DEF FetchTypes, TaskOK
    <3> QED
      BY <1>1, <1>2, <1>3, <2>1, <3>1, <3>2 DEF FetchTypes
  <2>7. \A x : OfTask(x) => (x \in Range(calls') <=> x \in Range(calls))
    BY <1>1, <1>2, <2>1, Stack
  <2>8. Counted'
    <3> SUFFICES ASSUME NEW u \in DOMAIN tasks, tasks'[u].state = "Fetching", ~excused' PROVE TaskCounted(u)'
      BY <2>1 DEF Counted
    <3> QED
      BY <1>1, <2>1, <2>7, OthersCounted
  <2>9. LoopGoesOn(j)
    BY <1>1, <1>2, <1>3, <1>8, <2>1 DEF LoopGoesOn
  <2>10. Learns'
    BY <2>9, LoopLearns
  <2>11. Decodes'
    BY <2>1, <2>5 DEF Decodes, Decode
  <2>12. Outcome'
    BY <1>1, <1>3, <2>1 DEF Outcome, OneTaskPerFrame, AllEnded, DecodesWholeGop
  <2> QED
    BY <2>4, <2>6, <2>8, <2>10, <2>11, <2>12 DEF FetchInv
<1> QED
  BY <1>4, <1>8, <1>j, LoopSteps

(* A task has ended, or nothing has changed of it. *)
MayEnd(k, l) ==
  /\ l \in Task /\ l.frame = k.frame /\ l.fetched = k.fetched /\ l.requested = k.requested
  /\ l.progress = k.progress /\ l.completion = k.completion
  /\ l.state = k.state \/ l.state # "Fetching"

(* The handler on top, checkCompletion or decode, returns; tasks may have ended. *)
Ends(new) ==
  /\ calls # <<>> /\ Head(calls).op \in {"completion", "decode"}
  /\ new \in {<<>>, <<Decode>>} /\ calls' = new \o Rest
  /\ tasks' \in Seq(Task) /\ DOMAIN tasks' = DOMAIN tasks
  /\ \A u \in DOMAIN tasks : MayEnd(tasks[u], tasks'[u])
  /\ current' \in [Frames -> Nat] /\ \A f \in Frames : current'[f] \in {0, current[f]}
  /\ UNCHANGED <<remote, gop, pit>>
  /\ excused' \in BOOLEAN /\ (~excused' => ~excused)
  /\ fetcher' \in {"Fetching", "Decoding", "Failed", "Completed"}
  /\ reports' \in Seq({"failed", "fetched"})

(* A task that ends keeps the types, the nesting and the counts of the      *)
(* others.                                                                  *)
LEMMA EndsKeep ==
  ASSUME FetchInv, NEW new, Ends(new)
  PROVE  /\ FetchTypes' /\ Nested' /\ Range(calls') = Range(new) \cup Range(Rest)
         /\ \A u \in DOMAIN tasks :
              tasks'[u].state = "Fetching" /\ ~excused' /\ (Head(calls).op = "completion" => Head(calls).task # u) =>
                TaskCounted(u)'
<1>1. /\ FetchTypes /\ Nested /\ Counted /\ calls # <<>> /\ Head(calls).op \in {"completion", "decode"}
      /\ gop' = gop /\ tasks' \in Seq(Task) /\ DOMAIN tasks' = DOMAIN tasks /\ pit' = pit
      /\ \A u \in DOMAIN tasks : MayEnd(tasks[u], tasks'[u])
      /\ calls' = new \o Rest /\ new \in {<<>>, <<Decode>>}
  BY DEF FetchInv, Ends
<1>2. /\ target' = target /\ Frames' = Frames
  BY <1>1 DEF target, Frames, NData
<1>3. /\ Rest \in Seq(Call) /\ \A c \in Range(Rest) : c \in Call /\ CallOK(c) /\ c # Decode /\ c # FetchDelta(0)
      /\ \A c \in Range(Rest) : MayRest(tasks, Head(calls), c)
      /\ Range(calls) = {Head(calls)} \cup Range(Rest)
  BY <1>1, Stack
<1>4. Decode \in Call /\ Decode.op = "decode" /\ ~OfTask(Decode)
  BY CallsMade DEF OfTask
<1>5. new \in Seq(Call) /\ \A i \in DOMAIN new : i = 1 /\ new[i] = Decode
  <2>1. CASE new = <<>>
    BY <2>1
  <2>2. CASE new = <<Decode>>
    BY <1>4, <2>2
  <2> QED
    BY <1>1, <2>1, <2>2
<1>6. \A a \in Range(new) : a = Decode
  BY <1>5 DEF Range
<1>7. FramesKept
  BY <1>1 DEF FramesKept, MayEnd
<1>8. \A a \in Range(new) : \A b \in Range(Rest) : MayRest(tasks', a, b)
  BY <1>3, <1>4, <1>6 DEF MayRest
<1>9. \A i, j \in DOMAIN new : i < j => MayRest(tasks', new[i], new[j])
  BY <1>5
<1>10. Nested' /\ calls' \in Seq(Call) /\ Range(calls') = Range(new) \cup Range(Rest)
  BY <1>1, <1>5, <1>7, <1>8, <1>9, NestedKept
<1>11. ASSUME NEW c \in Range(calls') PROVE CallOK(c)'
  <2>1. CASE c = Decode
    BY <1>4, <2>1 DEF CallOK
  <2>2. CASE c \in Range(Rest)
    <3>1. c.op = "request" => OfTask(c)
      BY DEF OfTask
    <3> QED
      BY <1>1, <1>2, <1>3, <2>2, <3>1 DEF CallOK, MayEnd
  <2> QED
    BY <1>6, <1>10, <2>1, <2>2
<1>12. FetchTypes'
  <2>1. \A u \in DOMAIN tasks : TaskOK(tasks[u])'
    BY <1>1, <1>2 DEF FetchTypes, TaskOK, MayEnd
  <2>2. \A f \in Frames : current'[f] # 0 => current'[f] \in DOMAIN tasks' /\ tasks'[current'[f]].frame = f
    BY <1>1 DEF FetchTypes, Ends, MayEnd
  <2>3. \A x \in pit : x[1] \in DOMAIN tasks' /\ x[2] \in tasks'[x[1]].requested
    BY <1>1 DEF FetchTypes, MayEnd
  <2>4. /\ remote' \in BOOLEAN /\ gop' \in Gops /\ current' \in [Frames' -> Nat]
        /\ excused' \in BOOLEAN /\ reports' \in Seq({"failed", "fetched"})
        /\ fetcher' \in {"Idle", "Fetching", "Decoding", "Failed", "Completed"}
    BY <1>1, <1>2 DEF FetchTypes, Ends
  <2> QED
    BY <1>1, <1>2, <1>10, <1>11, <2>1, <2>2, <2>3, <2>4 DEF FetchTypes
<1>13. ASSUME NEW u \in DOMAIN tasks, tasks'[u].state = "Fetching", ~excused',
              Head(calls).op = "completion" => Head(calls).task # u
       PROVE  TaskCounted(u)'
  <2>1. ASSUME NEW c, OfTask(c), c.task = u PROVE c \in Range(calls') <=> c \in Range(calls)
    <3>1. c # Decode
      BY <1>4, <2>1
    <3>2. c # Head(calls)
      BY <1>1, <1>13, <2>1 DEF OfTask
    <3> QED
      BY <1>3, <1>6, <1>10, <3>1, <3>2
  <2>2. /\ tasks'[u].requested = tasks[u].requested /\ tasks'[u].progress = tasks[u].progress
        /\ (tasks'[u].state = "Fetching" => tasks[u].state = "Fetching") /\ (~excused' => ~excused)
        /\ \A s : <<u, s>> \in pit' <=> <<u, s>> \in pit
    BY <1>1 DEF MayEnd, Ends
  <2> QED
    BY <1>1, <1>13, <2>1, <2>2, OthersCounted
<1> QED
  BY <1>10, <1>12, <1>13

(* The tasks that are cancelled *)
LEMMA Cancels ==
  ASSUME NEW ts \in Seq(Task)
  PROVE  /\ canceled(ts) \in Seq(Task) /\ DOMAIN canceled(ts) = DOMAIN ts
         /\ \A u \in DOMAIN ts : MayEnd(ts[u], canceled(ts)[u])
<1> DEFINE c == canceled(ts)
<1>1. DOMAIN c = DOMAIN ts /\ DOMAIN ts = 1..Len(ts) /\ Len(ts) \in Nat
  BY DEF canceled
<1>2. \A u \in DOMAIN ts : c[u] = ts[u] \/ c[u] = Becomes(ts[u], "Canceled")
  BY DEF canceled, Becomes
<1>3. \A u \in DOMAIN ts : ts[u] \in Task
  OBVIOUS
<1>4. \A u \in DOMAIN ts : c[u] = ts[u] => MayEnd(ts[u], c[u])
  BY <1>3 DEF MayEnd
<1>5. "Canceled" \in States /\ "Canceled" # "Fetching"
  BY DEF States
<1>6. \A u \in DOMAIN ts : c[u] = Becomes(ts[u], "Canceled") => MayEnd(ts[u], c[u])
  BY <1>3, <1>5, BecomesFields DEF MayEnd
<1>7. \A u \in DOMAIN ts : c[u] \in Task
  BY <1>2, <1>4, <1>6 DEF MayEnd
<1>8. c = [u \in 1..Len(ts) |-> c[u]]
  BY <1>1 DEF canceled
<1> HIDE DEF c
<1>9. c \in Seq(Task)
  BY <1>1, <1>7, <1>8
<1> QED
  BY <1>1, <1>2, <1>4, <1>6, <1>9 DEF c

(* halt: the tasks end, and it is reported once. *)
LEMMA Halts ==
  ASSUME FetchTypes, NEW ts \in Seq(Task), Halt(ts)
  PROVE  /\ fetcher' = "Failed" /\ reports' \in Seq({"failed", "fetched"})
         /\ reports' = IF fetcher = "Failed" THEN reports ELSE Append(reports, "failed")
         /\ tasks' \in Seq(Task) /\ DOMAIN tasks' = DOMAIN ts /\ \A u \in DOMAIN ts : MayEnd(ts[u], tasks'[u])
         /\ current' \in [Frames -> Nat] /\ \A f \in Frames : current'[f] \in {0, current[f]}
<1>1. CASE fetcher = "Failed"
  <2>1. tasks' = ts /\ UNCHANGED <<fetcher, current, reports>>
    BY <1>1 DEF Halt
  <2>2. \A u \in DOMAIN ts : ts[u] \in Task
    OBVIOUS
  <2> QED
    BY <1>1, <2>1, <2>2 DEF FetchTypes, MayEnd
<1>2. CASE fetcher # "Failed"
  <2>1. /\ fetcher' = "Failed" /\ reports' = Append(reports, "failed") /\ tasks' = canceled(ts)
        /\ current' = [f \in Frames |-> 0]
    BY <1>2 DEF Halt, Reset
  <2>2. reports' \in Seq({"failed", "fetched"})
    BY <2>1 DEF FetchTypes
  <2>3. current' \in [Frames -> Nat] /\ \A f \in Frames : current'[f] = 0
    BY <2>1
  <2> QED
    BY <1>2, <2>1, <2>2, <2>3, Cancels
<1> QED
  BY <1>1, <1>2

(* A task that ends adds no task, and ended ones stay ended.                *)
LEMMA EndsTasks ==
  ASSUME FetchInv, NEW new, Ends(new)
  PROVE  /\ OneTaskPerFrame' => OneTaskPerFrame
         /\ AllEnded => AllEnded'
         /\ target' = target /\ Frames' = Frames
         /\ Decode \notin Range(Rest)
<1>1. /\ DOMAIN tasks' = DOMAIN tasks /\ gop' = gop /\ \A u \in DOMAIN tasks : MayEnd(tasks[u], tasks'[u])
      /\ FetchTypes /\ Nested /\ calls # <<>>
  BY DEF FetchInv, Ends
<1>2. target' = target /\ Frames' = Frames
  BY <1>1 DEF target, Frames, NData
<1>3. OneTaskPerFrame' => OneTaskPerFrame
  BY <1>1 DEF OneTaskPerFrame, MayEnd
<1>4. AllEnded => AllEnded'
  BY <1>1, <1>2 DEF AllEnded, MayEnd
<1>5. Decode \notin Range(Rest)
  BY <1>1, Stack
<1> QED
  BY <1>2, <1>3, <1>4, <1>5

(* decode is on top *)
LEMMA Decoding ==
  ASSUME FetchInv, Top("decode")
  PROVE  /\ FetchTypes /\ calls # <<>> /\ Head(calls).op = "decode" /\ Tail(calls) = <<>> \o Rest
         /\ fetcher = "Decoding" /\ reports = <<>> /\ \A f \in Frames : current[f] # 0
         /\ OneTaskPerFrame => AllEnded
         /\ target \in Nat /\ Frames = 0..target
<1>1. FetchTypes /\ Decodes /\ Outcome /\ calls # <<>> /\ Head(calls).op = "decode"
  BY DEF FetchInv, Top
<1>2. Head(calls) = Decode /\ Decode \in Range(calls) /\ Rest = Tail(calls) /\ Rest \in Seq(Call)
  BY <1>1, Stack, CallFacts
<1> QED
  BY <1>1, <1>2, GopShape DEF Decodes, Outcome, FetchTypes

(* decode *)
LEMMA DecodeGopKeeps ==
  ASSUME FetchInv, NEW buffer \in BOOLEAN, DecodeGop(buffer)
  PROVE  FetchInv'
<1>1. /\ FetchTypes /\ calls # <<>> /\ Head(calls).op = "decode" /\ calls' = <<>> \o Rest
      /\ fetcher = "Decoding" /\ reports = <<>> /\ \A f \in Frames : current[f] # 0
      /\ OneTaskPerFrame => AllEnded
      /\ target \in Nat /\ Frames = 0..target
  BY Decoding DEF DecodeGop
<1>2. /\ decoded' = decodeOrder
      /\ fetcher' = IF buffer THEN "Completed" ELSE "Decoding"
      /\ reports' = IF buffer THEN <<"fetched">> ELSE <<>>
      /\ excused' = (excused \/ ~buffer)
      /\ tasks' = canceled(tasks) /\ current' = [f \in Frames |-> 0]
      /\ UNCHANGED <<remote, gop, pit>> /\ tasks \in Seq(Task)
  BY <1>1 DEF DecodeGop, Reset, FetchTypes
<1>3. /\ reports' \in Seq({"failed", "fetched"}) /\ Len(reports') <= 1
      /\ fetcher' \in {"Decoding", "Completed"} /\ (fetcher' = "Decoding" => reports' = <<>>)
      /\ excused' \in BOOLEAN /\ (~excused' => ~excused)
  <2>1. Len(<<"fetched">>) <= 1 /\ Len(<<>>) <= 1
    OBVIOUS
  <2>2. <<"fetched">> \in Seq({"failed", "fetched"}) /\ <<>> \in Seq({"failed", "fetched"})
    OBVIOUS
  <2> QED
    BY <1>1, <1>2, <2>1, <2>2 DEF FetchTypes
<1>4. current' \in [Frames -> Nat] /\ \A f \in Frames : current'[f] = 0
  BY <1>2
<1>n. PICK new : new = <<>>
  OBVIOUS
<1>5. /\ tasks' \in Seq(Task) /\ DOMAIN tasks' = DOMAIN tasks
      /\ \A u \in DOMAIN tasks : MayEnd(tasks[u], tasks'[u])
  BY <1>2, Cancels
<1>6. Ends(new)
  BY <1>1, <1>2, <1>3, <1>4, <1>5, <1>n DEF Ends
<1>7. FetchTypes' /\ Nested' /\ Range(calls') = Range(new) \cup Range(Rest)
      /\ \A u \in DOMAIN tasks : tasks'[u].state = "Fetching" /\ ~excused' => TaskCounted(u)'
  BY <1>1, <1>6, EndsKeep
<1>8. /\ OneTaskPerFrame' => OneTaskPerFrame
      /\ AllEnded => AllEnded'
      /\ target' = target /\ Frames' = Frames
      /\ Decode \notin Range(Rest)
  BY <1>6, EndsTasks
<1>9. Counted'
  BY <1>5, <1>7 DEF Counted
<1>10. Learns'
  BY <1>3 DEF Learns
<1>11. Decodes'
  <2>1. Range(new) = {}
    BY <1>n DEF Range
  <2> QED
    BY <1>7, <1>8, <2>1 DEF Decodes, Decode
<1>12. DecodesWholeGop'
  <2>1. {f \in Frames : current[f] # 0} = 0..target
    BY <1>1
  <2>2. decodeOrder = [i \in 1..target + 1 |-> i - 1]
    BY <1>1, <2>1, AscendingInterval DEF decodeOrder
  <2> QED
    BY <1>2, <1>8, <2>2 DEF DecodesWholeGop
<1>13. Outcome'
  BY <1>1, <1>3, <1>8, <1>12 DEF Outcome
<1> QED
  BY <1>7, <1>9, <1>10, <1>11, <1>13 DEF FetchInv

(* The decoder refuses a frame.                                             *)
LEMMA DecodeFailsKeeps ==
  ASSUME FetchInv, NEW f, DecodeFails(f)
  PROVE  FetchInv'
<1>1. /\ FetchTypes /\ calls # <<>> /\ Head(calls).op = "decode" /\ calls' = <<>> \o Rest
      /\ fetcher = "Decoding" /\ reports = <<>> /\ Outcome
      /\ UNCHANGED <<remote, gop, pit, decoded>> /\ tasks \in Seq(Task) /\ Halt(tasks)
      /\ excused' = (excused \/ f # 0)
  BY Decoding DEF DecodeFails, FetchTypes, FetchInv
<1>2. /\ fetcher' = "Failed" /\ reports' \in Seq({"failed", "fetched"})
      /\ reports' = Append(reports, "failed")
      /\ tasks' \in Seq(Task) /\ DOMAIN tasks' = DOMAIN tasks /\ \A u \in DOMAIN tasks : MayEnd(tasks[u], tasks'[u])
      /\ current' \in [Frames -> Nat] /\ \A e \in Frames : current'[e] \in {0, current[e]}
  BY <1>1, Halts
<1>3. Len(reports') <= 1
  BY <1>1, <1>2
<1>4. excused' \in BOOLEAN /\ (~excused' => ~excused)
  BY <1>1 DEF FetchTypes
<1>n. PICK new : new = <<>>
  OBVIOUS
<1>5. Ends(new)
  BY <1>1, <1>2, <1>4, <1>n DEF Ends
<1>6. FetchTypes' /\ Nested' /\ Range(calls') = Range(new) \cup Range(Rest)
      /\ \A u \in DOMAIN tasks : tasks'[u].state = "Fetching" /\ ~excused' => TaskCounted(u)'
  BY <1>1, <1>5, EndsKeep
<1>7. target' = target /\ Frames' = Frames /\ Decode \notin Range(Rest)
  BY <1>5, EndsTasks
<1>8. Counted' /\ Learns'
  BY <1>2, <1>6 DEF Counted, Learns
<1>9. Decodes'
  <2>1. Range(new) = {}
    BY <1>n DEF Range
  <2> QED
    BY <1>6, <1>7, <2>1 DEF Decodes, Decode
<1>10. Outcome'
  BY <1>1, <1>2, <1>3, <1>7 DEF Outcome, DecodesWholeGop
<1> QED
  BY <1>6, <1>8, <1>9, <1>10 DEF FetchInv

(* checkCompletion is on top: what the handlers below have still to say is  *)
(* not about the frames of its task.                                        *)
LEMMA Completing ==
  ASSUME FetchInv, NEW t, calls # <<>>, Head(calls) = CheckCompletion(t)
  PROVE  /\ FetchTypes /\ t \in DOMAIN tasks /\ t \in Nat /\ tasks \in Seq(Task) /\ fetcher # "Idle"
         /\ Rest = Tail(calls) /\ Rest \in Seq(Call) /\ Range(calls) = {Head(calls)} \cup Range(Rest)
         /\ Head(calls).op = "completion" /\ Head(calls).task = t
         /\ tasks[t] \in Task /\ TaskOK(tasks[t])
         /\ Decode \notin Range(calls) /\ Decode \notin Range(Rest)
         /\ tasks[t].frame \in {0, target} => \A n \in Nat : FetchDelta(n) \notin Range(calls)
         /\ FetchDelta(0) \notin Range(calls)
<1>1. FetchTypes /\ Nested /\ Outcome /\ Head(calls).op = "completion" /\ Head(calls).task = t /\ OfTask(Head(calls))
  BY DEF FetchInv, CheckCompletion, OfTask
<1>2. /\ Rest = Tail(calls) /\ Rest \in Seq(Call) /\ Range(calls) = {Head(calls)} \cup Range(Rest)
      /\ CallOK(Head(calls)) /\ Head(calls) \in Call
      /\ \A c \in Range(Rest) : MayRest(tasks, Head(calls), c) /\ c # Decode /\ c # FetchDelta(0)
  BY <1>1, Stack
<1>3. t \in DOMAIN tasks /\ t \in Nat /\ fetcher # "Idle" /\ tasks \in Seq(Task)
  BY <1>1, <1>2, CallFacts DEF CallOK, Outcome, FetchTypes
<1>4. tasks[t] \in Task /\ TaskOK(tasks[t])
  BY <1>1, <1>3, CountsFinite
<1>5. Decode.op # "completion" /\ \A n \in Nat : FetchDelta(n).op = "delta"
  BY CallsMade
<1>6. Head(calls) # Decode /\ \A n \in Nat : FetchDelta(n) # Head(calls)
  BY <1>1, <1>5
<1>7. ASSUME NEW n \in Nat, FetchDelta(n) \in Range(calls) PROVE tasks[t].frame \notin {0, target} /\ n # 0
  <2>1. FetchDelta(n) \in Range(Rest)
    BY <1>2, <1>6, <1>7
  <2>2. MayRest(tasks, Head(calls), FetchDelta(n)) /\ FetchDelta(n) # FetchDelta(0)
    BY <1>2, <2>1
  <2> QED
    BY <1>1, <1>5, <1>6, <1>7, <2>2 DEF MayRest
<1> QED
  BY <1>1, <1>2, <1>3, <1>4, <1>6, <1>7

(* What the other tasks have learnt, when t may have become completed *)
LEMMA CompletingLearns ==
  ASSUME FetchInv, NEW t, NEW new, calls # <<>>, Head(calls) = CheckCompletion(t), Ends(new),
         fetcher = "Fetching", target # 0, current' = current,
         tasks'[t].state = "Completed" => ~isNew(tasks[t]),
         \A u \in DOMAIN tasks : u # t => tasks'[u].state = tasks[u].state,
         NEW u \in DOMAIN tasks
  PROVE  TaskLearns(u)'
<1>1. /\ DOMAIN tasks' = DOMAIN tasks /\ gop' = gop /\ MayEnd(tasks[u], tasks'[u])
      /\ TaskLearns(u) /\ FetchTypes
  BY DEF FetchInv, Ends, Learns
<1>2. /\ t \in DOMAIN tasks /\ Range(calls) = {Head(calls)} \cup Range(Rest) /\ Head(calls).op = "completion"
      /\ tasks[t].frame \in {0, target} => \A n \in Nat : FetchDelta(n) \notin Range(calls)
  BY Completing
<1>3. target' = target /\ NData' = NData /\ target \in Nat
  BY <1>1, GopShape DEF target, NData, FetchTypes
<1>4. isNew(tasks[u])' = isNew(tasks[u])
  BY <1>1, <1>3 DEF isNew, fetchedData, DataSegments, MayEnd
<1>5. Range(Rest) \subseteq Range(calls')
  BY EndsKeep
<1>6. ASSUME NEW n \in Nat, FetchDelta(n) \in Range(calls) PROVE FetchDelta(n) \in Range(calls')
  <2>1. FetchDelta(n) # Head(calls)
    BY <1>2, CallsMade
  <2> QED
    BY <1>2, <1>5, <1>6, <2>1
<1>7. \A n \in Nat : Deltas(n) => Deltas(n)'
  BY <1>6 DEF Deltas
<1>8. u = t /\ tasks[t].frame \in {0, target} /\ tasks'[t].state = "Completed" =>
        /\ FetchDelta(0) \notin Range(calls)
        /\ \A n \in 1..target - 1 : ~Deltas(n)
        /\ ~isNew(tasks[u])
  BY <1>2 DEF Deltas
<1>9. u # t /\ tasks'[u].state = "Completed" => tasks[u].state = "Completed"
  OBVIOUS
<1>10. tasks'[u].frame = tasks[u].frame
  BY <1>1 DEF MayEnd
<1>11. tasks[u].frame = target =>
         /\ ~isNew(tasks[u])' => current'[0] # 0 \/ FetchDelta(0) \in Range(calls')
         /\ tasks'[u].state = "Completed" => current'[0] # 0
  BY <1>1, <1>4, <1>6, <1>8, <1>9 DEF TaskLearns
<1>12. ASSUME tasks[u].frame = 0, NEW n \in 1..target - 1
       PROVE  /\ ~isNew(tasks[u])' => current'[n] # 0 \/ Deltas(n)'
              /\ tasks'[u].state = "Completed" => current'[n] # 0
  <2>1. /\ ~isNew(tasks[u]) => current[n] # 0 \/ Deltas(n)
        /\ tasks[u].state = "Completed" => current[n] # 0
    BY <1>1, <1>12 DEF TaskLearns
  <2> QED
    BY <1>4, <1>7, <1>8, <1>9, <1>12, <2>1
<1> QED
  BY <1>3, <1>10, <1>11, <1>12 DEF TaskLearns, FetchDelta

(* A task that is not completed and may still progress waits for something. *)
LEMMA NotYetComplete ==
  ASSUME FetchTypes, NEW t \in DOMAIN tasks, TaskCounted(t),
         ~(tasks[t].progress >= tasks[t].completion)
  PROVE  ~(Unasked(t) = {} /\ Waiting(t) = {})
<1> SUFFICES ASSUME Unasked(t) = {}, Waiting(t) = {} PROVE FALSE
  OBVIOUS
<1> DEFINE n == Cardinality(tasks[t].requested)
<1>1. tasks[t] \in Task /\ TaskOK(tasks[t])
  BY CountsFinite
<1>2. tasks[t].progress \in Nat /\ tasks[t].completion \in Nat /\ n \in Nat /\ nRtx \in Nat
  BY <1>1, FS_CardinalityType, FetcherAssumption DEF Task, TaskOK
<1>3. Asked(t) = tasks[t].requested /\ Answered(t) = tasks[t].requested
  BY DEF Asked, Answered
<1>4. tasks[t].progress >= n + nRtx * n /\ tasks[t].completion <= (1 + nRtx) * n
  BY <1>1, <1>3 DEF TaskCounted, TaskOK
<1> HIDE DEF n
<1>5. (1 + nRtx) * n = n + nRtx * n /\ nRtx * n \in Nat
  BY <1>2
<1> QED
  BY <1>2, <1>4, <1>5

(* checkCompletion *)
LEMMA CheckCompletionKeeps == FetchInv /\ CheckTaskCompletion => FetchInv'
<1> SUFFICES ASSUME FetchInv, CheckTaskCompletion PROVE FetchInv'
  OBVIOUS
<1>1. /\ FetchTypes /\ Nested /\ Counted /\ Learns /\ Outcome /\ calls # <<>> /\ Head(calls).op = "completion"
      /\ UNCHANGED <<remote, gop, pit, decoded, excused>>
  BY DEF FetchInv, CheckTaskCompletion, Top
<1>t. PICK t : t = Head(calls).task
  OBVIOUS
<1>2. Head(calls) = CheckCompletion(t)
  BY <1>1, <1>t, Stack, CallFacts
<1>3. /\ t \in DOMAIN tasks /\ tasks \in Seq(Task) /\ fetcher # "Idle"
      /\ Rest = Tail(calls) /\ Rest \in Seq(Call) /\ tasks[t] \in Task /\ TaskOK(tasks[t])
      /\ Decode \notin Range(Rest)
      /\ Range(calls) = {Head(calls)} \cup Range(Rest)
  BY <1>1, <1>2, Completing
<1>4. /\ excused' \in BOOLEAN /\ (~excused' => ~excused) /\ current \in [Frames -> Nat]
      /\ reports \in Seq({"failed", "fetched"}) /\ target \in Nat /\ Frames = 0..target
      /\ fetcher \in {"Fetching", "Decoding", "Failed", "Completed"}
      /\ \A u \in DOMAIN tasks : tasks[u] \in Task /\ MayEnd(tasks[u], tasks[u])
  <2>1. \A u \in DOMAIN tasks : tasks[u] \in Task
    BY <1>3
  <2> QED
    BY <1>1, <1>3, <2>1, GopShape DEF FetchTypes, MayEnd
<1>n. PICK none : none = <<>>
  OBVIOUS
<1>5. Range(none) = {} /\ Tail(calls) = none \o Rest
  BY <1>3, <1>n DEF Range
<1>d. PICK done : done = [state \in {"Completed", "Failed"} |-> [tasks EXCEPT ![t] = Becomes(tasks[t], state)]]
  OBVIOUS
<1>6. ASSUME NEW s \in {"Completed", "Failed"}
      PROVE  /\ [tasks EXCEPT ![t].state = s] = done[s]
             /\ done[s] \in Seq(Task) /\ DOMAIN done[s] = DOMAIN tasks
             /\ \A u \in DOMAIN tasks : u # t => done[s][u] = tasks[u]
             /\ done[s][t].state = s
             /\ \A u \in DOMAIN tasks : MayEnd(tasks[u], done[s][u])
  <2>k. PICK k : k = Becomes(tasks[t], s)
    OBVIOUS
  <2>1. done[s] = [tasks EXCEPT ![t] = k] /\ [tasks EXCEPT ![t].state = s] = done[s]
    BY <1>d, <2>k DEF Becomes
  <2>2. /\ k \in Task /\ k.progress = tasks[t].progress /\ k.frame = tasks[t].frame /\ k.state = s
        /\ k.fetched = tasks[t].fetched /\ k.requested = tasks[t].requested /\ k.completion = tasks[t].completion
    <3>1. s \in States
      BY DEF States
    <3> QED
      BY <1>3, <2>k, <3>1, BecomesFields
  <2>3. /\ done[s] \in Seq(Task) /\ DOMAIN done[s] = DOMAIN tasks
        /\ \A u \in DOMAIN tasks : done[s][u] = IF u = t THEN k ELSE tasks[u]
    BY <1>3, <2>1, <2>2, TaskChanged
  <2>4. MayEnd(tasks[t], k)
    BY <2>2 DEF MayEnd
  <2> QED
    BY <1>3, <1>4, <2>1, <2>2, <2>3, <2>4
<1>7. CASE UNCHANGED <<fetcher, tasks, current, reports>> /\ calls' = Tail(calls)
           /\ (tasks[t].state # "Fetching" \/ ~(tasks[t].progress >= tasks[t].completion))
  <2>1. Ends(none)
    BY <1>1, <1>3, <1>4, <1>5, <1>7, <1>n DEF Ends
  <2>2. /\ FetchTypes' /\ Nested' /\ Range(calls') = Range(none) \cup Range(Rest)
        /\ \A u \in DOMAIN tasks : tasks'[u].state = "Fetching" /\ ~excused' /\ t # u => TaskCounted(u)'
    BY <1>1, <1>t, <2>1, EndsKeep
  <2>3. ASSUME tasks[t].state = "Fetching", ~excused PROVE TaskCounted(t)'
    <3>1. TaskCounted(t)
      BY <1>1, <1>3, <2>3 DEF Counted
    <3>2. ~(Unasked(t) = {} /\ Waiting(t) = {})
      BY <1>1, <1>3, <1>7, <2>3, <3>1, NotYetComplete
    <3>3. WillAsk(Head(calls), t) = {}
      BY <1>1 DEF WillAsk
    <3>4. Unasked(t)' = Unasked(t)
      BY <1>3, <1>5, <1>7, <2>2, <3>3 DEF Unasked, WillAsk
    <3>5. Waiting(t)' = Waiting(t) /\ Asked(t)' = Asked(t) /\ Answered(t)' = Answered(t)
      BY <1>1, <1>7, <3>4 DEF Waiting, Asked, Answered
    <3> QED
      BY <1>7, <3>1, <3>2, <3>4, <3>5 DEF TaskCounted
  <2>4. Counted'
    BY <1>1, <1>7, <2>2, <2>3 DEF Counted
  <2>5. Learns'
    <3> SUFFICES ASSUME fetcher = "Fetching" PROVE (current[target] # 0 /\ (target # 0 => \A u \in DOMAIN tasks : TaskLearns(u)))'
      BY <1>7 DEF Learns
    <3>1. target # 0 => \A u \in DOMAIN tasks : TaskLearns(u)'
      <4> SUFFICES ASSUME target # 0, NEW u \in DOMAIN tasks PROVE TaskLearns(u)'
        OBVIOUS
      <4>1. TaskLearns(u)
        BY <1>1 DEF Learns
      <4>2. \A n \in Nat : FetchDelta(n) \in Range(calls) => FetchDelta(n) \in Range(calls')
        <5>1. \A n \in Nat : FetchDelta(n) # Head(calls)
          BY <1>1, CallsMade
        <5> QED
          BY <1>3, <2>2, <5>1
      <4>3. \A n \in Nat : Deltas(n) => Deltas(n)'
        BY <4>2 DEF Deltas
      <4>4. isNew(tasks[u])' = isNew(tasks[u]) /\ target' = target
        BY <1>1, <1>7 DEF isNew, fetchedData, DataSegments, NData, target
      <4>5. ASSUME NEW n \in 1..target - 1, tasks[u].frame = 0, ~isNew(tasks[u]) PROVE current[n] # 0 \/ Deltas(n)'
        BY <4>1, <4>3, <4>5 DEF TaskLearns
      <4> QED
        BY <1>7, <4>1, <4>2, <4>4, <4>5 DEF TaskLearns, FetchDelta
    <3> QED
      BY <1>1, <1>7, <3>1 DEF Learns, target
  <2>6. Decodes'
    BY <1>3, <1>5, <2>2 DEF Decodes, Decode
  <2>7. Outcome'
    BY <1>1, <1>3, <1>7 DEF Outcome, OneTaskPerFrame, AllEnded, DecodesWholeGop, target, Frames, NData
  <2> QED
    BY <2>2, <2>4, <2>5, <2>6, <2>7 DEF FetchInv
<1>8. CASE tasks[t].state = "Fetching" /\ isReady(tasks[t])
  <2>1. tasks' = done["Completed"] /\ current' = current /\ reports' = reports
    BY <1>6, <1>8, <1>t DEF CheckTaskCompletion
  <2>2. ~isNew(tasks[t])
    BY <1>8 DEF isReady
  <2>n. PICK new : new = IF readyToDecode(tasks') THEN <<Decode>> ELSE none
    OBVIOUS
  <2>3. calls' = new \o Rest /\ fetcher' = IF readyToDecode(tasks') THEN "Decoding" ELSE fetcher
    <3>1. IF readyToDecode(tasks')
          THEN fetcher' = "Decoding" /\ calls' = <<Decode>> \o Tail(calls)
          ELSE calls' = Tail(calls) /\ UNCHANGED fetcher
      BY <1>8, <1>t DEF CheckTaskCompletion
    <3> QED
      BY <1>3, <1>5, <2>n, <3>1
  <2>4. Ends(new)
    BY <1>1, <1>4, <1>6, <1>n, <2>1, <2>3, <2>n DEF Ends
  <2>5. /\ FetchTypes' /\ Nested' /\ Range(calls') = Range(new) \cup Range(Rest)
        /\ \A u \in DOMAIN tasks : tasks'[u].state = "Fetching" /\ ~excused' /\ t # u => TaskCounted(u)'
    BY <1>1, <1>t, <2>4, EndsKeep
  <2>6. /\ OneTaskPerFrame' => OneTaskPerFrame
        /\ AllEnded => AllEnded'
        /\ target' = target /\ Frames' = Frames
    BY <2>4, EndsTasks
  <2>7. Counted'
    BY <1>6, <2>1, <2>5 DEF Counted
  <2>8. ASSUME fetcher = "Fetching", target # 0, NEW u \in DOMAIN tasks PROVE TaskLearns(u)'
    BY <1>1, <1>2, <1>6, <2>1, <2>2, <2>4, <2>8, CompletingLearns
  <2>9. Learns'
    <3> SUFFICES ASSUME fetcher' = "Fetching" PROVE (current[target] # 0 /\ (target # 0 => \A u \in DOMAIN tasks : TaskLearns(u)))'
      BY DEF Learns
    <3>1. fetcher = "Fetching"
      BY <2>3
    <3> QED
      BY <1>1, <1>6, <2>1, <2>6, <2>8, <3>1 DEF Learns
  <2>10. ASSUME readyToDecode(tasks') PROVE \A f \in Frames : current'[f] # 0 /\ tasks'[current'[f]].state = "Completed"
    <3>1. /\ fetcher = "Fetching" /\ current[target] # 0
          /\ \A f \in Frames : current[f] # 0 =>
               /\ tasks'[current[f]].state = "Completed" /\ current[f] \in DOMAIN tasks
               /\ tasks'[current[f]].frame = f
      <4>1. \A f \in Frames : current[f] # 0 => current[f] \in DOMAIN tasks /\ tasks[current[f]].frame = f
        BY <1>1 DEF FetchTypes
      <4>2. \A f \in Frames : current[f] # 0 => tasks'[current[f]].frame = f
        BY <1>6, <2>1, <4>1 DEF MayEnd
      <4> QED
        BY <1>1, <2>10, <4>1, <4>2 DEF readyToDecode, Learns
    <3>2. target \in Frames /\ 0 \in Frames
      BY <1>4
    <3>3. target # 0 => current[0] # 0
      BY <2>1, <2>6, <2>8, <3>1, <3>2 DEF TaskLearns
    <3>4. ASSUME target # 0, NEW n \in 1..target - 1 PROVE current[n] # 0
      BY <2>1, <2>6, <2>8, <3>1, <3>2, <3>3, <3>4 DEF TaskLearns
    <3>5. \A f \in Frames : f = 0 \/ f = target \/ f \in 1..target - 1
      BY <1>4
    <3>6. \A f \in Frames : current[f] # 0
      BY <3>1, <3>3, <3>4, <3>5
    <3> QED
      BY <2>1, <3>1, <3>6
  <2>11. Decodes'
    <3> SUFFICES ASSUME Decode \in Range(calls')
                 PROVE  fetcher' = "Decoding" /\ reports' = <<>> /\ \A f \in Frames : current'[f] # 0 /\ tasks'[current'[f]].state = "Completed"
      BY <2>6 DEF Decodes, Decode
    <3>1. Decode \in Range(new)
      BY <1>3, <2>5
    <3>2. readyToDecode(tasks')
      BY <1>5, <2>n, <3>1
    <3>3. fetcher = "Fetching"
      BY <3>2 DEF readyToDecode
    <3> QED
      BY <1>1, <2>1, <2>3, <2>10, <3>2, <3>3 DEF Outcome
  <2>12. OneTaskPerFrame' /\ fetcher' \in {"Decoding", "Completed"} => AllEnded'
    <3> SUFFICES ASSUME OneTaskPerFrame', fetcher' \in {"Decoding", "Completed"} PROVE AllEnded'
      OBVIOUS
    <3>1. CASE readyToDecode(tasks')
      <4>1. \A f \in Frames : current'[f] \in DOMAIN tasks' /\ tasks'[current'[f]].frame = f /\ tasks'[current'[f]].state = "Completed"
        BY <2>5, <2>6, <2>10, <3>1 DEF FetchTypes
      <4>2. \A u \in DOMAIN tasks' : tasks'[u].frame \in Frames
        BY <2>5, <2>6 DEF FetchTypes, TaskOK
      <4>3. \A u \in DOMAIN tasks' : u = current'[tasks'[u].frame]
        BY <4>1, <4>2 DEF OneTaskPerFrame
      <4>4. \A u \in DOMAIN tasks' : tasks'[u].state = "Completed"
        BY <4>1, <4>2, <4>3
      <4> QED
        BY <2>6, <4>1, <4>4 DEF AllEnded
    <3>2. CASE ~readyToDecode(tasks')
      BY <1>1, <2>3, <2>6, <3>2 DEF Outcome
    <3> QED
      BY <3>1, <3>2
  <2>13. fetcher' \in {"Idle", "Fetching", "Decoding"} => reports = <<>>
    BY <1>1, <2>3 DEF Outcome, readyToDecode
  <2>14. fetcher' # "Idle"
    BY <1>3, <2>3
  <2>15. DecodesWholeGop'
    BY <1>1, <2>6 DEF Outcome, DecodesWholeGop
  <2>16. Outcome'
    BY <1>1, <2>1, <2>6, <2>12, <2>13, <2>14, <2>15 DEF Outcome
  <2> QED
    BY <2>5, <2>7, <2>9, <2>11, <2>16 DEF FetchInv
<1>9. CASE tasks[t].state = "Fetching" /\ ~isReady(tasks[t]) /\ tasks[t].progress >= tasks[t].completion
  <2>1. Halt(done["Failed"]) /\ calls' = Tail(calls)
    BY <1>6, <1>9, <1>t DEF CheckTaskCompletion
  <2>2. /\ fetcher' = "Failed" /\ reports' \in Seq({"failed", "fetched"})
        /\ reports' = IF fetcher = "Failed" THEN reports ELSE Append(reports, "failed")
        /\ tasks' \in Seq(Task) /\ DOMAIN tasks' = DOMAIN tasks
        /\ \A u \in DOMAIN tasks : MayEnd(done["Failed"][u], tasks'[u])
        /\ current' \in [Frames -> Nat] /\ \A f \in Frames : current'[f] \in {0, current[f]}
    BY <1>1, <1>6, <2>1, Halts
  <2>3. \A u \in DOMAIN tasks : MayEnd(tasks[u], tasks'[u])
    BY <1>6, <2>2 DEF MayEnd
  <2>4. Ends(none)
    BY <1>1, <1>4, <1>5, <1>n, <2>1, <2>2, <2>3 DEF Ends
  <2>5. /\ FetchTypes' /\ Nested' /\ Range(calls') = Range(none) \cup Range(Rest)
        /\ \A u \in DOMAIN tasks : tasks'[u].state = "Fetching" /\ ~excused' /\ t # u => TaskCounted(u)'
    BY <1>1, <1>t, <2>4, EndsKeep
  <2>6. /\ OneTaskPerFrame' => OneTaskPerFrame
        /\ target' = target
    BY <2>4, EndsTasks
  <2>7. tasks'[t].state # "Fetching"
    BY <1>3, <1>6, <2>2 DEF MayEnd
  <2>8. Counted'
    BY <2>2, <2>5, <2>7 DEF Counted
  <2>9. Decodes'
    BY <1>3, <1>5, <2>5 DEF Decodes, Decode
  <2>10. OneTaskPerFrame' => Len(reports') <= 1
    <3> SUFFICES ASSUME OneTaskPerFrame' PROVE Len(reports') <= 1
      OBVIOUS
    <3>1. fetcher \notin {"Decoding", "Completed"}
      BY <1>1, <1>3, <1>9, <2>6 DEF Outcome, AllEnded
    <3>2. CASE fetcher = "Failed"
      BY <1>1, <2>2, <2>6, <3>2 DEF Outcome
    <3>3. CASE fetcher = "Fetching"
      <4>1. reports' = Append(<<>>, "failed")
        BY <1>1, <2>2, <3>3 DEF Outcome
      <4> QED
        BY <4>1
    <3> QED
      BY <1>4, <3>1, <3>2, <3>3
  <2>11. Learns' /\ Outcome'
    BY <1>1, <2>2, <2>6, <2>10 DEF Learns, Outcome, DecodesWholeGop
  <2> QED
    BY <2>5, <2>8, <2>9, <2>11 DEF FetchInv
<1>10. CASE tasks[t].state # "Fetching"
  <2>1. UNCHANGED <<fetcher, tasks, current, reports>> /\ calls' = Tail(calls)
    BY <1>10, <1>t DEF CheckTaskCompletion
  <2> QED
    BY <1>7, <1>10, <2>1
<1>11. CASE tasks[t].state = "Fetching" /\ ~isReady(tasks[t]) /\ ~(tasks[t].progress >= tasks[t].completion)
  <2>1. UNCHANGED <<fetcher, tasks, current, reports>> /\ calls' = Tail(calls)
    BY <1>11, <1>t DEF CheckTaskCompletion
  <2> QED
    BY <1>7, <1>11, <2>1
<1> QED
  BY <1>8, <1>9, <1>10, <1>11

(* The fetcher before it is used satisfies its invariant.                   *)
LEMMA FetchInvInit == Idle => FetchInv
<1> SUFFICES ASSUME Idle PROVE FetchInv
  OBVIOUS
<1>1. /\ remote \in BOOLEAN /\ gop \in Gops /\ fetcher = "Idle" /\ tasks = <<>> /\ current = [f \in Frames |-> 0]
      /\ pit = {} /\ calls = <<>> /\ decoded = <<>> /\ reports = <<>> /\ excused = FALSE
  BY DEF Idle
<1>2. Range(calls) = {} /\ DOMAIN tasks = {} /\ DOMAIN calls = {}
  BY <1>1 DEF Range
<1>3. FetchTypes
  <2>1. tasks \in Seq(Task) /\ calls \in Seq(Call) /\ reports \in Seq({"failed", "fetched"})
    BY <1>1
  <2>2. current \in [Frames -> Nat] /\ \A f \in Frames : current[f] = 0
    BY <1>1
  <2> QED
    BY <1>1, <1>2, <2>1, <2>2 DEF FetchTypes
<1>4. Nested /\ Counted /\ Learns /\ Decodes
  BY <1>1, <1>2 DEF Nested, Counted, Learns, Decodes
<1>5. Len(reports) <= 1
  BY <1>1
<1>6. Outcome
  BY <1>1, <1>5 DEF Outcome, DecodesWholeGop
<1> QED
  BY <1>3, <1>4, <1>6 DEF FetchInv

(* Each step of the fetcher keeps the invariant.                            *)
LEMMA FetchInvNext == FetchInv /\ Next => FetchInv'
<1> SUFFICES ASSUME FetchInv, Next PROVE FetchInv'
  OBVIOUS
<1>1. CASE Fetch
  BY <1>1, FetchKeeps
<1>2. CASE RequestRemote
  BY <1>2, RequestRemoteKeeps
<1>3. CASE RequestLocal
  BY <1>3, RequestLocalKeeps
<1>4. CASE FetchGop
  BY <1>4, FetchGopKeeps
<1>5. CASE CheckMissingSegments
  BY <1>5, CheckMissingKeeps
<1>6. CASE CheckTaskCompletion
  BY <1>6, CheckCompletionKeeps
<1>7. CASE DecodeGop(TRUE) \/ DecodeGop(FALSE)
  <2>1. TRUE \in BOOLEAN /\ FALSE \in BOOLEAN
    OBVIOUS
  <2> QED
    BY <1>7, <2>1, DecodeGopKeeps
<1>8. ASSUME NEW f \in Frames, DecodeFails(f) PROVE FetchInv'
  BY <1>8, DecodeFailsKeeps
<1>9. ASSUME NEW x \in pit, Answer(x[1], x[2]) PROVE FetchInv'
  <2>1. CASE OnData(x[1], x[2])
    BY <2>1, OnDataKeeps
  <2>2. CASE OnApplicationNack(x[1], x[2])
    BY <2>2, OnApplicationNackKeeps
  <2>3. CASE OnTimeout(x[1], x[2])
    BY <2>3, OnTimeoutKeeps
  <2>4. CASE OnNetworkNack(x[1], x[2])
    BY <2>4, OnNetworkNackKeeps
  <2> QED
    BY <1>9, <2>1, <2>2, <2>3, <2>4 DEF Answer
<1> QED
  BY <1>1, <1>2, <1>3, <1>4, <1>5, <1>6, <1>7, <1>8, <1>9 DEF Next, Return

(* What is in the storage does not enter into the invariant. *)
LEMMA FetchInvStutters ==
  FetchInv /\ UNCHANGED <<remote, gop, fetcher, tasks, current, pit, calls, decoded, reports, excused>> => FetchInv'
<1> SUFFICES ASSUME FetchInv, UNCHANGED <<remote, gop, fetcher, tasks, current, pit, calls, decoded, reports, excused>>
             PROVE  FetchInv'
  OBVIOUS
<1>1. target' = target /\ Frames' = Frames /\ NData' = NData /\ NParity' = NParity
  BY DEF target, Frames, NData, NParity
<1>2. FetchTypes'
  BY <1>1 DEF FetchInv, FetchTypes, TaskOK, CallOK
<1>3. Nested'
  BY <1>1 DEF FetchInv, Nested, MayRest
<1>4. Counted'
  BY DEF FetchInv, Counted, TaskCounted, Asked, Answered, Unasked, Waiting, WillAsk
<1>5. Learns'
  <2>1. \A t \in DOMAIN tasks : isNew(tasks[t])' = isNew(tasks[t])
    BY <1>1 DEF isNew, fetchedData, DataSegments
  <2>2. \A n : Deltas(n)' = Deltas(n)
    BY DEF Deltas
  <2>3. \A t \in DOMAIN tasks : TaskLearns(t) => TaskLearns(t)'
    BY <1>1, <2>1, <2>2 DEF TaskLearns, FetchDelta
  <2> QED
    BY <1>1, <2>3 DEF FetchInv, Learns
<1>6. Decodes'
  BY <1>1 DEF FetchInv, Decodes
<1>7. Outcome'
  BY <1>1 DEF FetchInv, Outcome, OneTaskPerFrame, AllEnded, DecodesWholeGop
<1> QED
  BY <1>2, <1>3, <1>4, <1>5, <1>6, <1>7 DEF FetchInv

(* The invariant says that a GOP is fetched whole and once.                 *)
LEMMA FetchInvImplies == FetchInv => FetchesWholeGopOnce
<1> SUFFICES ASSUME FetchInv PROVE FetchesWholeGopOnce
  OBVIOUS
<1>1. FetchTypes /\ Counted /\ Outcome /\ tasks \in Seq(Task)
  BY DEF FetchInv, FetchTypes
<1>2. FetchingTypeOK
  <2>1. \A t \in DOMAIN tasks : tasks[t] \in Task /\ TaskOK(tasks[t])
    BY <1>1 DEF FetchTypes
  <2>2. \A f \in Frames : current[f] \in 0..Len(tasks)
    BY <1>1 DEF FetchTypes
  <2> QED
    BY <1>1, <2>1, <2>2 DEF FetchingTypeOK, FetchTypes, Task, TaskOK, States
<1>3. DecodesWholeGop /\ OneOutcome
  BY <1>1 DEF Outcome, OneOutcome, FetchTypes
<1>4. FetchingAwaitsAnswer
  <2> SUFFICES ASSUME NEW t \in DOMAIN tasks, tasks[t].state = "Fetching", calls = <<>>, ~excused
               PROVE  \E s \in tasks[t].requested : <<t, s>> \in pit
    BY DEF FetchingAwaitsAnswer
  <2>1. Range(calls) = {}
    BY DEF Range
  <2>2. TaskCounted(t) /\ Unasked(t) = {}
    BY <1>1, <2>1 DEF Counted, Unasked
  <2> QED
    BY <2>1, <2>2 DEF TaskCounted, Waiting
<1> QED
  BY <1>2, <1>3, <1>4 DEF FetchesWholeGopOnce

(* A fetch decodes the whole GOP in order, has one outcome, and a task that *)
(* has not ended waits for an answer, whatever the network does.            *)
THEOREM FetchedOnce == Spec => []FetchesWholeGopOnce
<1>1. Init => FetchInv
  BY FetchInvInit DEF Init
<1>2. FetchInv /\ [Next]_vars => FetchInv'
  BY FetchInvNext, FetchInvStutters DEF vars
<1> QED
  BY <1>1, <1>2, FetchInvImplies, PTL DEF Spec

(* The same for a fetch of what was recorded before *)
THEOREM RecordedFetchedOnce == RecorderSpec => []FetchesWholeGopOnce
<1>1. RecorderInit => FetchInv
  BY FetchInvInit DEF RecorderInit
<1>2. FetchInv /\ [RecorderNext \/ Playback]_rvars => FetchInv'
  <2> SUFFICES ASSUME FetchInv, [RecorderNext \/ Playback]_rvars PROVE FetchInv'
    OBVIOUS
  <2>1. CASE Playback
    BY <2>1, FetchInvNext DEF Playback
  <2>2. RecorderNext \/ UNCHANGED rvars => UNCHANGED <<remote, gop, fetcher, tasks, current, pit, calls, decoded, reports, excused>>
    BY DEF RecorderNext, rvars, vars, Start, Stop, StreamMetaFetched, StreamMetaFails, ThreadMetaFails, TimerFires,
           ThreadMetaFetched, FrameFailed, FrameFetched
  <2> QED
    BY <2>1, <2>2, FetchInvStutters
<1> QED
  BY <1>1, <1>2, FetchInvImplies, PTL DEF RecorderSpec

-----------------------------------------------------------------------------
(* FrameFetching from the storage.  A request is answered before the next   *)
(* one is made, so the count of progress is exact, and the data segments    *)
(* are asked for before the parity segments.                                *)

StoredOf(f) == {s \in Segments(f) : <<f, s>> \in stored}
Kept(f) == DataSegments(f) \subseteq StoredOf(f)

(* Parity segments are asked for that were not in the batch. *)
AsksParity(c, t) == c.op = "request" /\ c.task = t /\ ~c.start /\ \E s \in Range(c.segs) : ~IsData(s)
ExtraParity(t) == \E c \in Range(calls) : AsksParity(c, t)

AsksAll(t) ==
  /\ tasks[t].progress <= (1 + nRtx) * Cardinality(Asked(t))
  /\ tasks[t].completion >= (1 + nRtx) * Cardinality(tasks[t].requested)
  /\ D(0) \in tasks[t].requested
  /\ Asked(t) \cap StoredOf(tasks[t].frame) \subseteq tasks[t].fetched
  /\ ~isNew(tasks[t]) => DataSegments(tasks[t].frame) \subseteq tasks[t].requested \/ CheckMissing(t) \in Range(calls)
  /\ Kept(tasks[t].frame) /\ (ExtraParity(t) \/ ~(tasks[t].fetched \subseteq DataSegments(tasks[t].frame))) =>
       DataSegments(tasks[t].frame) \subseteq tasks[t].fetched

TaskLocal(t) ==
  /\ tasks[t].fetched \subseteq StoredOf(tasks[t].frame)
  /\ tasks[t].state = "Completed" =>
       isReady(tasks[t]) /\ (Kept(tasks[t].frame) => DataSegments(tasks[t].frame) \subseteq tasks[t].fetched)
  /\ tasks[t].state = "Fetching" => AsksAll(t)

(* Requests of a task are for different segments, its batch the lowest. *)
Apart(a, b) ==
  a.op = "request" /\ b.op = "request" /\ a.task = b.task => ~a.start /\ Range(a.segs) \cap Range(b.segs) = {}

LocalCalls ==
  /\ \A c \in Range(calls) : c.op = "request" => IsDistinct(c.segs) /\ DataFirst(c.segs)
  /\ \A i, j \in DOMAIN calls : i < j => Apart(calls[i], calls[j])

AsStored(f) == isReady([frame |-> f, fetched |-> StoredOf(f)])

Reported ==
  reports # <<>> /\ ~excused =>
    \/ reports[1] = "fetched" /\ \A f \in Frames : AsStored(f)
    \/ reports[1] = "failed" /\ \E f \in Frames : ~Kept(f)

LocalInv ==
  ~remote =>
    /\ pit = {} /\ stored \subseteq Published
    /\ LocalCalls /\ Reported
    /\ \A t \in DOMAIN tasks : TaskLocal(t)

(* The data segments of a frame *)
LEMMA DataCount ==
  ASSUME gop \in Gops, NEW f \in Frames
  PROVE  /\ IsFiniteSet(DataSegments(f)) /\ Cardinality(DataSegments(f)) = NData[f] /\ NData[f] \in Nat \ {0}
         /\ D(0) \in DataSegments(f) /\ DataSegments(f) \subseteq Segments(f)
         /\ \A s \in Segments(f) : IsData(s) <=> s \in DataSegments(f)
<1> DEFINE n == NData[f]
           q == [i \in 1..n |-> D(i - 1)]
<1>1. n \in Nat \ {0} /\ NParity[f] \in Nat
  BY GopShape
<1> HIDE DEF n
<1>2. \A i \in Nat : D(i) \in Segment /\ D(i)[1] = "data" /\ P(i)[1] = "parity"
  BY DEF D, P, Segment
<1>3. q \in Seq(Segment) /\ Len(q) = n /\ DOMAIN q = 1..n
  BY <1>1, <1>2
<1>4. IsDistinct(q)
  BY <1>1, <1>3 DEF IsDistinct, D
<1>5. \A i \in 1..n : q[i] = D(i - 1)
  OBVIOUS
<1> HIDE DEF q
<1>6. DataSegments(f) = {D(i) : i \in 0..n - 1}
  BY DEF DataSegments, n
<1>7. Range(q) = DataSegments(f)
  <2>1. \A i \in 0..n - 1 : i + 1 \in 1..n /\ (i + 1) - 1 = i
    BY <1>1
  <2>2. \A i \in 1..n : i - 1 \in 0..n - 1
    BY <1>1
  <2>3. \A i \in 0..n - 1 : D(i) = q[i + 1]
    BY <1>5, <2>1
  <2>4. \A i \in 0..n - 1 : D(i) \in Range(q)
    BY <1>3, <2>1, <2>3 DEF Range
  <2>5. \A i \in 1..n : q[i] \in DataSegments(f)
    BY <1>5, <1>6, <2>2
  <2> QED
    BY <1>3, <1>6, <2>4, <2>5 DEF Range
<1>8. IsFiniteSet(DataSegments(f)) /\ Cardinality(DataSegments(f)) = n
  BY <1>3, <1>4, <1>7, RangeOfBatch
<1>9. D(0) \in DataSegments(f) /\ DataSegments(f) \subseteq Segments(f)
  BY <1>1, <1>6 DEF Segments
<1>10. \A s \in Segments(f) : IsData(s) <=> s \in DataSegments(f)
  BY <1>1, <1>2, <1>6 DEF Segments, ParitySegments, IsData
<1> QED
  BY <1>1, <1>8, <1>9, <1>10 DEF n

(* More segments do not make a frame less complete. *)
LEMMA ReadyMore ==
  ASSUME gop \in Gops, NEW k, NEW l, k.frame \in Frames, l.frame = k.frame,
         k.fetched \subseteq l.fetched, IsFiniteSet(l.fetched), isReady(k)
  PROVE  isReady(l)
<1> DEFINE d == DataSegments(k.frame)
           A == k.fetched \cap d
           B == l.fetched \cap d
           X == k.fetched \ A
           Y == l.fetched \ B
<1>1. A \subseteq B /\ X \subseteq Y /\ IsFiniteSet(B) /\ IsFiniteSet(Y) /\ (A # {} => B # {})
  BY FS_Intersection, FS_Difference
<1>2. IsFiniteSet(A) /\ IsFiniteSet(X) /\ Cardinality(A) <= Cardinality(B) /\ Cardinality(X) <= Cardinality(Y)
  BY <1>1, FS_Subset
<1>3. Cardinality(A) \in Nat /\ Cardinality(X) \in Nat /\ Cardinality(B) \in Nat /\ Cardinality(Y) \in Nat
  BY <1>1, <1>2, FS_CardinalityType
<1>4. NData[k.frame] \in Nat
  BY GopShape
<1>5. A # {} /\ 2 * Cardinality(A) + Cardinality(X) >= 2 * NData[k.frame]
  BY DEF isReady, isNew, fetchedData
<1>6. isReady(l) <=> B # {} /\ 2 * Cardinality(B) + Cardinality(Y) >= 2 * NData[k.frame]
  BY DEF isReady, isNew, fetchedData
<1> HIDE DEF A, B, X, Y
<1> QED
  BY <1>1, <1>2, <1>3, <1>4, <1>5, <1>6

(* A frame with all of its data segments is ready to be decoded.            *)
LEMMA WholeIsReady ==
  ASSUME gop \in Gops, NEW k, k.frame \in Frames, DataSegments(k.frame) \subseteq k.fetched, IsFiniteSet(k.fetched)
  PROVE  isReady(k)
<1> DEFINE d == DataSegments(k.frame)
           X == k.fetched \ d
<1>1. k.fetched \cap d = d /\ k.fetched \ (k.fetched \cap d) = X
  OBVIOUS
<1>2. IsFiniteSet(X)
  BY FS_Difference
<1>3. Cardinality(X) \in Nat /\ Cardinality(d) = NData[k.frame] /\ NData[k.frame] \in Nat /\ d # {}
  BY <1>2, FS_CardinalityType, DataCount
<1>4. isReady(k) <=> d # {} /\ 2 * Cardinality(d) + Cardinality(X) >= 2 * NData[k.frame]
  BY <1>1 DEF isReady, isNew, fetchedData
<1> HIDE DEF d, X
<1> QED
  BY <1>3, <1>4

(* A frame that is complete without parity has all of its data. *)
LEMMA ReadyWithData ==
  ASSUME gop \in Gops, NEW k, k.frame \in Frames, k.fetched \subseteq DataSegments(k.frame), isReady(k)
  PROVE  DataSegments(k.frame) \subseteq k.fetched
<1> DEFINE d == DataSegments(k.frame)
<1>1. IsFiniteSet(d) /\ Cardinality(d) = NData[k.frame] /\ NData[k.frame] \in Nat
  BY DataCount
<1>2. k.fetched \cap d = k.fetched /\ k.fetched \ (k.fetched \cap d) = {}
  OBVIOUS
<1>3. IsFiniteSet(k.fetched) /\ Cardinality(k.fetched) \in Nat /\ Cardinality(k.fetched) <= Cardinality(d)
      /\ (Cardinality(k.fetched) = Cardinality(d) => k.fetched = d)
  BY <1>1, FS_Subset, FS_CardinalityType
<1>4. 2 * Cardinality(k.fetched) + Cardinality({}) >= 2 * NData[k.frame]
  BY <1>2 DEF isReady, fetchedData
<1>5. Cardinality({}) = 0
  BY FS_EmptySet
<1> HIDE DEF d
<1>6. Cardinality(k.fetched) = Cardinality(d)
  BY <1>1, <1>3, <1>4, <1>5
<1>7. k.fetched = d
  BY <1>3, <1>6
<1> QED
  BY <1>7 DEF d

(* The requests below the handler on top *)
LEMMA RestApart ==
  ASSUME FetchTypes, LocalCalls
  PROVE  /\ \A i, j \in DOMAIN Rest : i < j => Apart(Rest[i], Rest[j])
         /\ \A c \in Range(Rest) : Apart(Head(calls), c)
         /\ \A c \in Range(Rest) : c.op = "request" => IsDistinct(c.segs) /\ DataFirst(c.segs)
<1>1. calls \in Seq(Call) /\ \A c \in Range(Rest) : c \in Range(calls)
  BY Stack DEF FetchTypes
<1>2. CASE calls = <<>>
  BY <1>2 DEF Rest, Range
<1>3. CASE calls # <<>>
  <2> DEFINE n == Len(calls)
  <2>1. /\ n \in Nat \ {0} /\ DOMAIN calls = 1..n
        /\ DOMAIN Rest = 1..n - 1 /\ \A i \in 1..n - 1 : Rest[i] = calls[i + 1]
        /\ Head(calls) = calls[1]
    BY <1>1, <1>3 DEF Rest
  <2>2. \A i, j \in 1..n : i < j => Apart(calls[i], calls[j])
    BY <2>1 DEF LocalCalls
  <2> HIDE DEF n
  <2>3. \A i, j \in 1..n - 1 : i < j => i + 1 \in 1..n /\ j + 1 \in 1..n /\ i + 1 < j + 1
    BY <2>1
  <2>4. \A i \in 1..n - 1 : i + 1 \in 1..n /\ 1 < i + 1 /\ 1 \in 1..n
    BY <2>1
  <2>5. \A c \in Range(Rest) : \E i \in 1..n - 1 : c = calls[i + 1]
    BY <2>1 DEF Range
  <2>6. \A i, j \in DOMAIN Rest : i < j => Apart(Rest[i], Rest[j])
    BY <2>1, <2>2, <2>3
  <2>7. \A c \in Range(Rest) : Apart(Head(calls), c)
    BY <2>1, <2>2, <2>4, <2>5
  <2> QED
    BY <1>1, <2>6, <2>7 DEF LocalCalls
<1> QED
  BY <1>2, <1>3

(* The order of the requests on the stack survives when the handlers on     *)
(* top change.                                                              *)
LEMMA LocalCallsKept ==
  ASSUME FetchTypes, LocalCalls, NEW new \in Seq(Call), calls' = new \o Rest,
         \A c \in Range(new) : c.op = "request" => IsDistinct(c.segs) /\ DataFirst(c.segs),
         \A i, j \in DOMAIN new : i < j => Apart(new[i], new[j]),
         \A a \in Range(new) : \A b \in Range(Rest) : Apart(a, b)
  PROVE  LocalCalls'
<1>1. Rest \in Seq(Call)
  BY Stack
<1>2. /\ Range(calls') = Range(new) \cup Range(Rest)
      /\ \A i, j \in DOMAIN calls' : i < j =>
              \/ i \in DOMAIN new /\ j \in DOMAIN new /\ calls'[i] = new[i] /\ calls'[j] = new[j]
              \/ calls'[i] \in Range(new) /\ calls'[j] \in Range(Rest)
              \/ \E k, l \in DOMAIN Rest : k < l /\ calls'[i] = Rest[k] /\ calls'[j] = Rest[l]
  BY <1>1, Push
<1>3. /\ \A i, j \in DOMAIN Rest : i < j => Apart(Rest[i], Rest[j])
      /\ \A c \in Range(Rest) : c.op = "request" => IsDistinct(c.segs) /\ DataFirst(c.segs)
  BY RestApart
<1>4. ASSUME NEW i \in DOMAIN calls', NEW j \in DOMAIN calls', i < j PROVE Apart(calls'[i], calls'[j])
  <2>1. CASE i \in DOMAIN new /\ j \in DOMAIN new /\ calls'[i] = new[i] /\ calls'[j] = new[j]
    BY <1>4, <2>1
  <2>2. CASE calls'[i] \in Range(new) /\ calls'[j] \in Range(Rest)
    BY <2>2
  <2>3. CASE \E k, l \in DOMAIN Rest : k < l /\ calls'[i] = Rest[k] /\ calls'[j] = Rest[l]
    BY <1>3, <2>3
  <2> QED
    BY <1>2, <1>4, <2>1, <2>2, <2>3
<1>5. \A c \in Range(calls') : c.op = "request" => IsDistinct(c.segs) /\ DataFirst(c.segs)
  BY <1>2, <1>3
<1> QED
  BY <1>4, <1>5 DEF LocalCalls, Apart, IsDistinct, DataFirst

(* Handlers without requests do no harm. *)
LEMMA NoRequestsApart ==
  ASSUME FetchTypes, LocalCalls, NEW new \in Seq(Call), calls' = new \o Rest,
         \A c \in Range(new) : c.op # "request"
  PROVE  LocalCalls'
<1>1. \A i \in DOMAIN new : new[i].op # "request"
  BY DEF Range
<1> QED
  BY <1>1, LocalCallsKept DEF Apart

(* A task that a step does not concern *)
LEMMA OthersLocal ==
  ASSUME NEW u \in DOMAIN tasks, TaskLocal(u), tasks'[u] = tasks[u], gop' = gop, stored' = stored,
         \A c : OfTask(c) /\ c.task = u => (c \in Range(calls') <=> c \in Range(calls))
  PROVE  TaskLocal(u)'
<1>1. /\ \A f : DataSegments(f)' = DataSegments(f) /\ Segments(f)' = Segments(f)
      /\ NData' = NData
  BY DEF DataSegments, ParitySegments, Segments, NData, NParity
<1>2. \A f : StoredOf(f)' = StoredOf(f) /\ Kept(f)' = Kept(f)
  BY <1>1 DEF StoredOf, Kept
<1>3. isReady(tasks[u])' = isReady(tasks[u]) /\ isNew(tasks[u])' = isNew(tasks[u])
  BY <1>1 DEF isReady, isNew, fetchedData
<1>4. \A c, s : s \in WillAsk(c, u) => OfTask(c) /\ c.task = u
  BY DEF WillAsk, OfTask
<1>5. \A s : (\E c \in Range(calls') : s \in WillAsk(c, u)) <=> (\E c \in Range(calls) : s \in WillAsk(c, u))
  BY <1>4
<1>6. Unasked(u)' = Unasked(u)
  BY <1>5 DEF Unasked, WillAsk
<1>7. Asked(u)' = Asked(u)
  BY <1>6 DEF Asked
<1>8. CheckMissing(u) \in Range(calls') <=> CheckMissing(u) \in Range(calls)
  BY DEF CheckMissing, OfTask
<1>9. \A c : AsksParity(c, u) => OfTask(c) /\ c.task = u
  BY DEF AsksParity, OfTask
<1>10. ExtraParity(u)' <=> ExtraParity(u)
  BY <1>9 DEF ExtraParity, AsksParity, IsData
<1>11. AsksAll(u) => AsksAll(u)'
  BY <1>1, <1>2, <1>3, <1>7, <1>8, <1>10 DEF AsksAll, D, CheckMissing
<1> QED
  BY <1>1, <1>2, <1>3, <1>11 DEF TaskLocal

(* A task that is given up or was no longer fetching *)
LEMMA EndedLocal ==
  ASSUME NEW u \in DOMAIN tasks, TaskLocal(u), MayEnd(tasks[u], tasks'[u]), gop' = gop, stored' = stored,
         tasks'[u].state # "Fetching", tasks'[u].state = "Completed" => tasks[u].state = "Completed"
  PROVE  TaskLocal(u)'
<1>1. /\ \A f : DataSegments(f)' = DataSegments(f) /\ Segments(f)' = Segments(f)
      /\ NData' = NData
  BY DEF DataSegments, ParitySegments, Segments, NData, NParity
<1>2. \A f : StoredOf(f)' = StoredOf(f) /\ Kept(f)' = Kept(f)
  BY <1>1 DEF StoredOf, Kept
<1>3. isReady(tasks[u])' = isReady(tasks[u])
  BY <1>1 DEF isReady, isNew, fetchedData, MayEnd
<1> QED
  BY <1>1, <1>2, <1>3 DEF TaskLocal, MayEnd

(* What has been reported stays reported. *)
LEMMA ReportedStays ==
  ASSUME Reported, reports' = reports, gop' = gop, stored' = stored, ~excused' => ~excused
  PROVE  Reported'
<1>1. /\ \A f : DataSegments(f)' = DataSegments(f) /\ Segments(f)' = Segments(f)
      /\ NData' = NData /\ Frames' = Frames
  BY DEF DataSegments, ParitySegments, Segments, NData, NParity, Frames
<1>2. \A f : StoredOf(f)' = StoredOf(f) /\ Kept(f)' = Kept(f)
  BY <1>1 DEF StoredOf, Kept
<1>3. \A f : AsStored(f)' = AsStored(f)
  BY <1>1, <1>2 DEF AsStored, isReady, isNew, fetchedData
<1> QED
  BY <1>1, <1>2, <1>3 DEF Reported

(* What a new task asks for is counted in full. *)
LEMMA NewTaskLocal ==
  ASSUME FetchTypes, NEW f \in Frames
  PROVE  LET k == newTask(f)
         IN /\ k.fetched = {} /\ k.completion = (1 + nRtx) * Cardinality(k.requested)
            /\ Cardinality(k.requested) \in Nat
<1> DEFINE b == prepareBatch(f)
           k == newTask(f)
           n == Len(b)
<1>1. b \in Seq(Segment) /\ IsDistinct(b) /\ n \in Nat \ {0}
  BY Batch
<1>2. Cardinality(Range(b)) = n
  BY <1>1, RangeOfBatch
<1>3. nRtx \in Nat
  BY FetcherAssumption
<1>4. n * (1 + nRtx) = (1 + nRtx) * n
  BY <1>1, <1>3
<1>5. k.fetched = {} /\ k.requested = Range(b) /\ k.completion = n * (1 + nRtx)
  BY DEF newTask
<1> HIDE DEF b, k, n
<1> QED
  BY <1>1, <1>2, <1>4, <1>5 DEF k

(* A new task, with the local storage, keeps what is known of it.           *)
LEMMA SpawnLocal ==
  ASSUME FetchInv, LocalInv, ~remote, NEW f, NEW new, Spawns(f, new), stored' = stored,
         fetcher' \in {fetcher, "Fetching"}
  PROVE  LocalInv'
<1>1. /\ FetchTypes /\ LocalCalls /\ Reported /\ gop' = gop /\ f \in Frames
      /\ new \in Seq(Call) /\ calls' = new \o Rest /\ Created(f) \in Range(new)
      /\ \A i \in DOMAIN new :
           \/ i = 1 /\ new[i] = Created(f)
           \/ i = 2 /\ new[i] = FetchDelta(f + 1)
      /\ tasks' = Append(tasks, newTask(f))
      /\ UNCHANGED <<remote, pit, reports, excused>>
      /\ pit = {} /\ stored \subseteq Published /\ \A t \in DOMAIN tasks : TaskLocal(t)
      /\ tasks \in Seq(Task) /\ (calls # <<>> => Head(calls).op = "delta")
  BY DEF FetchInv, FetchTypes, Spawns, LocalInv
<1>n. PICK n : n = Len(tasks) + 1
  OBVIOUS
<1>k. PICK k : k = newTask(f)
  OBVIOUS
<1>2. /\ DOMAIN tasks' = DOMAIN tasks \cup {n} /\ n \notin DOMAIN tasks
      /\ \A u \in DOMAIN tasks : tasks'[u] = tasks[u]
      /\ Range(calls') = Range(new) \cup Range(Rest)
  BY <1>n, SpawnKeeps
<1>3. /\ k \in Task /\ isNew(k) /\ k.frame = f /\ k.state = "Fetching" /\ k.progress = 0
      /\ k.requested = Range(prepareBatch(f)) /\ D(0) \in k.requested
      /\ k.fetched = {} /\ k.completion = (1 + nRtx) * Cardinality(k.requested)
      /\ Cardinality(k.requested) \in Nat
  BY <1>1, <1>k, NewTask, NewTaskLocal
<1>4. tasks'[n] = k /\ n \in Nat
  BY <1>1, <1>3, <1>k, <1>n, TaskAdded
<1>r. PICK r : r = Created(f)
  OBVIOUS
<1>5. r \in Range(new) /\ r.op = "request" /\ r.task = n /\ r.segs = prepareBatch(f) /\ r.start = TRUE /\ OfTask(r)
  <2>b. PICK b : b = prepareBatch(f)
    OBVIOUS
  <2>1. r = Request(n, b, TRUE)
    BY <1>n, <1>r, <2>b DEF Created
  <2>2. r.op = "request" /\ r.task = n /\ r.segs = b /\ r.start = TRUE /\ OfTask(r)
    BY <2>1 DEF Request, OfTask
  <2> QED
    BY <1>1, <1>r, <2>2, <2>b
<1>6. \A c \in Range(new) : c = r \/ (c.op = "delta" /\ ~OfTask(c))
  BY <1>1, <1>r DEF Range, FetchDelta, OfTask
<1>7. \A i \in DOMAIN new : i = 2 => new[i].op = "delta"
  BY <1>1 DEF FetchDelta
<1>8. \A c \in Range(Rest) : c \in Call /\ (OfTask(c) => c.task \in DOMAIN tasks)
  BY <1>1, Stack DEF CallOK
<1>9. LocalCalls'
  <2>1. \A c \in Range(new) : c.op = "request" => IsDistinct(c.segs) /\ DataFirst(c.segs)
    BY <1>5, <1>6, Batch
  <2>2. \A i, j \in DOMAIN new : i < j => Apart(new[i], new[j])
    BY <1>1, <1>7 DEF Apart
  <2>3. \A a \in Range(new) : \A b \in Range(Rest) : Apart(a, b)
    BY <1>2, <1>5, <1>6, <1>8 DEF Apart, OfTask
  <2> QED
    BY <1>1, <2>1, <2>2, <2>3, LocalCallsKept
<1>10. ASSUME NEW u \in DOMAIN tasks PROVE TaskLocal(u)'
  <2>1. ASSUME NEW c, OfTask(c), c.task = u PROVE c \in Range(calls') <=> c \in Range(calls)
    <3>1. c \notin Range(new)
      BY <1>2, <1>5, <1>6, <1>10, <2>1
    <3>2. CASE calls = <<>>
      BY <1>1, <1>2, <3>1, <3>2, Stack
    <3>3. CASE calls # <<>>
      <4>1. Range(calls) = {Head(calls)} \cup Range(Rest) /\ Head(calls).op = "delta"
        BY <1>1, <3>3, Stack
      <4> QED
        BY <1>2, <2>1, <3>1, <4>1 DEF OfTask
    <3> QED
      BY <3>2, <3>3
  <2> QED
    BY <1>1, <1>2, <1>10, <2>1, OthersLocal
<1>11. TaskLocal(n)'
  <2>1. Unasked(n)' = k.requested
    <3>1. WillAsk(r, n) = k.requested /\ r \in Range(calls')
      BY <1>2, <1>3, <1>5 DEF WillAsk
    <3> QED
      BY <1>4, <3>1 DEF Unasked, WillAsk
  <2>2. Asked(n)' = {}
    BY <1>4, <2>1 DEF Asked
  <2>3. ~ExtraParity(n)'
    <3>1. \A c \in Range(calls') : c.op = "request" /\ c.task = n => c = r
      BY <1>2, <1>6, <1>8 DEF OfTask
    <3> QED
      BY <1>5, <3>1 DEF ExtraParity, AsksParity
  <2>4. isNew(tasks[n])'
    BY <1>1, <1>3, <1>4 DEF isNew, fetchedData, DataSegments, NData
  <2>5. Cardinality({}) = 0 /\ (1 + nRtx) * 0 = 0 /\ 0 <= 0
    BY FS_EmptySet, FetcherAssumption
  <2>6. (1 + nRtx) * Cardinality(k.requested) >= (1 + nRtx) * Cardinality(k.requested)
    <3>1. (1 + nRtx) * Cardinality(k.requested) \in Nat
      BY <1>3, FetcherAssumption
    <3> QED
      BY <3>1
  <2>7. AsksAll(n)'
    BY <1>3, <1>4, <2>2, <2>3, <2>4, <2>5, <2>6 DEF AsksAll, D
  <2> QED
    BY <1>3, <1>4, <2>7 DEF TaskLocal
<1>12. Reported'
  BY <1>1, ReportedStays
<1>13. stored' \subseteq Published'
  BY <1>1 DEF Published, Frames, Segments, DataSegments, ParitySegments, NData, NParity
<1> QED
  BY <1>1, <1>2, <1>9, <1>10, <1>11, <1>12, <1>13 DEF LocalInv

(* The first segment of a sequence, and the others *)
LEMMA FirstOf ==
  ASSUME NEW q \in Seq(Segment), q # <<>>
  PROVE  /\ Tail(q) \in Seq(Segment) /\ Head(q) \in Segment
         /\ Range(q) = {Head(q)} \cup Range(Tail(q))
         /\ IsDistinct(q) => IsDistinct(Tail(q)) /\ Head(q) \notin Range(Tail(q))
         /\ DataFirst(q) => DataFirst(Tail(q)) /\ (~IsData(Head(q)) => \A s \in Range(q) : ~IsData(s))
<1> DEFINE n == Len(q)
<1>t. PICK r : r = Tail(q)
  OBVIOUS
<1>1. /\ n \in Nat \ {0} /\ r \in Seq(Segment) /\ DOMAIN q = 1..n /\ DOMAIN r = 1..n - 1 /\ Len(r) = n - 1
      /\ \A i \in 1..n - 1 : r[i] = q[i + 1]
      /\ Head(q) = q[1] /\ q[1] \in Segment
  BY <1>t
<1>n. n = Len(q)
  OBVIOUS
<1> HIDE DEF n
<1>2. \A i \in 1..n - 1 : i + 1 \in 1..n /\ i + 1 # 1
  BY <1>1
<1>3. \A i \in 1..n : i = 1 \/ (i - 1 \in 1..n - 1 /\ (i - 1) + 1 = i)
  BY <1>1
<1>4. \A i \in 1..n : q[i] = q[1] \/ q[i] \in Range(r)
  <2>1. ASSUME NEW i \in 1..n, i # 1 PROVE q[i] \in Range(r)
    <3>1. i - 1 \in 1..n - 1 /\ r[i - 1] = q[i]
      BY <1>1, <1>3, <2>1
    <3> QED
      BY <1>1, <3>1 DEF Range
  <2> QED
    BY <2>1
<1>5. \A s \in Range(r) : \E i \in 1..n - 1 : s = q[i + 1]
  BY <1>1 DEF Range
<1>6. 1 \in 1..n
  BY <1>1
<1>7. Range(q) = {q[1]} \cup Range(r)
  <2>1. \A s \in Range(q) : \E i \in 1..n : s = q[i]
    BY <1>1 DEF Range
  <2>2. \A i \in 1..n : q[i] \in Range(q)
    BY <1>1 DEF Range
  <2> QED
    BY <1>2, <1>4, <1>5, <1>6, <2>1, <2>2
<1>8. ASSUME IsDistinct(q) PROVE IsDistinct(r) /\ q[1] \notin Range(r)
  <2>1. \A i, j \in 1..n : q[i] = q[j] => i = j
    BY <1>8, <1>n DEF IsDistinct
  <2>2. q[1] \notin Range(r)
    BY <1>2, <1>5, <1>6, <2>1
  <2>3. \A i, j \in 1..n - 1 : r[i] = r[j] => i + 1 = j + 1
    BY <1>1, <1>2, <2>1
  <2>4. \A i, j \in 1..n - 1 : i + 1 = j + 1 => i = j
    BY <1>1
  <2> QED
    BY <1>1, <2>2, <2>3, <2>4 DEF IsDistinct
<1>9. ASSUME DataFirst(q) PROVE DataFirst(r) /\ (~IsData(q[1]) => \A s \in Range(q) : ~IsData(s))
  <2>1. \A i, j \in 1..n : i < j /\ IsData(q[j]) => IsData(q[i])
    BY <1>9, <1>n DEF DataFirst
  <2>2. \A i, j \in 1..n - 1 : i < j => i + 1 < j + 1
    BY <1>1
  <2>3. DataFirst(r)
    BY <1>1, <1>2, <2>1, <2>2 DEF DataFirst
  <2>4. \A i \in 1..n : i # 1 => 1 < i
    BY <1>1
  <2>5. \A i \in 1..n : IsData(q[i]) => IsData(q[1])
    BY <1>6, <2>1, <2>4
  <2> QED
    BY <1>1, <2>3, <2>5 DEF Range
<1> QED
  BY <1>1, <1>7, <1>8, <1>9, <1>t

(* A request that is answered from the storage *)
LocallyAnswered(t, k, X, s) ==
  /\ calls # <<>> /\ Head(calls).op = "request" /\ t = Head(calls).task
  /\ Head(calls).segs # <<>> /\ s = Head(Head(calls).segs)
  /\ X \in Seq(Call) /\ k \in Task
  /\ k.frame = tasks[t].frame /\ k.state = tasks[t].state
  /\ k.requested = tasks[t].requested /\ k.completion = tasks[t].completion
  /\ k.progress = tasks[t].progress + 1 + nRtx
  /\ <<tasks[t].frame, s>> \in stored => k.fetched = tasks[t].fetched \cup {s} /\ CheckMissing(t) \in Range(X)
  /\ <<tasks[t].frame, s>> \notin stored => k.fetched = tasks[t].fetched
  /\ \A c \in Range(X) : c.op # "request" /\ (OfTask(c) => c.task = t)
  /\ tasks' = [tasks EXCEPT ![t] = k]
  /\ calls' = X \o (<<Request(t, Tail(Head(calls).segs), Head(calls).start)>> \o Tail(calls))
  /\ UNCHANGED <<remote, stored, gop, reports, pit, excused>>

(* A request that the local storage answers keeps what is known of it.      *)
LEMMA LocallyAnsweredKeeps ==
  ASSUME FetchInv, LocalInv, ~remote, NEW t, NEW k, NEW X, NEW s, LocallyAnswered(t, k, X, s)
  PROVE  LocalInv'
<1>1. /\ FetchTypes /\ Nested /\ LocalCalls /\ Reported /\ tasks \in Seq(Task) /\ gop \in Gops
      /\ pit = {} /\ stored \subseteq Published /\ \A u \in DOMAIN tasks : TaskLocal(u)
      /\ calls # <<>> /\ Head(calls).op = "request" /\ k \in Task /\ X \in Seq(Call)
      /\ UNCHANGED <<remote, stored, gop, reports, pit, excused>>
  BY DEF FetchInv, FetchTypes, LocallyAnswered, LocalInv
<1>c. PICK c : c = Head(calls)
  OBVIOUS
<1>2. /\ c \in Call /\ CallOK(c) /\ OfTask(c) /\ Rest = Tail(calls) /\ Rest \in Seq(Call)
      /\ c.op = "request" /\ t = c.task /\ Range(calls) = {c} \cup Range(Rest)
      /\ \A b \in Range(Rest) : MayRest(tasks, c, b)
  BY <1>1, <1>c, Stack DEF OfTask, LocallyAnswered
<1>3. /\ c.segs \in Seq(Segment) /\ t \in DOMAIN tasks /\ Range(c.segs) \subseteq tasks[t].requested
      /\ t \in Nat /\ c.start \in BOOLEAN /\ c.segs # <<>> /\ s = Head(c.segs)
  BY <1>2, <1>c, CallFacts DEF CallOK, LocallyAnswered
<1>q. PICK q : q = c.segs
  OBVIOUS
<1>4. IsDistinct(q) /\ DataFirst(q)
  BY <1>1, <1>2, <1>q DEF LocalCalls
<1>5. /\ Tail(q) \in Seq(Segment) /\ s \in Segment /\ Range(q) = {s} \cup Range(Tail(q))
      /\ IsDistinct(Tail(q)) /\ s \notin Range(Tail(q)) /\ DataFirst(Tail(q))
      /\ ~IsData(s) => \A z \in Range(q) : ~IsData(z)
  BY <1>3, <1>4, <1>q, FirstOf
<1>r. PICK r : r = Request(t, Tail(q), c.start)
  OBVIOUS
<1>6. r \in Call /\ r.op = "request" /\ r.task = t /\ r.segs = Tail(q) /\ r.start = c.start /\ OfTask(r)
  <2>z. PICK z : z = Tail(q)
    OBVIOUS
  <2>b. PICK b : b = c.start
    OBVIOUS
  <2>1. z \in Seq(Segment) /\ b \in BOOLEAN /\ t \in Nat
    BY <1>3, <1>5, <2>z, <2>b
  <2>2. LET x == Request(t, z, b)
        IN x \in Call /\ OfTask(x) /\ x.op = "request" /\ x.task = t /\ x.segs = z /\ x.start = b
    BY <2>1, RequestMade
  <2>3. r = Request(t, z, b)
    BY <1>r, <2>z, <2>b
  <2> QED
    BY <2>2, <2>3, <2>z, <2>b
<1>n. PICK new : new = X \o <<r>>
  OBVIOUS
<1>7. new \in Seq(Call) /\ Range(new) = Range(X) \cup {r} /\ calls' = new \o Rest
  <2>1. calls' = X \o (<<r>> \o Rest)
    BY <1>2, <1>c, <1>q, <1>r DEF LocallyAnswered
  <2>2. <<r>> \in Seq(Call) /\ Range(<<r>>) = {r}
    BY <1>6 DEF Range
  <2>3. Range(X \o <<r>>) = Range(X) \cup Range(<<r>>) /\ X \o <<r>> \in Seq(Call)
    BY <1>1, <2>2, Push
  <2>4. X \o (<<r>> \o Rest) = (X \o <<r>>) \o Rest
    BY <1>1, <1>2, <2>2
  <2> QED
    BY <1>n, <2>1, <2>2, <2>3, <2>4
<1>x. /\ k.frame = tasks[t].frame /\ k.state = tasks[t].state
      /\ k.requested = tasks[t].requested /\ k.completion = tasks[t].completion
      /\ k.progress = tasks[t].progress + 1 + nRtx
      /\ <<tasks[t].frame, s>> \in stored => k.fetched = tasks[t].fetched \cup {s} /\ CheckMissing(t) \in Range(X)
      /\ <<tasks[t].frame, s>> \notin stored => k.fetched = tasks[t].fetched
      /\ \A d \in Range(X) : d.op # "request" /\ (OfTask(d) => d.task = t)
  BY DEF LocallyAnswered
<1>8. /\ DOMAIN tasks' = DOMAIN tasks /\ tasks'[t] = k
      /\ \A u \in DOMAIN tasks : u # t => tasks'[u] = tasks[u]
      /\ Range(calls') = Range(X) \cup {r} \cup Range(Rest)
  <2>1. DOMAIN tasks' = DOMAIN tasks /\ \A u \in DOMAIN tasks : tasks'[u] = IF u = t THEN k ELSE tasks[u]
    BY <1>1, <1>3, TaskChanged DEF LocallyAnswered
  <2>2. Range(calls') = Range(new) \cup Range(Rest)
    BY <1>2, <1>7, Push
  <2> QED
    BY <1>3, <1>7, <2>1, <2>2
<1>9. LocalCalls'
  <2>1. \A a \in Range(new) : a.op = "request" => a = r
    BY <1>7, <1>x
  <2>2. \A a \in Range(new) : a.op = "request" => IsDistinct(a.segs) /\ DataFirst(a.segs)
    BY <1>5, <1>6, <2>1
  <2>3. \A b \in Range(Rest) : Apart(r, b)
    <3>1. \A b \in Range(Rest) : Apart(c, b)
      BY <1>1, <1>c, RestApart
    <3> QED
      BY <1>2, <1>5, <1>6, <1>q, <3>1 DEF Apart
  <2>4. \A a \in Range(new) : \A b \in Range(Rest) : Apart(a, b)
    BY <2>1, <2>3 DEF Apart
  <2>5. \A i, j \in DOMAIN new : i < j => Apart(new[i], new[j])
    <3> SUFFICES ASSUME NEW i \in DOMAIN new, NEW j \in DOMAIN new, i < j PROVE new[i].op # "request"
      BY DEF Apart
    <3>1. Len(new) = Len(X) + 1 /\ Len(X) \in Nat /\ DOMAIN new = 1..Len(new) /\ DOMAIN X = 1..Len(X)
      BY <1>1, <1>6, <1>n
    <3>2. i \in 1..Len(X)
      BY <3>1
    <3>3. new[i] = X[i]
      BY <1>1, <1>6, <1>n, <3>2
    <3> QED
      BY <1>x, <3>1, <3>2, <3>3 DEF Range
  <2> QED
    BY <1>1, <1>7, <2>2, <2>4, <2>5, LocalCallsKept
<1>10. ASSUME NEW u \in DOMAIN tasks, u # t PROVE TaskLocal(u)'
  <2>1. ASSUME NEW d, OfTask(d), d.task = u PROVE d \in Range(calls') <=> d \in Range(calls)
    BY <1>2, <1>6, <1>8, <1>x, <1>10, <2>1
  <2> QED
    BY <1>1, <1>8, <1>10, <2>1, OthersLocal
<1>11. TaskLocal(t) /\ tasks[t] \in Task /\ TaskOK(tasks[t]) /\ nRtx \in Nat
  BY <1>1, <1>3, CountsFinite, FetcherAssumption
<1>f. PICK f : f = tasks[t].frame
  OBVIOUS
<1>d. PICK data : data = DataSegments(f)
  OBVIOUS
<1>12. /\ f \in Frames /\ IsFiniteSet(tasks[t].requested) /\ tasks[t].fetched \subseteq tasks[t].requested
       /\ D(0) \in data /\ data \subseteq Segments(f) /\ \A z \in Segments(f) : IsData(z) <=> z \in data
  BY <1>1, <1>11, <1>f, <1>d, DataCount DEF TaskOK
<1>13. /\ StoredOf(f)' = StoredOf(f) /\ Kept(f)' = Kept(f) /\ DataSegments(f)' = data
       /\ isReady(k)' = isReady(k) /\ isNew(k)' = isNew(k)
  BY <1>1, <1>d DEF StoredOf, Kept, Segments, DataSegments, ParitySegments, NData, NParity, isReady, isNew, fetchedData
<1>14. <<f, s>> \in stored => s \in StoredOf(f)
  BY <1>1 DEF StoredOf, Published
<1>15. /\ k.fetched \subseteq StoredOf(f) /\ tasks[t].fetched \subseteq k.fetched
       /\ k.fetched \subseteq tasks[t].fetched \cup {s} /\ k.fetched \subseteq k.requested
       /\ s \in StoredOf(f) => s \in k.fetched
  <2>1. s \in StoredOf(f) => <<f, s>> \in stored
    BY DEF StoredOf
  <2> QED
    BY <1>3, <1>5, <1>11, <1>12, <1>14, <1>x, <1>f, <1>q, <2>1 DEF TaskLocal
<1>16. ASSUME k.state = "Completed" PROVE isReady(k) /\ (Kept(f) => data \subseteq k.fetched)
  <2>1. IsFiniteSet(k.fetched)
    BY <1>12, <1>15, <1>x, FS_Subset
  <2>2. isReady(tasks[t]) /\ (Kept(f) => data \subseteq tasks[t].fetched)
    BY <1>11, <1>16, <1>x, <1>f, <1>d DEF TaskLocal
  <2> QED
    BY <1>1, <1>12, <1>15, <1>x, <1>f, <2>1, <2>2, ReadyMore
<1>17. ASSUME k.state = "Fetching" PROVE AsksAll(t)'
  <2>1. /\ tasks[t].progress <= (1 + nRtx) * Cardinality(Asked(t))
        /\ tasks[t].completion >= (1 + nRtx) * Cardinality(tasks[t].requested)
        /\ D(0) \in tasks[t].requested
        /\ Asked(t) \cap StoredOf(f) \subseteq tasks[t].fetched
        /\ ~isNew(tasks[t]) => data \subseteq tasks[t].requested \/ CheckMissing(t) \in Range(calls)
        /\ Kept(f) /\ (ExtraParity(t) \/ ~(tasks[t].fetched \subseteq data)) => data \subseteq tasks[t].fetched
    BY <1>11, <1>17, <1>x, <1>f, <1>d DEF TaskLocal, AsksAll
  <2>2. tasks[t].requested \subseteq Segment /\ Unasked(t) = Below(t) \cup Range(q)
        /\ Unasked(t) \subseteq tasks[t].requested
    BY <1>1, <1>2, <1>3, <1>c, <1>q, UnaskedParts, CountsFinite DEF WillAsk
  <2>3. \A e, z : z \in WillAsk(e, t) <=> e.op = "request" /\ e.task = t /\ z \in Range(e.segs)
    BY DEF WillAsk
  <2>4. \A z \in tasks[t].requested :
          (\E e \in Range(calls') : z \in WillAsk(e, t)) <=> z \in Below(t) \/ z \in Range(Tail(q))
    BY <1>6, <1>8, <1>x, <2>2, <2>3 DEF Below
  <2>5. Unasked(t)' = Below(t) \cup Range(Tail(q))
    BY <1>5, <1>8, <1>x, <2>2, <2>4 DEF Unasked, WillAsk
  <2>6. s \notin Below(t)
    <3> SUFFICES ASSUME NEW b \in Range(Rest), s \in WillAsk(b, t) PROVE FALSE
      BY DEF Below
    <3>1. Apart(c, b)
      BY <1>1, <1>c, RestApart
    <3> QED
      BY <1>2, <1>5, <1>q, <2>3, <3>1 DEF Apart
  <2>7. Asked(t)' = Asked(t) \cup {s} /\ s \notin Asked(t)
    BY <1>3, <1>5, <1>8, <1>x, <1>q, <2>2, <2>5, <2>6 DEF Asked
  <2>8. Cardinality(Asked(t)') = Cardinality(Asked(t)) + 1 /\ Cardinality(Asked(t)) \in Nat
    <3>1. IsFiniteSet(Asked(t))
      BY <1>1, <1>3, CountsFinite
    <3> QED
      BY <2>7, <3>1, FS_AddElement, FS_CardinalityType
  <2>9. k.progress <= (1 + nRtx) * Cardinality(Asked(t)')
    <3> DEFINE a == Cardinality(Asked(t))
    <3>1. (1 + nRtx) * (a + 1) = (1 + nRtx) * a + 1 * (1 + nRtx)
      BY <1>11, <2>8, Distributes
    <3>2. (1 + nRtx) * a \in Nat /\ 1 * (1 + nRtx) = 1 + nRtx /\ tasks[t].progress \in Nat
      BY <1>11, <2>8 DEF Task
    <3>3. tasks[t].progress <= (1 + nRtx) * a
      BY <2>1
    <3>4. k.progress <= (1 + nRtx) * (a + 1)
      <4> HIDE DEF a
      <4> QED
        BY <1>11, <1>x, <3>1, <3>2, <3>3
    <3> QED
      BY <2>8, <3>4
  <2>10. Asked(t)' \cap StoredOf(f) \subseteq k.fetched
    BY <1>15, <2>1, <2>7
  <2>11. CheckMissing(t) \in Range(calls) => CheckMissing(t) \in Range(Rest)
    BY <1>2 DEF CheckMissing
  <2>12. ~isNew(k) => data \subseteq k.requested \/ CheckMissing(t) \in Range(calls')
    <3>1. CASE <<f, s>> \in stored
      BY <1>8, <1>x, <1>f, <3>1
    <3>2. CASE <<f, s>> \notin stored
      <4>1. isNew(k) = isNew(tasks[t])
        BY <1>x, <1>f, <3>2 DEF isNew, fetchedData
      <4> QED
        BY <1>8, <1>x, <2>1, <2>11, <4>1
    <3> QED
      BY <3>1, <3>2
  <2>13. ExtraParity(t)' => ExtraParity(t)
    <3> SUFFICES ASSUME NEW e \in Range(calls'), AsksParity(e, t) PROVE ExtraParity(t)
      BY DEF ExtraParity, AsksParity, IsData
    <3>1. CASE e \in Range(Rest)
      BY <1>2, <3>1 DEF ExtraParity
    <3>2. CASE e = r
      <4>1. AsksParity(c, t)
        BY <1>2, <1>5, <1>6, <1>q, <3>2 DEF AsksParity
      <4> QED
        BY <1>2, <4>1 DEF ExtraParity
    <3> QED
      BY <1>8, <1>x, <3>1, <3>2 DEF AsksParity
  <2>14. ASSUME Kept(f), tasks[t].fetched \subseteq data, ~(k.fetched \subseteq data) PROVE data \subseteq tasks[t].fetched
    <3>1. s \in k.fetched /\ s \in StoredOf(f) /\ s \in Segments(f) /\ ~IsData(s)
      BY <1>12, <1>15, <2>14 DEF StoredOf
    <3>2. CASE ~c.start
      <4>1. AsksParity(c, t)
        BY <1>2, <1>5, <1>q, <3>1, <3>2 DEF AsksParity
      <4> QED
        BY <1>2, <2>1, <2>14, <4>1 DEF ExtraParity
    <3>3. CASE c.start
      <4>1. Below(t) = {}
        <5> SUFFICES ASSUME NEW b \in Range(Rest), NEW z, z \in WillAsk(b, t) PROVE FALSE
          BY DEF Below
        <5>1. Apart(c, b)
          BY <1>1, <1>c, RestApart
        <5> QED
          BY <1>2, <2>3, <3>3, <5>1 DEF Apart
      <4>2. \A z \in Unasked(t) : ~IsData(z)
        BY <1>5, <2>2, <3>1, <4>1
      <4>3. \A z \in data : z \in tasks[t].requested => z \in tasks[t].fetched
        BY <1>12, <1>d, <2>1, <2>14, <4>2 DEF Asked, Kept
      <4>4. ~isNew(tasks[t])
        BY <1>12, <1>d, <1>f, <2>1, <4>3 DEF isNew, fetchedData
      <4>5. CheckMissing(t) \notin Range(Rest)
        <5> SUFFICES ASSUME CheckMissing(t) \in Range(Rest) PROVE FALSE
          OBVIOUS
        <5>1. MayRest(tasks, c, CheckMissing(t)) /\ CheckMissing(t).op = "missing" /\ CheckMissing(t).task = t
          BY <1>2 DEF CheckMissing
        <5> QED
          BY <1>2, <5>1 DEF MayRest
      <4> QED
        BY <2>1, <2>11, <4>3, <4>4, <4>5
    <3> QED
      BY <3>2, <3>3
  <2>15. Kept(f) /\ (ExtraParity(t)' \/ ~(k.fetched \subseteq data)) => data \subseteq k.fetched
    BY <1>15, <2>1, <2>13, <2>14
  <2> QED
    BY <1>8, <1>13, <1>x, <1>f, <2>1, <2>9, <2>10, <2>12, <2>15 DEF AsksAll, D
<1>18. TaskLocal(t)'
  BY <1>8, <1>13, <1>15, <1>16, <1>17, <1>x, <1>f DEF TaskLocal
<1>19. Reported'
  BY <1>1, ReportedStays
<1>20. stored' \subseteq Published'
  BY <1>1 DEF Published, Frames, Segments, DataSegments, ParitySegments, NData, NParity
<1> QED
  BY <1>1, <1>8, <1>9, <1>10, <1>18, <1>19, <1>20 DEF LocalInv

(* fetch creates the task of the target. *)
LEMMA FetchLocal == FetchInv /\ LocalInv /\ ~remote /\ Fetch => LocalInv'
<1> SUFFICES ASSUME FetchInv, LocalInv, ~remote, Fetch PROVE LocalInv'
  OBVIOUS
<1>1. PICK new : Spawns(target, new)
  BY FetchSpawns
<1>2. stored' = stored /\ fetcher' \in {fetcher, "Fetching"}
  BY DEF Fetch
<1> QED
  BY <1>1, <1>2, SpawnLocal

(* A step that returns from a handler without a task *)
LEMMA ReturnLocal ==
  ASSUME FetchInv, LocalInv, ~remote, calls # <<>>, ~OfTask(Head(calls)), calls' = Rest, tasks' = tasks,
         UNCHANGED <<remote, stored, gop, pit, reports, excused>>
  PROVE  LocalInv'
<1>1. /\ FetchTypes /\ LocalCalls /\ Reported /\ pit = {} /\ stored \subseteq Published
      /\ \A u \in DOMAIN tasks : TaskLocal(u)
  BY DEF FetchInv, LocalInv
<1>2. Rest \in Seq(Call) /\ Range(calls) = {Head(calls)} \cup Range(Rest)
  BY <1>1, Stack
<1>3. <<>> \in Seq(Call) /\ calls' = <<>> \o Rest /\ Range(<<>>) = {}
  BY <1>2 DEF Range
<1>4. LocalCalls'
  BY <1>1, <1>3, NoRequestsApart
<1>5. \A c : OfTask(c) => (c \in Range(calls') <=> c \in Range(calls))
  BY <1>2
<1>6. ASSUME NEW u \in DOMAIN tasks PROVE TaskLocal(u)'
  <2>1. TaskLocal(u) /\ tasks'[u] = tasks[u]
    BY <1>1
  <2> QED
    BY <1>5, <2>1, OthersLocal
<1>7. Reported'
  BY <1>1, ReportedStays
<1>8. stored' \subseteq Published'
  BY <1>1 DEF Published, Frames, Segments, DataSegments, ParitySegments, NData, NParity
<1> QED
  BY <1>1, <1>4, <1>6, <1>7, <1>8 DEF LocalInv

(* fetchGopKey, and the loop of fetchGopDelta *)
LEMMA FetchGopLocal == FetchInv /\ LocalInv /\ ~remote /\ FetchGop => LocalInv'
<1> SUFFICES ASSUME FetchInv, LocalInv, ~remote, FetchGop PROVE LocalInv'
  OBVIOUS
<1>j. PICK j : j = Head(calls).frame
  OBVIOUS
<1>1. /\ calls # <<>> /\ Head(calls).op = "delta" /\ fetcher' = fetcher
      /\ UNCHANGED <<remote, stored, gop, pit, reports, excused>>
  BY DEF FetchGop, Top
<1>2. CASE \E new : Spawns(j, new) /\ (0 < j /\ j < target => FetchDelta(j + 1) \in Range(new))
  <2>1. PICK new : Spawns(j, new)
    BY <1>2
  <2> QED
    BY <1>1, <2>1, SpawnLocal
<1>3. CASE j = target /\ calls' = Rest /\ tasks' = tasks /\ current' = current
  BY <1>1, <1>3, ReturnLocal DEF OfTask
<1> QED
  BY <1>2, <1>3, <1>j, LoopSteps

(* requestSegment, answered from the storage *)
LEMMA RequestLocalLocal == FetchInv /\ LocalInv /\ ~remote /\ RequestLocal => LocalInv'
<1> SUFFICES ASSUME FetchInv, LocalInv, ~remote, RequestLocal PROVE LocalInv'
  OBVIOUS
<1>1. /\ FetchTypes /\ Nested /\ calls # <<>> /\ Head(calls).op = "request"
      /\ UNCHANGED <<remote, stored, gop, fetcher, current, decoded, reports, pit, excused>>
      /\ LocalCalls /\ Reported /\ pit = {} /\ stored \subseteq Published
      /\ \A u \in DOMAIN tasks : TaskLocal(u)
  BY DEF FetchInv, RequestLocal, Top, LocalInv
<1>c. PICK c : c = Head(calls)
  OBVIOUS
<1>t. PICK t : t = c.task
  OBVIOUS
<1>2. /\ c \in Call /\ CallOK(c) /\ OfTask(c) /\ Rest = Tail(calls) /\ Rest \in Seq(Call) /\ c.op = "request"
      /\ Range(calls) = {c} \cup Range(Rest)
  BY <1>1, <1>c, Stack DEF OfTask
<1>3. /\ c.segs \in Seq(Segment) /\ t \in DOMAIN tasks /\ Range(c.segs) \subseteq tasks[t].requested
      /\ t \in Nat /\ c = Request(t, c.segs, c.start)
  BY <1>1, <1>2, <1>t, CallFacts DEF CallOK
<1>4. /\ tasks[t] \in Task /\ TaskOK(tasks[t]) /\ tasks \in Seq(Task)
      /\ tasks[t].progress \in Nat /\ nRtx \in Nat
  BY <1>1, <1>3, CountsFinite, FetcherAssumption DEF FetchTypes, Task
<1>5. CASE c.segs = <<>> \/ (c.start /\ tasks[t].state # "Fetching")
  <2>1. calls' = Rest /\ tasks' = tasks
    BY <1>2, <1>5, <1>c, <1>t DEF RequestLocal
  <2>2. <<>> \in Seq(Call) /\ calls' = <<>> \o Rest /\ Range(<<>>) = {} /\ Range(calls') = Range(Rest)
    BY <1>2, <2>1 DEF Range
  <2>3. LocalCalls'
    BY <1>1, <2>2, NoRequestsApart
  <2>4. ASSUME NEW u \in DOMAIN tasks, u # t PROVE TaskLocal(u)'
    <3>1. ASSUME NEW d, OfTask(d), d.task = u PROVE d \in Range(calls') <=> d \in Range(calls)
      BY <1>2, <1>t, <2>2, <2>4, <3>1
    <3> QED
      BY <1>1, <2>1, <2>4, <3>1, OthersLocal
  <2>5. TaskLocal(t)'
    <3>1. CASE tasks[t].state # "Fetching"
      <4>1. MayEnd(tasks[t], tasks'[t]) /\ tasks'[t].state = tasks[t].state
        BY <1>4, <2>1 DEF MayEnd
      <4> QED
        BY <1>1, <1>3, <3>1, <4>1, EndedLocal
    <3>2. CASE tasks[t].state = "Fetching"
      <4>1. Range(c.segs) = {}
        BY <1>5, <3>2 DEF Range
      <4>2. \A z, d : z \in WillAsk(d, t) <=> d.op = "request" /\ d.task = t /\ z \in Range(d.segs)
        BY DEF WillAsk
      <4>3. Unasked(t)' = Unasked(t)
        BY <1>2, <2>1, <2>2, <4>1, <4>2 DEF Unasked, WillAsk
      <4>4. Asked(t)' = Asked(t)
        BY <2>1, <4>3 DEF Asked
      <4>5. CheckMissing(t) \in Range(calls') <=> CheckMissing(t) \in Range(calls)
        BY <1>2, <2>2 DEF CheckMissing
      <4>6. ExtraParity(t)' <=> ExtraParity(t)
        BY <1>2, <2>2, <4>1 DEF ExtraParity, AsksParity, IsData
      <4>7. /\ \A f : DataSegments(f)' = DataSegments(f) /\ Segments(f)' = Segments(f)
            /\ NData' = NData
        BY <1>1 DEF DataSegments, ParitySegments, Segments, NData, NParity
      <4>8. \A f : StoredOf(f)' = StoredOf(f) /\ Kept(f)' = Kept(f)
        BY <1>1, <4>7 DEF StoredOf, Kept
      <4>9. isReady(tasks[t])' = isReady(tasks[t]) /\ isNew(tasks[t])' = isNew(tasks[t])
        BY <2>1, <4>7 DEF isReady, isNew, fetchedData
      <4>10. TaskLocal(t) /\ AsksAll(t)
        BY <1>1, <1>3, <3>2 DEF TaskLocal
      <4>11. AsksAll(t)'
        BY <2>1, <4>4, <4>5, <4>6, <4>7, <4>8, <4>9, <4>10 DEF AsksAll, D, CheckMissing
      <4> QED
        BY <2>1, <4>7, <4>8, <4>9, <4>10, <4>11 DEF TaskLocal
    <3> QED
      BY <3>1, <3>2
  <2>6. Reported'
    BY <1>1, ReportedStays
  <2>7. stored' \subseteq Published'
    BY <1>1 DEF Published, Frames, Segments, DataSegments, ParitySegments, NData, NParity
  <2> QED
    BY <1>1, <2>1, <2>3, <2>4, <2>5, <2>6, <2>7 DEF LocalInv
<1>6. CASE ~(c.segs = <<>> \/ (c.start /\ tasks[t].state # "Fetching"))
  <2>s. PICK s : s = Head(c.segs)
    OBVIOUS
  <2>p. PICK p : p = tasks[t].progress + 1 + nRtx
    OBVIOUS
  <2>r. PICK rest : rest = <<[c EXCEPT !.segs = Tail(@)]>> \o Tail(calls)
    OBVIOUS
  <2>1. rest = <<Request(t, Tail(c.segs), c.start)>> \o Tail(calls)
    <3>1. [c EXCEPT !.segs = Tail(@)] = Request(t, Tail(c.segs), c.start)
      BY <1>3, RequestTail
    <3> QED
      BY <2>r, <3>1
  <2>2. s \in Range(c.segs) /\ s \in Segment
    BY <1>3, <1>6, <2>s DEF Range
  <2>3. p \in Nat
    BY <1>4, <2>p
  <2>4. CASE <<tasks[t].frame, s>> \in stored
    <3>k. PICK k : k = Receives(tasks[t], p, tasks[t].fetched \cup {s})
      OBVIOUS
    <3>2. tasks' = receive([tasks EXCEPT ![t].progress = @ + 1], t, s) /\ calls' = onData(t, s) \o rest
      BY <1>6, <1>c, <1>t, <2>s, <2>r, <2>4 DEF RequestLocal
    <3>3. tasks' = [tasks EXCEPT ![t] = k]
      BY <1>3, <1>4, <2>p, <3>k, <3>2 DEF receive, Receives, Task
    <3>4. tasks[t].fetched \cup {s} \in SUBSET Segment
      BY <1>4, <2>2 DEF Task
    <3>5. /\ k \in Task /\ k.progress = p /\ k.frame = tasks[t].frame /\ k.state = tasks[t].state
          /\ k.fetched = tasks[t].fetched \cup {s} /\ k.requested = tasks[t].requested
          /\ k.completion = tasks[t].completion
      <4>1. tasks[t] \in Task
        BY <1>4
      <4>2. LET new == Receives(tasks[t], p, tasks[t].fetched \cup {s})
            IN /\ new \in Task /\ new.progress = p /\ new.frame = tasks[t].frame
               /\ new.state = tasks[t].state /\ new.fetched = tasks[t].fetched \cup {s}
               /\ new.requested = tasks[t].requested /\ new.completion = tasks[t].completion
        BY <2>3, <3>4, <4>1, ReceivesFields
      <4> QED
        BY <3>k, <4>2
    <3>x. PICK X : X = onData(t, s)
      OBVIOUS
    <3>7. X \in Seq(Call) /\ \A d \in Range(X) : d.op # "request"
      BY <1>1, <1>3, <3>x, OnDataCalls
    <3>8. CheckMissing(t) \in Range(X) /\ \A d \in Range(X) : OfTask(d) => d.task = t
      <4>m. PICK m : m = CheckMissing(t)
        OBVIOUS
      <4>e. PICK e : e = CheckCompletion(t)
        OBVIOUS
      <4>l. PICK l : l = FetchDelta(IF tasks[t].frame = 0 THEN 1 ELSE 0)
        OBVIOUS
      <4>1. m.task = t /\ e.task = t /\ ~OfTask(l)
        BY <4>m, <4>e, <4>l DEF CheckMissing, CheckCompletion, FetchDelta, OfTask
      <4>c. m \in Call /\ e \in Call /\ l \in Call
        BY <1>3, <4>m, <4>e, <4>l, CallsMade
      <4>y. PICK y : y = <<m, e>>
        OBVIOUS
      <4>z. PICK z : z = IF isNew(tasks[t]) /\ target # 0 /\ tasks[t].frame \in {0, target} THEN <<l>> ELSE <<>>
        OBVIOUS
      <4>2. /\ y \in Seq(Call) /\ Range(y) = {m, e}
            /\ z \in Seq(Call) /\ Range(z) \subseteq {l}
        <5>1. z = <<>> \/ z = <<l>>
          BY <4>z
        <5>2. y \in Seq(Call) /\ DOMAIN y = {1, 2} /\ y[1] = m /\ y[2] = e
          BY <4>c, <4>y
        <5>3. Range(y) = {m, e}
          BY <5>2 DEF Range
        <5>4. CASE z = <<>>
          <6>1. z \in Seq(Call) /\ DOMAIN z = {}
            BY <5>4
          <6> QED
            BY <5>2, <5>3, <6>1 DEF Range
        <5>5. CASE z = <<l>>
          <6>1. z \in Seq(Call) /\ DOMAIN z = {1} /\ z[1] = l
            BY <4>c, <5>5
          <6> QED
            BY <5>2, <5>3, <6>1 DEF Range
        <5> QED
          BY <5>1, <5>4, <5>5
      <4>3. Range(X) = Range(z) \cup Range(y)
        <5>1. X = z \o y
          BY <3>x, <4>m, <4>e, <4>l, <4>y, <4>z DEF onData
        <5> QED
          BY <4>2, <5>1, Push
      <4> QED
        BY <4>1, <4>2, <4>3, <4>m
    <3>9. calls' = X \o (<<Request(t, Tail(c.segs), c.start)>> \o Tail(calls))
      BY <2>1, <3>2, <3>x
    <3>10. LocallyAnswered(t, k, X, s)
      BY <1>1, <1>6, <1>c, <1>t, <2>s, <2>p, <2>4, <3>3, <3>5, <3>7, <3>8, <3>9 DEF LocallyAnswered
    <3> QED
      BY <3>10, LocallyAnsweredKeeps
  <2>5. CASE <<tasks[t].frame, s>> \notin stored
    <3>k. PICK k : k = Counts(tasks[t], p)
      OBVIOUS
    <3>2. tasks' = nacked([tasks EXCEPT ![t].progress = @ + 1], t) /\ calls' = <<CheckCompletion(t)>> \o rest
      BY <1>6, <1>c, <1>t, <2>s, <2>r, <2>5 DEF RequestLocal
    <3>3. tasks' = [tasks EXCEPT ![t] = k]
      BY <1>3, <1>4, <2>p, <3>k, <3>2 DEF nacked, Counts, Task
    <3>4. /\ k \in Task /\ k.progress = p /\ k.frame = tasks[t].frame /\ k.state = tasks[t].state
          /\ k.fetched = tasks[t].fetched /\ k.requested = tasks[t].requested
          /\ k.completion = tasks[t].completion
      BY <1>4, <2>3, <3>k, CountsFields
    <3>e. PICK e : e = CheckCompletion(t)
      OBVIOUS
    <3>x. PICK X : X = <<e>>
      OBVIOUS
    <3>6. e \in Call /\ e.op = "completion" /\ e.task = t
      BY <1>3, <3>e, CallsMade
    <3>7. X \in Seq(Call) /\ Range(X) = {e}
      BY <3>6, <3>x DEF Range
    <3>8. calls' = X \o (<<Request(t, Tail(c.segs), c.start)>> \o Tail(calls))
      BY <2>1, <3>2, <3>x, <3>e
    <3>9. LocallyAnswered(t, k, X, s)
      BY <1>1, <1>6, <1>c, <1>t, <2>s, <2>p, <2>5, <3>3, <3>4, <3>6, <3>7, <3>8 DEF LocallyAnswered
    <3> QED
      BY <3>9, LocallyAnsweredKeeps
  <2> QED
    BY <2>4, <2>5
<1> QED
  BY <1>5, <1>6

(* checkMissingSegments asks for what was not asked for. *)
LEMMA CheckMissingLocal == FetchInv /\ LocalInv /\ ~remote /\ CheckMissingSegments => LocalInv'
<1> SUFFICES ASSUME FetchInv, LocalInv, ~remote, CheckMissingSegments PROVE LocalInv'
  OBVIOUS
<1>1. /\ FetchTypes /\ Nested /\ calls # <<>> /\ Head(calls).op = "missing"
      /\ UNCHANGED <<remote, stored, gop, fetcher, current, decoded, reports, pit, excused>>
      /\ LocalCalls /\ Reported /\ pit = {} /\ stored \subseteq Published
      /\ \A u \in DOMAIN tasks : TaskLocal(u)
  BY DEF FetchInv, CheckMissingSegments, Top, LocalInv
<1>c. PICK c : c = Head(calls)
  OBVIOUS
<1>t. PICK t : t = c.task
  OBVIOUS
<1>2. /\ c \in Call /\ CallOK(c) /\ OfTask(c) /\ Rest = Tail(calls) /\ Rest \in Seq(Call) /\ c.op = "missing"
      /\ t = c.task /\ Range(calls) = {c} \cup Range(Rest) /\ \A b \in Range(Rest) : b \in Call /\ CallOK(b)
  BY <1>1, <1>c, <1>t, Stack DEF OfTask
<1>3. t \in DOMAIN tasks /\ t \in Nat
  BY <1>2, CallFacts DEF CallOK
<1>4. /\ tasks[t] \in Task /\ TaskOK(tasks[t]) /\ tasks \in Seq(Task) /\ gop \in Gops
      /\ tasks[t].frame \in Frames /\ IsFiniteSet(tasks[t].requested) /\ tasks[t].fetched \subseteq tasks[t].requested
      /\ TaskLocal(t)
  BY <1>1, <1>3, CountsFinite DEF FetchTypes, TaskOK
<1>m. PICK m : m = getMissingSegments(tasks[t])
  OBVIOUS
<1>f. PICK f : f = tasks[t].frame
  OBVIOUS
<1>d. PICK data : data = DataSegments(f)
  OBVIOUS
<1>5. /\ m \in Seq(Segment) /\ IsDistinct(m) /\ Range(m) \cap tasks[t].requested = {} /\ DataFirst(m)
      /\ ~isNew(tasks[t]) => data \subseteq tasks[t].requested \cup Range(m)
      /\ tasks[t].fetched \subseteq data => \A s \in Range(m) : IsData(s)
  BY <1>4, <1>m, <1>f, <1>d, Missing
<1>6. IsFiniteSet(Range(m)) /\ Len(m) \in Nat /\ Cardinality(Range(m)) = Len(m) /\ Range(m) \subseteq Segment
  BY <1>5, RangeOfBatch
<1>p. PICK p : p = tasks[t].completion + Len(m) * (1 + nRtx)
  OBVIOUS
<1>g. PICK g : g = tasks[t].requested \cup Range(m)
  OBVIOUS
<1>k. PICK k : k = Requests(tasks[t], g, p)
  OBVIOUS
<1>7. /\ tasks' = [tasks EXCEPT ![t] = k]
      /\ calls' = (IF m = <<>> THEN <<>> ELSE <<Request(t, m, FALSE)>>) \o Tail(calls)
  BY <1>c, <1>t, <1>m, <1>p, <1>g, <1>k DEF CheckMissingSegments, Requests
<1>8. /\ p \in Nat /\ g \in SUBSET Segment
      /\ tasks[t].completion >= (1 + nRtx) * Cardinality(tasks[t].requested) => p >= (1 + nRtx) * Cardinality(g)
  <2>1. nRtx \in Nat /\ tasks[t].completion \in Nat /\ tasks[t].requested \subseteq Segment
    BY <1>4, FetcherAssumption DEF Task
  <2>2. Len(m) * (1 + nRtx) \in Nat
    BY <1>6, <2>1
  <2>3. IsFiniteSet(g) /\ Cardinality(g) = Cardinality(tasks[t].requested) + Cardinality(Range(m)) - Cardinality(tasks[t].requested \cap Range(m))
    BY <1>4, <1>6, <1>g, FS_Union
  <2>4. Cardinality(tasks[t].requested \cap Range(m)) = 0 /\ Cardinality(tasks[t].requested) \in Nat
    <3>1. tasks[t].requested \cap Range(m) = {} /\ Cardinality({}) = 0
      BY <1>5, FS_EmptySet
    <3> QED
      BY <1>4, <3>1, FS_CardinalityType
  <2>5. Cardinality(g) = Cardinality(tasks[t].requested) + Len(m)
    BY <1>6, <2>3, <2>4
  <2>6. (1 + nRtx) * Cardinality(g) = (1 + nRtx) * Cardinality(tasks[t].requested) + Len(m) * (1 + nRtx)
    BY <1>6, <2>1, <2>4, <2>5, Distributes
  <2>7. (1 + nRtx) * Cardinality(tasks[t].requested) \in Nat
    BY <2>1, <2>4
  <2>8. tasks[t].completion >= (1 + nRtx) * Cardinality(tasks[t].requested) => p >= (1 + nRtx) * Cardinality(g)
    BY <1>p, <2>1, <2>2, <2>6, <2>7
  <2>9. p \in Nat /\ g \in SUBSET Segment
    BY <1>6, <1>p, <1>g, <2>1, <2>2
  <2> QED
    BY <2>8, <2>9
<1>9. /\ k \in Task /\ k.progress = tasks[t].progress /\ k.frame = tasks[t].frame /\ k.state = tasks[t].state
      /\ k.fetched = tasks[t].fetched /\ k.requested = g /\ k.completion = p
  BY <1>4, <1>8, <1>k, RequestsFields
<1>n. PICK new : new = IF m = <<>> THEN <<>> ELSE <<Request(t, m, FALSE)>>
  OBVIOUS
<1>r. PICK r : r = Request(t, m, FALSE)
  OBVIOUS
<1>10. r \in Call /\ OfTask(r) /\ r.op = "request" /\ r.task = t /\ r.segs = m /\ r.start = FALSE
  BY <1>3, <1>5, <1>r, RequestMade
<1>11. /\ new \in Seq(Call) /\ calls' = new \o Rest
       /\ Range(new) \subseteq {r} /\ (Range(m) # {} => r \in Range(new)) /\ DOMAIN new \subseteq {1}
  <2>1. calls' = new \o Rest
    BY <1>2, <1>7, <1>n
  <2>2. CASE m = <<>>
    <3>1. new = <<>>
      BY <1>n, <2>2
    <3>2. Range(m) = {} /\ Range(new) = {} /\ new \in Seq(Call) /\ DOMAIN new = {}
      BY <2>2, <3>1 DEF Range
    <3> QED
      BY <2>1, <3>2
  <2>3. CASE m # <<>>
    <3>1. new = <<r>>
      BY <1>n, <1>r, <2>3
    <3>2. new \in Seq(Call) /\ DOMAIN new = {1} /\ new[1] = r
      BY <1>10, <3>1
    <3> QED
      BY <2>1, <3>2 DEF Range
  <2> QED
    BY <2>2, <2>3
<1>12. /\ DOMAIN tasks' = DOMAIN tasks /\ tasks'[t] = k
       /\ \A u \in DOMAIN tasks : u # t => tasks'[u] = tasks[u]
       /\ Range(calls') = Range(new) \cup Range(Rest)
  <2>1. DOMAIN tasks' = DOMAIN tasks /\ \A u \in DOMAIN tasks : tasks'[u] = IF u = t THEN k ELSE tasks[u]
    BY <1>3, <1>4, <1>7, <1>9, TaskChanged
  <2>2. Range(calls') = Range(new) \cup Range(Rest)
    BY <1>2, <1>11, Push
  <2> QED
    BY <1>3, <2>1, <2>2
<1>13. LocalCalls'
  <2>1. \A a \in Range(new) : a.op = "request" => IsDistinct(a.segs) /\ DataFirst(a.segs)
    BY <1>5, <1>10, <1>11
  <2>2. \A b \in Range(Rest) : b.op = "request" /\ b.task = t => Range(b.segs) \subseteq tasks[t].requested
    BY <1>2 DEF CallOK
  <2>3. \A a \in Range(new) : \A b \in Range(Rest) : Apart(a, b)
    BY <1>5, <1>10, <1>11, <2>2 DEF Apart
  <2>4. \A i, j \in DOMAIN new : i < j => Apart(new[i], new[j])
    BY <1>11
  <2> QED
    BY <1>1, <1>11, <2>1, <2>3, <2>4, LocalCallsKept
<1>14. ASSUME NEW u \in DOMAIN tasks, u # t PROVE TaskLocal(u)'
  <2>1. ASSUME NEW e, OfTask(e), e.task = u PROVE e \in Range(calls') <=> e \in Range(calls)
    BY <1>2, <1>10, <1>11, <1>12, <1>14, <2>1
  <2> QED
    BY <1>1, <1>12, <1>14, <2>1, OthersLocal
<1>15. /\ StoredOf(f)' = StoredOf(f) /\ Kept(f)' = Kept(f) /\ DataSegments(f)' = data
       /\ isReady(k)' = isReady(tasks[t]) /\ isNew(k)' = isNew(tasks[t])
  BY <1>1, <1>9, <1>d DEF StoredOf, Kept, Segments, DataSegments, ParitySegments, NData, NParity, isReady, isNew, fetchedData
<1>16. ASSUME k.state = "Fetching" PROVE AsksAll(t)'
  <2>1. /\ tasks[t].progress <= (1 + nRtx) * Cardinality(Asked(t))
        /\ tasks[t].completion >= (1 + nRtx) * Cardinality(tasks[t].requested)
        /\ D(0) \in tasks[t].requested
        /\ Asked(t) \cap StoredOf(f) \subseteq tasks[t].fetched
        /\ Kept(f) /\ (ExtraParity(t) \/ ~(tasks[t].fetched \subseteq data)) => data \subseteq tasks[t].fetched
    BY <1>4, <1>9, <1>16, <1>f, <1>d DEF TaskLocal, AsksAll
  <2>2. tasks[t].requested \subseteq Segment /\ Unasked(t) = Below(t) /\ Unasked(t) \subseteq tasks[t].requested
    BY <1>1, <1>2, <1>3, <1>c, UnaskedParts, CountsFinite DEF WillAsk
  <2>3. \A e, z : z \in WillAsk(e, t) <=> e.op = "request" /\ e.task = t /\ z \in Range(e.segs)
    BY DEF WillAsk
  <2>4. \A z \in g : (\E e \in Range(calls') : z \in WillAsk(e, t)) <=> z \in Below(t) \/ z \in Range(m)
    BY <1>8, <1>10, <1>11, <1>12, <2>3 DEF Below
  <2>5. Unasked(t)' = {z \in g : \E e \in Range(calls') : z \in WillAsk(e, t)}
    BY <1>9, <1>12 DEF Unasked, WillAsk
  <2>6. Unasked(t)' = Below(t) \cup Range(m)
    BY <1>g, <2>2, <2>4, <2>5
  <2>7. Asked(t)' = Asked(t)
    BY <1>5, <1>9, <1>12, <1>g, <2>2, <2>6 DEF Asked
  <2>8. ~isNew(tasks[t]) => data \subseteq g
    BY <1>5, <1>g
  <2>9. Kept(f) /\ (ExtraParity(t)' \/ ~(tasks[t].fetched \subseteq data)) => data \subseteq tasks[t].fetched
    <3> SUFFICES ASSUME Kept(f), ExtraParity(t)', tasks[t].fetched \subseteq data PROVE data \subseteq tasks[t].fetched
      BY <2>1
    <3>1. PICK e \in Range(calls') : AsksParity(e, t)
      BY DEF ExtraParity, AsksParity, IsData
    <3>2. e # r
      BY <1>5, <1>10, <3>1 DEF AsksParity
    <3>3. e \in Range(calls)
      BY <1>2, <1>11, <1>12, <3>1, <3>2
    <3> QED
      BY <2>1, <3>1, <3>3 DEF ExtraParity
  <2>10. k.completion >= (1 + nRtx) * Cardinality(k.requested) /\ D(0) \in k.requested
    BY <1>8, <1>9, <1>g, <2>1
  <2> QED
    BY <1>9, <1>12, <1>15, <1>f, <2>1, <2>7, <2>8, <2>9, <2>10 DEF AsksAll, D
<1>17. TaskLocal(t)'
  BY <1>4, <1>9, <1>12, <1>15, <1>16, <1>f, <1>d DEF TaskLocal
<1>18. Reported'
  BY <1>1, ReportedStays
<1>19. stored' \subseteq Published'
  BY <1>1 DEF Published, Frames, Segments, DataSegments, ParitySegments, NData, NParity
<1> QED
  BY <1>1, <1>12, <1>13, <1>14, <1>17, <1>18, <1>19 DEF LocalInv

(* The handlers and tasks that are left when a task ends *)
LEMMA EndsLocal ==
  ASSUME FetchInv, LocalInv, ~remote, NEW new, Ends(new), stored' = stored
  PROVE  /\ LocalCalls' /\ pit' = {} /\ stored' \subseteq Published'
         /\ \A u \in DOMAIN tasks :
              (tasks'[u].state = "Completed" => tasks[u].state = "Completed") => TaskLocal(u)'
<1>1. /\ FetchTypes /\ LocalCalls /\ pit = {} /\ stored \subseteq Published
      /\ \A u \in DOMAIN tasks : TaskLocal(u)
      /\ calls # <<>> /\ Head(calls).op \in {"completion", "decode"}
      /\ new \in {<<>>, <<Decode>>} /\ calls' = new \o Rest
      /\ \A u \in DOMAIN tasks : MayEnd(tasks[u], tasks'[u])
      /\ UNCHANGED <<remote, stored, gop, pit>>
  BY DEF FetchInv, LocalInv, Ends
<1>2. Rest \in Seq(Call) /\ Range(calls) = {Head(calls)} \cup Range(Rest)
  BY <1>1, Stack
<1>3. new \in Seq(Call) /\ \A c \in Range(new) : c.op = "decode"
  <2>1. CASE new = <<>>
    <3>1. new \in Seq(Call) /\ DOMAIN new = {}
      BY <2>1
    <3> QED
      BY <3>1 DEF Range
  <2>2. CASE new = <<Decode>>
    <3>d. PICK d : d = Decode
      OBVIOUS
    <3>1. d \in Call /\ d.op = "decode"
      BY <3>d, CallsMade
    <3>2. new \in Seq(Call) /\ DOMAIN new = {1} /\ new[1] = d
      BY <2>2, <3>d, <3>1
    <3> QED
      BY <3>1, <3>2 DEF Range
  <2> QED
    BY <1>1, <2>1, <2>2
<1>4. Range(calls') = Range(new) \cup Range(Rest)
  BY <1>1, <1>2, <1>3, Push
<1>5. LocalCalls'
  BY <1>1, <1>3, NoRequestsApart
<1>6. stored' \subseteq Published'
  BY <1>1 DEF Published, Frames, Segments, DataSegments, ParitySegments, NData, NParity
<1>7. \A c : c.op \in {"request", "missing"} => (c \in Range(calls') <=> c \in Range(calls))
  BY <1>1, <1>2, <1>3, <1>4
<1>8. ASSUME NEW u \in DOMAIN tasks, tasks'[u].state = "Completed" => tasks[u].state = "Completed"
      PROVE  TaskLocal(u)'
  <2>1. TaskLocal(u) /\ MayEnd(tasks[u], tasks'[u])
    BY <1>1
  <2>2. CASE tasks'[u].state # "Fetching"
    BY <1>1, <1>8, <2>1, <2>2, EndedLocal
  <2>3. CASE tasks'[u].state = "Fetching"
    <3>k. PICK k : k = tasks[u]
      OBVIOUS
    <3>l. PICK l : l = tasks'[u]
      OBVIOUS
    <3>1. /\ l.frame = k.frame /\ l.fetched = k.fetched /\ l.requested = k.requested
          /\ l.progress = k.progress /\ l.completion = k.completion /\ l.state = "Fetching" /\ k.state = "Fetching"
      BY <2>1, <2>3, <3>k, <3>l DEF MayEnd
    <3>2. \A c, s : s \in WillAsk(c, u) => c.op \in {"request", "missing"}
      BY DEF WillAsk
    <3>3. \A s : (\E c \in Range(calls') : s \in WillAsk(c, u)) <=> (\E c \in Range(calls) : s \in WillAsk(c, u))
      BY <1>7, <3>2
    <3>4. Unasked(u)' = Unasked(u)
      BY <3>1, <3>3, <3>k, <3>l DEF Unasked, WillAsk
    <3>5. Asked(u)' = Asked(u)
      BY <3>1, <3>4, <3>k, <3>l DEF Asked
    <3>6. CheckMissing(u) \in Range(calls') <=> CheckMissing(u) \in Range(calls)
      BY <1>7 DEF CheckMissing
    <3>7. ExtraParity(u)' <=> ExtraParity(u)
      BY <1>7 DEF ExtraParity, AsksParity, IsData
    <3>8. /\ \A f : DataSegments(f)' = DataSegments(f) /\ Segments(f)' = Segments(f)
          /\ NData' = NData
      BY <1>1 DEF DataSegments, ParitySegments, Segments, NData, NParity
    <3>9. \A f : StoredOf(f)' = StoredOf(f) /\ Kept(f)' = Kept(f)
      BY <1>1, <3>8 DEF StoredOf, Kept
    <3>10. isNew(l)' = isNew(k)
      BY <3>1, <3>8 DEF isNew, fetchedData
    <3>11. AsksAll(u)
      BY <2>1, <3>1, <3>k DEF TaskLocal
    <3>12. AsksAll(u)'
      BY <3>1, <3>5, <3>6, <3>7, <3>8, <3>9, <3>10, <3>11, <3>k, <3>l DEF AsksAll, D, CheckMissing
    <3> QED
      BY <2>1, <3>1, <3>8, <3>9, <3>12, <3>k, <3>l DEF TaskLocal
  <2> QED
    BY <2>2, <2>3
<1> QED
  BY <1>1, <1>5, <1>6, <1>8

(* What halt does to tasks that are completed *)
LEMMA HaltCompletesNone ==
  ASSUME NEW ts \in Seq(Task), Halt(ts)
  PROVE  \A u \in DOMAIN ts : tasks'[u].state \in {ts[u].state, "Canceled"}
<1>1. ASSUME NEW u \in DOMAIN ts PROVE canceled(ts)[u].state \in {ts[u].state, "Canceled"}
  <2>1. ts[u] \in Task
    OBVIOUS
  <2>2. canceled(ts)[u] = IF u \in Range(current) THEN [ts[u] EXCEPT !.state = "Canceled"] ELSE ts[u]
    BY DEF canceled
  <2> QED
    BY <2>1, <2>2 DEF Task
<1> QED
  BY <1>1 DEF Halt, Reset

(* A failure is reported when there is reason to. *)
LEMMA FailureReported ==
  ASSUME FetchTypes, Reported, gop' = gop, stored' = stored, ~excused' => ~excused,
         reports' = IF fetcher = "Failed" THEN reports ELSE Append(reports, "failed"),
         fetcher = "Failed" \/ excused' \/ \E f \in Frames : ~Kept(f)
  PROVE  Reported'
<1>1. reports \in Seq({"failed", "fetched"})
  BY DEF FetchTypes
<1>2. CASE reports' = reports
  BY <1>2, ReportedStays
<1>3. CASE fetcher # "Failed"
  <2>1. /\ \A f : DataSegments(f)' = DataSegments(f) /\ Segments(f)' = Segments(f)
        /\ NData' = NData /\ Frames' = Frames
    BY DEF DataSegments, ParitySegments, Segments, NData, NParity, Frames
  <2>2. \A f : StoredOf(f)' = StoredOf(f) /\ Kept(f)' = Kept(f)
    BY <2>1 DEF StoredOf, Kept
  <2>3. \A f : AsStored(f)' = AsStored(f)
    BY <2>1, <2>2 DEF AsStored, isReady, isNew, fetchedData
  <2>4. reports' = Append(reports, "failed")
    BY <1>3
  <2>5. CASE reports = <<>>
    <3>1. reports'[1] = "failed"
      BY <2>4, <2>5
    <3> QED
      BY <1>3, <2>1, <2>2, <3>1 DEF Reported
  <2>6. CASE reports # <<>>
    <3>1. reports'[1] = reports[1]
      BY <1>1, <2>4, <2>6
    <3> QED
      BY <2>1, <2>2, <2>3, <2>6, <3>1 DEF Reported
  <2> QED
    BY <2>5, <2>6
<1> QED
  BY <1>2, <1>3

(* A common factor of two counts may be left out.                           *)
LEMMA CountsCompare ==
  ASSUME NEW n \in Nat, NEW a \in Nat, NEW b \in Nat, (1 + n) * b <= (1 + n) * a
  PROVE  b <= a
<1> SUFFICES ASSUME a < b PROVE FALSE
  OBVIOUS
<1>d. PICK d \in Nat : d = b - a
  OBVIOUS
<1>1. b = a + d /\ d >= 1
  BY <1>d
<1>2. (1 + n) * b = (1 + n) * a + d * (1 + n)
  BY <1>1, Distributes
<1>3. d * (1 + n) >= 1 /\ d * (1 + n) \in Nat /\ (1 + n) * a \in Nat
  BY <1>1
<1> QED
  BY <1>2, <1>3

(* A task gives up only if the frame was not kept in full. *)
LEMMA GivesUpForLack ==
  ASSUME FetchInv, LocalInv, ~remote, NEW t, calls # <<>>, Head(calls) = CheckCompletion(t),
         tasks[t].state = "Fetching", tasks[t].progress >= tasks[t].completion, Kept(tasks[t].frame)
  PROVE  isReady(tasks[t])
<1>1. /\ FetchTypes /\ Nested /\ t \in DOMAIN tasks /\ tasks[t] \in Task /\ TaskOK(tasks[t]) /\ gop \in Gops
      /\ Range(calls) = {Head(calls)} \cup Range(Rest) /\ Head(calls).op = "completion" /\ Head(calls).task = t
      /\ nRtx \in Nat
  BY Completing, FetcherAssumption DEF FetchInv, FetchTypes
<1>f. PICK f : f = tasks[t].frame
  OBVIOUS
<1>2. AsksAll(t)
  BY <1>1 DEF LocalInv, TaskLocal
<1>3. /\ tasks[t].progress <= (1 + nRtx) * Cardinality(Asked(t))
      /\ tasks[t].completion >= (1 + nRtx) * Cardinality(tasks[t].requested)
      /\ D(0) \in tasks[t].requested
      /\ Asked(t) \cap StoredOf(f) \subseteq tasks[t].fetched
      /\ ~isNew(tasks[t]) => DataSegments(f) \subseteq tasks[t].requested \/ CheckMissing(t) \in Range(calls)
  BY <1>2, <1>f DEF AsksAll
<1>4. IsFiniteSet(tasks[t].requested) /\ Asked(t) \subseteq tasks[t].requested /\ f \in Frames
      /\ tasks[t].fetched \subseteq tasks[t].requested
  BY <1>1, <1>f DEF TaskOK, Asked
<1>a. PICK a : a = Cardinality(Asked(t))
  OBVIOUS
<1>b. PICK b : b = Cardinality(tasks[t].requested)
  OBVIOUS
<1>5. a \in Nat /\ b \in Nat /\ a <= b /\ (a = b => Asked(t) = tasks[t].requested) /\ IsFiniteSet(tasks[t].fetched)
  BY <1>4, <1>a, <1>b, FS_Subset, FS_CardinalityType
<1>6. b <= a
  <2>x. PICK x : x = (1 + nRtx) * a
    OBVIOUS
  <2>y. PICK y : y = (1 + nRtx) * b
    OBVIOUS
  <2>1. x \in Nat /\ y \in Nat /\ tasks[t].progress \in Nat /\ tasks[t].completion \in Nat
    BY <1>1, <1>5, <2>x, <2>y DEF Task
  <2>2. y <= x
    BY <1>3, <1>a, <1>b, <2>x, <2>y, <2>1
  <2> QED
    BY <1>1, <1>5, <2>2, <2>x, <2>y, CountsCompare
<1>7. Asked(t) = tasks[t].requested
  BY <1>5, <1>6
<1>8. D(0) \in DataSegments(f) /\ DataSegments(f) \subseteq StoredOf(f)
  BY <1>1, <1>4, <1>f, DataCount DEF Kept
<1>9. ~isNew(tasks[t])
  BY <1>3, <1>7, <1>8, <1>f DEF isNew, fetchedData
<1>10. CheckMissing(t) \notin Range(calls)
  <2> SUFFICES ASSUME CheckMissing(t) \in Range(calls) PROVE FALSE
    OBVIOUS
  <2>1. CheckMissing(t).op = "missing" /\ CheckMissing(t).task = t
    BY DEF CheckMissing
  <2>2. CheckMissing(t) \in Range(Rest)
    BY <1>1, <2>1
  <2>3. MayRest(tasks, Head(calls), CheckMissing(t))
    BY <1>1, <2>2, Stack
  <2> QED
    BY <1>1, <2>1, <2>3 DEF MayRest, OfTask
<1>11. DataSegments(f) \subseteq tasks[t].fetched
  BY <1>3, <1>7, <1>8, <1>9, <1>10
<1> QED
  BY <1>1, <1>4, <1>5, <1>11, <1>f, WholeIsReady

(* A task that is ready has all data segments, if they were kept. *)
LEMMA ReadyHasKept ==
  ASSUME FetchInv, LocalInv, ~remote, NEW t \in DOMAIN tasks, tasks[t].state = "Fetching",
         isReady(tasks[t]), Kept(tasks[t].frame)
  PROVE  DataSegments(tasks[t].frame) \subseteq tasks[t].fetched
<1>1. gop \in Gops /\ tasks[t].frame \in Frames
  BY CountsFinite DEF FetchInv, FetchTypes, TaskOK
<1>2. CASE tasks[t].fetched \subseteq DataSegments(tasks[t].frame)
  BY <1>1, <1>2, ReadyWithData
<1>3. CASE ~(tasks[t].fetched \subseteq DataSegments(tasks[t].frame))
  BY <1>3 DEF LocalInv, TaskLocal, AsksAll
<1> QED
  BY <1>2, <1>3

(* checkCompletion: who completes has what was kept, and who gives up lacks it. *)
LEMMA CheckCompletionLocal == FetchInv /\ LocalInv /\ ~remote /\ CheckTaskCompletion => LocalInv'
<1> SUFFICES ASSUME FetchInv, LocalInv, ~remote, CheckTaskCompletion PROVE LocalInv'
  OBVIOUS
<1>1. /\ FetchTypes /\ Nested /\ Outcome /\ calls # <<>> /\ Head(calls).op = "completion"
      /\ UNCHANGED <<remote, stored, gop, pit, decoded, excused>>
      /\ Reported /\ \A u \in DOMAIN tasks : TaskLocal(u)
  BY DEF FetchInv, CheckTaskCompletion, Top, LocalInv
<1>t. PICK t : t = Head(calls).task
  OBVIOUS
<1>2. Head(calls) = CheckCompletion(t)
  BY <1>1, <1>t, Stack, CallFacts
<1>3. /\ t \in DOMAIN tasks /\ tasks \in Seq(Task) /\ fetcher # "Idle"
      /\ Rest = Tail(calls) /\ Rest \in Seq(Call) /\ tasks[t] \in Task /\ TaskOK(tasks[t])
  BY <1>1, <1>2, Completing
<1>f. PICK f : f = tasks[t].frame
  OBVIOUS
<1>4. /\ excused' \in BOOLEAN /\ (~excused' => ~excused) /\ current \in [Frames -> Nat] /\ f \in Frames
      /\ reports \in Seq({"failed", "fetched"})
      /\ fetcher \in {"Fetching", "Decoding", "Failed", "Completed"}
      /\ \A u \in DOMAIN tasks : tasks[u] \in Task /\ MayEnd(tasks[u], tasks[u])
  <2>1. \A u \in DOMAIN tasks : tasks[u] \in Task
    BY <1>3
  <2> QED
    BY <1>1, <1>3, <1>f, <2>1 DEF FetchTypes, MayEnd, TaskOK
<1>n. PICK none : none = <<>>
  OBVIOUS
<1>5. Tail(calls) = none \o Rest
  BY <1>3, <1>n
<1>d. PICK done : done = [state \in {"Completed", "Failed"} |-> [tasks EXCEPT ![t] = Becomes(tasks[t], state)]]
  OBVIOUS
<1>6. ASSUME NEW s \in {"Completed", "Failed"}
      PROVE  /\ [tasks EXCEPT ![t].state = s] = done[s]
             /\ done[s] \in Seq(Task) /\ DOMAIN done[s] = DOMAIN tasks
             /\ \A u \in DOMAIN tasks : u # t => done[s][u] = tasks[u]
             /\ done[s][t].state = s
             /\ \A u \in DOMAIN tasks : MayEnd(tasks[u], done[s][u])
  <2>k. PICK k : k = Becomes(tasks[t], s)
    OBVIOUS
  <2>1. done[s] = [tasks EXCEPT ![t] = k] /\ [tasks EXCEPT ![t].state = s] = done[s]
    BY <1>d, <2>k DEF Becomes
  <2>2. /\ k \in Task /\ k.progress = tasks[t].progress /\ k.frame = tasks[t].frame /\ k.state = s
        /\ k.fetched = tasks[t].fetched /\ k.requested = tasks[t].requested /\ k.completion = tasks[t].completion
    <3>1. s \in States
      BY DEF States
    <3> QED
      BY <1>3, <2>k, <3>1, BecomesFields
  <2>3. /\ done[s] \in Seq(Task) /\ DOMAIN done[s] = DOMAIN tasks
        /\ \A u \in DOMAIN tasks : done[s][u] = IF u = t THEN k ELSE tasks[u]
    BY <1>3, <2>1, <2>2, TaskChanged
  <2>4. MayEnd(tasks[t], k)
    BY <2>2 DEF MayEnd
  <2> QED
    BY <1>3, <1>4, <2>1, <2>2, <2>3, <2>4
<1>7. CASE UNCHANGED <<fetcher, tasks, current, reports>> /\ calls' = Tail(calls)
  <2>1. Ends(none)
    BY <1>1, <1>3, <1>4, <1>5, <1>7, <1>n DEF Ends
  <2>2. LocalCalls' /\ pit' = {} /\ stored' \subseteq Published' /\ \A u \in DOMAIN tasks : TaskLocal(u)'
    BY <1>1, <1>7, <2>1, EndsLocal
  <2>3. Reported'
    BY <1>1, <1>7, ReportedStays
  <2> QED
    BY <1>7, <2>2, <2>3 DEF LocalInv
<1>8. CASE tasks[t].state = "Fetching" /\ isReady(tasks[t])
  <2>1. tasks' = done["Completed"] /\ current' = current /\ reports' = reports
    BY <1>6, <1>8, <1>t DEF CheckTaskCompletion
  <2>n. PICK new : new = IF readyToDecode(tasks') THEN <<Decode>> ELSE none
    OBVIOUS
  <2>3. calls' = new \o Rest /\ fetcher' = IF readyToDecode(tasks') THEN "Decoding" ELSE fetcher
    <3>1. IF readyToDecode(tasks')
          THEN fetcher' = "Decoding" /\ calls' = <<Decode>> \o Tail(calls)
          ELSE calls' = Tail(calls) /\ UNCHANGED fetcher
      BY <1>8, <1>t DEF CheckTaskCompletion
    <3> QED
      BY <1>3, <1>5, <2>n, <3>1
  <2>4. Ends(new)
    BY <1>1, <1>4, <1>6, <1>n, <2>1, <2>3, <2>n DEF Ends
  <2>5. /\ LocalCalls' /\ pit' = {} /\ stored' \subseteq Published'
        /\ \A u \in DOMAIN tasks : (tasks'[u].state = "Completed" => tasks[u].state = "Completed") => TaskLocal(u)'
    BY <1>1, <2>4, EndsLocal
  <2>6. ASSUME NEW u \in DOMAIN tasks, u # t PROVE TaskLocal(u)'
    BY <1>6, <2>1, <2>5, <2>6
  <2>7. TaskLocal(t)'
    <3>k. PICK k : k = tasks[t]
      OBVIOUS
    <3>l. PICK l : l = tasks'[t]
      OBVIOUS
    <3>1. l.frame = f /\ l.fetched = k.fetched /\ l.state = "Completed" /\ k.frame = f
      BY <1>3, <1>6, <1>f, <2>1, <3>k, <3>l DEF MayEnd
    <3>2. isReady(k) /\ (Kept(f) => DataSegments(f) \subseteq k.fetched) /\ k.fetched \subseteq StoredOf(f)
      BY <1>1, <1>3, <1>8, <1>f, <3>k, ReadyHasKept DEF TaskLocal
    <3>3. StoredOf(f)' = StoredOf(f) /\ Kept(f)' = Kept(f) /\ DataSegments(f)' = DataSegments(f)
      BY <1>1 DEF StoredOf, Kept, Segments, DataSegments, ParitySegments, NData, NParity
    <3>4. isReady(l)' = isReady(k)
      BY <1>1, <3>1 DEF isReady, isNew, fetchedData, DataSegments, NData
    <3> QED
      BY <3>1, <3>2, <3>3, <3>4, <3>l DEF TaskLocal
  <2>8. Reported'
    BY <1>1, <2>1, ReportedStays
  <2> QED
    BY <1>6, <2>1, <2>5, <2>6, <2>7, <2>8 DEF LocalInv
<1>9. CASE tasks[t].state = "Fetching" /\ ~isReady(tasks[t]) /\ tasks[t].progress >= tasks[t].completion
  <2>1. Halt(done["Failed"]) /\ calls' = Tail(calls)
    BY <1>6, <1>9, <1>t DEF CheckTaskCompletion
  <2>2. /\ fetcher' = "Failed" /\ reports' \in Seq({"failed", "fetched"})
        /\ reports' = IF fetcher = "Failed" THEN reports ELSE Append(reports, "failed")
        /\ tasks' \in Seq(Task) /\ DOMAIN tasks' = DOMAIN tasks
        /\ \A u \in DOMAIN tasks : MayEnd(done["Failed"][u], tasks'[u])
        /\ current' \in [Frames -> Nat] /\ \A e \in Frames : current'[e] \in {0, current[e]}
    BY <1>1, <1>6, <2>1, Halts
  <2>3. \A u \in DOMAIN tasks : MayEnd(tasks[u], tasks'[u])
    BY <1>6, <2>2 DEF MayEnd
  <2>4. Ends(none)
    BY <1>1, <1>4, <1>5, <1>n, <2>1, <2>2, <2>3 DEF Ends
  <2>5. \A u \in DOMAIN tasks : tasks'[u].state \in {done["Failed"][u].state, "Canceled"}
    BY <1>6, <2>1, HaltCompletesNone
  <2>6. \A u \in DOMAIN tasks : tasks'[u].state = "Completed" => tasks[u].state = "Completed"
    BY <1>6, <2>5
  <2>7. LocalCalls' /\ pit' = {} /\ stored' \subseteq Published' /\ \A u \in DOMAIN tasks : TaskLocal(u)'
    BY <2>4, <2>6, <1>1, EndsLocal
  <2>8. ~Kept(f)
    BY <1>2, <1>1, <1>9, <1>f, GivesUpForLack
  <2>9. Reported'
    BY <1>1, <1>4, <2>2, <2>8, FailureReported
  <2> QED
    BY <2>2, <2>7, <2>9 DEF LocalInv
<1>10. CASE tasks[t].state # "Fetching"
  <2>1. UNCHANGED <<fetcher, tasks, current, reports>> /\ calls' = Tail(calls)
    BY <1>10, <1>t DEF CheckTaskCompletion
  <2> QED
    BY <1>7, <2>1
<1>11. CASE tasks[t].state = "Fetching" /\ ~isReady(tasks[t]) /\ ~(tasks[t].progress >= tasks[t].completion)
  <2>1. UNCHANGED <<fetcher, tasks, current, reports>> /\ calls' = Tail(calls)
    BY <1>11, <1>t DEF CheckTaskCompletion
  <2> QED
    BY <1>7, <2>1
<1> QED
  BY <1>8, <1>9, <1>10, <1>11

(* What a task has fetched is enough, then what is stored is. *)
LEMMA StoredIsReady ==
  ASSUME gop \in Gops, NEW k, k.frame \in Frames, isReady(k), k.fetched \subseteq StoredOf(k.frame)
  PROVE  AsStored(k.frame)
<1>f. PICK f : f = k.frame
  OBVIOUS
<1>l. PICK l : l = [frame |-> f, fetched |-> StoredOf(f)]
  OBVIOUS
<1>1. l.frame = f /\ l.fetched = StoredOf(f)
  BY <1>l
<1>2. IsFiniteSet(StoredOf(f))
  <2>1. f \in Frames /\ NData[f] \in Nat /\ NParity[f] \in Nat
    BY <1>f, GopShape
  <2>2. IsFiniteSet(DataSegments(f))
    BY <2>1, DataCount
  <2>3. IsFiniteSet(ParitySegments(f))
    <3> DEFINE S == 0..NParity[f] - 1
    <3>1. IsFiniteSet(S)
      BY <2>1, FS_Interval
    <3>2. ParitySegments(f) = {P(i) : i \in S}
      BY DEF ParitySegments
    <3>g. PICK g : g = [i \in S |-> P(i)]
      OBVIOUS
    <3> HIDE DEF S
    <3>3. g \in Surjection(S, ParitySegments(f))
      BY <3>2, <3>g DEF Surjection
    <3> QED
      BY <3>1, <3>3, FS_Surjection
  <2>4. IsFiniteSet(Segments(f)) /\ StoredOf(f) \subseteq Segments(f)
    BY <2>2, <2>3, FS_Union DEF Segments, StoredOf
  <2> QED
    BY <2>4, FS_Subset
<1>3. isReady(l)
  BY <1>1, <1>2, <1>f, ReadyMore
<1> QED
  BY <1>3, <1>f, <1>l DEF AsStored

(* decode: the GOP was stored well enough. *)
LEMMA DecodeGopLocal ==
  ASSUME FetchInv, LocalInv, ~remote, NEW buffer \in BOOLEAN, DecodeGop(buffer)
  PROVE  LocalInv'
<1>1. /\ FetchTypes /\ Decodes /\ calls # <<>> /\ Head(calls).op = "decode" /\ calls' = <<>> \o Rest
      /\ fetcher = "Decoding" /\ reports = <<>>
      /\ gop \in Gops /\ Reported /\ \A u \in DOMAIN tasks : TaskLocal(u)
  BY Decoding DEF DecodeGop, FetchInv, FetchTypes, LocalInv
<1>2. /\ fetcher' = IF buffer THEN "Completed" ELSE "Decoding"
      /\ reports' = IF buffer THEN <<"fetched">> ELSE <<>>
      /\ excused' = (excused \/ ~buffer)
      /\ tasks' = canceled(tasks) /\ current' = [f \in Frames |-> 0]
      /\ UNCHANGED <<remote, stored, gop, pit>> /\ tasks \in Seq(Task)
  BY <1>1 DEF DecodeGop, Reset, FetchTypes
<1>3. /\ reports' \in Seq({"failed", "fetched"}) /\ fetcher' \in {"Decoding", "Completed"}
      /\ excused' \in BOOLEAN /\ (~excused' => ~excused)
  <2>1. <<"fetched">> \in Seq({"failed", "fetched"}) /\ <<>> \in Seq({"failed", "fetched"})
    OBVIOUS
  <2> QED
    BY <1>1, <1>2, <2>1 DEF FetchTypes
<1>4. current' \in [Frames -> Nat] /\ \A f \in Frames : current'[f] = 0
  BY <1>2
<1>n. PICK new : new = <<>>
  OBVIOUS
<1>5. /\ tasks' \in Seq(Task) /\ DOMAIN tasks' = DOMAIN tasks
      /\ \A u \in DOMAIN tasks : MayEnd(tasks[u], tasks'[u])
  BY <1>2, Cancels
<1>6. Ends(new)
  BY <1>1, <1>2, <1>3, <1>4, <1>5, <1>n DEF Ends
<1>7. \A u \in DOMAIN tasks : tasks'[u].state = "Completed" => tasks[u].state = "Completed"
  <2> SUFFICES ASSUME NEW u \in DOMAIN tasks PROVE tasks'[u].state \in {tasks[u].state, "Canceled"}
    OBVIOUS
  <2>1. tasks[u] \in Task
    BY <1>2
  <2>2. tasks'[u] = IF u \in Range(current) THEN [tasks[u] EXCEPT !.state = "Canceled"] ELSE tasks[u]
    BY <1>2 DEF canceled
  <2> QED
    BY <2>1, <2>2 DEF Task
<1>8. LocalCalls' /\ pit' = {} /\ stored' \subseteq Published' /\ \A u \in DOMAIN tasks : TaskLocal(u)'
  BY <1>2, <1>6, <1>7, EndsLocal
<1>9. ASSUME NEW f \in Frames PROVE AsStored(f)
  <2>1. Decode \in Range(calls)
    BY <1>1, Stack, CallFacts
  <2>2. /\ current[f] # 0 /\ tasks[current[f]].state = "Completed"
        /\ current[f] \in DOMAIN tasks /\ tasks[current[f]].frame = f
    BY <1>1, <2>1 DEF Decodes, FetchTypes
  <2>k. PICK k : k = tasks[current[f]]
    OBVIOUS
  <2>3. TaskLocal(current[f])
    BY <1>1, <2>2
  <2>4. isReady(k) /\ k.fetched \subseteq StoredOf(f) /\ k.frame = f
    BY <2>2, <2>3, <2>k DEF TaskLocal
  <2> QED
    BY <1>1, <1>9, <2>4, StoredIsReady
<1>10. Reported'
  <2>1. CASE ~buffer
    BY <1>2, <2>1 DEF Reported
  <2>2. CASE buffer
    <3>1. reports'[1] = "fetched"
      BY <1>2, <2>2
    <3>2. Frames' = Frames /\ \A f : AsStored(f)' = AsStored(f)
      BY <1>2 DEF AsStored, StoredOf, Segments, DataSegments, ParitySegments, NData, NParity, Frames, isReady, isNew, fetchedData
    <3> QED
      BY <1>9, <3>1, <3>2 DEF Reported
  <2> QED
    BY <2>1, <2>2
<1> QED
  BY <1>5, <1>8, <1>10 DEF LocalInv

(* decode fails for the key frame if data segments of it are missing. *)
LEMMA DecodeFailsLocal ==
  ASSUME FetchInv, LocalInv, ~remote, NEW f, DecodeFails(f)
  PROVE  LocalInv'
<1>1. /\ FetchTypes /\ Decodes /\ calls # <<>> /\ Head(calls).op = "decode" /\ calls' = <<>> \o Rest
      /\ fetcher = "Decoding" /\ reports = <<>> /\ \A e \in Frames : current[e] # 0
      /\ UNCHANGED <<remote, stored, gop, pit, decoded>> /\ tasks \in Seq(Task) /\ Halt(tasks)
      /\ excused' = (excused \/ f # 0)
      /\ ~(DataSegments(f) \subseteq tasks[current[f]].fetched)
      /\ gop \in Gops /\ Reported /\ \A u \in DOMAIN tasks : TaskLocal(u)
  BY Decoding DEF DecodeFails, FetchTypes, FetchInv, LocalInv
<1>2. /\ fetcher' = "Failed" /\ reports' \in Seq({"failed", "fetched"})
      /\ reports' = IF fetcher = "Failed" THEN reports ELSE Append(reports, "failed")
      /\ tasks' \in Seq(Task) /\ DOMAIN tasks' = DOMAIN tasks /\ \A u \in DOMAIN tasks : MayEnd(tasks[u], tasks'[u])
      /\ current' \in [Frames -> Nat] /\ \A e \in Frames : current'[e] \in {0, current[e]}
  BY <1>1, Halts
<1>4. excused' \in BOOLEAN /\ (~excused' => ~excused)
  BY <1>1 DEF FetchTypes
<1>n. PICK new : new = <<>>
  OBVIOUS
<1>5. Ends(new)
  BY <1>1, <1>2, <1>4, <1>n DEF Ends
<1>6. \A u \in DOMAIN tasks : tasks'[u].state \in {tasks[u].state, "Canceled"}
  BY <1>1, HaltCompletesNone
<1>7. LocalCalls' /\ pit' = {} /\ stored' \subseteq Published' /\ \A u \in DOMAIN tasks : TaskLocal(u)'
  BY <1>1, <1>5, <1>6, EndsLocal
<1>8. excused' \/ \E e \in Frames : ~Kept(e)
  <2> SUFFICES ASSUME f = 0 PROVE ~Kept(0) /\ 0 \in Frames
    BY <1>1
  <2>1. 0 \in Frames
    BY <1>1, GopShape
  <2>2. Decode \in Range(calls)
    BY <1>1, Stack, CallFacts
  <2>3. /\ tasks[current[0]].state = "Completed"
        /\ current[0] \in DOMAIN tasks /\ tasks[current[0]].frame = 0
    BY <1>1, <2>1, <2>2 DEF Decodes, FetchTypes
  <2>4. TaskLocal(current[0])
    BY <1>1, <2>3
  <2> QED
    BY <1>1, <2>1, <2>3, <2>4 DEF TaskLocal
<1>9. Reported'
  BY <1>1, <1>2, <1>4, <1>8, FailureReported
<1> QED
  BY <1>2, <1>7, <1>9 DEF LocalInv

(* LocalInv is kept by every step of a fetch. *)
LEMMA LocalInvNext == FetchInv /\ LocalInv /\ Next => LocalInv'
<1> SUFFICES ASSUME FetchInv, LocalInv, Next PROVE LocalInv'
  OBVIOUS
<1>1. remote' = remote
  BY DEF Next, Fetch, Return, RequestRemote, RequestLocal, FetchGop, CheckMissingSegments, CheckTaskCompletion,
         DecodeGop, DecodeFails, Answer, OnData, OnApplicationNack, OnTimeout, OnNetworkNack
<1>2. CASE remote
  BY <1>1, <1>2 DEF LocalInv
<1>3. CASE ~remote
  <2>1. ASSUME NEW x \in pit PROVE FALSE
    BY <1>3, <2>1 DEF LocalInv
  <2>2. ~RequestRemote
    BY <1>3 DEF RequestRemote
  <2> QED
    BY <1>3, <2>1, <2>2, FetchLocal, RequestLocalLocal, FetchGopLocal, CheckMissingLocal, CheckCompletionLocal,
       DecodeGopLocal, DecodeFailsLocal DEF Next, Return
<1> QED
  BY <1>2, <1>3

(* Nothing changes when the fetcher does not step.                          *)
LEMMA LocalInvStutters == LocalInv /\ UNCHANGED vars => LocalInv'
<1> SUFFICES ASSUME LocalInv, UNCHANGED vars PROVE LocalInv'
  OBVIOUS
<1>1. UNCHANGED <<remote, stored, gop, fetcher, tasks, current, pit, calls, decoded, reports, excused>>
  BY DEF vars
<1>2. CASE remote
  BY <1>1, <1>2 DEF LocalInv
<1>3. CASE ~remote
  <2>1. stored \subseteq Published /\ LocalCalls /\ Reported /\ pit = {} /\ \A u \in DOMAIN tasks : TaskLocal(u)
    BY <1>3 DEF LocalInv
  <2>2. LocalCalls'
    BY <1>1, <2>1 DEF LocalCalls, Apart, IsDistinct, DataFirst, IsData
  <2>3. Reported'
    BY <1>1, <2>1, ReportedStays
  <2>4. \A u \in DOMAIN tasks : TaskLocal(u)'
    <3> SUFFICES ASSUME NEW u \in DOMAIN tasks PROVE TaskLocal(u)'
      OBVIOUS
    <3>1. TaskLocal(u) /\ tasks'[u] = tasks[u]
      BY <1>1, <2>1
    <3> QED
      BY <1>1, <3>1, OthersLocal
  <2>5. stored' \subseteq Published'
    BY <1>1, <2>1 DEF Published, Frames, Segments, DataSegments, ParitySegments, NData, NParity
  <2> QED
    BY <1>1, <2>1, <2>2, <2>3, <2>4, <2>5 DEF LocalInv
<1> QED
  BY <1>2, <1>3

(* Nothing is fetched yet. *)
LEMMA IdleIsLocal ==
  ASSUME pit = {}, calls = <<>>, tasks = <<>>, reports = <<>>, stored \subseteq Published
  PROVE  LocalInv
<1>1. LocalCalls
  BY DEF LocalCalls, Range
<1> QED
  BY <1>1 DEF LocalInv, Reported

-----------------------------------------------------------------------------
(* StreamRecorder: while the stream is recorded one key frame, the one      *)
(* before the next to be asked for, and Pipeline - 1 delta frames are under *)
(* way, and every delta frame that was asked for is or has ended.           *)

Recordable == {"key", "delta"} \X Nat

Record ==
  [fetching : BOOLEAN, streaming : BOOLEAN, reserve : Int, nextKey : Nat, nextDelta : Nat, first : Nat, starts : Nat]

RecTypes ==
  /\ rec \in Record
  /\ rtasks \subseteq Recordable /\ IsFiniteSet(rtasks)

KeysOf(R) == {x \in R : x[1] = "key"}

Streams ==
  /\ rec.streaming =>
       /\ rec.fetching /\ rec.reserve = 0 /\ Cardinality(rtasks) = Pipeline
       /\ rec.nextKey \in 1..MaxNumber + 1 /\ KeysOf(rtasks) = {<<"key", rec.nextKey - 1>>}
       /\ \A n \in Nat : <<"delta", n>> \in rtasks => n < rec.nextDelta
  /\ ~rec.streaming => rtasks = {}
  /\ rec.fetching /\ ~rec.streaming => rec.reserve = Pipeline

StoredAsSeen == ~remote => stored = seen /\ stored \subseteq Published

RecInv == RecTypes /\ Streams /\ NoFrameSkipped /\ StoredAsSeen

(* The types of the fields of the recorder                                  *)
LEMMA RecordFields ==
  ASSUME RecTypes
  PROVE  /\ rec.fetching \in BOOLEAN /\ rec.streaming \in BOOLEAN /\ rec.reserve \in Int
         /\ rec.nextKey \in Nat /\ rec.nextDelta \in Nat /\ rec.first \in Nat /\ rec.starts \in Nat
BY DEF RecTypes, Record

(* What requestFrame and initiateStreamFetching change *)
LEMMA RequestFrameFields ==
  ASSUME NEW r \in Record, NEW class
  PROVE  LET new == requestFrame(r, class)
         IN /\ new \in Record /\ new.fetching = r.fetching /\ new.streaming = r.streaming
            /\ new.reserve = r.reserve - 1 /\ new.first = r.first
            /\ new.nextKey = IF class = "key" THEN r.nextKey + 1 ELSE r.nextKey
            /\ new.nextDelta = IF class = "delta" THEN r.nextDelta + 1 ELSE r.nextDelta
<1>k. PICK k : k = IF class = "key" THEN r.nextKey + 1 ELSE r.nextKey
  OBVIOUS
<1>d. PICK d : d = IF class = "delta" THEN r.nextDelta + 1 ELSE r.nextDelta
  OBVIOUS
<1>e. PICK e : e = r.reserve - 1
  OBVIOUS
<1>1. requestFrame(r, class) = [r EXCEPT !.reserve = e, !.nextKey = k, !.nextDelta = d]
  BY <1>k, <1>d, <1>e DEF requestFrame
<1>2. k \in Nat /\ d \in Nat /\ e \in Int
  BY <1>k, <1>d, <1>e DEF Record
<1> QED
  BY <1>1, <1>2, <1>k, <1>d, <1>e DEF Record

(* What initiateStreamFetching sets                                         *)
LEMMA InitiateFields ==
  ASSUME NEW r \in Record, NEW delta \in Nat, r.reserve \in Nat \ {0}
  PROVE  LET new == initiateStreamFetching(r, delta)
         IN /\ new \in Record /\ new.fetching = r.fetching /\ new.streaming = TRUE
            /\ new.reserve = 0 /\ new.first = delta /\ new.nextKey = 1 /\ new.nextDelta = delta + r.reserve - 1
<1>d. PICK d : d = delta + r.reserve - 1
  OBVIOUS
<1>1. initiateStreamFetching(r, delta) =
        [r EXCEPT !.streaming = TRUE, !.reserve = 0, !.nextKey = 1, !.first = delta, !.nextDelta = d]
  BY <1>d DEF initiateStreamFetching
<1>n. PICK new : new = initiateStreamFetching(r, delta)
  OBVIOUS
<1>2. d \in Nat /\ 1 \in Nat /\ 0 \in Int /\ TRUE \in BOOLEAN
  BY <1>d
<1>3. /\ new.fetching = r.fetching /\ new.streaming = TRUE
      /\ new.reserve = 0 /\ new.first = delta /\ new.nextKey = 1 /\ new.nextDelta = d
  BY <1>1, <1>n DEF Record
<1>4. new \in Record
  BY <1>1, <1>2, <1>n DEF Record
<1> QED
  BY <1>3, <1>4, <1>d, <1>n

Started(r, p, n) == [r EXCEPT !.fetching = TRUE, !.reserve = p, !.starts = n]

(* What the start of a recording sets                                       *)
LEMMA StartFields ==
  ASSUME NEW r \in Record, NEW p \in Nat, NEW n \in Nat
  PROVE  LET new == Started(r, p, n)
         IN new \in Record /\ new.streaming = r.streaming /\ new.reserve = p
<1>n. PICK new : new = [r EXCEPT !.fetching = TRUE, !.reserve = p, !.starts = n]
  OBVIOUS
<1>0. Started(r, p, n) = new
  BY <1>n DEF Started
<1>1. new.streaming = r.streaming /\ new.reserve = p
  BY <1>n DEF Record
<1>2. p \in Int /\ TRUE \in BOOLEAN
  OBVIOUS
<1>3. new \in Record
  BY <1>n, <1>2 DEF Record
<1> QED
  BY <1>0, <1>1, <1>3

(* What the reserve of requests is changed for, and what stays              *)
LEMMA ReserveFields ==
  ASSUME NEW r \in Record, NEW n \in Int
  PROVE  LET new == [r EXCEPT !.reserve = n]
         IN /\ new \in Record /\ new.fetching = r.fetching /\ new.streaming = r.streaming
            /\ new.reserve = n /\ new.first = r.first /\ new.nextKey = r.nextKey /\ new.nextDelta = r.nextDelta
BY DEF Record

(* The first tasks of a recording *)
FirstTasks(delta) == {<<"key", 0>>} \cup {<<"delta", n>> : n \in delta..delta + Pipeline - 2}

(* The first tasks of a recording fill the pipeline, with one key frame     *)
(* among them.                                                              *)
LEMMA PipelineFilled ==
  ASSUME NEW delta \in Nat
  PROVE  LET R == FirstTasks(delta)
         IN IsFiniteSet(R) /\ Cardinality(R) = Pipeline /\ R \subseteq Recordable /\ KeysOf(R) = {<<"key", 0>>}
<1>l. PICK l : l = delta + Pipeline - 2
  OBVIOUS
<1>S. PICK S : S = delta..l
  OBVIOUS
<1>T. PICK T : T = {<<"delta", n>> : n \in S}
  OBVIOUS
<1>g. PICK g : g = [n \in S |-> <<"delta", n>>]
  OBVIOUS
<1>1. Pipeline \in Nat \ {0} /\ l \in Int /\ S \subseteq Nat
  BY <1>l, <1>S, RecorderAssumption
<1>2. IsFiniteSet(S) /\ Cardinality(S) = Pipeline - 1
  <2>1. IsFiniteSet(delta..l) /\ Cardinality(delta..l) = IF delta > l THEN 0 ELSE l - delta + 1
    BY <1>1, FS_Interval
  <2> QED
    BY <1>1, <1>S, <1>l, <2>1
<1>3. g \in Surjection(S, T) /\ g \in Injection(S, T)
  BY <1>T, <1>g DEF Surjection, Injection, IsInjective
<1>4. IsFiniteSet(T) /\ Cardinality(T) = Pipeline - 1
  BY <1>2, <1>3, FS_Surjection
<1>5. <<"key", 0>> \notin T /\ T \subseteq Recordable /\ \A x \in T : x[1] = "delta"
  BY <1>1, <1>T DEF Recordable
<1>r. PICK R : R = T \cup {<<"key", 0>>}
  OBVIOUS
<1>6. IsFiniteSet(R) /\ Cardinality(R) = Pipeline
  BY <1>1, <1>4, <1>5, <1>r, FS_AddElement
<1>7. R \subseteq Recordable /\ KeysOf(R) = {<<"key", 0>>}
  BY <1>5, <1>r DEF Recordable, KeysOf
<1>8. FirstTasks(delta) = R
  BY <1>S, <1>T, <1>l, <1>r DEF FirstTasks
<1> QED
  BY <1>6, <1>7, <1>8

(* The first tasks are started, once. *)
LEMMA ThreadMetaKeeps ==
  ASSUME RecInv, NEW delta \in Nat, ThreadMetaFetched(delta)
  PROVE  RecTypes' /\ Streams' /\ NoFrameSkipped'
<1>1. RecTypes /\ Streams /\ NoFrameSkipped /\ ended' = ended
  BY DEF RecInv, ThreadMetaFetched
<1>2. CASE rec.fetching /\ ~rec.streaming
  <2>1. /\ rec' = initiateStreamFetching(rec, delta)
        /\ rtasks' = {<<"key", 0>>} \cup {<<"delta", n>> : n \in delta..rec'.nextDelta - 1}
        /\ rec.reserve = Pipeline /\ Pipeline \in Nat \ {0} /\ MaxNumber \in Nat
    BY <1>1, <1>2, RecorderAssumption DEF ThreadMetaFetched, Streams
  <2>2. /\ rec'.streaming = TRUE /\ rec'.reserve = 0 /\ rec'.nextKey = 1 /\ rec'.first = delta
        /\ rec'.nextDelta = delta + Pipeline - 1 /\ rec'.fetching = TRUE
        /\ rec' \in Record
    BY <1>1, <1>2, <2>1, InitiateFields DEF RecTypes
  <2>d. PICK d : d = rec'.nextDelta
    OBVIOUS
  <2>3. d = delta + Pipeline - 1 /\ d - 1 = delta + Pipeline - 2
    BY <2>1, <2>2, <2>d
  <2>4. rtasks' = FirstTasks(delta)
    BY <2>1, <2>3, <2>d DEF FirstTasks
  <2>5. IsFiniteSet(rtasks') /\ Cardinality(rtasks') = Pipeline /\ rtasks' \subseteq Recordable /\ KeysOf(rtasks') = {<<"key", 0>>}
    BY <2>4, PipelineFilled
  <2>6. \A n \in Nat : <<"delta", n>> \in rtasks' <=> n \in delta..d - 1
    BY <2>1, <2>d
  <2>7. \A n \in Nat : <<"delta", n>> \in rtasks' => n < d
    BY <2>1, <2>3, <2>6
  <2>8. rec'.nextKey \in 1..MaxNumber + 1 /\ rec'.nextKey - 1 = 0
    BY <2>1, <2>2
  <2>9. Streams'
    BY <2>2, <2>5, <2>7, <2>8, <2>d DEF Streams, KeysOf
  <2>10. RecTypes'
    BY <2>2, <2>5 DEF RecTypes
  <2>11. NoFrameSkipped'
    <3>1. \A n \in delta..d - 1 : n \in Nat
      BY <2>1, <2>3
    <3>2. \A n \in delta..d - 1 : <<"delta", n>> \in rtasks'
      BY <2>6, <3>1
    <3> QED
      BY <2>2, <2>d, <3>2 DEF NoFrameSkipped
  <2> QED
    BY <2>9, <2>10, <2>11
<1>3. CASE ~(rec.fetching /\ ~rec.streaming)
  <2>1. rec' = rec /\ rtasks' = rtasks
    BY <1>3 DEF ThreadMetaFetched
  <2> QED
    BY <1>1, <2>1 DEF RecTypes, Streams, NoFrameSkipped, KeysOf
<1> QED
  BY <1>2, <1>3

(* A task has ended: the next frame of its class takes its place. *)
LEMMA NextFrameKeeps ==
  ASSUME RecInv, NEW x \in rtasks, x[2] < MaxNumber, requestNextFrame(x, rec), ended' = ended \cup {x}
  PROVE  RecTypes' /\ Streams' /\ NoFrameSkipped'
<1>1. /\ RecTypes /\ Streams /\ NoFrameSkipped /\ x \in Recordable /\ IsFiniteSet(rtasks) /\ rtasks \subseteq Recordable
      /\ MaxNumber \in Nat /\ Pipeline \in Nat \ {0}
  BY RecorderAssumption DEF RecInv, RecTypes
<1>2. rec.streaming
  BY <1>1 DEF Streams
<1>3. /\ rec.fetching /\ rec.reserve = 0 /\ Cardinality(rtasks) = Pipeline
      /\ rec.nextKey \in 1..MaxNumber + 1 /\ KeysOf(rtasks) = {<<"key", rec.nextKey - 1>>}
      /\ \A n \in Nat : <<"delta", n>> \in rtasks => n < rec.nextDelta
      /\ \A n \in rec.first..rec.nextDelta - 1 : <<"delta", n>> \in rtasks \cup ended
      /\ rec.first \in Nat /\ rec.nextDelta \in Nat /\ rec.nextKey \in Nat
  BY <1>1, <1>2, RecordFields DEF Streams, NoFrameSkipped
<1>k. PICK k : k = IF x[1] = "key" THEN rec.nextKey + 1 ELSE rec.nextKey
  OBVIOUS
<1>d. PICK d : d = IF x[1] = "delta" THEN rec.nextDelta + 1 ELSE rec.nextDelta
  OBVIOUS
<1>y. PICK y : y = <<x[1], IF x[1] = "key" THEN rec.nextKey ELSE rec.nextDelta>>
  OBVIOUS
<1>4. /\ rec' = requestFrame([rec EXCEPT !.reserve = @ + 1], x[1])
      /\ rtasks' = (rtasks \ {x}) \cup {y}
  BY <1>y DEF requestNextFrame, nextFrame
<1>5. /\ rec'.streaming = TRUE /\ rec'.fetching = TRUE /\ rec'.reserve = 0 /\ rec'.nextKey = k /\ rec'.nextDelta = d
      /\ rec'.first = rec.first
      /\ rec' \in Record
  <2>r. PICK r : r = [rec EXCEPT !.reserve = rec.reserve + 1]
    OBVIOUS
  <2>1. /\ r \in Record /\ r.fetching = rec.fetching /\ r.streaming = rec.streaming /\ r.reserve = rec.reserve + 1
        /\ r.first = rec.first /\ r.nextKey = rec.nextKey /\ r.nextDelta = rec.nextDelta
    <3>n. PICK n \in Int : n = rec.reserve + 1
      BY <1>3
    <3>1. rec \in Record /\ r = [rec EXCEPT !.reserve = n]
      BY <1>1, <2>r, <3>n DEF RecTypes
    <3> QED
      BY <3>1, <3>n, ReserveFields
  <2>2. rec' = requestFrame(r, x[1])
    BY <1>4, <2>r
  <2>3. /\ rec' \in Record /\ rec'.fetching = r.fetching /\ rec'.streaming = r.streaming
        /\ rec'.reserve = r.reserve - 1 /\ rec'.first = r.first
        /\ rec'.nextKey = IF x[1] = "key" THEN r.nextKey + 1 ELSE r.nextKey
        /\ rec'.nextDelta = IF x[1] = "delta" THEN r.nextDelta + 1 ELSE r.nextDelta
    BY <2>1, <2>2, RequestFrameFields
  <2> QED
    BY <1>1, <1>2, <1>3, <1>k, <1>d, <2>1, <2>3
<1>6. x[1] \in {"key", "delta"} /\ x[2] \in Nat /\ x = <<x[1], x[2]>>
  BY <1>1 DEF Recordable
<1>7. y \in Recordable /\ y \notin rtasks /\ y[1] = x[1]
  <2>1. CASE x[1] = "key"
    <3>1. y = <<"key", rec.nextKey>> /\ y # <<"key", rec.nextKey - 1>> /\ y[1] = "key"
      BY <1>3, <1>y, <2>1
    <3>2. y \notin rtasks
      BY <1>3, <3>1 DEF KeysOf
    <3> QED
      BY <1>3, <2>1, <3>1, <3>2 DEF Recordable
  <2>2. CASE x[1] = "delta"
    <3>1. y = <<"delta", rec.nextDelta>>
      BY <1>y, <2>2
    <3>2. y \notin rtasks
      BY <1>3, <3>1
    <3> QED
      BY <1>3, <2>2, <3>1, <3>2 DEF Recordable
  <2> QED
    BY <1>6, <2>1, <2>2
<1>8. IsFiniteSet(rtasks') /\ Cardinality(rtasks') = Pipeline
  <2>r. PICK R : R = rtasks \ {x}
    OBVIOUS
  <2>1. IsFiniteSet(R) /\ Cardinality(R) = Pipeline - 1
    BY <1>1, <1>3, <2>r, FS_RemoveElement
  <2>2. y \notin R
    BY <1>7, <2>r
  <2>3. IsFiniteSet(R \cup {y}) /\ Cardinality(R \cup {y}) = (Pipeline - 1) + 1
    BY <2>1, <2>2, FS_AddElement
  <2> QED
    BY <1>1, <1>4, <2>r, <2>3
<1>9. k \in 1..MaxNumber + 1 /\ KeysOf(rtasks') = {<<"key", k - 1>>}
  <2>1. CASE x[1] = "key"
    <3>1. x = <<"key", rec.nextKey - 1>>
      BY <1>3, <2>1 DEF KeysOf
    <3>2. rec.nextKey - 1 < MaxNumber
      BY <3>1
    <3>3. k = rec.nextKey + 1 /\ k - 1 = rec.nextKey /\ k \in 1..MaxNumber + 1
      BY <1>1, <1>3, <1>k, <2>1, <3>2
    <3>4. y = <<"key", k - 1>> /\ y[1] = "key"
      BY <1>y, <2>1, <3>3
    <3>5. \A z \in rtasks : z[1] = "key" => z = x
      BY <1>3, <3>1 DEF KeysOf
    <3> QED
      BY <1>4, <3>3, <3>4, <3>5 DEF KeysOf
  <2>2. CASE x[1] = "delta"
    <3>1. k = rec.nextKey /\ y[1] # "key"
      BY <1>k, <1>7, <2>2
    <3>2. KeysOf(rtasks') = KeysOf(rtasks)
      BY <1>4, <2>2, <3>1 DEF KeysOf
    <3> QED
      BY <1>3, <3>1, <3>2
  <2> QED
    BY <1>6, <2>1, <2>2
<1>10. \A n \in Nat : <<"delta", n>> \in rtasks' => n < d
  <2> SUFFICES ASSUME NEW n \in Nat, <<"delta", n>> \in rtasks' PROVE n < d
    OBVIOUS
  <2>1. CASE <<"delta", n>> \in rtasks
    BY <1>3, <1>d, <2>1
  <2>2. CASE <<"delta", n>> = y
    <3>1. x[1] = "delta" /\ n = rec.nextDelta
      BY <1>6, <1>y, <2>2
    <3> QED
      BY <1>3, <1>d, <3>1
  <2> QED
    BY <1>4, <2>1, <2>2
<1>11. \A n \in rec.first..d - 1 : <<"delta", n>> \in rtasks' \cup ended'
  <2> SUFFICES ASSUME NEW n \in rec.first..d - 1 PROVE <<"delta", n>> \in rtasks' \cup ended'
    OBVIOUS
  <2>1. CASE n \in rec.first..rec.nextDelta - 1
    BY <1>3, <1>4, <2>1
  <2>2. CASE n \notin rec.first..rec.nextDelta - 1
    <3>1. x[1] = "delta" /\ n = rec.nextDelta
      BY <1>3, <1>6, <1>d, <2>2
    <3> QED
      BY <1>4, <1>y, <3>1
  <2> QED
    BY <2>1, <2>2
<1>12. rtasks' \subseteq Recordable
  BY <1>1, <1>4, <1>7
<1> QED
  BY <1>5, <1>8, <1>9, <1>10, <1>11, <1>12 DEF RecTypes, Streams, NoFrameSkipped, KeysOf

(* The other steps of the recorder *)
LEMMA RecorderStreams ==
  ASSUME RecInv, RecorderNext
  PROVE  RecTypes' /\ Streams' /\ NoFrameSkipped'
<1>1. RecTypes /\ Streams /\ NoFrameSkipped
  BY DEF RecInv
<1>2. ASSUME UNCHANGED <<rec, rtasks, ended>> PROVE RecTypes' /\ Streams' /\ NoFrameSkipped'
  BY <1>1, <1>2 DEF RecTypes, Streams, NoFrameSkipped, KeysOf
<1>3. CASE Start
  <2>1. /\ ~rec.streaming /\ rec' = [rec EXCEPT !.fetching = TRUE, !.reserve = Pipeline, !.starts = @ + 1]
        /\ rtasks' = rtasks /\ Pipeline \in Nat
    BY <1>3, RecorderAssumption DEF Start
  <2>2. rec' \in Record /\ rec'.streaming = rec.streaming /\ rec'.reserve = Pipeline
    <3>n. PICK n : n = rec.starts + 1
      OBVIOUS
    <3>1. rec' = [rec EXCEPT !.fetching = TRUE, !.reserve = Pipeline, !.starts = n] /\ rec \in Record
      BY <1>1, <2>1, <3>n DEF RecTypes
    <3>2. n \in Nat
      BY <1>1, <3>n, RecordFields
    <3>r. PICK r \in Record : r = rec
      BY <3>1
    <3>w. PICK w : w = Started(r, Pipeline, n)
      OBVIOUS
    <3>3. w \in Record /\ w.streaming = r.streaming /\ w.reserve = Pipeline
      BY <2>1, <3>2, <3>w, StartFields
    <3>4. rec' = w
      BY <3>1, <3>r, <3>w DEF Started
    <3> QED
      BY <3>3, <3>4, <3>r
  <2> QED
    BY <1>1, <2>1, <2>2 DEF RecTypes, Streams, NoFrameSkipped
<1>4. CASE Stop
  <2>1. rec' = [rec EXCEPT !.fetching = FALSE, !.streaming = FALSE] /\ rtasks' = {}
    BY <1>4 DEF Stop
  <2>2. rec' \in Record /\ rec'.streaming = FALSE /\ rec'.fetching = FALSE
    BY <1>1, <2>1 DEF RecTypes, Record
  <2>3. IsFiniteSet({}) /\ {} \subseteq Recordable
    BY FS_EmptySet
  <2> QED
    BY <2>1, <2>2, <2>3 DEF RecTypes, Streams, NoFrameSkipped
<1>5. CASE StreamMetaFetched \/ StreamMetaFails \/ ThreadMetaFails \/ TimerFires
  BY <1>2, <1>5 DEF StreamMetaFetched, StreamMetaFails, ThreadMetaFails, TimerFires
<1>6. ASSUME NEW d \in Latest, ThreadMetaFetched(d) PROVE RecTypes' /\ Streams' /\ NoFrameSkipped'
  BY <1>6, ThreadMetaKeeps, RecorderAssumption
<1>7. ASSUME NEW x \in rtasks, FrameFailed(x) PROVE RecTypes' /\ Streams' /\ NoFrameSkipped'
  BY <1>7, NextFrameKeeps DEF FrameFailed
<1>8. ASSUME NEW x \in rtasks, NEW segs \in Assembled(x), FrameFetched(x, segs)
      PROVE  RecTypes' /\ Streams' /\ NoFrameSkipped'
  BY <1>8, NextFrameKeeps DEF FrameFetched
<1> QED
  BY <1>3, <1>4, <1>5, <1>6, <1>7, <1>8 DEF RecorderNext

(* What the recorder stores belongs to the stream, and was seen. *)
LEMMA RecorderStores ==
  ASSUME RecInv, FetchInv, RecorderNext
  PROVE  StoredAsSeen'
<1>1. StoredAsSeen /\ gop \in Gops /\ remote' = remote /\ gop' = gop
  BY DEF RecInv, FetchInv, FetchTypes, RecorderNext, vars, Start, Stop, StreamMetaFetched, StreamMetaFails, ThreadMetaFails,
         TimerFires, ThreadMetaFetched, FrameFailed, FrameFetched
<1>2. Published' = Published
  BY <1>1 DEF Published, Frames, Segments, DataSegments, ParitySegments, NData, NParity
<1>3. CASE UNCHANGED <<stored, seen>>
  BY <1>1, <1>2, <1>3 DEF StoredAsSeen
<1>4. ASSUME NEW x \in rtasks, NEW segs \in Assembled(x), FrameFetched(x, segs) PROVE StoredAsSeen'
  <2>1. ~remote /\ seen' = seen \cup Store(x, segs) /\ stored' = stored \cup Store(x, segs)
    BY <1>4 DEF FrameFetched, Recording
  <2>2. Store(x, segs) \subseteq Published
    <3> SUFFICES ASSUME InGop(x) PROVE {x[2]} \X segs \subseteq Published
      BY DEF Store
    <3>1. x[2] \in Frames
      BY <1>1, GopShape DEF InGop
    <3>2. segs \subseteq Segments(x[2])
      BY DEF Assembled
    <3> QED
      BY <3>1, <3>2 DEF Published
  <2> QED
    BY <1>1, <1>2, <2>1, <2>2 DEF StoredAsSeen
<1> QED
  BY <1>3, <1>4 DEF RecorderNext, vars, Start, Stop, StreamMetaFetched, StreamMetaFails, ThreadMetaFails,
         TimerFires, ThreadMetaFetched, FrameFailed

(* Steps that leave the recorder alone keep what is known of it.            *)
LEMMA RecInvStays == RecInv /\ UNCHANGED <<rec, loops, rtasks, ended, seen, remote, stored, gop>> => RecInv'
<1> SUFFICES ASSUME RecInv, UNCHANGED <<rec, loops, rtasks, ended, seen, remote, stored, gop>> PROVE RecInv'
  OBVIOUS
<1>1. Published' = Published
  BY DEF Published, Frames, Segments, DataSegments, ParitySegments, NData, NParity
<1>2. RecTypes' /\ Streams' /\ NoFrameSkipped'
  BY DEF RecInv, RecTypes, Streams, NoFrameSkipped, KeysOf
<1>3. StoredAsSeen'
  BY <1>1 DEF RecInv, StoredAsSeen
<1> QED
  BY <1>2, <1>3 DEF RecInv

RecordInv == FetchInv /\ LocalInv /\ RecInv

(* The recorder before it starts satisfies its invariant.                   *)
LEMMA RecordInvInit == RecorderInit => RecordInv
<1> SUFFICES ASSUME RecorderInit PROVE RecordInv
  OBVIOUS
<1>1. Idle /\ (~remote => stored = {}) /\ seen = {} /\ rtasks = {}
      /\ rec = [fetching |-> FALSE, streaming |-> FALSE, reserve |-> 0, nextKey |-> 0, nextDelta |-> 0,
                first |-> 0, starts |-> 0]
  BY DEF RecorderInit
<1>2. FetchInv
  BY <1>1, FetchInvInit
<1>3. LocalInv
  <2>1. CASE remote
    BY <2>1 DEF LocalInv
  <2>2. CASE ~remote
    BY <1>1, <2>2, IdleIsLocal DEF Idle
  <2> QED
    BY <2>1, <2>2
<1>4. rec \in Record /\ rec.streaming = FALSE /\ rec.fetching = FALSE
  BY <1>1 DEF Record
<1>5. RecInv
  BY <1>1, <1>4, FS_EmptySet DEF RecInv, RecTypes, Streams, NoFrameSkipped, StoredAsSeen
<1> QED
  BY <1>2, <1>3, <1>5 DEF RecordInv

(* Each step of the recorder, and of the fetcher that plays back, keeps     *)
(* the invariant.                                                           *)
LEMMA RecordInvNext == RecordInv /\ [RecorderNext \/ Playback]_rvars => RecordInv'
<1> SUFFICES ASSUME RecordInv, [RecorderNext \/ Playback]_rvars PROVE RecordInv'
  OBVIOUS
<1>1. FetchInv /\ LocalInv /\ RecInv
  BY DEF RecordInv
<1>2. CASE Playback
  <2>1. Next /\ UNCHANGED <<rec, loops, rtasks, ended, seen>>
    BY <1>2 DEF Playback
  <2>2. UNCHANGED <<remote, stored, gop>>
    BY <2>1 DEF Next, Fetch, Return, RequestRemote, RequestLocal, FetchGop, CheckMissingSegments, CheckTaskCompletion,
         DecodeGop, DecodeFails, Answer, OnData, OnApplicationNack, OnTimeout, OnNetworkNack
  <2> QED
    BY <1>1, <2>1, <2>2, FetchInvNext, LocalInvNext, RecInvStays DEF RecordInv
<1>3. CASE UNCHANGED rvars
  <2>1. UNCHANGED vars /\ UNCHANGED <<rec, loops, rtasks, ended, seen>>
    BY <1>3 DEF rvars
  <2> QED
    BY <1>1, <2>1, FetchInvStutters, LocalInvStutters, RecInvStays DEF RecordInv, vars
<1>4. CASE RecorderNext
  <2>1. UNCHANGED <<remote, gop, fetcher, tasks, current, pit, calls, decoded, reports, excused>>
    BY <1>4 DEF RecorderNext, vars, Start, Stop, StreamMetaFetched, StreamMetaFails, ThreadMetaFails, TimerFires,
           ThreadMetaFetched, FrameFailed, FrameFetched
  <2>2. ~remote /\ fetcher = "Idle"
    BY <1>4 DEF RecorderNext, Recording, Start, Stop, StreamMetaFetched, StreamMetaFails, ThreadMetaFails, TimerFires,
           ThreadMetaFetched, FrameFailed, FrameFetched
  <2>3. FetchInv'
    BY <1>1, <2>1, FetchInvStutters
  <2>4. RecInv'
    BY <1>1, <1>4, RecorderStreams, RecorderStores DEF RecInv
  <2>5. (pit = {} /\ calls = <<>> /\ tasks = <<>> /\ reports = <<>>)'
    BY <1>1, <2>1, <2>2 DEF FetchInv, Outcome
  <2>6. stored' \subseteq Published'
    BY <2>1, <2>2, <2>4 DEF RecInv, StoredAsSeen
  <2>7. LocalInv'
    <3>1. LocalCalls'
      BY <2>5 DEF LocalCalls, Range
    <3>2. Reported' /\ DOMAIN tasks' = {}
      BY <2>5 DEF Reported
    <3> QED
      BY <2>5, <2>6, <3>1, <3>2 DEF LocalInv
  <2> QED
    BY <2>3, <2>4, <2>7 DEF RecordInv
<1> QED
  BY <1>2, <1>3, <1>4

(* The invariant says that what is recorded is whole.                       *)
LEMMA RecordInvImplies == RecordInv => RecordingIsWhole
<1> SUFFICES ASSUME RecordInv PROVE RecordingIsWhole
  OBVIOUS
<1>1. LocalInv /\ RecTypes /\ Streams /\ NoFrameSkipped /\ StoredAsSeen
  BY DEF RecordInv, RecInv
<1>2. PipelineKept
  <2> SUFFICES ASSUME rec.streaming
               PROVE  /\ Cardinality(rtasks) + rec.reserve = Pipeline
                      /\ \E k \in 0..MaxNumber : {x \in rtasks : x[1] = "key"} = {<<"key", k>>}
    BY DEF PipelineKept
  <2>1. /\ rec.reserve = 0 /\ Cardinality(rtasks) = Pipeline /\ Pipeline \in Nat /\ MaxNumber \in Nat
        /\ rec.nextKey \in 1..MaxNumber + 1 /\ KeysOf(rtasks) = {<<"key", rec.nextKey - 1>>}
    BY <1>1, RecorderAssumption DEF Streams
  <2>2. rec.nextKey - 1 \in 0..MaxNumber
    BY <2>1
  <2> QED
    BY <2>1, <2>2 DEF KeysOf
<1>3. RecordedCanBeFetched
  <2> SUFFICES ASSUME ~remote, reports # <<>>, ~excused
               PROVE  \/ reports[1] = "fetched" /\ \A f \in Frames : isReady([frame |-> f, fetched |-> Recorded(f)])
                      \/ reports[1] = "failed" /\ \E f \in Frames : ~(DataSegments(f) \subseteq Recorded(f))
    BY DEF RecordedCanBeFetched
  <2>1. \A f : Recorded(f) = StoredOf(f)
    BY <1>1 DEF StoredAsSeen, Recorded, StoredOf
  <2>2. \/ reports[1] = "fetched" /\ \A f \in Frames : AsStored(f)
        \/ reports[1] = "failed" /\ \E f \in Frames : ~Kept(f)
    BY <1>1 DEF LocalInv, Reported
  <2> QED
    BY <2>1, <2>2 DEF AsStored, Kept
<1> QED
  BY <1>1, <1>2, <1>3 DEF RecordingIsWhole

(* The recorder keeps its pipeline full and skips no frame, over failures,  *)
(* stops and starts; and a later fetch from the storage succeeds only if    *)
(* every frame of the GOP was recorded well enough, and fails only if one   *)
(* of them was not recorded in full.                                        *)
THEOREM WhatIsRecordedIsWhole == RecorderSpec => []RecordingIsWhole
BY RecordInvInit, RecordInvNext, RecordInvImplies, PTL DEF RecorderSpec

-----------------------------------------------------------------------------
(* TouchOperator.  What the operator holds is told by the tasks that still  *)
(* wait: they are queued in the order of their ranks, and a task finds made *)
(* what those before it make, or an error that says why not.                *)

(* Tasks in the order in which init and initStream queue them. *)
Rank(task) ==
  CASE task = "initFace" -> 1
    [] task = "initKeyChainManager" -> 2
    [] task = "registerPrefix" -> 3
    [] task = "publishCertificates" -> 4
    [] OTHER -> 5

(* Only the creation of a stream, which comes last, can be queued twice. *)
InOrder(q) ==
  /\ \A i, j \in DOMAIN q :
       i < j => Rank(q[i]) < Rank(q[j]) \/ (q[i] = "createStream" /\ q[j] = "createStream")
  /\ q # <<>> => q[Len(q)] = "createStream"

Has(q, task) == \E i \in DOMAIN q : q[i] = task

(* Types; a processor has a face, and ids are handed out in order. *)
OperatorTypes ==
  /\ processor \in (1..MaxFaces) \cup {None} /\ face \in (1..MaxFaces) \cup {None}
  /\ faces \in 0..MaxFaces /\ running \in BOOLEAN /\ signed \in (1..MaxFaces) \cup {None}
  /\ processor # None => face # None /\ processor <= faces
  /\ kind \in {"In", "Out"} /\ inputs \in [host : Hosts, setting : Settings] /\ params \in Params
  /\ phase \in {"idle", "tasks", "picture"}
  /\ keyChain \in (1..MaxFaces) \cup {None} /\ certs \in (1..MaxFaces) \cup {None}
  /\ identity \in BOOLEAN /\ prefixRegistered \in BOOLEAN
  /\ stream \in Stream \cup {None}
  /\ error \in Errors \cup {None}
  /\ queue \in Seq(Tasks) /\ InOrder(queue)

(* Key chain and stream belong to the processor, and are gone when it is to *)
(* be made anew.                                                            *)
Held ==
  /\ keyChain # None => keyChain = processor /\ identity
  /\ stream # None => stream.processor = processor /\ stream.keyChain = keyChain /\ keyChain # None
  /\ Has(queue, "initFace") => processor = None
  /\ Has(queue, "initKeyChainManager") =>
       /\ keyChain = None
       /\ kind = "Out" => Has(queue, "registerPrefix") /\ Has(queue, "publishCertificates")

(* Unless it shows an error, the operator has what no task is going to make. *)
Applied ==
  /\ params.host # None /\ error = None =>
       /\ Has(queue, "initFace") \/ processor # None
       /\ Has(queue, "initKeyChainManager") \/ keyChain # None
       /\ Has(queue, "createStream") \/ (stream # None /\ stream.setting = params.setting)
  /\ phase # "idle" => params = inputs
  /\ phase = "picture" => error # None \/ queue = <<>>

(* A processor is asked to register at most once. *)
Registered ==
  /\ io = <<>> \/ \E f \in 1..MaxFaces : io = <<f>>
  /\ caller \in [wait : {"no", "check", "drowsy", "asleep"}, done : BOOLEAN, threw : BOOLEAN]
  /\ running => processor # None
  /\ caller # NoCall => phase = "tasks" /\ processor # None
  /\ io # <<>> => caller # NoCall /\ ~caller.done
  /\ caller.wait = "no" => caller = NoCall
  /\ io # <<>> => ~prefixRegistered /\ processor # None /\ registration = NoRegistration
  /\ registration \in [by : (1..MaxFaces) \cup {None}, state : {"none", "pending", "done", "failed"}]
  /\ registration # NoRegistration => registration.by = processor /\ processor # None
  /\ Has(queue, "registerPrefix") => io = <<>> /\ registration = NoRegistration
  /\ kind = "Out" /\ prefixRegistered /\ keyChain # None /\ ~Has(queue, "registerPrefix")
       => registration = [by |-> processor, state |-> "done"]

(* Certificates of the key chain are served or going to be. *)
Verifiable ==
  /\ kind = "Out" /\ error = None /\ keyChain # None =>
       Has(queue, "publishCertificates") \/ certs = keyChain
  /\ published # None =>
       /\ kind = "Out" /\ identity
       /\ published \in [processor : 1..faces, certs : (1..MaxFaces) \cup {None}, setting : Settings \cup {None}]
       /\ published.processor = processor =>
            keyChain # None /\ (error = None => published.certs = processor)

Pictures ==
  /\ renderer.front.info = renderer.front.pixels
  /\ renderer.front \in [info : Nat, pixels : Nat] /\ renderer.back \in [info : Nat, pixels : Nat]
  /\ renderer \in [front : {renderer.front}, back : {renderer.back}]
  /\ shown.info = shown.pixels

OperatorInv == OperatorTypes /\ Held /\ Applied /\ Registered /\ Verifiable /\ Pictures

(* The task at the front of a queue in order is the only one of its kind, *)
(* and those of lower rank are gone.                                      *)
LEMMA PopTask ==
  ASSUME NEW q \in Seq(Tasks), InOrder(q), q # <<>>
  PROVE  /\ Tail(q) \in Seq(Tasks) /\ InOrder(Tail(q)) /\ Has(q, Head(q)) /\ Head(q) \in Tasks
         /\ \A task : Has(Tail(q), task) => Has(q, task)
         /\ \A task : Has(q, task) => task = Head(q) \/ Has(Tail(q), task)
         /\ Head(q) # "createStream" => ~Has(Tail(q), Head(q)) /\ Has(Tail(q), "createStream")
         /\ \A task \in Tasks : Rank(task) < Rank(Head(q)) => ~Has(q, task)
<1>1. /\ Len(q) \in Nat \ {0} /\ Tail(q) \in Seq(Tasks) /\ Len(Tail(q)) = Len(q) - 1
      /\ DOMAIN q = 1..Len(q) /\ DOMAIN Tail(q) = 1..Len(q) - 1
      /\ \A i \in 1..Len(q) - 1 : Tail(q)[i] = q[i + 1]
      /\ Head(q) = q[1] /\ q[1] \in Tasks
  OBVIOUS
<1>2. InOrder(Tail(q))
  <2>1. \A i, j \in 1..Len(q) - 1 : 
              i < j => Rank(q[i + 1]) < Rank(q[j + 1]) \/ (q[i + 1] = "createStream" /\ q[j + 1] = "createStream")
    BY <1>1 DEF InOrder
  <2>2. Tail(q) # <<>> => Tail(q)[Len(Tail(q))] = "createStream"
    BY <1>1 DEF InOrder
  <2> QED
    BY <1>1, <2>1, <2>2 DEF InOrder
<1>3. \A task : Has(Tail(q), task) => Has(q, task)
  BY <1>1 DEF Has
<1>4. \A task : Has(q, task) => task = Head(q) \/ Has(Tail(q), task)
  <2> SUFFICES ASSUME NEW i \in 1..Len(q), i # 1 PROVE Has(Tail(q), q[i])
    BY <1>1 DEF Has
  <2>1. i - 1 \in 1..Len(q) - 1 /\ Tail(q)[i - 1] = q[i]
    BY <1>1
  <2> QED
    BY <1>1, <2>1 DEF Has
<1>5. \A i \in 2..Len(q) : Rank(q[1]) < Rank(q[i]) \/ (q[1] = "createStream" /\ q[i] = "createStream")
  BY <1>1 DEF InOrder
<1>6. \A i \in 1..Len(q) : Rank(q[i]) \in 1..5 /\ q[i] \in Tasks
  BY <1>1 DEF Rank, Tasks
<1>7. ASSUME Head(q) # "createStream" PROVE ~Has(Tail(q), Head(q)) /\ Has(Tail(q), "createStream")
  <2>1. q[Len(q)] = "createStream"
    BY DEF InOrder
  <2>2. Has(Tail(q), "createStream")
    BY <1>1, <1>4, <1>7, <2>1 DEF Has
  <2>3. \A i \in 1..Len(q) - 1 : q[i + 1] # q[1]
    <3> SUFFICES ASSUME NEW i \in 1..Len(q) - 1, q[i + 1] = q[1] PROVE FALSE
      OBVIOUS
    <3>1. i + 1 \in 2..Len(q) /\ Rank(q[1]) \in 1..5
      BY <1>1, <1>6
    <3> QED
      BY <1>1, <1>5, <1>7, <3>1
  <2> QED
    BY <1>1, <2>2, <2>3 DEF Has
<1>8. ASSUME NEW task \in Tasks, Rank(task) < Rank(Head(q)) PROVE ~Has(q, task)
  <2> SUFFICES ASSUME NEW i \in 1..Len(q), q[i] = task PROVE FALSE
    BY <1>1 DEF Has
  <2>1. i # 1 /\ Rank(q[1]) \in 1..5 /\ Rank(q[i]) \in 1..5
    BY <1>1, <1>6, <1>8
  <2> QED
    BY <1>1, <1>5, <1>8, <2>1
<1> QED
  BY <1>1, <1>2, <1>3, <1>4, <1>7, <1>8 DEF Has

(* The queue with the task that creates the stream at its end               *)
LEMMA AppendTask ==
  ASSUME NEW t \in Seq(Tasks)
  PROVE  LET longer == Append(t, "createStream")
         IN /\ longer \in Seq(Tasks) /\ Len(longer) = Len(t) + 1 /\ Len(t) \in Nat
            /\ DOMAIN t = 1..Len(t) /\ DOMAIN longer = 1..Len(t) + 1
            /\ \A i \in 1..Len(t) : longer[i] = t[i] /\ t[i] \in Tasks
            /\ longer[Len(t) + 1] = "createStream"
  BY DEF Tasks

(* initStream queues a task more. *)
LEMMA QueueStream ==
  ASSUME NEW q \in Seq(Tasks), InOrder(q)
  PROVE  LET longer == Append(q, "createStream")
         IN /\ longer \in Seq(Tasks) /\ InOrder(longer) /\ longer # <<>>
            /\ Has(longer, "createStream")
            /\ \A task : Has(longer, task) <=> task = "createStream" \/ Has(q, task)
<1> DEFINE longer == Append(q, "createStream")
<1>1. /\ Len(q) \in Nat /\ Len(longer) = Len(q) + 1 /\ longer \in Seq(Tasks)
      /\ DOMAIN q = 1..Len(q) /\ DOMAIN longer = 1..Len(q) + 1
      /\ \A i \in 1..Len(q) : longer[i] = q[i] /\ q[i] \in Tasks
      /\ longer[Len(q) + 1] = "createStream"
  BY AppendTask
<1> HIDE DEF longer
<1>2. \A i \in 1..Len(q) : Rank(q[i]) < Rank("createStream") \/ q[i] = "createStream"
  BY <1>1 DEF Rank, Tasks
<1>3. InOrder(longer)
  <2> SUFFICES ASSUME NEW i \in 1..Len(q) + 1, NEW j \in 1..Len(q) + 1, i < j
               PROVE  Rank(longer[i]) < Rank(longer[j]) \/ (longer[i] = "createStream" /\ longer[j] = "createStream")
    BY <1>1 DEF InOrder
  <2>1. CASE j = Len(q) + 1
    BY <1>1, <1>2, <2>1
  <2>2. CASE j # Len(q) + 1
    <3>1. i \in 1..Len(q) /\ j \in 1..Len(q)
      BY <1>1, <2>2
    <3> QED
      BY <1>1, <3>1 DEF InOrder
  <2> QED
    BY <2>1, <2>2
<1>4. \A task : Has(longer, task) <=> task = "createStream" \/ Has(q, task)
  BY <1>1 DEF Has
<1> QED
  BY <1>1, <1>3, <1>4 DEF longer

(* What init queues, with the creation of the stream. *)
LEMMA InitQueue ==
  ASSUME kind \in {"In", "Out"}
  PROVE  LET q == Append(initTasks, "createStream")
         IN /\ q \in Seq(Tasks) /\ InOrder(q) /\ q # <<>>
            /\ Has(q, "initFace") /\ Has(q, "initKeyChainManager") /\ Has(q, "createStream")
            /\ kind = "Out" => Has(q, "registerPrefix") /\ Has(q, "publishCertificates")
<1>1. CASE kind = "Out"
  <2> DEFINE t == <<"initFace", "initKeyChainManager", "registerPrefix", "publishCertificates">>
             q == Append(t, "createStream")
  <2>1. t \in Seq(Tasks) /\ Len(t) = 4 /\ initTasks = t
    BY <1>1 DEF Tasks, initTasks
  <2>2. t[1] = "initFace" /\ t[2] = "initKeyChainManager" /\ t[3] = "registerPrefix" /\ t[4] = "publishCertificates"
    OBVIOUS
  <2> HIDE DEF t
  <2>a. /\ q \in Seq(Tasks) /\ Len(q) = Len(t) + 1
        /\ \A i \in 1..Len(t) : q[i] = t[i]
        /\ q[Len(t) + 1] = "createStream"
    BY <2>1, AppendTask
  <2> HIDE DEF q
  <2>3. /\ q \in Seq(Tasks) /\ Len(q) = 5 /\ DOMAIN q = 1..5
        /\ q[5] = "createStream" /\ \A i \in 1..4 : q[i] = t[i]
    BY <2>1, <2>a
  <2>4. /\ q[1] = "initFace"
        /\ q[2] = "initKeyChainManager"
        /\ q[3] = "registerPrefix"
        /\ q[4] = "publishCertificates"
    BY <2>2, <2>3
  <2>5. Rank(q[1]) = 1 /\ Rank(q[2]) = 2 /\ Rank(q[3]) = 3 /\ Rank(q[4]) = 4 /\ Rank(q[5]) = 5
    BY <2>3, <2>4 DEF Rank
  <2>6. InOrder(q) /\ q # <<>>
    <3>1. \A i \in 1..5 : Rank(q[i]) = IF i = 5 THEN 5 ELSE i
      BY <2>5
    <3>2. \A i, j \in 1..5 : i < j => Rank(q[i]) < Rank(q[j])
      BY <3>1
    <3> QED
      BY <2>3, <3>2 DEF InOrder
  <2>7. Has(q, q[1]) /\ Has(q, q[2]) /\ Has(q, q[3]) /\ Has(q, q[4]) /\ Has(q, q[5])
    BY <2>3 DEF Has
  <2> QED
    BY <1>1, <2>1, <2>3, <2>4, <2>6, <2>7 DEF q
<1>2. CASE kind = "In"
  <2> DEFINE t == <<"initFace", "initKeyChainManager">>
             q == Append(t, "createStream")
  <2>1. t \in Seq(Tasks) /\ Len(t) = 2 /\ initTasks = t
    BY <1>2 DEF Tasks, initTasks
  <2>2. t[1] = "initFace" /\ t[2] = "initKeyChainManager"
    OBVIOUS
  <2> HIDE DEF t
  <2>a. /\ q \in Seq(Tasks) /\ Len(q) = Len(t) + 1
        /\ \A i \in 1..Len(t) : q[i] = t[i]
        /\ q[Len(t) + 1] = "createStream"
    BY <2>1, AppendTask
  <2> HIDE DEF q
  <2>3. /\ q \in Seq(Tasks) /\ Len(q) = 3 /\ DOMAIN q = 1..3
        /\ q[3] = "createStream" /\ \A i \in 1..2 : q[i] = t[i]
    BY <2>1, <2>a
  <2>4. /\ q[1] = "initFace"
        /\ q[2] = "initKeyChainManager"
    BY <2>2, <2>3
  <2>5. Rank(q[1]) = 1 /\ Rank(q[2]) = 2 /\ Rank(q[3]) = 5
    BY <2>3, <2>4 DEF Rank
  <2>6. InOrder(q) /\ q # <<>>
    <3>1. \A i \in 1..3 : Rank(q[i]) = IF i = 3 THEN 5 ELSE i
      BY <2>5
    <3>2. \A i, j \in 1..3 : i < j => Rank(q[i]) < Rank(q[j])
      BY <3>1
    <3> QED
      BY <2>3, <3>2 DEF InOrder
  <2>7. Has(q, q[1]) /\ Has(q, q[2]) /\ Has(q, q[3])
    BY <2>3 DEF Has
  <2> QED
    BY <1>2, <2>1, <2>3, <2>4, <2>6, <2>7 DEF q
<1> QED
  BY <1>1, <1>2

USE FaceAssumption, OperatorAssumption, NoneAssumption

(* The operator when it is created satisfies its invariant.                 *)
LEMMA OperatorInvInit == OperatorInit => OperatorInv
<1> SUFFICES ASSUME OperatorInit PROVE OperatorInv
  OBVIOUS
<1> USE DEF OperatorInit, FaceInit, Blank, NoRegistration, NoCall
<1>1. OperatorTypes
  <2>1. inputs \in [host : Hosts, setting : Settings]
    BY DEF Inputs, StreamConfig, OutConfig, InConfig, LibConfig
  <2>2. queue \in Seq(Tasks) /\ InOrder(queue)
    BY DEF InOrder
  <2>3. params \in Params
    BY DEF Params
  <2>4. /\ processor \in (1..MaxFaces) \cup {None} /\ face \in (1..MaxFaces) \cup {None}
        /\ faces \in 0..MaxFaces
        /\ processor # None => face # None /\ processor <= faces
    OBVIOUS
  <2>5. /\ keyChain \in (1..MaxFaces) \cup {None} /\ certs \in (1..MaxFaces) \cup {None}
        /\ identity \in BOOLEAN /\ prefixRegistered \in BOOLEAN
        /\ stream \in Stream \cup {None}
        /\ error \in Errors \cup {None}
    OBVIOUS
  <2> QED
    BY <2>1, <2>2, <2>3, <2>4, <2>5 DEF OperatorTypes
<1>2. Held
  BY DEF Held, Has
<1>3. Applied
  BY DEF Applied
<1>4. Registered
  BY DEF Registered, Has, NoCall
<1>5. Verifiable
  BY DEF Verifiable
<1>6. Pictures
  BY DEF Pictures
<1> QED
  BY <1>1, <1>2, <1>3, <1>4, <1>5, <1>6 DEF OperatorInv

(* init: everything is let go of and all tasks are queued; the parameters   *)
(* of the operator are those of the user or those of the last cook.         *)
LEMMA InitKeeps ==
  ASSUME OperatorInv, phase = "idle", stopProcessor, releaseAll,
         queue' = Append(initTasks, "createStream"),
         \/ phase' = "idle" /\ params' = params
         \/ phase' = "tasks" /\ params' = inputs,
         UNCHANGED <<kind, inputs, identity, error, prefixRegistered, renderer, shown, published>>
  PROVE  OperatorInv'
<1> USE DEF OperatorInv
<1>1. /\ queue' \in Seq(Tasks) /\ InOrder(queue') /\ queue' # <<>>
      /\ Has(queue', "initFace") /\ Has(queue', "initKeyChainManager") /\ Has(queue', "createStream")
      /\ kind = "Out" => Has(queue', "registerPrefix") /\ Has(queue', "publishCertificates")
  BY InitQueue DEF OperatorTypes
<1>2. caller = NoCall
  BY DEF Registered
<1> HIDE DEF OperatorInv
<1> USE DEF stopProcessor, releaseAll
<1>3. OperatorTypes'
  BY <1>1 DEF OperatorInv, OperatorTypes, Params
<1>4. Held'
  BY <1>1 DEF Held
<1>5. Applied'
  BY <1>1, <1>3 DEF Applied, OperatorInv, OperatorTypes
<1>6. Registered'
  BY <1>1, <1>2 DEF Registered, NoRegistration, OperatorInv, OperatorTypes
<1>7. Verifiable'
  BY DEF Verifiable, OperatorInv, OperatorTypes
<1>8. Pictures'
  BY DEF Pictures, OperatorInv
<1> QED
  BY <1>3, <1>4, <1>5, <1>6, <1>7, <1>8 DEF OperatorInv

(* What remains queued when a task has run.                                 *)
LEMMA TaskPopped ==
  ASSUME OperatorInv, NEW task, Running(task), queue' = Tail(queue)
  PROVE  /\ queue' \in Seq(Tasks) /\ InOrder(queue') /\ Has(queue, task) /\ task \in Tasks
         /\ \A other : Has(queue', other) => Has(queue, other)
         /\ \A other : other # task /\ Has(queue, other) => Has(queue', other)
         /\ task # "createStream" => ~Has(queue', task) /\ Has(queue', "createStream")
         /\ task # "initFace" => ~Has(queue, "initFace")
         /\ task \notin {"initFace", "initKeyChainManager"} => ~Has(queue, "initKeyChainManager")
         /\ task = "createStream" => ~Has(queue, "registerPrefix") /\ ~Has(queue, "publishCertificates")
<1>1. queue \in Seq(Tasks) /\ InOrder(queue) /\ queue # <<>> /\ Head(queue) = task
  BY DEF Running, OperatorInv, OperatorTypes
<1>2. /\ queue' \in Seq(Tasks) /\ InOrder(queue') /\ Has(queue, task) /\ task \in Tasks
      /\ \A other : Has(queue', other) => Has(queue, other)
      /\ \A other : Has(queue, other) => other = task \/ Has(queue', other)
      /\ task # "createStream" => ~Has(queue', task) /\ Has(queue', "createStream")
      /\ \A other \in Tasks : Rank(other) < Rank(task) => ~Has(queue, other)
  BY <1>1, PopTask
<1>3. /\ task # "initFace" => Rank("initFace") < Rank(task)
      /\ task \notin {"initFace", "initKeyChainManager"} => Rank("initKeyChainManager") < Rank(task)
      /\ task = "createStream" => Rank("registerPrefix") < Rank(task) /\ Rank("publishCertificates") < Rank(task)
  BY <1>2 DEF Rank, Tasks
<1>4. {"initFace", "initKeyChainManager", "registerPrefix", "publishCertificates"} \subseteq Tasks
  BY DEF Tasks
<1> QED
  BY <1>2, <1>3, <1>4

(* The task that makes the face processor                                   *)
LEMMA InitFaceKeeps == OperatorInv /\ InitFace => OperatorInv'
<1> SUFFICES ASSUME OperatorInv, InitFace PROVE OperatorInv'
  OBVIOUS
<1> DEFINE stays == UNCHANGED <<kind, inputs, params, keyChain, identity, certs, stream,
                                prefixRegistered, renderer, shown, published>>
<1>1. Running("initFace") /\ queue' = Tail(queue) /\ phase' \in {"tasks", "picture"} /\ stays
  BY DEF InitFace, Done, Failed
<1>2. /\ queue' \in Seq(Tasks) /\ InOrder(queue') /\ Has(queue, "initFace")
      /\ \A other : Has(queue', other) => Has(queue, other)
      /\ \A other : other # "initFace" /\ Has(queue, other) => Has(queue', other)
      /\ ~Has(queue', "initFace") /\ Has(queue', "createStream")
  BY <1>1, TaskPopped
<1>3. /\ phase = "tasks" /\ caller = NoCall /\ processor = None /\ keyChain = None /\ stream = None
      /\ io = <<>> /\ registration = NoRegistration /\ running = FALSE
  <2>1. phase = "tasks" /\ caller = NoCall
    BY <1>1 DEF Running
  <2>2. processor = None
    BY <1>2 DEF OperatorInv, Held
  <2>3. io = <<>> /\ running = FALSE
    BY <2>1, <2>2 DEF OperatorInv, OperatorTypes, Registered
  <2>4. keyChain = None /\ stream = None
    BY <2>2 DEF OperatorInv, OperatorTypes, Held
  <2>5. registration = NoRegistration
    BY <2>2 DEF OperatorInv, Registered
  <2> QED
    BY <2>1, <2>2, <2>3, <2>4, <2>5
<1>4. \/ /\ faces < MaxFaces /\ faces' = faces + 1 /\ processor' = faces' /\ face' = faces'
         /\ running' = TRUE /\ error' = error /\ phase' = "tasks"
      \/ /\ UNCHANGED <<faces, processor, face>> /\ running' = running
         /\ error' = "nfd" \/ error' = "exception"
  BY DEF InitFace, newProcessor, faceVars, Done, Failed
<1>5. UNCHANGED <<io, caller, registration, signed>>
  BY <1>3 DEF InitFace, newProcessor, faceVars
<1>e. /\ faces' \in 0..MaxFaces /\ running' \in BOOLEAN /\ error' \in Errors \cup {None}
      /\ processor' \in (1..MaxFaces) \cup {None} /\ face' \in (1..MaxFaces) \cup {None}
      /\ processor' # None => face' # None /\ processor' <= faces'
  <2>1. /\ processor \in (1..MaxFaces) \cup {None} /\ face \in (1..MaxFaces) \cup {None} /\ faces \in 0..MaxFaces
        /\ processor # None => face # None /\ processor <= faces
        /\ error \in Errors \cup {None} /\ running \in BOOLEAN
    BY DEF OperatorInv, OperatorTypes
  <2>2. running' \in BOOLEAN /\ error' \in Errors \cup {None}
    BY <1>4, <2>1 DEF Errors
  <2>3. CASE faces < MaxFaces /\ faces' = faces + 1 /\ processor' = faces' /\ face' = faces'
    BY <2>1, <2>2, <2>3
  <2>4. CASE UNCHANGED <<faces, processor, face>>
    BY <2>1, <2>2, <2>4
  <2> QED
    BY <1>4, <2>3, <2>4
<1>6. OperatorTypes'
  BY <1>1, <1>2, <1>5, <1>e DEF OperatorInv, OperatorTypes
<1>7. Held'
  BY <1>1, <1>2, <1>3 DEF OperatorInv, Held
<1>8. Applied'
  BY <1>1, <1>2, <1>3, <1>4, <1>6 DEF OperatorInv, OperatorTypes, Applied, Errors
<1>9. Registered'
  BY <1>1, <1>2, <1>3, <1>4, <1>5 DEF OperatorInv, OperatorTypes, Registered
<1>10. Verifiable'
  BY <1>1, <1>2, <1>3, <1>4 DEF OperatorInv, OperatorTypes, Verifiable
<1>11. Pictures'
  BY <1>1 DEF OperatorInv, Pictures
<1> QED
  BY <1>6, <1>7, <1>8, <1>9, <1>10, <1>11 DEF OperatorInv

(* The task that makes the key chain manager                                *)
LEMMA InitKeyChainManagerKeeps == OperatorInv /\ InitKeyChainManager => OperatorInv'
<1> SUFFICES ASSUME OperatorInv, InitKeyChainManager PROVE OperatorInv'
  OBVIOUS
<1>1. /\ Running("initKeyChainManager") /\ queue' = Tail(queue) /\ phase' = "tasks"
      /\ UNCHANGED <<kind, inputs, params, certs, stream, prefixRegistered, renderer,
                     shown, published>>
      /\ UNCHANGED <<processor, running, face, faces, io, caller, registration>>
      /\ signed' = signed \/ signed' = face
  BY DEF InitKeyChainManager, Done, setupInstanceKeyChain, KeyChainFails, setCommandSigningInfo, faceVars
<1>2. /\ queue' \in Seq(Tasks) /\ InOrder(queue') /\ Has(queue, "initKeyChainManager")
      /\ \A other : Has(queue', other) => Has(queue, other)
      /\ \A other : other # "initKeyChainManager" /\ Has(queue, other) => Has(queue', other)
      /\ ~Has(queue', "initKeyChainManager") /\ Has(queue', "createStream") /\ ~Has(queue, "initFace")
  BY <1>1, TaskPopped
<1>3. /\ phase = "tasks" /\ caller = NoCall /\ keyChain = None /\ stream = None
  BY <1>1, <1>2 DEF Running, OperatorInv, Held
<1>4. \/ processor = None /\ UNCHANGED <<keyChain, identity, error>>
      \/ processor # None /\ keyChain' = processor /\ identity' = TRUE /\ error' = None
      \/ processor # None /\ keyChain' = None /\ identity' \in {identity, TRUE} /\ error' = "keychain"
  BY DEF InitKeyChainManager, setupInstanceKeyChain, KeyChainFails
<1>5. /\ kind = "Out" => Has(queue', "registerPrefix") /\ Has(queue', "publishCertificates")
      /\ published # None => published.processor # processor
  BY <1>2, <1>3 DEF OperatorInv, Held, Verifiable
<1>e. /\ keyChain' \in (1..MaxFaces) \cup {None} /\ identity' \in BOOLEAN
      /\ error' \in Errors \cup {None} /\ signed' \in (1..MaxFaces) \cup {None}
  BY <1>1, <1>4 DEF OperatorInv, OperatorTypes, Errors
<1>6. OperatorTypes'
  BY <1>1, <1>2, <1>e DEF OperatorInv, OperatorTypes
<1>7. Held'
  BY <1>1, <1>2, <1>3, <1>4, <1>5 DEF OperatorInv, Held, faceVars
<1>8. Applied'
  BY <1>1, <1>2, <1>3, <1>4 DEF OperatorInv, Applied, Errors, faceVars
<1>9. Registered'
  BY <1>1, <1>2, <1>5 DEF OperatorInv, Registered, faceVars
<1>10. Verifiable'
  BY <1>1, <1>2, <1>4, <1>5 DEF OperatorInv, OperatorTypes, Verifiable, faceVars
<1>11. Pictures'
  BY <1>1 DEF OperatorInv, Pictures
<1> QED
  BY <1>6, <1>7, <1>8, <1>9, <1>10, <1>11 DEF OperatorInv

(* The task that registers the prefix                                       *)
LEMMA RegisterPrefixKeeps == OperatorInv /\ RegisterPrefix => OperatorInv'
<1> SUFFICES ASSUME OperatorInv, RegisterPrefix PROVE OperatorInv'
  OBVIOUS
<1>1. /\ Running("registerPrefix") /\ queue' = Tail(queue) /\ phase' = "tasks"
      /\ UNCHANGED <<kind, inputs, params, keyChain, identity, certs, stream, error, renderer,
                     shown, published>>
  BY DEF RegisterPrefix, Done
<1>2. /\ queue' \in Seq(Tasks) /\ InOrder(queue') /\ Has(queue, "registerPrefix")
      /\ \A other : Has(queue', other) => Has(queue, other)
      /\ \A other : other # "registerPrefix" /\ Has(queue, other) => Has(queue', other)
      /\ ~Has(queue', "registerPrefix") /\ Has(queue', "createStream")
      /\ ~Has(queue, "initFace") /\ ~Has(queue, "initKeyChainManager")
  BY <1>1, TaskPopped
<1>3. phase = "tasks" /\ caller = NoCall /\ io = <<>> /\ registration = NoRegistration
  BY <1>1, <1>2 DEF Running, OperatorInv, Registered
<1>4. /\ UNCHANGED <<processor, running, face, faces, signed, registration>>
      /\ \/ keyChain = None /\ UNCHANGED <<io, caller, prefixRegistered>>
         \/ processor # None /\ prefixRegistered' = FALSE /\ UNCHANGED <<io, caller>>
         \/ /\ processor # None /\ prefixRegistered' = FALSE
            /\ io' = <<face>> /\ caller' = [NoCall EXCEPT !.wait = "check"]
  BY <1>3 DEF RegisterPrefix, performSynchronized, faceVars, OperatorInv, Held
<1>6. OperatorTypes'
  BY <1>1, <1>2, <1>4 DEF OperatorInv, OperatorTypes
<1>7. Held'
  BY <1>1, <1>2, <1>4 DEF OperatorInv, Held
<1>8. Applied'
  BY <1>1, <1>2, <1>3, <1>4 DEF OperatorInv, Applied
<1>5. /\ processor # None => face \in 1..MaxFaces
      /\ registration = NoRegistration /\ ~Has(queue', "registerPrefix")
  BY <1>2, <1>3 DEF OperatorInv, OperatorTypes
<1>9. Registered'
  <2>1. CASE UNCHANGED <<io, caller>>
    BY <1>1, <1>2, <1>3, <1>4, <1>5, <2>1 DEF OperatorInv, Registered
  <2>2. CASE io' = <<face>> /\ caller' = [NoCall EXCEPT !.wait = "check"] /\ processor # None /\ ~prefixRegistered'
    <3>1. /\ caller' = [wait |-> "check", done |-> FALSE, threw |-> FALSE] /\ caller' # NoCall
          /\ caller'.wait = "check" /\ caller'.done = FALSE
      BY <2>2 DEF NoCall
    <3>2. <<face>> # <<>>
      OBVIOUS
    <3> QED
      BY <1>1, <1>2, <1>3, <1>4, <1>5, <2>2, <3>1, <3>2 DEF OperatorInv, Registered
  <2> QED
    BY <1>4, <2>1, <2>2
<1>10. Verifiable'
  BY <1>1, <1>2, <1>4 DEF OperatorInv, Verifiable
<1>11. Pictures'
  BY <1>1 DEF OperatorInv, Pictures
<1> QED
  BY <1>6, <1>7, <1>8, <1>9, <1>10, <1>11 DEF OperatorInv

(* The task that publishes the certificates                                 *)
LEMMA PublishCertificatesKeeps == OperatorInv /\ PublishCertificates => OperatorInv'
<1> SUFFICES ASSUME OperatorInv, PublishCertificates PROVE OperatorInv'
  OBVIOUS
<1>1. /\ Running("publishCertificates") /\ queue' = Tail(queue)
      /\ UNCHANGED <<faceVars, kind, inputs, params, keyChain, identity, stream,
                     prefixRegistered, renderer, shown, published>>
      /\ \/ phase' = "tasks" /\ certs' = keyChain /\ error' = error
         \/ phase' = "picture" /\ certs' = certs /\ error' = "exception"
  BY DEF PublishCertificates, Done, Failed
<1>2. /\ queue' \in Seq(Tasks) /\ InOrder(queue') /\ Has(queue, "publishCertificates")
      /\ \A other : Has(queue', other) => Has(queue, other)
      /\ \A other : other # "publishCertificates" /\ Has(queue, other) => Has(queue', other)
      /\ ~Has(queue', "publishCertificates") /\ Has(queue', "createStream")
      /\ ~Has(queue, "initFace") /\ ~Has(queue, "initKeyChainManager")
  BY <1>1, TaskPopped
<1>3. phase = "tasks" /\ caller = NoCall
  BY <1>1 DEF Running
<1>6. OperatorTypes'
  BY <1>1, <1>2 DEF OperatorInv, OperatorTypes, faceVars, Errors
<1>7. Held'
  BY <1>1, <1>2 DEF OperatorInv, Held, faceVars
<1>8. Applied'
  BY <1>1, <1>2, <1>3 DEF OperatorInv, Applied, faceVars, Errors
<1>9. Registered'
  BY <1>1, <1>2, <1>3 DEF OperatorInv, Registered, faceVars
<1>10. Verifiable'
  BY <1>1, <1>2 DEF OperatorInv, Verifiable, faceVars, Errors
<1>11. Pictures'
  BY <1>1 DEF OperatorInv, Pictures
<1> QED
  BY <1>6, <1>7, <1>8, <1>9, <1>10, <1>11 DEF OperatorInv

(* The task that creates the stream                                         *)
LEMMA CreateStreamKeeps == OperatorInv /\ CreateStream => OperatorInv'
<1> SUFFICES ASSUME OperatorInv, CreateStream PROVE OperatorInv'
  OBVIOUS
<1>1. /\ Running("createStream") /\ queue' = Tail(queue)
      /\ UNCHANGED <<faceVars, kind, inputs, params, keyChain, identity, certs,
                     prefixRegistered, renderer, shown, published>>
  BY DEF CreateStream, createLocalStream, createRemoteStream, Done, Failed
<1>2. /\ queue' \in Seq(Tasks) /\ InOrder(queue') /\ Has(queue, "createStream")
      /\ \A other : Has(queue', other) => Has(queue, other)
      /\ \A other : other # "createStream" /\ Has(queue, other) => Has(queue', other)
      /\ ~Has(queue, "initFace") /\ ~Has(queue, "initKeyChainManager")
      /\ ~Has(queue, "registerPrefix") /\ ~Has(queue, "publishCertificates")
  BY <1>1, TaskPopped
<1>3. phase = "tasks" /\ caller = NoCall /\ params = inputs /\ params.host # None
  BY <1>1 DEF Running, OperatorInv, Applied, OperatorTypes
<1>4. \/ /\ phase' = "tasks" /\ UNCHANGED <<stream, error>>
         /\ keyChain = None
      \/ /\ phase' = "tasks" /\ stream' = newStream /\ keyChain # None
         /\ error' = error \/ (kind = "In" /\ error' = None)
      \/ phase' = "picture" /\ stream' = None /\ error' = "exception"
      \/ phase' = "tasks" /\ UNCHANGED stream /\ error' = "prefix"
  BY DEF CreateStream, createLocalStream, createRemoteStream, Done, Failed, OperatorInv, Held, OperatorTypes
<1>5. keyChain # None =>
        /\ processor # None /\ newStream \in Stream /\ newStream # None
        /\ newStream.processor = processor /\ newStream.keyChain = keyChain /\ newStream.setting = params.setting
  BY <1>3 DEF OperatorInv, OperatorTypes, Held, newStream, Stream
<1> HIDE DEF newStream
<1>6. OperatorTypes'
  BY <1>1, <1>2, <1>4, <1>5 DEF OperatorInv, OperatorTypes, faceVars, Errors
<1>7. Held'
  BY <1>1, <1>2, <1>4, <1>5 DEF OperatorInv, Held, faceVars
<1>8. Applied'
  BY <1>1, <1>2, <1>3, <1>4, <1>5 DEF OperatorInv, Applied, faceVars, Errors
<1>9. Registered'
  BY <1>1, <1>2, <1>3 DEF OperatorInv, Registered, faceVars
<1>10. Verifiable'
  BY <1>1, <1>2, <1>4, <1>5 DEF OperatorInv, OperatorTypes, Verifiable, faceVars, Errors
<1>11. Pictures'
  BY <1>1 DEF OperatorInv, Pictures
<1> QED
  BY <1>6, <1>7, <1>8, <1>9, <1>10, <1>11 DEF OperatorInv

(* A cook compares the parameters with those of the last one.               *)
LEMMA BeginCookKeeps == OperatorInv /\ BeginCook => OperatorInv'
<1> SUFFICES ASSUME OperatorInv, BeginCook PROVE OperatorInv'
  OBVIOUS
<1>1. /\ phase = "idle" /\ phase' = "tasks" /\ params' = inputs /\ queue' = updatedTasks
      /\ UNCHANGED <<kind, inputs, identity, error, prefixRegistered, renderer, shown, published>>
  BY DEF BeginCook
<1>2. /\ "host" \in updatedParams <=> inputs.host # params.host
      /\ updatedParams # {} <=> inputs.host # params.host \/ inputs.setting # params.setting
  BY DEF updatedParams, updatedOutParams, updatedInParams, updatedLibParams
<1>3. CASE "host" \in updatedParams
  BY <1>1, <1>3, InitKeeps DEF BeginCook, updatedTasks
<1>4. CASE "host" \notin updatedParams
  <2>1. UNCHANGED <<faceVars, keyChain, certs, stream>>
    BY <1>4 DEF BeginCook
  <2>2. inputs.host = params.host /\ params.host # None
    BY <1>2, <1>4 DEF OperatorInv, OperatorTypes
  <2>3. /\ queue' \in Seq(Tasks) /\ InOrder(queue')
        /\ \A task : task # "createStream" => (Has(queue', task) <=> Has(queue, task))
        /\ Has(queue, "createStream") => Has(queue', "createStream")
        /\ inputs.setting # params.setting => Has(queue', "createStream")
    <3>1. CASE updatedParams = {}
      BY <1>1, <1>2, <1>4, <3>1 DEF updatedTasks, OperatorInv, OperatorTypes
    <3>2. CASE updatedParams # {}
      <4>1. queue \in Seq(Tasks) /\ InOrder(queue) /\ queue' = Append(queue, "createStream")
        BY <1>1, <1>4, <3>2 DEF updatedTasks, OperatorInv, OperatorTypes
      <4> QED
        BY <4>1, QueueStream
    <3> QED
      BY <3>1, <3>2
  <2>4. caller = NoCall
    BY <1>1 DEF OperatorInv, Registered
  <2>6. OperatorTypes'
    BY <1>1, <2>1, <2>3 DEF OperatorInv, OperatorTypes, faceVars, Params
  <2>7. Held'
    BY <1>1, <2>1, <2>3 DEF OperatorInv, Held, faceVars
  <2>8. Applied'
    BY <1>1, <2>1, <2>2, <2>3 DEF OperatorInv, Applied, faceVars
  <2>9. Registered'
    BY <1>1, <2>1, <2>3, <2>4 DEF OperatorInv, Registered, faceVars
  <2>10. Verifiable'
    BY <1>1, <2>1, <2>3 DEF OperatorInv, Verifiable, faceVars
  <2>11. Pictures'
    BY <1>1 DEF OperatorInv, Pictures
  <2> QED
    BY <2>6, <2>7, <2>8, <2>9, <2>10, <2>11 DEF OperatorInv
<1> QED
  BY <1>3, <1>4

(* The Init button                                                          *)
LEMMA PressInitKeeps == OperatorInv /\ PressInit => OperatorInv'
  BY InitKeeps DEF PressInit

(* The Reset button                                                         *)
LEMMA PressResetKeeps == OperatorInv /\ PressReset => OperatorInv'
<1> SUFFICES ASSUME OperatorInv, PressReset PROVE OperatorInv'
  OBVIOUS
<1>1. /\ phase = "idle" /\ queue' = Append(queue, "createStream")
      /\ UNCHANGED <<faceVars, kind, inputs, params, phase, keyChain, identity, certs, stream,
                     error, prefixRegistered, renderer, shown, published>>
  BY DEF PressReset
<1>2. queue \in Seq(Tasks) /\ InOrder(queue)
  BY DEF OperatorInv, OperatorTypes
<1>3. /\ queue' \in Seq(Tasks) /\ InOrder(queue')
      /\ \A task : Has(queue', task) <=> task = "createStream" \/ Has(queue, task)
  BY <1>1, <1>2, QueueStream
<1>6. OperatorTypes'
  BY <1>1, <1>3 DEF OperatorInv, OperatorTypes, faceVars
<1>7. Held'
  BY <1>1, <1>3 DEF OperatorInv, Held, faceVars
<1>8. Applied'
  BY <1>1, <1>3 DEF OperatorInv, Applied, faceVars
<1>9. Registered'
  BY <1>1, <1>3 DEF OperatorInv, Registered, faceVars
<1>10. Verifiable'
  BY <1>1, <1>3 DEF OperatorInv, Verifiable, faceVars
<1>11. Pictures'
  BY <1>1 DEF OperatorInv, Pictures
<1> QED
  BY <1>6, <1>7, <1>8, <1>9, <1>10, <1>11 DEF OperatorInv

(* A parameter set between two cooks, the end of the tasks and of a cook.   *)
LEMMA CookStepsKeep ==
  OperatorInv /\ ((\E new \in Inputs \ {inputs} : Edit(new)) \/ TasksDone \/ PassPicture) => OperatorInv'
<1> SUFFICES ASSUME OperatorInv, (\E new \in Inputs : Edit(new)) \/ TasksDone \/ PassPicture PROVE OperatorInv'
  OBVIOUS
<1>1. UNCHANGED <<faceVars, kind, params, queue, keyChain, identity, certs, stream, error,
                  prefixRegistered, renderer>>
  BY DEF Edit, TasksDone, PassPicture
<1>2. /\ inputs' \in [host : Hosts, setting : Settings]
      /\ inputs' = inputs \/ (phase = "idle" /\ phase' = phase)
  BY DEF Edit, TasksDone, PassPicture, OperatorInv, OperatorTypes, Inputs, StreamConfig, OutConfig,
         InConfig, LibConfig
<1>3. /\ caller = NoCall
      /\ phase' \in {"idle", "tasks", "picture"} /\ (phase' = "picture" => queue = <<>>)
      /\ phase' = "idle" \/ phase = "tasks"
  BY DEF Edit, TasksDone, PassPicture, OperatorInv, Registered
<1>4. /\ shown'.info = shown'.pixels
      /\ \/ published' = published
         \/ /\ kind = "Out" /\ stream # None /\ phase = "picture"
            /\ published' = [processor |-> stream.processor, certs |-> certs, setting |-> stream.setting]
  BY DEF Edit, TasksDone, PassPicture, OperatorInv, Pictures, readBuffer
<1>6. OperatorTypes'
  BY <1>1, <1>2, <1>3 DEF OperatorInv, OperatorTypes, faceVars
<1>7. Held'
  BY <1>1 DEF OperatorInv, Held, faceVars
<1>8. Applied'
  BY <1>1, <1>2, <1>3 DEF OperatorInv, Applied, faceVars
<1>9. Registered'
  BY <1>1, <1>3 DEF OperatorInv, Registered, faceVars
<1>10. Verifiable'
  <2>1. CASE published' = published
    BY <1>1, <2>1 DEF OperatorInv, Verifiable, faceVars
  <2>2. CASE published' # published
    <3>1. /\ kind = "Out" /\ stream # None /\ phase = "picture"
          /\ published' = [processor |-> stream.processor, certs |-> certs, setting |-> stream.setting]
          /\ error = None => queue = <<>>
          /\ stream.processor = processor /\ keyChain # None /\ keyChain = processor /\ identity
      BY <1>4, <2>2 DEF OperatorInv, Applied, Held
    <3>2. queue = <<>> => ~Has(queue, "publishCertificates")
      BY DEF Has
    <3>3. processor \in 1..faces /\ stream \in Stream
      BY <3>1 DEF OperatorInv, OperatorTypes
    <3>4. published' \in [processor : 1..faces, certs : (1..MaxFaces) \cup {None}, setting : Settings \cup {None}]
      BY <3>1, <3>3 DEF Stream, OperatorInv, OperatorTypes
    <3> QED
      BY <1>1, <3>1, <3>2, <3>4 DEF OperatorInv, Verifiable, faceVars
  <2> QED
    BY <2>1, <2>2
<1>11. Pictures'
  BY <1>1, <1>4 DEF OperatorInv, Pictures
<1> QED
  BY <1>6, <1>7, <1>8, <1>9, <1>10, <1>11 DEF OperatorInv

(* The decoder and the renderer touch the buffers only.                     *)
LEMMA RenderingKeeps == OperatorInv /\ (GetFrameBuffer \/ RenderFrame) => OperatorInv'
<1> SUFFICES ASSUME OperatorInv, GetFrameBuffer \/ RenderFrame PROVE OperatorInv'
  OBVIOUS
<1>1. UNCHANGED <<faceVars, kind, inputs, params, phase, queue, keyChain, identity, certs, stream,
                  error, prefixRegistered, shown, published>>
  BY DEF GetFrameBuffer, RenderFrame
<1>2. Pictures'
  <2>1. CASE GetFrameBuffer
    BY <1>1, <2>1 DEF OperatorInv, Pictures, GetFrameBuffer
  <2>2. CASE RenderFrame
    BY <1>1, <2>2 DEF OperatorInv, Pictures, RenderFrame
  <2> QED
    BY <2>1, <2>2
<1> QED
  BY <1>1, <1>2
     DEF OperatorInv, OperatorTypes, Held, Applied, Registered, Verifiable, faceVars

(* A face made anew is of no account to anything but the registration. *)
LEMMA RecoveryKeeps ==
  ASSUME OperatorInv, Registered', UNCHANGED <<processor, signed, operatorVars>>,
         UNCHANGED <<running, face, faces>> \/ tryToRecover
  PROVE  OperatorInv'
<1> USE DEF OperatorInv
<1>1. /\ faces' \in 0..MaxFaces /\ faces <= faces' /\ running' \in BOOLEAN
      /\ face' = face \/ face' \in 1..MaxFaces
  <2>1. CASE UNCHANGED <<running, face, faces>>
    BY <2>1 DEF OperatorTypes
  <2>2. CASE tryToRecover
    <3>1. CASE faces < MaxFaces /\ faces' = faces + 1 /\ face' = faces' /\ UNCHANGED running
      BY <3>1 DEF OperatorTypes
    <3>2. CASE running' = FALSE /\ UNCHANGED <<faces, face>>
      <4>1. faces \in 0..MaxFaces
        BY DEF OperatorTypes
      <4>2. faces' = faces /\ face' = face /\ running' \in BOOLEAN
        BY <3>2
      <4> QED
        BY <4>1, <4>2
    <3> QED
      BY <2>2, <3>1, <3>2 DEF tryToRecover
  <2> QED
    BY <2>1, <2>2
<1>2. OperatorTypes'
  BY <1>1 DEF OperatorTypes, operatorVars
<1>3. Verifiable'
  <2>1. published # None => published.processor \in 1..faces'
    BY <1>1 DEF Verifiable, OperatorTypes
  <2> QED
    BY <2>1 DEF Verifiable, operatorVars
<1> QED
  BY <1>2, <1>3 DEF Held, Applied, Pictures, operatorVars

(* A caller that looks at the flag, dozes off or returns. *)
LEMMA WaitKeeps == OperatorInv /\ WaitForBlock => OperatorInv'
<1> SUFFICES ASSUME OperatorInv, WaitForBlock PROVE OperatorInv'
  OBVIOUS
<1>1. /\ UNCHANGED <<processor, running, face, faces, signed, io, registration, operatorVars>>
      /\ phase = "tasks" /\ caller.wait # "no"
      /\ \/ caller.done /\ caller' = NoCall
         \/ caller.wait = "check" /\ ~caller.done /\ caller' = [caller EXCEPT !.wait = "drowsy"]
         \/ caller.wait = "drowsy" /\ caller' = [caller EXCEPT !.wait = "asleep"]
  BY DEF WaitForBlock, Waits
<1>2. /\ caller \in [wait : {"no", "check", "drowsy", "asleep"}, done : BOOLEAN, threw : BOOLEAN]
      /\ NoCall \in [wait : {"no", "check", "drowsy", "asleep"}, done : BOOLEAN, threw : BOOLEAN]
      /\ NoCall.wait = "no" /\ processor # None
  BY <1>1 DEF OperatorInv, Registered, NoCall
<1>3. /\ caller' \in [wait : {"no", "check", "drowsy", "asleep"}, done : BOOLEAN, threw : BOOLEAN]
      /\ \/ caller' = NoCall /\ caller.done
         \/ caller'.wait # "no" /\ caller' # NoCall /\ caller'.done = caller.done
  <2>1. CASE caller.done /\ caller' = NoCall
    <3>1. caller' \in [wait : {"no", "check", "drowsy", "asleep"}, done : BOOLEAN, threw : BOOLEAN]
      BY <1>2, <2>1
    <3>2. caller' = NoCall /\ caller.done
      BY <2>1
    <3> QED
      BY <3>1, <3>2
  <2>2. CASE \E w \in {"drowsy", "asleep"} : caller' = [caller EXCEPT !.wait = w]
    <3>1. PICK w \in {"drowsy", "asleep"} : caller' = [caller EXCEPT !.wait = w]
      BY <2>2
    <3>2. /\ caller'.wait = w /\ caller'.done = caller.done
          /\ caller' \in [wait : {"no", "check", "drowsy", "asleep"}, done : BOOLEAN, threw : BOOLEAN]
      BY <1>2, <3>1
    <3> QED
      BY <1>2, <3>1, <3>2
  <2> QED
    BY <1>1, <2>1, <2>2
<1>4. Registered'
  BY <1>1, <1>2, <1>3 DEF OperatorInv, Registered, operatorVars
<1>5. UNCHANGED <<processor, signed, operatorVars>> /\ UNCHANGED <<running, face, faces>>
  BY <1>1
<1> QED
  BY <1>4, <1>5, RecoveryKeeps

(* The face thread, which may fail, register, and hear of the registration. *)
LEMMA FaceKeeps == OperatorInv /\ (FaceRuns \/ RegistrationAnswered \/ FaceRecovers) => OperatorInv'
<1> SUFFICES ASSUME OperatorInv, FaceRuns \/ RegistrationAnswered \/ FaceRecovers PROVE OperatorInv'
  OBVIOUS
<1> USE DEF OperatorInv
<1>1. CASE FaceRuns
  <2>1. PICK f \in 1..MaxFaces : io = <<f>>
    BY <1>1 DEF FaceRuns, RunBlock, BlockThrows, Registered
  <2>2. /\ io # <<>> /\ Tail(io) = <<>>
        /\ ~prefixRegistered /\ processor # None /\ registration = NoRegistration
        /\ ~Has(queue, "registerPrefix") /\ phase = "tasks" /\ caller.wait # "no"
    <3>1. <<f>> # <<>> /\ Tail(<<f>>) = <<>>
      OBVIOUS
    <3> QED
      BY <2>1, <3>1 DEF Registered
  <2>3. /\ io' = <<>>
        /\ caller' = notified \/ caller' = [caller EXCEPT !.threw = TRUE]
        /\ \/ registration' = [by |-> processor, state |-> "pending"]
           \/ registration' = NoRegistration
        /\ UNCHANGED <<processor, signed, operatorVars>>
        /\ \/ UNCHANGED <<running, face, faces>>
           \/ tryToRecover
    BY <1>1, <2>2 DEF FaceRuns, RunBlock, BlockThrows
  <2>4. /\ caller' \in [wait : {"check", "drowsy", "asleep"}, done : BOOLEAN, threw : BOOLEAN]
        /\ caller'.wait # "no" /\ caller' # NoCall
    <3>1. caller \in [wait : {"check", "drowsy", "asleep"}, done : BOOLEAN, threw : BOOLEAN]
      BY <2>2 DEF Registered
    <3>2. notified \in [wait : {"check", "drowsy", "asleep"}, done : BOOLEAN, threw : BOOLEAN]
      BY <3>1 DEF notified, Woken
    <3>3. caller' \in [wait : {"check", "drowsy", "asleep"}, done : BOOLEAN, threw : BOOLEAN]
      BY <2>3, <3>1, <3>2
    <3> QED
      BY <3>3 DEF NoCall
  <2>5. running' => processor' # None
    BY <2>2, <2>3
  <2>6. Registered'
    BY <2>2, <2>3, <2>4, <2>5 DEF Registered, operatorVars, OperatorTypes, NoRegistration
  <2>7. UNCHANGED <<processor, signed, operatorVars>> /\ (UNCHANGED <<running, face, faces>> \/ tryToRecover)
    BY <2>3
  <2> QED
    BY <2>6, <2>7, RecoveryKeeps
<1>2. CASE RegistrationAnswered
  <2>1. /\ registration.state = "pending" /\ running
        /\ \/ /\ registration' = [registration EXCEPT !.state = "done"]
              /\ prefixRegistered' = TRUE /\ error' = error
           \/ /\ registration' = [registration EXCEPT !.state = "failed"]
              /\ prefixRegistered' = prefixRegistered /\ error' = "registration"
        /\ UNCHANGED <<processor, running, face, faces, signed, io, caller, kind, inputs, params, phase,
                       queue, keyChain, identity, certs, stream, renderer, shown, published>>
    BY <1>2 DEF RegistrationAnswered, PrefixAnswered, RegistrationEnds
  <2>2. /\ registration # NoRegistration /\ registration.by = processor /\ io = <<>> /\ processor # None
        /\ ~Has(queue, "registerPrefix") /\ registration.by \in (1..MaxFaces) \cup {None}
    BY <2>1 DEF Registered, NoRegistration
  <2>3. \/ /\ registration' = [by |-> processor, state |-> "done"]
           /\ prefixRegistered' = TRUE /\ error' = error
        \/ /\ registration' = [by |-> processor, state |-> "failed"]
           /\ prefixRegistered' = prefixRegistered /\ error' = "registration"
    BY <2>1, <2>2 DEF Registered
  <2>5. \/ prefixRegistered' = TRUE /\ registration' = [by |-> processor, state |-> "done"]
        \/ prefixRegistered' = prefixRegistered /\ registration' = [by |-> processor, state |-> "failed"]
    BY <2>3
  <2>4. Registered'
    BY <2>1, <2>2, <2>5 DEF Registered, NoRegistration
  <2>6. OperatorTypes'
    <3>1. prefixRegistered' \in BOOLEAN
      BY <2>3 DEF OperatorTypes
    <3>2. error' \in Errors \cup {None}
      BY <2>3 DEF OperatorTypes, Errors
    <3> QED
      BY <2>1, <3>1, <3>2 DEF OperatorTypes
  <2>7. Held' /\ Pictures'
    BY <2>1 DEF Held, Pictures
  <2>8. Applied'
    BY <2>1, <2>3 DEF Applied, Errors
  <2>9. Verifiable'
    BY <2>1, <2>3 DEF Verifiable, Errors
  <2> QED
    BY <2>4, <2>6, <2>7, <2>8, <2>9
<1>3. CASE FaceRecovers
  <2>1. tryToRecover /\ running /\ UNCHANGED <<processor, signed, io, caller, registration, operatorVars>>
    BY <1>3 DEF FaceRecovers, RecoverFace
  <2>2. Registered'
    BY <2>1 DEF Registered, operatorVars
  <2> QED
    BY <2>1, <2>2, RecoveryKeeps
<1> QED
  BY <1>1, <1>2, <1>3

(* Each step of the operator, of its renderer and of its face keeps the     *)
(* invariant.                                                               *)
LEMMA OperatorInvNext == OperatorInv /\ [OperatorNext]_topVars => OperatorInv'
<1> SUFFICES ASSUME OperatorInv, [OperatorNext]_topVars PROVE OperatorInv'
  OBVIOUS
<1>1. CASE Cook
  BY <1>1, BeginCookKeeps, InitFaceKeeps, InitKeyChainManagerKeeps, RegisterPrefixKeeps, WaitKeeps,
     PublishCertificatesKeeps, CreateStreamKeeps, CookStepsKeep DEF Cook
<1>2. CASE UNCHANGED topVars
  BY <1>2 DEF topVars, faceVars, operatorVars, OperatorInv, OperatorTypes, Held, Applied, Registered,
              Verifiable, Pictures
<1> QED
  BY <1>1, <1>2, PressInitKeeps, PressResetKeeps, CookStepsKeep, RenderingKeeps, FaceKeeps DEF OperatorNext

(* The invariant says that the stream is as it was set and that the         *)
(* information is true.                                                     *)
LEMMA OperatorInvSuffices == OperatorInv => StreamAsSet /\ InformationIsTrue
<1> SUFFICES ASSUME OperatorInv PROVE StreamAsSet /\ InformationIsTrue
  OBVIOUS
<1>1. \A task : Queued(task) <=> Has(queue, task)
  BY DEF Queued, Has
<1>2. phase = "picture" /\ error = None => queue = <<>> /\ ~Has(queue, "createStream") /\ params.host # None
  BY DEF OperatorInv, Applied, OperatorTypes, Has
<1>3. StreamAsSet
  BY <1>2 DEF OperatorInv, StreamAsSet, StreamOnLiveProcessor, SettingsApplied, Held, Applied
<1>4. OperatorTypeOK
  <2>1. inputs \in Params
    BY DEF OperatorInv, OperatorTypes, Params
  <2>2. \A i \in DOMAIN queue : queue[i] \in Tasks
    BY DEF OperatorInv, OperatorTypes
  <2>3. caller # NoCall => phase = "tasks" /\ processor # None
    BY DEF OperatorInv, Registered
  <2> QED
    BY <2>1, <2>2, <2>3 DEF OperatorInv, OperatorTypes, OperatorTypeOK
<1>5. KeyChainOrReason
  BY <1>1 DEF OperatorInv, Applied, KeyChainOrReason, infoEntries
<1>6. RegisteredByThis
  BY <1>1 DEF OperatorInv, Registered, RegisteredByThis, outChannels
<1>7. PublishesVerifiable
  BY DEF OperatorInv, Verifiable, PublishesVerifiable, infoEntries
<1>8. ShownWhole
  BY DEF OperatorInv, Pictures, ShownWhole, inChannels
<1> QED
  BY <1>3, <1>4, <1>5, <1>6, <1>7, <1>8 DEF InformationIsTrue

(* Through edits, tasks that fail and faces that break, the stream is the   *)
(* one that was asked for, on the processor and key chain the operator      *)
(* holds (ndnrtcTOPbase::execute, init).                                    *)
THEOREM StreamStaysAsSet == OperatorSpec => []StreamAsSet
<1> QED
  BY OperatorInvInit, OperatorInvNext, OperatorInvSuffices, PTL DEF OperatorSpec

(* What the operator tells is true of what it holds: the key chain or the   *)
(* reason why there is none, the registration, the certificates its stream  *)
(* is verified with, and the frame shown (initKeyChainManager,              *)
(* registerPrefix, publishCertificates, RemoteStreamRenderer).              *)
THEOREM InformationStaysTrue == OperatorSpec => []InformationIsTrue
<1> QED
  BY OperatorInvInit, OperatorInvNext, OperatorInvSuffices, PTL DEF OperatorSpec

=============================================================================
