--------------------------- MODULE BlockQueueProofs ---------------------------
(***************************************************************************)
(* Proofs about BlockQueue.                                                *)
(***************************************************************************)
EXTENDS BlockQueue, DivMod, FiniteSetTheorems, SequenceTheorems

\* What the proofs use of the constants.
LEMMA RingConstants ==
    /\ MAX_QUEUE_NUM \in Nat \ {0} /\ IndexSpan \in Nat \ {0} /\ MAX_QUEUE_NUM < IndexSpan
    /\ \A q \in QueueNums : /\ q \in Nat \ {0} /\ q <= MAX_QUEUE_NUM /\ q < IndexSpan
                            /\ IndexSpan % q = 0
    /\ NoRequest \notin Requests /\ Stray \notin Heads
BY RingAssumption, BlockAssumption

\* What the arithmetic of uint16_t comes to.
LEMMA IndexValues ==
    ASSUME NEW a \in Indices, NEW b \in Indices
    PROVE  /\ Step(a) = IF a = IndexSpan - 1 THEN 0 ELSE a + 1
           /\ Distance(a, b) = IF a <= b THEN b - a ELSE (b - a) + IndexSpan
BY RingConstants DEF Indices, Step, Distance

LEMMA IndexFacts ==
    ASSUME NEW a \in Indices, NEW b \in Indices
    PROVE  /\ Step(a) \in Indices
           /\ Distance(a, b) \in Indices
           /\ Distance(a, b) = 0 <=> a = b
           /\ Distance(a, b) + 1 < IndexSpan => Distance(a, Step(b)) = Distance(a, b) + 1
           /\ a # b => Distance(Step(a), b) = Distance(a, b) - 1
<1>1. Step(a) \in Indices /\ Step(b) \in Indices
  BY RingConstants DEF Indices, Step
<1>2. /\ Step(a) = IF a = IndexSpan - 1 THEN 0 ELSE a + 1
      /\ Step(b) = IF b = IndexSpan - 1 THEN 0 ELSE b + 1
      /\ Distance(a, b) = IF a <= b THEN b - a ELSE (b - a) + IndexSpan
      /\ Distance(a, Step(b)) = IF a <= Step(b) THEN Step(b) - a ELSE (Step(b) - a) + IndexSpan
      /\ Distance(Step(a), b) = IF Step(a) <= b THEN b - Step(a) ELSE (b - Step(a)) + IndexSpan
  BY <1>1, IndexValues
<1>3. a \in 0 .. IndexSpan - 1 /\ b \in 0 .. IndexSpan - 1 /\ IndexSpan \in Nat \ {0}
  BY RingConstants DEF Indices
<1> QED
  <2> HIDE DEF Step, Distance
  <2>1. Distance(a, b) \in Indices
    BY <1>2, <1>3 DEF Indices
  <2> QED BY <1>1, <1>2, <1>3, <2>1

LEMMA PlaceOfReducedIf ==
    ASSUME NEW n \in Nat, NEW k \in Nat, NEW q \in Nat \ {0},
           IndexSpan \in Nat \ {0}, IndexSpan % q = 0
    PROVE  ((n % IndexSpan) + k) % q = (n + k) % q
<1>1. n \in Nat /\ k \in Nat /\ q \in Nat \ {0} /\ IndexSpan \in Nat \ {0} /\ IndexSpan % q = 0
  OBVIOUS
<1> QED BY <1>1, ModMod, Zenon

\* Reducing an index does not move its place in a ring.
LEMMA PlaceOfReduced ==
    ASSUME NEW n \in Nat, NEW k \in Nat, NEW q \in QueueNums
    PROVE  ((n % IndexSpan) + k) % q = (n + k) % q
<1>1. q \in Nat \ {0}
  BY RingConstants
<1>2. IndexSpan \in Nat \ {0}
  BY RingConstants
<1>3. IndexSpan % q = 0
  BY RingConstants
<1> QED BY <1>1, <1>2, <1>3, PlaceOfReducedIf

\* The place in a ring of the entry that follows the k entries from index i.
LEMMA PlaceOfStep ==
    ASSUME NEW i \in Indices, NEW k \in Nat, NEW q \in QueueNums
    PROVE  (Step(i) + k) % q = (i + (k + 1)) % q
<1>1. i + 1 \in Nat /\ (i + 1) + k = i + (k + 1)
  BY RingConstants DEF Indices
<1>2. (((i + 1) % IndexSpan) + k) % q = ((i + 1) + k) % q
  BY <1>1, PlaceOfReduced, Zenon
<1> QED BY <1>1, <1>2 DEF Step

\* The place of the index at a distance.
LEMMA PlaceAtDistance ==
    ASSUME NEW a \in Indices, NEW b \in Indices, NEW q \in QueueNums
    PROVE  b % q = (a + Distance(a, b)) % q
<1>1. a \in Nat /\ b \in Nat /\ q \in Nat \ {0} /\ IndexSpan \in Nat \ {0} /\ IndexSpan % q = 0
  BY RingConstants DEF Indices
<1>2. Distance(a, b) = IF a <= b THEN b - a ELSE (b - a) + IndexSpan
  BY IndexValues
<1>3. CASE a <= b
  BY <1>1, <1>2, <1>3
<1>4. CASE ~ (a <= b)
  <2>1. a + Distance(a, b) = b + IndexSpan
    BY <1>1, <1>2, <1>4
  <2>2. IndexSpan = (IndexSpan \div q) * q /\ IndexSpan \div q \in Int
    BY <1>1, DivModDef
  <2>3. (b + ((IndexSpan \div q) * q)) % q = b % q
    BY <1>1, <2>2, ModAdd
  <2> QED BY <2>1, <2>2, <2>3
<1> QED BY <1>3, <1>4

LEMMA PlaceInSlots ==
    ASSUME NEW i \in Nat, NEW q \in QueueNums
    PROVE  i % q \in Slots
<1>1. q \in Nat \ {0} /\ q <= MAX_QUEUE_NUM /\ MAX_QUEUE_NUM \in Nat
  BY RingConstants
<1>2. i % q \in Nat /\ i % q < q
  BY <1>1, DivModDef
<1> QED BY <1>1, <1>2 DEF Slots

\* The place behind the d entries from index i is none of theirs.
LEMMA PlaceIsFree ==
    ASSUME NEW i \in Indices, NEW q \in QueueNums, NEW d \in Nat, d < q
    PROVE  /\ (i + d) % q \in Slots
           /\ \A k \in 0 .. d - 1 : (i + k) % q # (i + d) % q /\ (i + k) % q \in Slots
<1>1. i \in Nat /\ q \in Nat \ {0}
  BY RingConstants DEF Indices
<1>2. (i + d) % q \in Slots
  <2>1. i + d \in Nat
    BY <1>1
  <2> QED BY <2>1, PlaceInSlots
<1>3. ASSUME NEW k \in 0 .. d - 1
      PROVE  (i + k) % q # (i + d) % q /\ (i + k) % q \in Slots
  <2>1. i + k \in Nat /\ i + d \in Nat /\ (i + k) - (i + d) < q /\ (i + d) - (i + k) < q
        /\ i + k # i + d
    BY <1>1
  <2>2. (i + k) % q \in Slots
    BY <2>1, PlaceInSlots
  <2> QED BY <1>1, <2>1, <2>2, ModDistinct
<1> QED BY <1>2, <1>3

-----------------------------------------------------------------------------
\* How Append and Tail act on places.
LEMMA AppendPlaces ==
    ASSUME NEW S, NEW s \in Seq(S), NEW e
    PROVE  /\ DOMAIN Append(s, e) = DOMAIN s \union {Len(s) + 1}
           /\ Len(s) + 1 \notin DOMAIN s
           /\ \A k \in DOMAIN s : Append(s, e)[k] = s[k]
           /\ Append(s, e)[Len(s) + 1] = e
           /\ Append(s, e) = [k \in 1 .. Len(s) + 1 |-> IF k <= Len(s) THEN s[k] ELSE e]
<1> DEFINE T == S \union {e}
           t == Append(s, e)
<1>1. s \in Seq(T) /\ e \in T
  BY SeqMonotonic
<1> HIDE DEF T
<1>2. Len(s) \in Nat /\ DOMAIN s = 1 .. Len(s)
  BY <1>1, LenProperties
<1>3. /\ t \in Seq(T) /\ Len(t) = Len(s) + 1
      /\ \A i \in 1 .. Len(s) : t[i] = s[i]
      /\ t[Len(s) + 1] = e
  BY <1>1, AppendProperties
<1> HIDE DEF t
<1>4. DOMAIN t = 1 .. Len(s) + 1 /\ t = [k \in 1 .. Len(s) + 1 |-> t[k]]
  BY <1>3, LenProperties
<1>5. t = [k \in 1 .. Len(s) + 1 |-> IF k <= Len(s) THEN s[k] ELSE e]
  <2>1. \A k \in 1 .. Len(s) + 1 : t[k] = IF k <= Len(s) THEN s[k] ELSE e
    BY <1>2, <1>3
  <2> QED BY <1>4, <2>1
<1> QED BY <1>2, <1>3, <1>4, <1>5 DEF t

LEMMA TailPlaces ==
    ASSUME NEW S, NEW s \in Seq(S), s # <<>>
    PROVE  /\ \A k \in DOMAIN Tail(s) : k \in Nat /\ k + 1 \in DOMAIN s /\ Tail(s)[k] = s[k + 1]
                                        /\ k + 1 # 1
           /\ Head(s) = s[1] /\ 1 \in DOMAIN s
<1>1. /\ Len(s) \in Nat \ {0} /\ DOMAIN s = 1 .. Len(s)
      /\ Len(Tail(s)) = Len(s) - 1 /\ Tail(s) \in Seq(S)
      /\ \A k \in 1 .. Len(Tail(s)) : Tail(s)[k] = s[k + 1]
  BY LenProperties, HeadTailProperties, EmptySeq
<1>2. DOMAIN Tail(s) = 1 .. Len(s) - 1
  BY <1>1, LenProperties
<1> QED BY <1>1, <1>2

-----------------------------------------------------------------------------
(***************************************************************************)
(* The window of a ring: its entries from index i up to index j.           *)
(***************************************************************************)
Put(ring, j, q, v) == [ring EXCEPT ![j % q] = v]

IsRing(ring) == ring = [s \in Slots |-> ring[s]]

Window(ring, i, j, q) == [k \in 1 .. Distance(i, j) |-> ring[(i + (k - 1)) % q]]

LEMMA DistanceInNat ==
    ASSUME NEW i \in Indices, NEW j \in Indices
    PROVE  Distance(i, j) \in Nat
<1>1. Distance(i, j) \in Indices
  BY IndexFacts
<1> QED BY <1>1, RingConstants DEF Indices

LEMMA WindowIsSeq ==
    ASSUME NEW i \in Indices, NEW j \in Indices, NEW ring, NEW q
    PROVE  /\ Window(ring, i, j, q) \in Seq(Range(Window(ring, i, j, q)))
           /\ Len(Window(ring, i, j, q)) = Distance(i, j)
           /\ DOMAIN Window(ring, i, j, q) = 1 .. Distance(i, j)
<1> DEFINE w == Window(ring, i, j, q)
           S == Range(w)
<1>1. Distance(i, j) \in Nat
  BY DistanceInNat
<1>2. w = [k \in 1 .. Distance(i, j) |-> w[k]]
  BY DEF Window
<1> HIDE DEF w
<1>3. w \in [1 .. Distance(i, j) -> S]
  BY <1>2 DEF Range
<1>4. w \in Seq(S)
  BY <1>1, <1>3, SeqDef
<1>5. DOMAIN w = 1 .. Len(w) /\ Len(w) \in Nat
  BY <1>4, LenProperties
<1>6. DOMAIN w = 1 .. Distance(i, j)
  BY <1>2
<1> QED BY <1>1, <1>4, <1>5, <1>6 DEF w

LEMMA WindowEmpty ==
    ASSUME NEW i \in Indices, NEW ring, NEW q
    PROVE  Window(ring, i, i, q) = <<>>
<1>1. Distance(i, i) = 0
  BY IndexFacts
<1> QED BY <1>1 DEF Window

\* An entry stored at the end of a window that is not full.
LEMMA WindowAppend ==
    ASSUME NEW i \in Indices, NEW j \in Indices, NEW q \in QueueNums, Distance(i, j) < q,
           NEW ring, IsRing(ring), NEW v, NEW new, new = Put(ring, j, q, v)
    PROVE  /\ Window(new, i, Step(j), q) = Append(Window(ring, i, j, q), v)
           /\ IsRing(new)
<1> DEFINE w == Window(ring, i, j, q)
           d == Distance(i, j)
<1>1. d \in Nat /\ d < q
  BY DistanceInNat
<1>2. Distance(i, Step(j)) = d + 1
  <2>1. d + 1 < IndexSpan
    <3>1. q \in Nat /\ q < IndexSpan /\ IndexSpan \in Nat
      BY RingConstants
    <3> QED BY <1>1, <3>1
  <2> QED BY <2>1, IndexFacts
<1>3. new = [ring EXCEPT ![(i + d) % q] = v]
  BY PlaceAtDistance DEF Put
<1> HIDE DEF d
<1>4. /\ \A k \in 0 .. d - 1 : new[(i + k) % q] = ring[(i + k) % q]
      /\ new[(i + d) % q] = v
      /\ new = [s \in Slots |-> new[s]]
  <2>1. /\ (i + d) % q \in Slots
        /\ \A k \in 0 .. d - 1 : (i + k) % q # (i + d) % q /\ (i + k) % q \in Slots
    BY <1>1, PlaceIsFree
  <2> QED BY <1>3, <2>1 DEF IsRing
<1>5. w \in Seq(Range(w)) /\ Len(w) = d
  BY WindowIsSeq DEF d
<1>6. Append(w, v) = [k \in 1 .. d + 1 |-> IF k <= d THEN w[k] ELSE v]
  BY <1>5, AppendPlaces
<1>7. Window(new, i, Step(j), q) = [k \in 1 .. d + 1 |-> new[(i + (k - 1)) % q]]
  BY <1>2 DEF Window, d
<1>8. ASSUME NEW k \in 1 .. d + 1
      PROVE  new[(i + (k - 1)) % q] = IF k <= d THEN w[k] ELSE v
  <2>1. CASE k <= d
    <3>1. k - 1 \in 0 .. d - 1 /\ k \in 1 .. d
      BY <1>1, <2>1
    <3>2. new[(i + (k - 1)) % q] = ring[(i + (k - 1)) % q]
      BY <1>4, <3>1
    <3> QED BY <2>1, <3>1, <3>2 DEF Window, d
  <2>2. CASE ~ (k <= d)
    <3>1. k - 1 = d
      BY <1>1, <2>2
    <3> QED BY <1>4, <2>2, <3>1
  <2> QED BY <2>1, <2>2
<1>9. Window(new, i, Step(j), q) = Append(w, v)
  BY <1>6, <1>7, <1>8
<1> QED BY <1>4, <1>9 DEF IsRing

\* The first entry leaves a window.
LEMMA WindowTail ==
    ASSUME NEW i \in Indices, NEW j \in Indices, NEW q \in QueueNums, i # j, NEW ring
    PROVE  /\ Window(ring, Step(i), j, q) = Tail(Window(ring, i, j, q))
           /\ Window(ring, i, j, q) # <<>>
           /\ Head(Window(ring, i, j, q)) = ring[i % q]
<1> DEFINE w == Window(ring, i, j, q)
           d == Distance(i, j)
<1>1. d \in Nat /\ d # 0 /\ Distance(Step(i), j) = d - 1
  BY IndexFacts, DistanceInNat
<1>2. w \in Seq(Range(w)) /\ Len(w) = d /\ w # <<>>
  <2>1. w \in Seq(Range(w)) /\ Len(w) = d
    BY WindowIsSeq
  <2> QED BY <1>1, <2>1
<1> HIDE DEF w, d
<1>3. Tail(w) = [k \in 1 .. d - 1 |-> w[k + 1]]
  <2>1. /\ Tail(w) \in Seq(Range(w)) /\ Len(Tail(w)) = d - 1
        /\ \A k \in 1 .. Len(Tail(w)) : Tail(w)[k] = w[k + 1]
    BY <1>2, HeadTailProperties
  <2>2. Tail(w) = [k \in 1 .. Len(Tail(w)) |-> Tail(w)[k]]
    BY <2>1, LenProperties
  <2> QED BY <2>1, <2>2
<1>4. Window(ring, Step(i), j, q) = [k \in 1 .. d - 1 |-> ring[(Step(i) + (k - 1)) % q]]
  BY <1>1 DEF Window, w, d
<1>5. ASSUME NEW k \in 1 .. d - 1
      PROVE  ring[(Step(i) + (k - 1)) % q] = w[k + 1]
  <2>1. k + 1 \in 1 .. d /\ k - 1 \in Nat /\ (k - 1) + 1 = (k + 1) - 1
    BY <1>1
  <2>2. (Step(i) + (k - 1)) % q = (i + ((k - 1) + 1)) % q
    BY <2>1, PlaceOfStep
  <2>3. w[k + 1] = ring[(i + ((k + 1) - 1)) % q]
    BY <2>1 DEF Window, w, d
  <2> QED BY <2>1, <2>2, <2>3
<1>6. Head(w) = ring[i % q]
  <2>1. Head(w) = w[1] /\ 1 \in 1 .. d
    BY <1>1, <1>2
  <2>2. w[1] = ring[(i + (1 - 1)) % q]
    BY <2>1 DEF Window, w, d
  <2>3. i + (1 - 1) = i
    BY RingConstants DEF Indices
  <2> QED BY <2>1, <2>2, <2>3
<1>7. Window(ring, Step(i), j, q) = Tail(w)
  BY <1>3, <1>4, <1>5
<1> QED BY <1>2, <1>6, <1>7 DEF w

-----------------------------------------------------------------------------
(***************************************************************************)
(* Two sequences own the members of a set: heads w that wait, answers u    *)
(* that have not been collected.                                           *)
(***************************************************************************)
OwnedOnce(w, u, busy) ==
    /\ IsInjective(w)
    /\ \A j, k \in DOMAIN u : u[j].id = u[k].id => j = k
    /\ \A j \in DOMAIN w, k \in DOMAIN u : w[j] # u[k].id
    /\ \A j \in DOMAIN w : w[j] \in busy
    /\ \A k \in DOMAIN u : u[k].id \in busy

LEMMA OwnedAfterSubmit ==
    ASSUME NEW S, NEW w \in Seq(S), NEW u, NEW busy, OwnedOnce(w, u, busy),
           NEW h, h \notin busy
    PROVE  OwnedOnce(Append(w, h), u, busy \union {h})
BY AppendPlaces DEF OwnedOnce, IsInjective

LEMMA OwnedAfterDrop ==
    ASSUME NEW S, NEW w \in Seq(S), NEW u, NEW busy, OwnedOnce(w, u, busy), w # <<>>
    PROVE  OwnedOnce(Tail(w), u, busy)
<1>1. ASSUME NEW j \in DOMAIN Tail(w), NEW k \in DOMAIN Tail(w), Tail(w)[j] = Tail(w)[k]
      PROVE  j = k
  <2>1. j \in Nat /\ k \in Nat /\ j + 1 = k + 1
    BY <1>1, TailPlaces DEF OwnedOnce, IsInjective
  <2> QED BY <2>1
<1> QED BY <1>1, TailPlaces DEF OwnedOnce, IsInjective

LEMMA OwnedAfterAnswer ==
    ASSUME NEW S, NEW w \in Seq(S), NEW T, NEW u \in Seq(T), NEW busy,
           OwnedOnce(w, u, busy), w # <<>>, NEW e, e.id = Head(w)
    PROVE  OwnedOnce(Tail(w), Append(u, e), busy)
<1>1. OwnedOnce(Tail(w), u, busy)
  BY OwnedAfterDrop
<1>2. \A k \in DOMAIN u : u[k].id # Head(w)
  BY TailPlaces DEF OwnedOnce
<1>3. \A j \in DOMAIN Tail(w) : Tail(w)[j] # Head(w)
  BY TailPlaces DEF OwnedOnce, IsInjective
<1>4. Head(w) \in busy
  BY TailPlaces DEF OwnedOnce
<1> DEFINE n == Len(u) + 1
<1>5. /\ DOMAIN Append(u, e) = DOMAIN u \union {n} /\ n \notin DOMAIN u
      /\ \A k \in DOMAIN u : Append(u, e)[k] = u[k]
      /\ Append(u, e)[n] = e
  BY AppendPlaces
<1> HIDE DEF n
<1> QED BY <1>1, <1>2, <1>3, <1>4, <1>5 DEF OwnedOnce

LEMMA OwnedAfterCollect ==
    ASSUME NEW w, NEW T, NEW u \in Seq(T), NEW busy, OwnedOnce(w, u, busy), u # <<>>
    PROVE  OwnedOnce(w, Tail(u), busy \ {Head(u).id})
<1>1. ASSUME NEW j \in DOMAIN Tail(u), NEW k \in DOMAIN Tail(u), Tail(u)[j].id = Tail(u)[k].id
      PROVE  j = k
  <2>1. j \in Nat /\ k \in Nat /\ j + 1 = k + 1
    BY <1>1, TailPlaces DEF OwnedOnce
  <2> QED BY <2>1
<1>2. \A k \in DOMAIN Tail(u) : Tail(u)[k].id # Head(u).id /\ Tail(u)[k].id \in busy
  BY TailPlaces DEF OwnedOnce
<1>3. \A j \in DOMAIN w : w[j] # Head(u).id /\ w[j] \in busy
  BY TailPlaces DEF OwnedOnce
<1>4. \A j \in DOMAIN w, k \in DOMAIN Tail(u) : w[j] # Tail(u)[k].id
  BY TailPlaces DEF OwnedOnce
<1> QED BY <1>1, <1>2, <1>3, <1>4 DEF OwnedOnce

\* There are no more of them than the set has members.
LEMMA OwnedBound ==
    ASSUME NEW S, NEW w \in Seq(S), NEW T, NEW u \in Seq(T), NEW busy, IsFiniteSet(busy),
           OwnedOnce(w, u, busy)
    PROVE  Len(w) + Len(u) <= Cardinality(busy) /\ Cardinality(busy) \in Nat
<1> DEFINE m == Len(w)
           n == Len(u)
<1>1. m \in Nat /\ n \in Nat /\ DOMAIN w = 1 .. m /\ DOMAIN u = 1 .. n
  BY LenProperties
<1> HIDE DEF m, n
<1> DEFINE f == [i \in 1 .. m + n |-> IF i <= m THEN w[i] ELSE u[i - m].id]
<1>2. f \in [1 .. m + n -> busy]
  <2>1. \A i \in 1 .. m + n : i <= m => i \in DOMAIN w
    BY <1>1
  <2>2. \A i \in 1 .. m + n : ~ (i <= m) => i - m \in DOMAIN u
    BY <1>1
  <2> QED BY <2>1, <2>2 DEF OwnedOnce
<1>3. ASSUME NEW i \in 1 .. m + n, NEW j \in 1 .. m + n, f[i] = f[j]
      PROVE  i = j
  <2>1. CASE i <= m /\ j <= m
    <3>1. i \in DOMAIN w /\ j \in DOMAIN w /\ w[i] = w[j]
      BY <1>1, <1>3, <2>1
    <3> QED BY <3>1 DEF OwnedOnce, IsInjective
  <2>2. CASE i <= m /\ ~ (j <= m)
    <3>1. i \in DOMAIN w /\ j - m \in DOMAIN u /\ w[i] = u[j - m].id
      BY <1>1, <1>3, <2>2
    <3> QED BY <3>1 DEF OwnedOnce
  <2>3. CASE ~ (i <= m) /\ j <= m
    <3>1. j \in DOMAIN w /\ i - m \in DOMAIN u /\ w[j] = u[i - m].id
      BY <1>1, <1>3, <2>3
    <3> QED BY <3>1 DEF OwnedOnce
  <2>4. CASE ~ (i <= m) /\ ~ (j <= m)
    <3>1. i - m \in DOMAIN u /\ j - m \in DOMAIN u /\ u[i - m].id = u[j - m].id
      BY <1>1, <1>3, <2>4
    <3>2. i - m = j - m
      BY <3>1 DEF OwnedOnce
    <3> QED BY <1>1, <3>2
  <2> QED BY <2>1, <2>2, <2>3, <2>4
<1> HIDE DEF f
<1>4. f \in Injection(1 .. m + n, busy)
  BY <1>2, <1>3 DEF Injection, IsInjective
<1>5. Cardinality(1 .. m + n) <= Cardinality(busy)
  BY <1>4, FS_Injection
<1>6. Cardinality(1 .. m + n) = m + n
  BY <1>1, FS_Interval
<1>7. Cardinality(busy) \in Nat
  BY FS_CardinalityType
<1> QED BY <1>5, <1>6, <1>7 DEF m, n

-----------------------------------------------------------------------------
(***************************************************************************)
(* The invariant of the rings.                                             *)
(***************************************************************************)
RingTypes ==
    /\ last_avail_idx \in Indices /\ avail_idx \in Indices
    /\ used_idx \in Indices /\ seen \in Indices
    /\ loop_avail \in Indices \union {Idle}
    /\ IsRing(avail_ring)
    /\ IsRing(used_ring)
    /\ chains \in [Heads -> Requests \union {NoRequest}]
    /\ qsize \in QueueNums \union {0}

\* Before the driver has set up the queue nothing is under way.
NotSetUp == last_avail_idx = 0 /\ loop_avail = Idle /\ Busy = {} /\ seen = used_idx

\* The device has the driver's ring size, serves all that the driver has made
\* available, and the rings have room for what is under way.
SetUpSo ==
    /\ num = qsize
    /\ loop_avail \in {Idle, avail_idx}
    /\ IsFiniteSet(Busy) /\ Cardinality(Busy) <= qsize
    /\ OwnedOnce(WaitingHeads, Unseen, Busy)

Announced == seen # used_idx => (ring_irq \/ in_handler)

RingInv ==
    /\ RingTypes
    /\ clean => /\ qsize = 0 => NotSetUp
                /\ qsize # 0 => SetUpSo
                /\ Announced

LEMMA EntriesAreWindow ==
    ASSUME NEW i \in Indices, NEW j \in Indices, NEW ring, NEW q
    PROVE  [k \in 1 .. Distance(i, j) |-> ring[(i + k - 1) % q]] = Window(ring, i, j, q)
<1>1. \A k \in 1 .. Distance(i, j) : i + k - 1 = i + (k - 1)
  BY DistanceInNat, RingConstants DEF Indices
<1> QED BY <1>1 DEF Window

\* What the rings hold, and that there is room for more.
LEMMA RingsWithinBounds ==
    ASSUME RingTypes, qsize # 0, SetUpSo
    PROVE  /\ qsize \in QueueNums
           /\ WaitingHeads = Window(avail_ring, last_avail_idx, avail_idx, qsize)
           /\ Unseen = Window(used_ring, seen, used_idx, qsize)
           /\ WaitingHeads \in Seq(Range(WaitingHeads)) /\ Unseen \in Seq(Range(Unseen))
           /\ Distance(last_avail_idx, avail_idx) \in Nat /\ Distance(seen, used_idx) \in Nat
           /\ Distance(last_avail_idx, avail_idx) + Distance(seen, used_idx) <= Cardinality(Busy)
           /\ Cardinality(Busy) \in Nat
<1>1. /\ last_avail_idx \in Indices /\ avail_idx \in Indices
      /\ used_idx \in Indices /\ seen \in Indices /\ qsize \in QueueNums
  BY DEF RingTypes
<1>2. WaitingHeads = Window(avail_ring, last_avail_idx, avail_idx, qsize)
  BY <1>1, EntriesAreWindow DEF WaitingHeads
<1>3. Unseen = Window(used_ring, seen, used_idx, qsize)
  BY <1>1, EntriesAreWindow DEF Unseen
<1>4. /\ WaitingHeads \in Seq(Range(WaitingHeads))
      /\ Len(WaitingHeads) = Distance(last_avail_idx, avail_idx)
  BY <1>1, <1>2, WindowIsSeq
<1>5. Unseen \in Seq(Range(Unseen)) /\ Len(Unseen) = Distance(seen, used_idx)
  BY <1>1, <1>3, WindowIsSeq
<1>6. /\ Len(WaitingHeads) + Len(Unseen) <= Cardinality(Busy)
      /\ Cardinality(Busy) \in Nat
  BY <1>4, <1>5, OwnedBound DEF SetUpSo
<1>7. Distance(last_avail_idx, avail_idx) \in Nat /\ Distance(seen, used_idx) \in Nat
  BY <1>1, DistanceInNat
<1> QED BY <1>1, <1>2, <1>3, <1>4, <1>5, <1>6, <1>7

\* A request is completed or it is not.
LEMMA RequestHandled ==
    ASSUME NEW head, NEW req, virtual_block_recv_request(head, req)
    PROVE  NoCompletion \/ \E len : virtual_consume_desc(head, len)
<1>1. SkipRequest => NoCompletion
  BY DEF SkipRequest
<1>2. ReadRequest(head, req) => \E len : virtual_consume_desc(head, len)
  BY DEF ReadRequest, virtual_block_req_end
<1>3. WriteRequest(head, req) => \E len : virtual_consume_desc(head, len)
  BY DEF WriteRequest, virtual_block_req_end
<1>4. SkipRequest \/ ReadRequest(head, req) \/ WriteRequest(head, req)
  BY DEF virtual_block_recv_request
<1> QED BY <1>1, <1>2, <1>3, <1>4

-----------------------------------------------------------------------------
(***************************************************************************)
(* What the steps do to the heads that wait and to the answers.            *)
(***************************************************************************)

\* An iteration takes the oldest head and answers it last, or not at all.
LEMMA ServeTakesOldest ==
    ASSUME RingTypes, qsize # 0, SetUpSo, MoreToServe, Advance,
           virtual_block_recv_request(NextHead, chains[NextHead]), UNCHANGED <<qsize, seen>>
    PROVE  /\ WaitingHeads # <<>> /\ NextHead = Head(WaitingHeads)
           /\ WaitingHeads' = Tail(WaitingHeads)
           /\ NoCompletion \/ \E len : virtual_consume_desc(NextHead, len)
           /\ NoCompletion => Unseen' = Unseen
           /\ \A len : virtual_consume_desc(NextHead, len) =>
                  Unseen' = Append(Unseen, [id |-> NextHead, len |-> len]) /\ IsRing(used_ring')
<1>1. /\ qsize \in QueueNums /\ num = qsize /\ qsize' = qsize /\ seen' = seen
      /\ last_avail_idx \in Indices /\ avail_idx \in Indices
      /\ used_idx \in Indices /\ seen \in Indices
      /\ last_avail_idx # avail_idx
      /\ last_avail_idx' = Step(last_avail_idx) /\ avail_idx' = avail_idx
      /\ avail_ring' = avail_ring
  BY DEF RingTypes, SetUpSo, MoreToServe, Advance
<1>2. /\ WaitingHeads = Window(avail_ring, last_avail_idx, avail_idx, qsize)
      /\ Unseen = Window(used_ring, seen, used_idx, qsize)
  BY RingsWithinBounds
<1>3. Step(last_avail_idx) \in Indices
  BY <1>1, IndexFacts
<1>4. WaitingHeads' = Window(avail_ring, Step(last_avail_idx), avail_idx, qsize)
  BY <1>1, <1>3, EntriesAreWindow DEF WaitingHeads
<1>5. /\ WaitingHeads # <<>> /\ Head(WaitingHeads) = avail_ring[last_avail_idx % qsize]
      /\ WaitingHeads' = Tail(WaitingHeads)
  BY <1>1, <1>2, <1>4, WindowTail
<1>6. NextHead = Head(WaitingHeads)
  BY <1>1, <1>5 DEF NextHead
<1>7. NoCompletion => Unseen' = Unseen
  BY <1>1 DEF NoCompletion, Unseen
<1>8. ASSUME NEW len, virtual_consume_desc(NextHead, len)
      PROVE  /\ Unseen' = Append(Unseen, [id |-> NextHead, len |-> len])
             /\ IsRing(used_ring')
  <2> DEFINE e == [id |-> NextHead, len |-> len]
  <2>1. used_idx' = Step(used_idx) /\ used_ring' = Put(used_ring, used_idx, qsize, e)
    BY <1>1, <1>8 DEF virtual_consume_desc, Put
  <2> HIDE DEF e
  <2>2. Distance(seen, used_idx) < qsize
    <3>1. /\ Distance(last_avail_idx, avail_idx) \in Nat /\ Distance(seen, used_idx) \in Nat
          /\ Distance(last_avail_idx, avail_idx) + Distance(seen, used_idx) <= Cardinality(Busy)
          /\ Cardinality(Busy) \in Nat
      BY RingsWithinBounds
    <3>2. Distance(last_avail_idx, avail_idx) # 0
      BY <1>1, IndexFacts
    <3>3. Cardinality(Busy) <= qsize /\ qsize \in Nat
      BY <1>1, RingConstants DEF SetUpSo
    <3> QED BY <3>1, <3>2, <3>3
  <2>3. IsRing(used_ring)
    BY DEF RingTypes
  <2>4. /\ Window(used_ring', seen, Step(used_idx), qsize)
             = Append(Window(used_ring, seen, used_idx, qsize), e)
        /\ IsRing(used_ring')
    BY <1>1, <2>1, <2>2, <2>3, WindowAppend
  <2>5. Unseen' = Window(used_ring', seen, Step(used_idx), qsize)
    <3>1. Step(used_idx) \in Indices
      BY <1>1, IndexFacts
    <3>2. used_idx' = Step(used_idx) /\ seen' = seen /\ qsize' = qsize /\ qsize # 0
      BY <1>1, <2>1
    <3>3. Unseen' = [k \in 1 .. Distance(seen, Step(used_idx)) |->
                       used_ring'[(seen + k - 1) % qsize]]
      BY <3>2 DEF Unseen
    <3> QED BY <1>1, <3>1, <3>3, EntriesAreWindow
  <2> QED BY <1>2, <2>4, <2>5 DEF e
<1>9. NoCompletion \/ \E len : virtual_consume_desc(NextHead, len)
  BY RequestHandled
<1> QED BY <1>5, <1>6, <1>7, <1>8, <1>9

\* A request that is submitted waits behind all others.
LEMMA SubmitWaitsLast ==
    ASSUME RingTypes, qsize # 0, SetUpSo, Submit
    PROVE  \E h \in Heads \ Busy, req \in Requests :
              /\ chains' = [chains EXCEPT ![h] = req]
              /\ buffer' = [buffer EXCEPT ![h] = Fresh(req)]
              /\ WaitingHeads' = Append(WaitingHeads, h) /\ Unseen' = Unseen
              /\ IsRing(avail_ring')
<1>1. PICK h \in Heads \ Busy, req \in Requests :
          /\ chains' = [chains EXCEPT ![h] = req]
          /\ buffer' = [buffer EXCEPT ![h] = Fresh(req)]
          /\ avail_ring' = Put(avail_ring, avail_idx, qsize, h)
  BY DEF Submit, Put
<1>2. /\ qsize \in QueueNums /\ qsize' = qsize /\ seen' = seen
      /\ last_avail_idx \in Indices /\ avail_idx \in Indices
      /\ avail_idx' = Step(avail_idx) /\ last_avail_idx' = last_avail_idx
      /\ used_ring' = used_ring /\ used_idx' = used_idx
      /\ IsRing(avail_ring)
  BY DEF RingTypes, Submit
<1>3. WaitingHeads = Window(avail_ring, last_avail_idx, avail_idx, qsize)
  BY RingsWithinBounds
<1>4. Distance(last_avail_idx, avail_idx) < qsize
  <2>1. /\ Distance(last_avail_idx, avail_idx) \in Nat /\ Distance(seen, used_idx) \in Nat
        /\ Distance(last_avail_idx, avail_idx) + Distance(seen, used_idx) <= Cardinality(Busy)
        /\ Cardinality(Busy) \in Nat
    BY RingsWithinBounds
  <2>2. Cardinality(Busy) < qsize /\ qsize \in Nat
    BY <1>2, RingConstants DEF Submit
  <2> QED BY <2>1, <2>2
<1>5. /\ Window(avail_ring', last_avail_idx, Step(avail_idx), qsize)
           = Append(Window(avail_ring, last_avail_idx, avail_idx, qsize), h)
      /\ IsRing(avail_ring')
  BY <1>1, <1>2, <1>4, WindowAppend
<1>6. WaitingHeads' = Window(avail_ring', last_avail_idx, Step(avail_idx), qsize)
  <2>1. Step(avail_idx) \in Indices
    BY <1>2, IndexFacts
  <2> QED BY <1>2, <2>1, EntriesAreWindow DEF WaitingHeads
<1>7. Unseen' = Unseen
  BY <1>2 DEF Unseen
<1> QED BY <1>1, <1>3, <1>5, <1>6, <1>7

\* The driver collects the oldest answer.
LEMMA CollectTakesOldest ==
    ASSUME RingTypes, qsize # 0, SetUpSo, Collect
    PROVE  /\ Unseen # <<>> /\ Unseen' = Tail(Unseen) /\ WaitingHeads' = WaitingHeads
           /\ chains' = [chains EXCEPT ![Head(Unseen).id] = NoRequest]
           /\ buffer' = [buffer EXCEPT ![Head(Unseen).id] = <<>>]
<1>1. /\ qsize \in QueueNums /\ qsize' = qsize /\ seen' = Step(seen)
      /\ used_idx \in Indices /\ seen \in Indices /\ seen # used_idx
      /\ last_avail_idx' = last_avail_idx /\ avail_idx' = avail_idx
      /\ avail_ring' = avail_ring
      /\ used_ring' = used_ring /\ used_idx' = used_idx
  BY DEF RingTypes, Collect, queueVars, ringVars
<1>2. Unseen = Window(used_ring, seen, used_idx, qsize)
  BY RingsWithinBounds
<1>3. Unseen' = Window(used_ring, Step(seen), used_idx, qsize)
  <2>1. Step(seen) \in Indices
    BY <1>1, IndexFacts
  <2> QED BY <1>1, <2>1, EntriesAreWindow DEF Unseen
<1>4. /\ Unseen # <<>> /\ Head(Unseen) = used_ring[seen % qsize]
      /\ Unseen' = Tail(Unseen)
  BY <1>1, <1>2, <1>3, WindowTail
<1>5. WaitingHeads' = WaitingHeads
  BY <1>1 DEF WaitingHeads
<1> QED BY <1>4, <1>5 DEF Collect

-----------------------------------------------------------------------------
(***************************************************************************)
(* Every step keeps the invariant.                                         *)
(***************************************************************************)
LEMMA RingInvInit == Init => RingInv
<1> SUFFICES ASSUME Init PROVE RingInv
  OBVIOUS
<1>1. 0 \in Indices
  BY RingConstants DEF Indices
<1>2. RingTypes
  <2>1. IsRing(avail_ring) /\ IsRing(used_ring)
    BY DEF Init, QueueInit, IsRing
  <2> QED BY <1>1, <2>1 DEF Init, QueueInit, RingTypes
<1>3. NotSetUp /\ qsize = 0 /\ Announced
  BY DEF Init, QueueInit, NotSetUp, Busy, Announced
<1> QED BY <1>2, <1>3 DEF RingInv

\* Primes reach the arguments.
LEMMA OwnedPrimed ==
    OwnedOnce(WaitingHeads', Unseen', Busy') => OwnedOnce(WaitingHeads, Unseen, Busy)'
BY DEF OwnedOnce, IsInjective

LEMMA IsRingPrimed ==
    /\ IsRing(avail_ring') => IsRing(avail_ring)'
    /\ IsRing(used_ring') => IsRing(used_ring)'
BY DEF IsRing

\* Steps that leave the rings, the indices and the driver's chains alone.
LEMMA RingsUntouched ==
    ASSUME RingInv,
           UNCHANGED <<num, last_avail_idx, ringVars, chains, qsize, seen, clean>>,
           loop_avail' \in {Idle, avail_idx, loop_avail},
           qsize = 0 => loop_avail' = loop_avail,
           clean => Announced'
    PROVE  RingInv'
<1>1. RingTypes'
  BY DEF RingInv, RingTypes, ringVars, IsRing
<1>2. NotSetUp => NotSetUp' \/ qsize # 0
  BY DEF NotSetUp, Busy, ringVars
<1>3. SetUpSo => SetUpSo'
  <2>1. WaitingHeads' = WaitingHeads /\ Unseen' = Unseen /\ Busy' = Busy
    BY DEF WaitingHeads, Unseen, Busy, ringVars
  <2>2. OwnedOnce(WaitingHeads, Unseen, Busy) => OwnedOnce(WaitingHeads, Unseen, Busy)'
    BY <2>1, OwnedPrimed
  <2> QED BY <2>1, <2>2 DEF SetUpSo, ringVars
<1> QED BY <1>1, <1>2, <1>3 DEF RingInv, ringVars

LEMMA ServeKeepsTypes ==
    ASSUME RingTypes, Serve
    PROVE  RingTypes'
<1>1. NoCompletion \/ \E head, len : virtual_consume_desc(head, len)
  BY RequestHandled DEF Serve, SkipRequest
<1>2. used_idx' \in Indices /\ IsRing(used_ring)'
  BY <1>1, IndexFacts DEF RingTypes, NoCompletion, virtual_consume_desc, IsRing
<1>3. /\ last_avail_idx' = Step(last_avail_idx) /\ avail_idx' = avail_idx
      /\ avail_ring' = avail_ring /\ loop_avail' = loop_avail
      /\ chains' = chains /\ qsize' = qsize /\ seen' = seen
  BY DEF Serve, Advance
<1>4. last_avail_idx' \in Indices
  BY <1>3, IndexFacts DEF RingTypes
<1> QED BY <1>2, <1>3, <1>4 DEF RingTypes, IsRing

LEMMA ServeKeepsRings ==
    ASSUME RingInv, Serve
    PROVE  RingInv'
<1>1. RingTypes'
  BY ServeKeepsTypes DEF RingInv
<1>2. CASE clean' # clean \/ ~clean
  <2>1. ~clean'
    BY <1>2 DEF Serve
  <2> QED BY <1>1, <2>1 DEF RingInv
<1>3. CASE clean /\ clean' = clean
  <2>1. /\ MoreToServe /\ Advance /\ UNCHANGED <<chains, qsize, seen, in_handler>>
        /\ virtual_block_recv_request(NextHead, chains[NextHead])
    BY <1>3 DEF Serve
  <2>2. qsize # 0 /\ SetUpSo /\ RingTypes
    BY <1>3, <2>1 DEF RingInv, NotSetUp, MoreToServe
  <2>3. /\ WaitingHeads # <<>> /\ NextHead = Head(WaitingHeads)
        /\ WaitingHeads' = Tail(WaitingHeads)
        /\ NoCompletion \/ \E len : virtual_consume_desc(NextHead, len)
        /\ NoCompletion => Unseen' = Unseen
        /\ \A len : virtual_consume_desc(NextHead, len) =>
               Unseen' = Append(Unseen, [id |-> NextHead, len |-> len]) /\ IsRing(used_ring')
    BY <2>1, <2>2, ServeTakesOldest
  <2>4. /\ WaitingHeads \in Seq(Range(WaitingHeads)) /\ Unseen \in Seq(Range(Unseen))
        /\ OwnedOnce(WaitingHeads, Unseen, Busy)
    BY <2>2, RingsWithinBounds DEF SetUpSo
  <2>5. Busy' = Busy
    BY <2>1 DEF Busy
  <2>6. OwnedOnce(WaitingHeads', Unseen', Busy')
    <3>1. CASE NoCompletion /\ Unseen' = Unseen
      BY <2>3, <2>4, <2>5, <3>1, OwnedAfterDrop
    <3>2. ASSUME NEW len, Unseen' = Append(Unseen, [id |-> NextHead, len |-> len])
          PROVE  OwnedOnce(WaitingHeads', Unseen', Busy')
      <4> DEFINE e == [id |-> NextHead, len |-> len]
      <4>1. e.id = Head(WaitingHeads) /\ Unseen' = Append(Unseen, e)
        BY <2>3, <3>2
      <4> HIDE DEF e
      <4> QED BY <2>3, <2>4, <2>5, <4>1, OwnedAfterAnswer
    <3> QED BY <2>3, <3>1, <3>2
  <2>7. OwnedOnce(WaitingHeads, Unseen, Busy)'
    BY <2>6, OwnedPrimed
  <2>8. SetUpSo'
    BY <2>1, <2>2, <2>5, <2>7 DEF SetUpSo, Advance
  <2>9. Announced'
    <3>1. CASE NoCompletion
      BY <1>3, <2>1, <3>1 DEF RingInv, Announced, NoCompletion
    <3>2. CASE \E len : virtual_consume_desc(NextHead, len)
      BY <3>2 DEF Announced, virtual_consume_desc
    <3> QED BY <2>3, <3>1, <3>2
  <2> QED BY <1>1, <2>1, <2>2, <2>8, <2>9 DEF RingInv
<1> QED BY <1>2, <1>3

LEMMA SetUpKeepsRings ==
    ASSUME RingInv, SetUp
    PROVE  RingInv'
<1>1. /\ RingTypes /\ NotSetUp /\ Busy = {} /\ qsize' \in QueueNums /\ num' = qsize'
      /\ last_avail_idx' = 0 /\ avail_idx' = 0 /\ used_idx' = 0 /\ seen' = 0
      /\ loop_avail' = Idle /\ chains' = chains
      /\ IsRing(avail_ring)' /\ IsRing(used_ring)'
  BY DEF RingInv, NotSetUp, SetUp, GuestRuns, IsRing
<1>2. 0 \in Indices
  BY RingConstants DEF Indices
<1>3. RingTypes'
  BY <1>1, <1>2 DEF RingTypes
<1>4. qsize' \in Nat /\ qsize' # 0
  BY <1>1, RingConstants
<1>5. WaitingHeads' = <<>> /\ Unseen' = <<>>
  <2>1. Distance(0, 0) = 0
    BY <1>2, IndexFacts
  <2> QED BY <1>1, <1>4, <2>1 DEF WaitingHeads, Unseen
<1>6. Busy' = {} /\ IsFiniteSet(Busy') /\ Cardinality(Busy') = 0
  BY <1>1, FS_EmptySet DEF Busy
<1>7. OwnedOnce(WaitingHeads', Unseen', Busy')
  BY <1>5 DEF OwnedOnce, IsInjective
<1>8. SetUpSo'
  BY <1>1, <1>4, <1>6, <1>7, OwnedPrimed DEF SetUpSo
<1> QED BY <1>1, <1>3, <1>4, <1>8 DEF RingInv, Announced

LEMMA SubmitKeepsRings ==
    ASSUME RingInv, Submit
    PROVE  RingInv'
<1>1. qsize # 0 /\ SetUpSo /\ RingTypes /\ Announced /\ clean
  <2>1. clean /\ RingTypes /\ Announced /\ (qsize = 0 => Busy = {}) /\ (qsize # 0 => SetUpSo)
    BY DEF RingInv, Submit, GuestRuns, NotSetUp
  <2>2. qsize # 0
    <3>1. Cardinality(Busy) < qsize
      BY DEF Submit
    <3>2. ~ (Cardinality({}) < 0)
      BY FS_EmptySet
    <3> QED BY <2>1, <3>1, <3>2
  <2> QED BY <2>1, <2>2
<1>2. PICK h \in Heads \ Busy, req \in Requests :
        /\ chains' = [chains EXCEPT ![h] = req]
        /\ WaitingHeads' = Append(WaitingHeads, h) /\ Unseen' = Unseen
        /\ IsRing(avail_ring')
  BY <1>1, SubmitWaitsLast
<1>3. /\ qsize' = qsize /\ num' = num /\ seen' = seen /\ clean' = clean
      /\ loop_avail = Idle /\ loop_avail' = loop_avail
      /\ last_avail_idx' = last_avail_idx /\ avail_idx' = Step(avail_idx)
      /\ used_ring' = used_ring /\ used_idx' = used_idx
      /\ ring_irq' = ring_irq /\ in_handler' = in_handler
  BY DEF Submit, GuestRuns
<1>4. RingTypes'
  <2>1. avail_idx' \in Indices
    BY <1>1, <1>3, IndexFacts DEF RingTypes
  <2>2. chains' \in [Heads -> Requests \union {NoRequest}]
    BY <1>1, <1>2 DEF RingTypes
  <2>3. IsRing(avail_ring)'
    BY <1>2, IsRingPrimed
  <2> QED BY <1>1, <1>3, <2>1, <2>2, <2>3 DEF RingTypes, IsRing
<1>5. Busy' = Busy \union {h}
  BY <1>1, <1>2, RingConstants DEF Busy, RingTypes
<1>6. IsFiniteSet(Busy') /\ Cardinality(Busy') = Cardinality(Busy) + 1
  BY <1>1, <1>2, <1>5, FS_AddElement DEF SetUpSo
<1>7. Cardinality(Busy) \in Nat /\ qsize \in Nat /\ Cardinality(Busy) < qsize
  BY <1>1, RingsWithinBounds, RingConstants DEF Submit
<1>8. OwnedOnce(WaitingHeads', Unseen', Busy')
  <2>1. /\ WaitingHeads \in Seq(Range(WaitingHeads))
        /\ OwnedOnce(WaitingHeads, Unseen, Busy)
    BY <1>1, RingsWithinBounds DEF SetUpSo
  <2> QED BY <1>2, <1>5, <2>1, OwnedAfterSubmit
<1>9. SetUpSo'
  <2>1. OwnedOnce(WaitingHeads, Unseen, Busy)'
    BY <1>8, OwnedPrimed
  <2>2. Cardinality(Busy') <= qsize'
    BY <1>3, <1>6, <1>7
  <2> QED BY <1>1, <1>3, <1>6, <2>1, <2>2 DEF SetUpSo
<1>10. Announced'
  BY <1>1, <1>3 DEF Announced
<1> QED BY <1>1, <1>3, <1>4, <1>9, <1>10 DEF RingInv

LEMMA CollectKeepsRings ==
    ASSUME RingInv, Collect
    PROVE  RingInv'
<1>1. qsize # 0 /\ SetUpSo /\ RingTypes /\ Announced /\ clean
  BY DEF RingInv, Collect, GuestRuns, NotSetUp
<1>2. /\ Unseen # <<>> /\ Unseen' = Tail(Unseen) /\ WaitingHeads' = WaitingHeads
      /\ chains' = [chains EXCEPT ![Head(Unseen).id] = NoRequest]
  BY <1>1, CollectTakesOldest
<1>3. /\ qsize' = qsize /\ num' = num /\ seen' = Step(seen) /\ clean' = clean
      /\ loop_avail' = loop_avail
      /\ last_avail_idx' = last_avail_idx /\ avail_idx' = avail_idx
      /\ avail_ring' = avail_ring /\ used_ring' = used_ring /\ used_idx' = used_idx
      /\ in_handler' = in_handler /\ in_handler
  BY DEF Collect, queueVars, ringVars
<1>4. RingTypes'
  <2>1. seen' \in Indices
    BY <1>1, <1>3, IndexFacts DEF RingTypes
  <2>2. chains' \in [Heads -> Requests \union {NoRequest}]
    BY <1>1, <1>2 DEF RingTypes
  <2> QED BY <1>1, <1>3, <2>1, <2>2 DEF RingTypes, IsRing
<1>5. Busy' = Busy \ {Head(Unseen).id}
  BY <1>1, <1>2 DEF Busy, RingTypes
<1>6. IsFiniteSet(Busy') /\ Cardinality(Busy') <= Cardinality(Busy)
  <2>1. IsFiniteSet(Busy) /\ Busy' \in SUBSET Busy
    BY <1>1, <1>5 DEF SetUpSo
  <2> QED BY <2>1, FS_Subset
<1>7. OwnedOnce(WaitingHeads', Unseen', Busy')
  <2>1. /\ Unseen \in Seq(Range(Unseen))
        /\ OwnedOnce(WaitingHeads, Unseen, Busy)
    BY <1>1, RingsWithinBounds DEF SetUpSo
  <2> QED BY <1>2, <1>5, <2>1, OwnedAfterCollect
<1>8. SetUpSo'
  <2>1. OwnedOnce(WaitingHeads, Unseen, Busy)'
    BY <1>7, OwnedPrimed
  <2>2. Cardinality(Busy') \in Nat /\ Cardinality(Busy) \in Nat /\ qsize \in Nat
    BY <1>1, <1>6, RingsWithinBounds, RingConstants, FS_CardinalityType
  <2>3. Cardinality(Busy') <= qsize'
    BY <1>1, <1>3, <1>6, <2>2 DEF SetUpSo
  <2> QED BY <1>1, <1>3, <1>6, <2>1, <2>3 DEF SetUpSo
<1>9. Announced'
  BY <1>3 DEF Announced
<1> QED BY <1>1, <1>3, <1>4, <1>8, <1>9 DEF RingInv

LEMMA ResetKeepsRings ==
    ASSUME RingInv, Reset
    PROVE  RingInv'
<1>1. /\ RingTypes /\ qsize' = 0 /\ last_avail_idx' = 0 /\ loop_avail' = Idle
      /\ seen' = used_idx /\ used_idx' = used_idx /\ avail_idx' = avail_idx
      /\ avail_ring' = avail_ring /\ used_ring' = used_ring
      /\ chains' = [h \in Heads |-> NoRequest]
  BY DEF RingInv, Reset, GuestRuns, virtual_io_reset, ringVars
<1>2. 0 \in Indices
  BY RingConstants DEF Indices
<1>3. RingTypes'
  BY <1>1, <1>2 DEF RingTypes, IsRing
<1>4. NotSetUp' /\ Announced'
  BY <1>1 DEF NotSetUp, Busy, Announced
<1> QED BY <1>1, <1>3, <1>4 DEF RingInv
LEMMA OthersKeepRings ==
    ASSUME RingInv,
           ServeEnds \/ Notify \/ Acknowledge \/ LeaveHandler \/ Undefined \/ UNCHANGED vars
    PROVE  RingInv'
<1>1. CASE ServeEnds
  <2>1. /\ UNCHANGED <<num, last_avail_idx, ringVars, chains, qsize, seen, clean>>
        /\ loop_avail' = Idle /\ loop_avail # Idle
        /\ ring_irq' = ring_irq /\ in_handler' = in_handler
    BY <1>1 DEF ServeEnds, EndNotify, driverVars
  <2>2. CASE clean
    <3>1. qsize # 0 /\ Announced'
      BY <2>1, <2>2 DEF RingInv, NotSetUp, Announced, ringVars
    <3> QED BY <2>1, <3>1, RingsUntouched
  <2>3. CASE ~clean
    <3>1. RingTypes'
      BY <2>1 DEF RingInv, RingTypes, ringVars, IsRing
    <3> QED BY <2>1, <2>3, <3>1 DEF RingInv
  <2> QED BY <2>2, <2>3
<1>2. CASE Notify
  <2>1. /\ UNCHANGED <<num, last_avail_idx, ringVars, chains, qsize, seen, clean>>
        /\ loop_avail' = avail_idx /\ clean /\ qsize # 0
        /\ ring_irq' = ring_irq /\ in_handler' = in_handler
    BY <1>2 DEF Notify, BeginNotify, GuestRuns, driverVars
  <2>2. Announced'
    BY <2>1 DEF RingInv, Announced, ringVars
  <2> QED BY <2>1, <2>2, RingsUntouched
<1>3. CASE Acknowledge
  <2>1. /\ UNCHANGED <<num, last_avail_idx, ringVars, chains, qsize, seen, clean>>
        /\ loop_avail' = loop_avail
        /\ in_handler' = TRUE
    BY <1>3 DEF Acknowledge
  <2>2. Announced'
    BY <2>1 DEF Announced
  <2> QED BY <2>1, <2>2, RingsUntouched
<1>4. CASE LeaveHandler
  <2>1. /\ UNCHANGED <<num, last_avail_idx, ringVars, chains, qsize, seen, clean>>
        /\ loop_avail' = loop_avail /\ seen = used_idx
    BY <1>4 DEF LeaveHandler, queueVars
  <2>2. Announced'
    BY <2>1 DEF Announced, ringVars
  <2> QED BY <2>1, <2>2, RingsUntouched
<1>5. CASE Undefined \/ UNCHANGED vars
  <2>1. UNCHANGED vars
    BY <1>5 DEF Undefined
  <2>2. /\ UNCHANGED <<num, last_avail_idx, ringVars, chains, qsize, seen, clean>>
        /\ loop_avail' = loop_avail
        /\ ring_irq' = ring_irq /\ in_handler' = in_handler
    BY <2>1 DEF vars, queueVars, driverVars
  <2>3. clean => Announced'
    BY <2>2 DEF RingInv, Announced, ringVars
  <2> QED BY <2>2, <2>3, RingsUntouched
<1> QED BY <1>1, <1>2, <1>3, <1>4, <1>5

LEMMA RingInvStep == RingInv /\ [Next]_vars => RingInv'
BY ServeKeepsRings, SetUpKeepsRings, SubmitKeepsRings, CollectKeepsRings, ResetKeepsRings,
   OthersKeepRings DEF Next

\* In every behaviour the rings are as the invariant says.
THEOREM RingsAreKept == Spec => []RingInv
BY RingInvInit, RingInvStep, PTL DEF Spec

\* A chain is in one ring, once, and is one that the driver has under way,
\* however often the rings and their indices have wrapped.
THEOREM ChainsAreOwnedOnce == Spec => []ChainOwnedOnce
<1>1. RingInv => ChainOwnedOnce
  <2> SUFFICES ASSUME RingInv, clean PROVE ChainOwnedOnce
    BY DEF ChainOwnedOnce
  <2>1. OwnedOnce(WaitingHeads, Unseen, Busy)
    <3>1. CASE qsize = 0
      BY <3>1 DEF WaitingHeads, Unseen, OwnedOnce, IsInjective
    <3>2. CASE qsize # 0
      BY <3>2 DEF RingInv, SetUpSo
    <3> QED BY <3>1, <3>2
  <2> QED BY <2>1 DEF OwnedOnce, ChainOwnedOnce, AnsweredHeads, Range
<1> QED BY <1>1, RingsAreKept, PTL

\* A completion that the driver has not seen is announced.
THEOREM CompletionsAreAnnounced == Spec => []CompletionAnnounced
<1>1. RingInv => CompletionAnnounced
  <2> SUFFICES ASSUME RingInv, clean, Unseen # <<>> PROVE ring_irq \/ in_handler
    BY DEF CompletionAnnounced
  <2>1. Announced /\ RingTypes
    BY DEF RingInv
  <2>2. seen # used_idx
    <3>1. CASE seen = used_idx
      <4>1. Distance(seen, used_idx) = 0
        BY <2>1, <3>1, IndexFacts DEF RingTypes
      <4> QED BY <4>1 DEF Unseen
    <3> QED BY <3>1
  <2> QED BY <2>1, <2>2 DEF Announced
<1> QED BY <1>1, RingsAreKept, PTL
=============================================================================
