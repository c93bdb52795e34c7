------------------------- MODULE BlockServiceProofs -------------------------
(***************************************************************************)
(* The proof that BlockQueue implements BlockService, for every size of    *)
(* the rings and the disk and every set of requests, and that it is type   *)
(* correct.                                                                *)
(***************************************************************************)
EXTENDS BlockQueueProofs

(***************************************************************************)
(* Sums over at most three descriptors.                                    *)
(***************************************************************************)
IsSum(g, f, S) ==
    g = [s \in SUBSET S |-> IF s = {} THEN 0
                            ELSE LET x == CHOOSE x \in s : TRUE IN f[x] + g[s \ {x}]]

\* What descriptor i contributes to the sum over s.
Part(f, s, i) == IF i \in s THEN f[i] ELSE 0

PartsOf(f, s) == (Part(f, s, 1) + Part(f, s, 2)) + Part(f, s, 3)

LEMMA SumDef ==
    ASSUME NEW f, NEW S
    PROVE  SumFunctionOnSet(f, S) = (CHOOSE g : IsSum(g, f, S))[S]
BY DEF SumFunctionOnSet, FoldFunctionOnSet, MapThenFoldSet, IsSum

LEMMA PartsStep ==
    ASSUME NEW f, NEW s \in SUBSET {1, 2, 3}, \A i \in {1, 2, 3} : i \in s => f[i] \in Nat,
           NEW x \in s
    PROVE  PartsOf(f, s) = f[x] + PartsOf(f, s \ {x})
BY DEF PartsOf, Part

LEMMA SumOfThree ==
    ASSUME NEW f, NEW S \in SUBSET {1, 2, 3}, \A i \in S : f[i] \in Nat
    PROVE  SumFunctionOnSet(f, S) = PartsOf(f, S)
<1> DEFINE pick(s) == CHOOSE x \in s : TRUE
<1>1. \A s \in SUBSET S : s # {} => PartsOf(f, s) = f[pick(s)] + PartsOf(f, s \ {pick(s)})
  <2> SUFFICES ASSUME NEW s \in SUBSET S, s # {}
               PROVE  PartsOf(f, s) = f[pick(s)] + PartsOf(f, s \ {pick(s)})
    OBVIOUS
  <2>1. pick(s) \in s
    OBVIOUS
  <2>2. s \in SUBSET {1, 2, 3} /\ \A i \in {1, 2, 3} : i \in s => f[i] \in Nat
    OBVIOUS
  <2> HIDE DEF pick
  <2> QED BY <2>1, <2>2, PartsStep
<1>2. \E g : IsSum(g, f, S)
  <2> DEFINE h == [s \in SUBSET S |-> PartsOf(f, s)]
  <2>1. PartsOf(f, {}) = 0
    BY DEF PartsOf, Part
  <2>2. h = [s \in SUBSET S |-> IF s = {} THEN 0 ELSE f[pick(s)] + h[s \ {pick(s)}]]
    <3> SUFFICES ASSUME NEW s \in SUBSET S
                 PROVE  PartsOf(f, s) = IF s = {} THEN 0 ELSE f[pick(s)] + h[s \ {pick(s)}]
      OBVIOUS
    <3>1. s \ {pick(s)} \in SUBSET S
      OBVIOUS
    <3>2. h[s \ {pick(s)}] = PartsOf(f, s \ {pick(s)})
      BY <3>1
    <3> HIDE DEF h, pick
    <3> QED BY <1>1, <2>1, <3>2
  <2> HIDE DEF h
  <2>3. IsSum(h, f, S)
    BY <2>2 DEF IsSum
  <2> QED BY <2>3
<1> DEFINE g == CHOOSE g : IsSum(g, f, S)
<1>3. IsSum(g, f, S)
  BY <1>2
<1> HIDE DEF g
<1>4. \A s \in SUBSET S : g[s] = IF s = {} THEN 0 ELSE f[pick(s)] + g[s \ {pick(s)}]
  BY <1>3 DEF IsSum
<1>5. \A s \in SUBSET S : s # {} => pick(s) \in s
  OBVIOUS
<1> HIDE DEF pick
<1>6. g[{}] = PartsOf(f, {})
  BY <1>4 DEF PartsOf, Part
<1>7. \A a \in S : g[{a}] = PartsOf(f, {a})
  <2> SUFFICES ASSUME NEW a \in S PROVE g[{a}] = PartsOf(f, {a})
    OBVIOUS
  <2>1. {a} \in SUBSET S /\ pick({a}) = a /\ {a} \ {a} = {} /\ {a} # {}
    BY <1>5
  <2> QED BY <1>1, <1>4, <1>6, <2>1
<1>8. \A a \in S, b \in S : g[{a, b}] = PartsOf(f, {a, b})
  <2> SUFFICES ASSUME NEW a \in S, NEW b \in S PROVE g[{a, b}] = PartsOf(f, {a, b})
    OBVIOUS
  <2> DEFINE p == pick({a, b})
             r == {a, b} \ {p}
  <2>1. {a, b} \in SUBSET S /\ {a, b} # {} /\ p \in {a, b}
    BY <1>5
  <2>2. r = {} \/ r = {a} \/ r = {b}
    BY <2>1
  <2>3. g[r] = PartsOf(f, r)
    BY <1>6, <1>7, <2>2
  <2>4. g[{a, b}] = f[p] + g[r]
    BY <1>4, <2>1
  <2> QED BY <1>1, <2>1, <2>3, <2>4
<1>9. \A a \in S, b \in S, c \in S : g[{a, b, c}] = PartsOf(f, {a, b, c})
  <2> SUFFICES ASSUME NEW a \in S, NEW b \in S, NEW c \in S
               PROVE  g[{a, b, c}] = PartsOf(f, {a, b, c})
    OBVIOUS
  <2> DEFINE p == pick({a, b, c})
             r == {a, b, c} \ {p}
  <2>1. {a, b, c} \in SUBSET S /\ {a, b, c} # {} /\ p \in {a, b, c}
    BY <1>5
  <2>2. r = {} \/ \E u \in S, v \in S : r = {u, v}
    <3>1. CASE p = a
      BY <2>1, <3>1
    <3>2. CASE p = b
      BY <2>1, <3>2
    <3>3. CASE p = c
      BY <2>1, <3>3
    <3> QED BY <2>1, <3>1, <3>2, <3>3
  <2>3. g[r] = PartsOf(f, r)
    <3> HIDE DEF p, r
    <3>1. CASE r = {}
      BY <1>6, <3>1
    <3>2. ASSUME NEW u \in S, NEW v \in S, r = {u, v}
          PROVE  g[r] = PartsOf(f, r)
      BY <1>8, <3>2
    <3> QED BY <2>2, <3>1, <3>2
  <2>4. g[{a, b, c}] = f[p] + g[r]
    BY <1>4, <2>1
  <2> QED BY <1>1, <2>1, <2>3, <2>4
<1>10. g[S] = PartsOf(f, S)
  <2>1. CASE S = {}
    BY <1>6, <2>1
  <2>2. ASSUME NEW a \in S, NEW b \in S, NEW c \in S, S = {a, b, c}
        PROVE  g[S] = PartsOf(f, S)
    BY <1>9, <2>2
  <2>3. S = {} \/ \E a \in S, b \in S, c \in S : S = {a, b, c}
    <3>1. CASE 1 \in S
      <4>1. S = {1} \/ S = {1, 2} \/ S = {1, 3} \/ S = {1, 2, 3}
        BY <3>1
      <4>2. /\ {1} = {1, 1, 1} /\ {1, 2} = {1, 2, 2} /\ {1, 3} = {1, 3, 3}
        OBVIOUS
      <4> QED BY <4>1, <4>2
    <3>2. CASE 1 \notin S
      <4>1. S = {} \/ S = {2} \/ S = {3} \/ S = {2, 3}
        BY <3>2
      <4>2. /\ {2} = {2, 2, 2} /\ {3} = {3, 3, 3} /\ {2, 3} = {2, 3, 3}
        OBVIOUS
      <4> QED BY <4>1, <4>2
    <3> QED BY <3>1, <3>2
  <2> QED BY <2>1, <2>2, <2>3
<1> QED BY <1>10, SumDef DEF g

-----------------------------------------------------------------------------
(***************************************************************************)
(* The walks over a chain of two or three descriptors whose first `r` are  *)
(* for the device to read and whose others are for it to write.            *)
(***************************************************************************)
IsChain(c) ==
    /\ Len(c) \in {2, 3} /\ DOMAIN c = 1 .. Len(c)
    /\ \A i \in DOMAIN c : c[i].len \in Nat

IsOrdered(c, r) ==
    /\ IsChain(c) /\ r \in 1 .. Len(c) - 1
    /\ \A i \in DOMAIN c : i <= r => c[i].write = FALSE
    /\ \A i \in DOMAIN c : i > r => c[i].write = TRUE

Lengths(c) == [j \in DOMAIN c |-> c[j].len]

\* Where each descriptor of a chain begins.
LEMMA StartOf ==
    ASSUME NEW c, IsChain(c)
    PROVE  /\ Start(c, 1) = 0 /\ Start(c, 2) = c[1].len
           /\ Start(c, 3) = c[1].len + c[2].len
           /\ Len(c) = 3 => Start(c, 4) = (c[1].len + c[2].len) + c[3].len
<1>1. ASSUME NEW n \in 1 .. 4, n - 1 <= Len(c)
      PROVE  Start(c, n) = PartsOf(Lengths(c), 1 .. n - 1)
  <2>1. 1 .. n - 1 \in SUBSET {1, 2, 3} /\ \A i \in 1 .. n - 1 : Lengths(c)[i] \in Nat
    BY <1>1 DEF IsChain, Lengths
  <2> QED BY <2>1, SumOfThree DEF Start, Lengths
<1>2. /\ Start(c, 1) = PartsOf(Lengths(c), 1 .. 1 - 1)
      /\ Start(c, 2) = PartsOf(Lengths(c), 1 .. 2 - 1)
      /\ Start(c, 3) = PartsOf(Lengths(c), 1 .. 3 - 1)
      /\ Len(c) = 3 => Start(c, 4) = PartsOf(Lengths(c), 1 .. 4 - 1)
  BY <1>1 DEF IsChain
<1>3. /\ Lengths(c)[1] = c[1].len /\ Lengths(c)[2] = c[2].len
      /\ Len(c) = 3 => Lengths(c)[3] = c[3].len
      /\ c[1].len \in Nat /\ c[2].len \in Nat /\ (Len(c) = 3 => c[3].len \in Nat)
  BY DEF Lengths, IsChain
<1> QED BY <1>2, <1>3 DEF PartsOf, Part

\* The sums over the readable and over the writable part.
ReadableSize(c) ==
    SumFunctionOnSet([j \in DOMAIN c |-> c[j].len], {j \in DOMAIN c : ~c[j].write})

WritableSize(c) ==
    SumFunctionOnSet([j \in DOMAIN c |-> c[j].len], {j \in DOMAIN c : c[j].write})

LEMMA SumsAre ==
    ASSUME NEW c, NEW r, IsOrdered(c, r)
    PROVE  /\ ReadableSize(c) = Start(c, r + 1)
           /\ WritableSize(c) = Start(c, Len(c) + 1) - Start(c, r + 1)
<1> DEFINE R == {j \in DOMAIN c : ~c[j].write}
           W == {j \in DOMAIN c : c[j].write}
<1>1. /\ R \in SUBSET {1, 2, 3} /\ W \in SUBSET {1, 2, 3}
      /\ \A i \in R : Lengths(c)[i] \in Nat
      /\ \A i \in W : Lengths(c)[i] \in Nat
  BY DEF IsOrdered, IsChain, Lengths
<1>2. /\ ReadableSize(c) = PartsOf(Lengths(c), R)
      /\ WritableSize(c) = PartsOf(Lengths(c), W)
  BY <1>1, SumOfThree DEF ReadableSize, WritableSize, Lengths
<1>3. /\ R = 1 .. r /\ W = r + 1 .. Len(c)
  BY DEF IsOrdered, IsChain
<1>4. /\ Lengths(c)[1] = c[1].len /\ Lengths(c)[2] = c[2].len
      /\ Len(c) = 3 => Lengths(c)[3] = c[3].len
      /\ c[1].len \in Nat /\ c[2].len \in Nat /\ (Len(c) = 3 => c[3].len \in Nat)
      /\ (Len(c) = 2 /\ r = 1) \/ (Len(c) = 3 /\ r = 1) \/ (Len(c) = 3 /\ r = 2)
  BY DEF Lengths, IsChain, IsOrdered
<1>5. IsChain(c)
  BY DEF IsOrdered
<1> HIDE DEF R, W
<1>6. /\ Start(c, 2) = c[1].len /\ Start(c, 3) = c[1].len + c[2].len
      /\ Len(c) = 3 => Start(c, 4) = (c[1].len + c[2].len) + c[3].len
  BY <1>5, StartOf
<1>7. CASE Len(c) = 2 /\ r = 1
  BY <1>2, <1>3, <1>4, <1>6, <1>7 DEF PartsOf, Part
<1>8. CASE Len(c) = 3 /\ r = 1
  BY <1>2, <1>3, <1>4, <1>6, <1>8 DEF PartsOf, Part
<1>9. CASE Len(c) = 3 /\ r = 2
  BY <1>2, <1>3, <1>4, <1>6, <1>9 DEF PartsOf, Part
<1> QED BY <1>4, <1>7, <1>8, <1>9

LEMMA GreatestIs ==
    ASSUME NEW S \in SUBSET Int, NEW m \in S, \A j \in S : j <= m
    PROVE  (CHOOSE i \in S : \A j \in S : j <= i) = m
<1> DEFINE g == CHOOSE i \in S : \A j \in S : j <= i
<1>1. g \in S /\ \A j \in S : j <= g
  OBVIOUS
<1> HIDE DEF g
<1>2. g <= m /\ m <= g /\ g \in Int /\ m \in Int
  BY <1>1
<1>3. g = m
  BY <1>2
<1> QED BY <1>3 DEF g

LEMMA LeastIs ==
    ASSUME NEW S \in SUBSET Int, NEW m \in S, \A j \in S : m <= j
    PROVE  (CHOOSE i \in S : \A j \in S : i <= j) = m
<1> DEFINE g == CHOOSE i \in S : \A j \in S : i <= j
<1>1. g \in S /\ \A j \in S : g <= j
  OBVIOUS
<1> HIDE DEF g
<1>2. g <= m /\ m <= g /\ g \in Int /\ m \in Int
  BY <1>1
<1>3. g = m
  BY <1>2
<1> QED BY <1>3 DEF g

\* What get_desc_rw_size says of such a chain.
LEMMA SizesAre ==
    ASSUME NEW c, NEW r, IsOrdered(c, r)
    PROVE  /\ get_desc_rw_size(c).ok
           /\ get_desc_rw_size(c).read = c[r].len
           /\ get_desc_rw_size(c).write = Start(c, Len(c) + 1) - Start(c, r + 1)
<1> DEFINE W == {i \in DOMAIN c : c[i].write}
           R == DOMAIN c \ W
           last == CHOOSE i \in R : \A j \in R : j <= i
<1>1. R = 1 .. r /\ W = r + 1 .. Len(c) /\ r \in 1 .. 2
  BY DEF IsOrdered, IsChain
<1>2. last = r
  <2>1. R \in SUBSET Int /\ r \in R /\ \A j \in R : j <= r
    BY <1>1
  <2> HIDE DEF R
  <2> QED BY <2>1, GreatestIs
<1>3. get_desc_rw_size(c) = [ok    |-> \A i \in R, j \in W : i < j,
                             read  |-> IF R = {} THEN 0 ELSE c[last].len,
                             write |-> WritableSize(c)]
  BY DEF get_desc_rw_size, WritableSize
<1>4. R # {} /\ \A i \in R, j \in W : i < j
  BY <1>1
<1> HIDE DEF R, W, last
<1>5. WritableSize(c) = Start(c, Len(c) + 1) - Start(c, r + 1)
  BY SumsAre
<1> QED BY <1>2, <1>3, <1>4, <1>5

\* A run ends where the direction changes or the chain does.
LEMMA RunEndIs ==
    ASSUME NEW c, Len(c) \in Nat, NEW i \in Nat, NEW k \in i .. Len(c), SameWay(c, i, k),
           k = Len(c) \/ ~SameWay(c, i, k + 1)
    PROVE  RunEnd(c, i) = Start(c, k + 1)
<1> DEFINE Ends(m) == SameWay(c, i, m) /\ (m = Len(c) \/ ~SameWay(c, i, m + 1))
<1>1. ASSUME NEW m \in i .. Len(c), NEW n \in i .. Len(c), Ends(m), Ends(n), m < n
      PROVE  FALSE
  <2>1. m + 1 \in i .. n /\ m # Len(c)
    BY <1>1
  <2>2. SameWay(c, i, m + 1)
    BY <1>1, <2>1 DEF SameWay
  <2> QED BY <1>1, <2>1, <2>2
<1>2. \A m \in i .. Len(c) : Ends(m) => m = k
  <2> SUFFICES ASSUME NEW m \in i .. Len(c), Ends(m) PROVE m = k
    OBVIOUS
  <2>1. Ends(k)
    OBVIOUS
  <2> HIDE DEF Ends
  <2>2. m \in Int /\ k \in Int
    OBVIOUS
  <2>3. ~(m < k) /\ ~(k < m)
    BY <1>1, <2>1
  <2> QED BY <2>2, <2>3
<1>3. Ends(k)
  OBVIOUS
<1>4. RunEnd(c, i) = Start(c, (CHOOSE m \in i .. Len(c) : Ends(m)) + 1)
  BY DEF RunEnd
<1> HIDE DEF Ends
<1>5. (CHOOSE m \in i .. Len(c) : Ends(m)) = k
  BY <1>2, <1>3
<1> QED BY <1>4, <1>5

\* The readable descriptors go one way and the writable ones the other.
LEMMA SameWayIs ==
    ASSUME NEW c, NEW r, IsOrdered(c, r), NEW i \in DOMAIN c, NEW k \in i .. Len(c)
    PROVE  SameWay(c, i, k) <=> (k <= r \/ i > r)
<1>1. /\ Len(c) \in 2 .. 3 /\ r \in 1 .. Len(c) - 1 /\ DOMAIN c = 1 .. Len(c)
      /\ i \in 1 .. Len(c) /\ k \in 1 .. Len(c)
  BY DEF IsOrdered, IsChain
<1>2. ASSUME NEW j \in i .. k
      PROVE  c[j].write = c[i].write <=> (j <= r \/ i > r)
  <2>1. j \in DOMAIN c /\ i \in DOMAIN c /\ i <= j
    BY <1>1
  <2>2. j <= r => c[j].write = FALSE
    BY <2>1 DEF IsOrdered
  <2>3. j > r => c[j].write = TRUE
    BY <2>1 DEF IsOrdered
  <2>4. i <= r => c[i].write = FALSE
    BY DEF IsOrdered
  <2>5. i > r => c[i].write = TRUE
    BY DEF IsOrdered
  <2>6. (j <= r \/ j > r) /\ (i <= r \/ i > r) /\ ~(i > r /\ j <= r)
    BY <1>1, <2>1
  <2> QED BY <2>2, <2>3, <2>4, <2>5, <2>6
<1>3. SameWay(c, i, k) <=> \A j \in i .. k : j <= r \/ i > r
  BY <1>2 DEF SameWay
<1> QED BY <1>1, <1>3

\* A copy that starts at a place and would have to stop at an end.
Outcome(place, end, count) ==
    IF count <= end - place THEN [ok |-> TRUE, place |-> place, count |-> count]
    ELSE [ok |-> FALSE, place |-> place, count |-> end - place]

CopyIn(c, offset, count) == virtual_memcpy_to_from_queue(c, offset, count, FALSE)
CopyOut(c, count) == virtual_memcpy_to_from_queue(c, 0, count, TRUE)

\* Where the search of the second loop compares descriptor i with what.
Off(c, from, offset, i) == IF i = from THEN offset ELSE c[i - 1].len

LEMMA CopyInIs ==
    ASSUME NEW c, NEW r, IsOrdered(c, r), NEW offset, NEW count, count # 0,
           NEW hit \in 1 .. r, Off(c, 1, offset, hit) < c[hit].len,
           \A j \in 1 .. r : j < hit => ~(Off(c, 1, offset, j) < c[j].len)
    PROVE  CopyIn(c, offset, count)
             = Outcome(Start(c, hit) + Off(c, 1, offset, hit), Start(c, r + 1), count)
<1> DEFINE off(i) == IF i = 1 THEN offset ELSE c[i - 1].len
           hits   == {i \in 1 .. Len(c) : /\ c[1].write = FALSE /\ SameWay(c, 1, i)
                                          /\ off(i) < c[i].len}
           best   == CHOOSE i \in hits : \A j \in hits : i <= j
           place  == Start(c, best) + off(best)
           room   == RunEnd(c, best) - place
<1>1. CopyIn(c, offset, count)
        = IF count = 0 THEN [ok |-> TRUE, place |-> 0, count |-> 0]
          ELSE IF {i \in DOMAIN c : FALSE => c[i].write} = {} \/ hits = {} THEN NoCopy
          ELSE IF count <= room THEN [ok |-> TRUE, place |-> place, count |-> count]
          ELSE [ok |-> FALSE, place |-> place, count |-> room]
  BY DEF CopyIn, virtual_memcpy_to_from_queue
<1>2. 1 \in {i \in DOMAIN c : FALSE => c[i].write}
  BY DEF IsOrdered, IsChain
<1>3. Len(c) \in 2 .. 3 /\ r \in 1 .. Len(c) - 1 /\ DOMAIN c = 1 .. Len(c)
  BY DEF IsOrdered, IsChain
<1>4. \A i \in 1 .. Len(c) : SameWay(c, 1, i) <=> i <= r
  <2> SUFFICES ASSUME NEW i \in 1 .. Len(c) PROVE SameWay(c, 1, i) <=> i <= r
    OBVIOUS
  <2>1. 1 \in DOMAIN c /\ ~(1 > r)
    BY <1>3
  <2> QED BY <2>1, SameWayIs
<1>5. hits \in SUBSET Int /\ hit \in hits /\ \A j \in hits : hit <= j
  BY <1>3, <1>4 DEF IsOrdered, Off
<1>6. best = hit
  <2> HIDE DEF hits
  <2> QED BY <1>5, LeastIs
<1>7. RunEnd(c, hit) = Start(c, r + 1)
  <2>1. SameWay(c, hit, r) /\ ~SameWay(c, hit, r + 1)
    <3>1. hit \in DOMAIN c /\ r \in hit .. Len(c) /\ r + 1 \in hit .. Len(c) /\ ~(hit > r)
          /\ ~(r + 1 <= r)
      BY <1>3
    <3> QED BY <3>1, SameWayIs
  <2>2. Len(c) \in Nat /\ hit \in Nat /\ r \in hit .. Len(c)
    BY <1>3
  <2> QED BY <2>1, <2>2, RunEndIs
<1>8. off(hit) = Off(c, 1, offset, hit)
  BY DEF Off
<1>9. hits # {}
  BY <1>5
<1> HIDE DEF hits, best, off
<1> QED BY <1>1, <1>2, <1>6, <1>7, <1>8, <1>9 DEF Outcome

LEMMA CopyOutIs ==
    ASSUME NEW c, NEW r, IsOrdered(c, r), NEW count, count # 0, c[r + 1].len # 0
    PROVE  CopyOut(c, count) = Outcome(Start(c, r + 1), Start(c, Len(c) + 1), count)
<1> DEFINE heads == {i \in DOMAIN c : TRUE => c[i].write}
           from   == CHOOSE i \in heads : \A j \in heads : i <= j
           off(i) == IF i = from THEN 0 ELSE c[i - 1].len
           hits   == {i \in from .. Len(c) : /\ c[from].write = TRUE /\ SameWay(c, from, i)
                                             /\ off(i) < c[i].len}
           best   == CHOOSE i \in hits : \A j \in hits : i <= j
           place  == Start(c, best) + off(best)
           room   == RunEnd(c, best) - place
<1>1. CopyOut(c, count)
        = IF count = 0 THEN [ok |-> TRUE, place |-> 0, count |-> 0]
          ELSE IF heads = {} \/ hits = {} THEN NoCopy
          ELSE IF count <= room THEN [ok |-> TRUE, place |-> place, count |-> count]
          ELSE [ok |-> FALSE, place |-> place, count |-> room]
  BY DEF CopyOut, virtual_memcpy_to_from_queue
<1>2. Len(c) \in 2 .. 3 /\ r \in 1 .. Len(c) - 1 /\ DOMAIN c = 1 .. Len(c)
  BY DEF IsOrdered, IsChain
<1>3. heads = r + 1 .. Len(c)
  BY <1>2 DEF IsOrdered
<1>4. from = r + 1
  <2>1. heads \in SUBSET Int /\ r + 1 \in heads /\ \A j \in heads : r + 1 <= j
    BY <1>2, <1>3
  <2> HIDE DEF heads
  <2> QED BY <2>1, LeastIs
<1>5. heads # {}
  BY <1>2, <1>3
<1> HIDE DEF heads, from
<1>6. off(from) = 0 /\ c[from].len > 0 /\ c[from].write = TRUE /\ SameWay(c, from, from)
  BY <1>2, <1>4 DEF IsOrdered, IsChain, SameWay
<1>7. hits \in SUBSET Int /\ from \in hits /\ \A j \in hits : from <= j
  BY <1>2, <1>4, <1>6
<1>8. best = from
  <2> HIDE DEF hits
  <2> QED BY <1>7, LeastIs
<1>9. RunEnd(c, r + 1) = Start(c, Len(c) + 1)
  <2>1. SameWay(c, r + 1, Len(c))
    <3>1. r + 1 \in DOMAIN c /\ Len(c) \in r + 1 .. Len(c) /\ r + 1 > r
      BY <1>2
    <3> QED BY <3>1, SameWayIs
  <2>2. Len(c) \in Nat /\ r + 1 \in Nat /\ Len(c) \in r + 1 .. Len(c)
    BY <1>2
  <2> QED BY <2>1, <2>2, RunEndIs
<1>10. hits # {}
  BY <1>7
<1>11. Start(c, r + 1) \in Int
  <2>1. IsChain(c) /\ c[1].len \in Nat /\ c[2].len \in Nat
    BY DEF IsOrdered, IsChain
  <2>2. Start(c, 2) \in Int /\ Start(c, 3) \in Int
    BY <2>1, StartOf
  <2>3. r + 1 = 2 \/ r + 1 = 3
    BY <1>2
  <2> QED BY <2>2, <2>3
<1>12. place = Start(c, r + 1)
  <2>1. place = Start(c, best) + off(best)
    OBVIOUS
  <2> HIDE DEF place, best, off
  <2> QED BY <1>4, <1>6, <1>8, <1>11, <2>1
<1> HIDE DEF hits, best, off, place
<1> QED BY <1>1, <1>4, <1>5, <1>8, <1>9, <1>10, <1>12 DEF Outcome

-----------------------------------------------------------------------------
(***************************************************************************)
(* The chains of the requests.                                             *)
(***************************************************************************)
Pair(a, b) == <<Descriptor(a, FALSE), Descriptor(b, TRUE)>>

LEMMA PairIsOrdered ==
    ASSUME NEW a \in Nat, NEW b \in Nat
    PROVE  /\ IsOrdered(Pair(a, b), 1) /\ Len(Pair(a, b)) = 2
           /\ Pair(a, b)[1].len = a /\ Pair(a, b)[2].len = b
           /\ Start(Pair(a, b), 1) = 0 /\ Start(Pair(a, b), 2) = a
           /\ Start(Pair(a, b), 3) = a + b
<1> DEFINE c == Pair(a, b)
<1>1. /\ Len(c) = 2 /\ DOMAIN c = 1 .. 2
      /\ c[1].len = a /\ c[2].len = b /\ c[1].write = FALSE /\ c[2].write = TRUE
  BY DEF Pair, Descriptor
<1> HIDE DEF c
<1>2. IsOrdered(c, 1) /\ IsChain(c)
  <2>1. \A i \in DOMAIN c : i = 1 \/ i = 2
    BY <1>1
  <2> QED BY <1>1, <2>1 DEF IsOrdered, IsChain
<1>3. Start(c, 1) = 0 /\ Start(c, 2) = a /\ Start(c, 3) = a + b
  BY <1>1, <1>2, StartOf
<1> QED BY <1>1, <1>2, <1>3 DEF c

\* Header, data for the driver or for the device, status.
ReadTriple(a, b) == <<Descriptor(a, FALSE), Descriptor(b, TRUE), Descriptor(1, TRUE)>>
WriteTriple(a, b) == <<Descriptor(a, FALSE), Descriptor(b, FALSE), Descriptor(1, TRUE)>>

IsTriple(c, r, a, b) ==
    /\ IsOrdered(c, r) /\ Len(c) = 3
    /\ c[1].len = a /\ c[2].len = b /\ c[3].len = 1
    /\ Start(c, 1) = 0 /\ Start(c, 2) = a /\ Start(c, 3) = a + b
    /\ Start(c, 4) = (a + b) + 1

LEMMA TriplesAreOrdered ==
    ASSUME NEW a \in Nat, NEW b \in Nat
    PROVE  IsTriple(ReadTriple(a, b), 1, a, b) /\ IsTriple(WriteTriple(a, b), 2, a, b)
<1>1. ASSUME NEW c, NEW r \in {1, 2}, Len(c) = 3, DOMAIN c = 1 .. 3,
             c[1].len = a, c[2].len = b, c[3].len = 1,
             c[1].write = FALSE, c[3].write = TRUE,
             r = 1 => c[2].write = TRUE, r = 2 => c[2].write = FALSE
      PROVE  IsTriple(c, r, a, b)
  <2>1. \A i \in DOMAIN c : i = 1 \/ i = 2 \/ i = 3
    BY <1>1
  <2>2. IsOrdered(c, r) /\ IsChain(c)
    BY <1>1, <2>1 DEF IsOrdered, IsChain
  <2>3. /\ Start(c, 1) = 0 /\ Start(c, 2) = c[1].len
        /\ Start(c, 3) = c[1].len + c[2].len
        /\ Start(c, 4) = (c[1].len + c[2].len) + c[3].len
    BY <1>1, <2>2, StartOf
  <2> QED BY <1>1, <2>2, <2>3 DEF IsTriple
<1>2. IsTriple(ReadTriple(a, b), 1, a, b)
  <2> DEFINE c == ReadTriple(a, b)
  <2>1. /\ Len(c) = 3 /\ DOMAIN c = 1 .. 3
        /\ c[1].len = a /\ c[2].len = b /\ c[3].len = 1
        /\ c[1].write = FALSE /\ c[2].write = TRUE /\ c[3].write = TRUE
    BY DEF ReadTriple, Descriptor
  <2> HIDE DEF c
  <2>2. IsTriple(c, 1, a, b)
    BY <1>1, <2>1
  <2> QED BY <2>2 DEF c
<1>3. IsTriple(WriteTriple(a, b), 2, a, b)
  <2> DEFINE c == WriteTriple(a, b)
  <2>1. /\ Len(c) = 3 /\ DOMAIN c = 1 .. 3
        /\ c[1].len = a /\ c[2].len = b /\ c[3].len = 1
        /\ c[1].write = FALSE /\ c[2].write = FALSE /\ c[3].write = TRUE
    BY DEF WriteTriple, Descriptor
  <2> HIDE DEF c
  <2>2. IsTriple(c, 2, a, b)
    BY <1>1, <2>1
  <2> QED BY <2>2 DEF c
<1> QED BY <1>2, <1>3

\* The number of bytes a request moves.
Bytes(req) == req.count * SectorSize

Moves(req) == req \in Requests /\ req.type \in {"in", "out"}

LEMMA RequestValues ==
    ASSUME NEW req, Moves(req)
    PROVE  /\ HeaderLen \in Nat \ {0} /\ SectorSize \in Nat \ {0} /\ HeaderLen < SectorSize
           /\ req.count \in Nat \ {0} /\ req.sector \in Nat
           /\ Bytes(req) \in Nat /\ SectorSize <= Bytes(req)
           /\ Bytes(req) \div SectorSize = req.count
           /\ (Bytes(req) - HeaderLen) \div SectorSize = req.count - 1
<1>1. /\ HeaderLen \in Nat \ {0} /\ SectorSize \in Nat \ {0} /\ HeaderLen < SectorSize
      /\ req.count \in Nat \ {0} /\ req.sector \in Nat
  BY BlockAssumption, RequestAssumption, DiskAssumption DEF Moves
<1> DEFINE n == req.count
           m == SectorSize
<1> HIDE DEF n, m
<1>2. n \in Nat \ {0} /\ m \in Nat \ {0}
  BY <1>1 DEF n, m
<1>3. n * m \in Nat /\ m <= n * m /\ n * m = (n * m) + 0 /\ n * m = ((n - 1) * m) + m
  BY <1>2
<1>4. (n * m) \div m = n
  BY <1>2, <1>3, DivModJoin
<1>5. ((n * m) - HeaderLen) \div m = n - 1
  <2>1. /\ (n * m) - HeaderLen = ((n - 1) * m) + (m - HeaderLen)
        /\ n - 1 \in Nat /\ m - HeaderLen \in Nat /\ m - HeaderLen < m
    BY <1>1, <1>2, <1>3 DEF m
  <2> QED BY <1>2, <2>1, DivModJoin
<1> QED BY <1>1, <1>3, <1>4, <1>5 DEF Bytes, n, m

\* A chain whose first descriptor has room for the header shows it.
LEMMA HeaderCopied ==
    ASSUME NEW c, NEW r, IsOrdered(c, r), NEW n \in Nat \ {0}, n <= c[1].len,
           Start(c, r + 1) \in Int, n <= Start(c, r + 1)
    PROVE  CopyIn(c, 0, n).ok
<1>1. 1 \in 1 .. r /\ c[1].len \in Nat /\ Start(c, 1) = 0
  <2>1. IsChain(c)
    BY DEF IsOrdered
  <2>2. r \in 1 .. Len(c) - 1 /\ Len(c) \in 2 .. 3
    BY DEF IsOrdered, IsChain
  <2>3. Start(c, 1) = 0
    BY <2>1, StartOf
  <2>4. c[1].len \in Nat
    BY DEF IsOrdered, IsChain
  <2> QED BY <2>2, <2>3, <2>4
<1>2. Off(c, 1, 0, 1) = 0 /\ Off(c, 1, 0, 1) < c[1].len
  BY <1>1 DEF Off
<1>3. \A j \in 1 .. r : j < 1 => ~(Off(c, 1, 0, j) < c[j].len)
  OBVIOUS
<1>4. CopyIn(c, 0, n) = Outcome(Start(c, 1) + Off(c, 1, 0, 1), Start(c, r + 1), n)
  BY <1>1, <1>2, <1>3, CopyInIs
<1>5. CopyIn(c, 0, n) = Outcome(0, Start(c, r + 1), n)
  BY <1>1, <1>2, <1>4
<1> QED BY <1>5 DEF Outcome

LEMMA HasHeaderIf ==
    ASSUME NEW req, get_desc_rw_size(ChainOf(req)).ok, CopyIn(ChainOf(req), 0, HeaderLen).ok
    PROVE  HasHeader(req)
BY DEF HasHeader, CopyIn

\* What the walks give for a request: where the device may put n bytes and how
\* large the readable part is.
Accepts(req, n, first) ==
    /\ HasHeader(req)
    /\ get_desc_rw_size(ChainOf(req)).write = n
    /\ CopyOut(ChainOf(req), n).place = first /\ CopyOut(ChainOf(req), n).count = n
    /\ ReadableSize(ChainOf(req)) = first

LEMMA AcceptsIf ==
    ASSUME NEW req, NEW r, IsOrdered(ChainOf(req), r), Moves(req),
           HeaderLen <= ChainOf(req)[1].len, ChainOf(req)[r + 1].len # 0,
           NEW first \in Nat, Start(ChainOf(req), r + 1) = first, HeaderLen <= first,
           NEW n \in Nat \ {0}, Start(ChainOf(req), Len(ChainOf(req)) + 1) = first + n
    PROVE  Accepts(req, n, first)
<1> DEFINE c == ChainOf(req)
<1> HIDE DEF c
<1>1. HeaderLen \in Nat \ {0}
  BY RequestValues
<1>2. CopyIn(c, 0, HeaderLen).ok
  BY <1>1, HeaderCopied DEF c
<1>3. get_desc_rw_size(c).ok /\ get_desc_rw_size(c).write = (first + n) - first
  BY SizesAre DEF c
<1>4. CopyOut(c, n) = Outcome(first, first + n, n)
  BY CopyOutIs DEF c
<1>5. ReadableSize(c) = first
  BY SumsAre DEF c
<1>6. HasHeader(req)
  BY <1>2, <1>3, HasHeaderIf DEF c
<1>7. n <= (first + n) - first /\ (first + n) - first = n
  OBVIOUS
<1>8. CopyOut(c, n).place = first /\ CopyOut(c, n).count = n
  BY <1>4, <1>7 DEF Outcome
<1> QED BY <1>3, <1>5, <1>6, <1>7, <1>8 DEF Accepts, c

\* Header for the device; data and status for the driver.
LEMMA ReadChain ==
    ASSUME NEW req, Moves(req), req.type = "in", req.layout \in {"joined", "split"}
    PROVE  Accepts(req, Bytes(req) + 1, HeaderLen)
<1> DEFINE n == Bytes(req)
<1>1. /\ HeaderLen \in Nat \ {0} /\ n \in Nat /\ n # 0 /\ HeaderLen <= HeaderLen
      /\ n + 1 \in Nat \ {0} /\ HeaderLen \in Nat
      /\ HeaderLen + (n + 1) = (HeaderLen + n) + 1
  BY RequestValues
<1>2. CASE req.layout = "joined"
  <2>1. ChainOf(req) = Pair(HeaderLen, n + 1)
    BY <1>2 DEF ChainOf, Pair, Bytes
  <2> DEFINE c == Pair(HeaderLen, n + 1)
  <2> HIDE DEF n, c
  <2>2. /\ IsOrdered(c, 1) /\ Len(c) = 2 /\ c[1].len = HeaderLen /\ c[2].len = n + 1
        /\ Start(c, 2) = HeaderLen /\ Start(c, 3) = HeaderLen + (n + 1)
    BY <1>1, PairIsOrdered DEF c
  <2>3. 1 + 1 = 2 /\ 2 + 1 = 3 /\ n + 1 # 0
    BY <1>1
  <2>4. ChainOf(req) = c
    BY <2>1 DEF c
  <2>5. Accepts(req, n + 1, HeaderLen)
    BY <1>1, <2>2, <2>3, <2>4, AcceptsIf
  <2> QED BY <2>5 DEF n
<1>3. CASE req.layout = "split"
  <2>1. ChainOf(req) = ReadTriple(HeaderLen, n)
    BY <1>3 DEF ChainOf, ReadTriple, Bytes
  <2> DEFINE c == ReadTriple(HeaderLen, n)
  <2> HIDE DEF n, c
  <2>2. IsTriple(c, 1, HeaderLen, n)
    BY <1>1, TriplesAreOrdered DEF c
  <2>3. /\ IsOrdered(c, 1) /\ Len(c) = 3 /\ c[1].len = HeaderLen /\ c[2].len = n
        /\ Start(c, 2) = HeaderLen /\ Start(c, 4) = HeaderLen + (n + 1)
    BY <1>1, <2>2 DEF IsTriple
  <2>4. 1 + 1 = 2 /\ 3 + 1 = 4
    OBVIOUS
  <2>5. ChainOf(req) = c
    BY <2>1 DEF c
  <2>6. Accepts(req, n + 1, HeaderLen)
    BY <1>1, <2>3, <2>4, <2>5, AcceptsIf
  <2> QED BY <2>6 DEF n
<1> QED BY <1>2, <1>3

\* Header and data for the device, status for the driver.
LEMMA WriteChain ==
    ASSUME NEW req, Moves(req), req.type = "out", req.layout = "joined"
    PROVE  /\ Accepts(req, 1, HeaderLen + Bytes(req))
           /\ get_desc_rw_size(ChainOf(req)).read = HeaderLen + Bytes(req)
           /\ CopyIn(ChainOf(req), HeaderLen, Bytes(req)).place = HeaderLen
           /\ CopyIn(ChainOf(req), HeaderLen, Bytes(req)).count = Bytes(req)
<1> DEFINE n == Bytes(req)
           c == ChainOf(req)
           all == HeaderLen + n
<1>1. /\ HeaderLen \in Nat \ {0} /\ n \in Nat /\ n # 0
      /\ all \in Nat /\ HeaderLen <= all /\ HeaderLen < all
  BY RequestValues
<1>2. c = Pair(all, 1)
  BY DEF ChainOf, Pair, Bytes
<1> HIDE DEF n, c, all
<1>3. /\ IsOrdered(c, 1) /\ Len(c) = 2 /\ c[1].len = all /\ c[2].len = 1
      /\ Start(c, 1) = 0 /\ Start(c, 2) = all /\ Start(c, 3) = all + 1
  <2>1. 1 \in Nat
    OBVIOUS
  <2>2. /\ IsOrdered(Pair(all, 1), 1) /\ Len(Pair(all, 1)) = 2
        /\ Pair(all, 1)[1].len = all /\ Pair(all, 1)[2].len = 1
        /\ Start(Pair(all, 1), 1) = 0 /\ Start(Pair(all, 1), 2) = all
        /\ Start(Pair(all, 1), 3) = all + 1
    BY <1>1, <2>1, PairIsOrdered, Zenon
  <2> QED BY <1>2, <2>2
<1>4. 1 + 1 = 2 /\ 2 + 1 = 3 /\ 1 \in Nat \ {0} /\ 1 # 0
  OBVIOUS
<1>5. Accepts(req, 1, all)
  BY <1>1, <1>3, <1>4, AcceptsIf DEF c
<1>6. get_desc_rw_size(c).read = all
  BY <1>3, SizesAre
<1>7. CopyIn(c, HeaderLen, n) = Outcome(HeaderLen, all, n)
  <2>1. Off(c, 1, HeaderLen, 1) = HeaderLen
    BY DEF Off
  <2>2. 1 \in 1 .. 1 /\ \A j \in 1 .. 1 : ~(j < 1)
    OBVIOUS
  <2>3. CopyIn(c, HeaderLen, n) = Outcome(Start(c, 1) + Off(c, 1, HeaderLen, 1), Start(c, 1 + 1), n)
    BY <1>1, <1>3, <2>1, <2>2, CopyInIs
  <2>4. 0 + HeaderLen = HeaderLen
    BY <1>1
  <2> QED BY <1>3, <1>4, <2>1, <2>3, <2>4
<1>8. n <= all - HeaderLen
  BY <1>1 DEF all
<1>9. CopyIn(c, HeaderLen, n).place = HeaderLen /\ CopyIn(c, HeaderLen, n).count = n
  BY <1>7, <1>8 DEF Outcome
<1> QED BY <1>5, <1>6, <1>9 DEF n, c, all

\* Header and data in two buffers: the size is taken from the second, the place
\* of the data is one header further on.
LEMMA SplitWriteChain ==
    ASSUME NEW req, Moves(req), req.type = "out", req.layout = "split"
    PROVE  /\ Accepts(req, 1, HeaderLen + Bytes(req))
           /\ get_desc_rw_size(ChainOf(req)).read = Bytes(req)
           /\ CopyIn(ChainOf(req), HeaderLen, Bytes(req) - HeaderLen).count = Bytes(req) - HeaderLen
<1> DEFINE n == Bytes(req)
           m == n - HeaderLen
           c == ChainOf(req)
           all == HeaderLen + n
<1>1. /\ HeaderLen \in Nat \ {0} /\ n \in Nat /\ n # 0 /\ HeaderLen < n
      /\ all \in Nat /\ HeaderLen <= all /\ m \in Nat /\ m # 0
  BY RequestValues
<1>2. c = WriteTriple(HeaderLen, n)
  BY DEF ChainOf, WriteTriple, Bytes
<1> HIDE DEF n, c, all, m
<1>3. IsTriple(c, 2, HeaderLen, n)
  BY <1>1, <1>2, TriplesAreOrdered
<1>4. /\ IsOrdered(c, 2) /\ Len(c) = 3
      /\ c[1].len = HeaderLen /\ c[2].len = n /\ c[3].len = 1
      /\ Start(c, 2) = HeaderLen /\ Start(c, 3) = all /\ Start(c, 4) = all + 1
  BY <1>3 DEF IsTriple, all
<1>5. 2 + 1 = 3 /\ 3 + 1 = 4 /\ 1 \in Nat \ {0} /\ 1 # 0
  OBVIOUS
<1>6. Accepts(req, 1, all)
  <2>1. /\ HeaderLen <= c[1].len /\ c[2 + 1].len # 0 /\ Start(c, 2 + 1) = all
        /\ Start(c, Len(c) + 1) = all + 1
    BY <1>1, <1>4, <1>5
  <2>2. c = ChainOf(req)
    BY DEF c
  <2> QED BY <1>1, <1>4, <1>5, <2>1, <2>2, AcceptsIf
<1>7. get_desc_rw_size(c).read = n
  BY <1>4, SizesAre
<1>8. CopyIn(c, HeaderLen, m) = Outcome(HeaderLen + HeaderLen, all, m)
  <2>1. Off(c, 1, HeaderLen, 1) = HeaderLen /\ Off(c, 1, HeaderLen, 2) = HeaderLen
    BY <1>4 DEF Off
  <2>2. 2 \in 1 .. 2
    OBVIOUS
  <2>3. \A j \in 1 .. 2 : j < 2 => ~(Off(c, 1, HeaderLen, j) < c[j].len)
    <3> SUFFICES ASSUME NEW j \in 1 .. 2, j < 2
                 PROVE  ~(Off(c, 1, HeaderLen, j) < c[j].len)
      OBVIOUS
    <3>1. j = 1
      OBVIOUS
    <3> QED BY <1>1, <1>4, <2>1, <3>1
  <2>4. Off(c, 1, HeaderLen, 2) < c[2].len
    BY <1>1, <1>4, <2>1
  <2>5. CopyIn(c, HeaderLen, m) = Outcome(Start(c, 2) + Off(c, 1, HeaderLen, 2), Start(c, 2 + 1), m)
    BY <1>1, <1>4, <2>2, <2>3, <2>4, CopyInIs
  <2> QED BY <1>4, <1>5, <2>1, <2>5
<1>9. m <= all - (HeaderLen + HeaderLen)
  BY <1>1 DEF all, m
<1>10. CopyIn(c, HeaderLen, m).count = m
  BY <1>8, <1>9 DEF Outcome
<1> QED BY <1>6, <1>7, <1>10 DEF n, m, c, all

\* Malformed chains are refused.
LEMMA MalformedChain ==
    ASSUME NEW req, req.layout \in {"mixed", "short"}, req.type \in {"in", "out"}
    PROVE  ~HasHeader(req)
<1> DEFINE c == ChainOf(req)
<1>1. CASE req.layout = "mixed"
  <2>1. c = <<Descriptor(1, TRUE), Descriptor(HeaderLen, FALSE)>>
    BY <1>1 DEF ChainOf
  <2>2. DOMAIN c = 1 .. 2 /\ c[1].write = TRUE /\ c[2].write = FALSE
    BY <2>1 DEF Descriptor
  <2> HIDE DEF c
  <2> DEFINE W == {i \in DOMAIN c : c[i].write}
             R == DOMAIN c \ W
  <2>3. 1 \in W /\ 2 \in R
    BY <2>2
  <2>4. get_desc_rw_size(c).ok <=> \A i \in R, j \in W : i < j
    BY DEF get_desc_rw_size
  <2> HIDE DEF W, R
  <2>5. ~get_desc_rw_size(c).ok
    BY <2>3, <2>4
  <2> QED BY <2>5 DEF HasHeader, c
<1>2. CASE req.layout = "short"
  <2> DEFINE h == HeaderLen - 1
  <2>1. c = Pair(h, 1)
    BY <1>2 DEF ChainOf, Pair
  <2>2. h \in Nat /\ HeaderLen \in Nat \ {0} /\ h < HeaderLen
    BY BlockAssumption, DiskAssumption
  <2> HIDE DEF c, h
  <2>3. /\ IsOrdered(c, 1) /\ Len(c) = 2 /\ c[1].len = h /\ c[2].len = 1
        /\ Start(c, 1) = 0 /\ Start(c, 2) = h
    <3>1. 1 \in Nat
      OBVIOUS
    <3>2. /\ IsOrdered(Pair(h, 1), 1) /\ Len(Pair(h, 1)) = 2
          /\ Pair(h, 1)[1].len = h /\ Pair(h, 1)[2].len = 1
          /\ Start(Pair(h, 1), 1) = 0 /\ Start(Pair(h, 1), 2) = h
          /\ Start(Pair(h, 1), 3) = h + 1
      BY <2>2, <3>1, PairIsOrdered, Zenon
    <3> QED BY <2>1, <3>2
  <2>4. ~CopyIn(c, 0, HeaderLen).ok
    <3>1. CASE h = 0
      <4> DEFINE off(i) == IF i = 1 THEN 0 ELSE c[i - 1].len
                 hits == {i \in 1 .. Len(c) : /\ c[1].write = FALSE /\ SameWay(c, 1, i)
                                              /\ off(i) < c[i].len}
      <4>1. SameWay(c, 1, 2) <=> (2 <= 1 \/ 1 > 1)
        <5>1. 1 \in DOMAIN c /\ 2 \in 1 .. Len(c)
          BY <2>3 DEF IsOrdered, IsChain
        <5> QED BY <2>3, <5>1, SameWayIs
      <4>2. hits = {}
        <5> SUFFICES ASSUME NEW i \in 1 .. 2, SameWay(c, 1, i), off(i) < c[i].len
                     PROVE  FALSE
          BY <2>3
        <5>1. i = 1
          BY <4>1
        <5> QED BY <2>3, <3>1, <5>1
      <4> HIDE DEF hits
      <4>3. CopyIn(c, 0, HeaderLen) = NoCopy
        BY <2>2, <4>2 DEF CopyIn, virtual_memcpy_to_from_queue, hits
      <4> QED BY <4>3 DEF NoCopy
    <3>2. CASE h # 0
      <4>1. Off(c, 1, 0, 1) = 0 /\ 1 \in 1 .. 1 /\ \A j \in 1 .. 1 : ~(j < 1)
        BY DEF Off
      <4>2. CopyIn(c, 0, HeaderLen) = Outcome(Start(c, 1) + Off(c, 1, 0, 1), Start(c, 1 + 1), HeaderLen)
        BY <2>2, <2>3, <3>2, <4>1, CopyInIs
      <4>3. CopyIn(c, 0, HeaderLen) = Outcome(0, h, HeaderLen)
        BY <2>3, <4>1, <4>2
      <4>4. ~(HeaderLen <= h - 0)
        BY <2>2
      <4> QED BY <4>3, <4>4 DEF Outcome
    <3> QED BY <3>1, <3>2
  <2> QED BY <2>4 DEF HasHeader, CopyIn, c
<1> QED BY <1>1, <1>2

-----------------------------------------------------------------------------
(***************************************************************************)
(* Sequences, as functions on 1 .. n.                                      *)
(***************************************************************************)
IsList(f, n) == n \in Nat /\ f = [k \in 1 .. n |-> f[k]]

LEMMA ListIsSeq ==
    ASSUME NEW n, NEW f, IsList(f, n)
    PROVE  f \in Seq(Range(f)) /\ Len(f) = n /\ DOMAIN f = 1 .. n /\ n \in Nat
<1>1. f \in [1 .. n -> Range(f)] /\ n \in Nat
  BY DEF Range, IsList
<1>2. f \in Seq(Range(f))
  BY <1>1, SeqDef
<1>3. DOMAIN f = 1 .. n /\ DOMAIN f = 1 .. Len(f) /\ Len(f) \in Nat
  BY <1>1, <1>2, LenProperties
<1> QED BY <1>1, <1>2, <1>3

LEMMA SeqIsList ==
    ASSUME NEW S, NEW s \in Seq(S)
    PROVE  IsList(s, Len(s)) /\ DOMAIN s = 1 .. Len(s) /\ Len(s) \in Nat
<1>1. Len(s) \in Nat /\ DOMAIN s = 1 .. Len(s) /\ s \in [1 .. Len(s) -> S]
  BY LenProperties
<1> QED BY <1>1 DEF IsList

LEMMA ListsEqual ==
    ASSUME NEW n, NEW f, NEW g, IsList(f, n), IsList(g, n), \A k \in 1 .. n : f[k] = g[k]
    PROVE  f = g
BY DEF IsList

LEMMA AppendIsList ==
    ASSUME NEW n, NEW f, IsList(f, n), NEW e
    PROVE  /\ IsList(Append(f, e), n + 1) /\ Len(Append(f, e)) = n + 1
           /\ \A k \in 1 .. n : Append(f, e)[k] = f[k]
           /\ Append(f, e)[n + 1] = e
<1> DEFINE g == Append(f, e)
<1>1. f \in Seq(Range(f)) /\ Len(f) = n /\ DOMAIN f = 1 .. n /\ n \in Nat
  BY ListIsSeq
<1>2. /\ g = [k \in 1 .. n + 1 |-> IF k <= n THEN f[k] ELSE e]
      /\ \A k \in 1 .. n : g[k] = f[k]
      /\ g[n + 1] = e
  BY <1>1, AppendPlaces
<1> HIDE DEF g
<1>3. IsList(g, n + 1)
  BY <1>1, <1>2 DEF IsList
<1>4. Len(g) = n + 1
  BY <1>3, ListIsSeq
<1> QED BY <1>2, <1>3, <1>4 DEF g

\* A list with one more member at its end, or one fewer at its beginning.
LEMMA ListAppend ==
    ASSUME NEW n, NEW f, IsList(f, n), NEW g, IsList(g, n + 1), \A k \in 1 .. n : g[k] = f[k]
    PROVE  g = Append(f, g[n + 1])
<1> DEFINE a == Append(f, g[n + 1])
<1>1. IsList(a, n + 1) /\ (\A k \in 1 .. n : a[k] = f[k]) /\ a[n + 1] = g[n + 1] /\ n \in Nat
  BY AppendIsList, ListIsSeq
<1> HIDE DEF a
<1>2. \A k \in 1 .. n + 1 : g[k] = a[k]
  <2>1. \A k \in 1 .. n + 1 : k \in 1 .. n \/ k = n + 1
    BY <1>1
  <2> QED BY <1>1, <2>1
<1>3. g = a
  BY <1>1, <1>2, ListsEqual
<1> QED BY <1>3 DEF a

LEMMA ListTail ==
    ASSUME NEW n, NEW f, IsList(f, n), n # 0, NEW g, IsList(g, n - 1),
           \A k \in 1 .. n - 1 : g[k] = f[k + 1]
    PROVE  g = Tail(f) /\ f # <<>> /\ Head(f) = f[1]
<1>1. f \in Seq(Range(f)) /\ Len(f) = n /\ n \in Nat
  BY ListIsSeq
<1>2. f # <<>>
  BY <1>1
<1>3. /\ Tail(f) \in Seq(Range(f)) /\ Len(Tail(f)) = n - 1
      /\ \A k \in 1 .. Len(Tail(f)) : Tail(f)[k] = f[k + 1]
      /\ Head(f) = f[1]
  BY <1>1, <1>2, HeadTailProperties
<1>4. IsList(Tail(f), n - 1)
  BY <1>3, SeqIsList
<1>5. g = Tail(f)
  BY <1>3, <1>4, ListsEqual
<1> QED BY <1>2, <1>3, <1>5

\* A piece of a list.
LEMMA SubSeqOf ==
    ASSUME NEW n, NEW f, IsList(f, n), NEW a \in Nat, NEW m \in Nat, a + m <= n
    PROVE  SubSeq(f, a + 1, a + m) = [i \in 1 .. m |-> f[a + i]]
<1>1. f \in Seq(Range(f)) /\ Len(f) = n /\ n \in Nat
  BY ListIsSeq
<1>2. SubSeq(f, a + 1, a + m) = [i \in 1 .. ((a + m) - (a + 1)) + 1 |-> f[(i + (a + 1)) - 1]]
  BY <1>1
<1>3. ((a + m) - (a + 1)) + 1 = m /\ \A i \in 1 .. m : (i + (a + 1)) - 1 = a + i
  OBVIOUS
<1> QED BY <1>2, <1>3

\* The members before the last.
LEMMA FrontOf ==
    ASSUME NEW n, NEW f, IsList(f, n), NEW e
    PROVE  SubSeq(Append(f, e), 1, n) = f
<1> DEFINE g == Append(f, e)
<1>1. IsList(g, n + 1) /\ (\A k \in 1 .. n : g[k] = f[k]) /\ n \in Nat
  BY AppendIsList, ListIsSeq
<1> HIDE DEF g
<1>2. SubSeq(g, 0 + 1, 0 + n) = [i \in 1 .. n |-> g[0 + i]]
  BY <1>1, SubSeqOf
<1>3. \A i \in 1 .. n : g[0 + i] = f[i]
  BY <1>1
<1>4. 0 + 1 = 1 /\ 0 + n = n
  BY <1>1
<1>5. SubSeq(g, 1, n) = [i \in 1 .. n |-> f[i]]
  BY <1>2, <1>3, <1>4
<1> QED BY <1>5 DEF IsList, g

-----------------------------------------------------------------------------
(***************************************************************************)
(* What the device puts into the buffer of a request it has accepted.      *)
(***************************************************************************)
LEMMA FilledIs ==
    ASSUME NEW req, NEW n, NEW first \in Nat, Accepts(req, n, first),
           NEW bytes, IsList(bytes, n), n # 0
    PROVE  Filled(Fresh(req), ChainOf(req), bytes) = bytes
<1> DEFINE c == ChainOf(req)
           old == Fresh(req)
<1>1. n \in Nat /\ Len(bytes) = n
  BY ListIsSeq
<1>2. old = [k \in 1 .. n |-> Untouched]
  BY DEF Fresh, Accepts
<1>3. /\ CopyOut(c, n).place = first /\ CopyOut(c, n).count = n /\ ReadableSize(c) = first
  BY DEF Accepts
<1> HIDE DEF old
<1>4. Filled(old, c, bytes)
        = [k \in DOMAIN old |->
             IF ReadableSize(c) + k - 1 \in CopyOut(c, Len(bytes)).place
                  .. CopyOut(c, Len(bytes)).place + CopyOut(c, Len(bytes)).count - 1
             THEN bytes[ReadableSize(c) + k - CopyOut(c, Len(bytes)).place] ELSE old[k]]
  BY DEF Filled, CopyOut, ReadableSize
<1> HIDE DEF c
<1>5. Filled(old, c, bytes)
        = [k \in 1 .. n |-> IF first + k - 1 \in first .. first + n - 1
                            THEN bytes[first + k - first] ELSE old[k]]
  BY <1>1, <1>2, <1>3, <1>4
<1>6. \A k \in 1 .. n : first + k - 1 \in first .. first + n - 1 /\ first + k - first = k
  BY <1>1
<1>7. Filled(old, c, bytes) = [k \in 1 .. n |-> bytes[k]]
  BY <1>5, <1>6
<1> QED BY <1>7 DEF IsList, c, old

\* The device has put a list and a status into the buffer of head h and entered
\* the chain into the used ring.
AnswersWith(h, data, n, status) ==
    /\ IsList(data, n)
    /\ buffer' = [buffer EXCEPT ![h] = Append(data, status)]
    /\ virtual_consume_desc(h, n + 1)

LEMMA ReqEnds ==
    ASSUME NEW req, NEW first \in Nat, NEW h \in Heads, buffer[h] = Fresh(req),
           NEW data, NEW n, IsList(data, n), NEW status, Accepts(req, n + 1, first),
           virtual_block_req_end(h, ChainOf(req), Append(data, status))
    PROVE  /\ buffer' = [buffer EXCEPT ![h] = Append(data, status)]
           /\ virtual_consume_desc(h, n + 1)
<1> DEFINE bytes == Append(data, status)
<1>1. IsList(bytes, n + 1) /\ Len(bytes) = n + 1 /\ n + 1 # 0
  BY AppendIsList, ListIsSeq
<1>2. h # Stray
  BY RingConstants
<1>3. /\ buffer' = [buffer EXCEPT ![h] = Filled(@, ChainOf(req), bytes)]
      /\ virtual_consume_desc(h, Len(bytes))
  BY <1>2 DEF virtual_block_req_end
<1> HIDE DEF bytes
<1>4. Filled(Fresh(req), ChainOf(req), bytes) = bytes
  BY <1>1, FilledIs
<1>5. buffer' = [buffer EXCEPT ![h] = Filled(Fresh(req), ChainOf(req), bytes)]
  BY <1>3
<1> QED BY <1>1, <1>3, <1>4, <1>5 DEF bytes

LEMMA ReadHandled ==
    ASSUME NEW req, Moves(req), req.type = "in", req.layout \in {"joined", "split"},
           NEW h \in Heads, buffer[h] = Fresh(req), virtual_block_recv_request(h, req)
    PROVE  /\ AnswersWith(h, bf_read_async(req.sector, req.count), Bytes(req), VIRTIO_BLK_S_OK)
           /\ sector_table' = sector_table
<1> DEFINE n == Bytes(req)
           data == bf_read_async(req.sector, req.count)
<1>1. Accepts(req, n + 1, HeaderLen) /\ n \in Nat /\ HeaderLen \in Nat /\ n \div SectorSize = req.count
  BY ReadChain, RequestValues
<1>2. ReadRequest(h, req)
  BY <1>1 DEF virtual_block_recv_request, Accepts
<1>3. IsList(data, n)
  BY <1>1 DEF IsList, bf_read_async, Bytes
<1>4. (get_desc_rw_size(ChainOf(req)).write - 1) \div SectorSize = req.count
  <2>1. get_desc_rw_size(ChainOf(req)).write = n + 1 /\ (n + 1) - 1 = n
    BY <1>1 DEF Accepts
  <2> QED BY <1>1, <2>1
<1>5. /\ virtual_block_req_end(h, ChainOf(req), Append(data, VIRTIO_BLK_S_OK))
      /\ sector_table' = sector_table
  BY <1>2, <1>4 DEF ReadRequest
<1> HIDE DEF n, data
<1>6. /\ buffer' = [buffer EXCEPT ![h] = Append(data, VIRTIO_BLK_S_OK)]
      /\ virtual_consume_desc(h, n + 1)
  BY <1>1, <1>3, <1>5, ReqEnds
<1> QED BY <1>3, <1>5, <1>6 DEF AnswersWith, n, data

\* The answer to a write is its status.
Verdict(sector, size) == IF WriteFits(sector, size) THEN VIRTIO_BLK_S_OK ELSE VIRTIO_BLK_S_IOERR

LEMMA StatusAnswers ==
    ASSUME NEW req, NEW first \in Nat, NEW h \in Heads, buffer[h] = Fresh(req), NEW status,
           Accepts(req, 1, first), virtual_block_req_end(h, ChainOf(req), <<status>>)
    PROVE  AnswersWith(h, <<>>, 0, status)
<1>1. IsList(<<>>, 0)
  BY DEF IsList
<1>2. <<status>> = Append(<<>>, status) /\ 0 + 1 = 1
  OBVIOUS
<1> DEFINE none == <<>>
           bytes == <<status>>
<1>3. IsList(none, 0) /\ Accepts(req, 0 + 1, first)
      /\ virtual_block_req_end(h, ChainOf(req), Append(none, status))
  BY <1>1, <1>2
<1> HIDE DEF none
<1>4. /\ buffer' = [buffer EXCEPT ![h] = Append(none, status)]
      /\ virtual_consume_desc(h, 0 + 1)
  BY <1>3, ReqEnds
<1>5. AnswersWith(h, none, 0, status)
  BY <1>3, <1>4 DEF AnswersWith
<1> QED BY <1>5 DEF none

\* The data of a write, as the device has them from a place of the chain.
DataFrom(req, place, n) == [k \in 1 .. n |-> DataByte(req, place + k - 1)]

LEMMA WriteHandled ==
    ASSUME NEW req, Moves(req), req.type = "out", req.layout = "joined",
           NEW h \in Heads, buffer[h] = Fresh(req), virtual_block_recv_request(h, req)
    PROVE  /\ AnswersWith(h, <<>>, 0, Verdict(req.sector, req.count))
           /\ bf_write_async(req.sector, DataFrom(req, HeaderLen, Bytes(req)), req.count)
<1> DEFINE c == ChainOf(req)
           n == Bytes(req)
           all == HeaderLen + n
<1>1. /\ Accepts(req, 1, all) /\ get_desc_rw_size(c).read = all
      /\ CopyIn(c, HeaderLen, n).place = HeaderLen /\ CopyIn(c, HeaderLen, n).count = n
  BY WriteChain
<1>2. /\ n \in Nat /\ HeaderLen \in Nat /\ n \div SectorSize = req.count /\ all \in Nat
      /\ all - HeaderLen = n
  BY RequestValues
<1>3. WriteRequest(h, req)
  BY <1>1 DEF virtual_block_recv_request, Accepts
<1> HIDE DEF c, n, all
<1>4. /\ bf_write_async(req.sector,
              [k \in 1 .. CopyIn(c, HeaderLen, get_desc_rw_size(c).read - HeaderLen).count |->
                 DataByte(req, CopyIn(c, HeaderLen, get_desc_rw_size(c).read - HeaderLen).place + k - 1)],
              (get_desc_rw_size(c).read - HeaderLen) \div SectorSize)
      /\ virtual_block_req_end(h, c,
              <<Verdict(req.sector, (get_desc_rw_size(c).read - HeaderLen) \div SectorSize)>>)
  BY <1>3 DEF WriteRequest, CopyIn, c, Verdict
<1>5. get_desc_rw_size(c).read - HeaderLen = n
  BY <1>1, <1>2
<1>6. /\ bf_write_async(req.sector, DataFrom(req, HeaderLen, n), req.count)
      /\ virtual_block_req_end(h, c, <<Verdict(req.sector, req.count)>>)
  BY <1>1, <1>2, <1>4, <1>5 DEF DataFrom
<1>7. AnswersWith(h, <<>>, 0, Verdict(req.sector, req.count))
  BY <1>1, <1>2, <1>6, StatusAnswers DEF c
<1> QED BY <1>6, <1>7 DEF n

LEMMA SplitWriteHandled ==
    ASSUME NEW req, Moves(req), req.type = "out", req.layout = "split",
           NEW h \in Heads, buffer[h] = Fresh(req), virtual_block_recv_request(h, req)
    PROVE  /\ AnswersWith(h, <<>>, 0, Verdict(req.sector, req.count - 1))
           /\ \E place : bf_write_async(req.sector,
                             DataFrom(req, place, Bytes(req) - HeaderLen), req.count - 1)
<1> DEFINE c == ChainOf(req)
           n == Bytes(req)
           m == n - HeaderLen
           all == HeaderLen + n
<1>1. /\ Accepts(req, 1, all) /\ get_desc_rw_size(c).read = n
      /\ CopyIn(c, HeaderLen, m).count = m
  BY SplitWriteChain
<1>2. /\ n \in Nat /\ HeaderLen \in Nat /\ m \div SectorSize = req.count - 1 /\ all \in Nat
  BY RequestValues
<1>3. WriteRequest(h, req)
  BY <1>1 DEF virtual_block_recv_request, Accepts
<1> DEFINE place == CopyIn(c, HeaderLen, m).place
<1> HIDE DEF c, n, all
<1>4. /\ bf_write_async(req.sector,
              [k \in 1 .. CopyIn(c, HeaderLen, get_desc_rw_size(c).read - HeaderLen).count |->
                 DataByte(req, CopyIn(c, HeaderLen, get_desc_rw_size(c).read - HeaderLen).place + k - 1)],
              (get_desc_rw_size(c).read - HeaderLen) \div SectorSize)
      /\ virtual_block_req_end(h, c,
              <<Verdict(req.sector, (get_desc_rw_size(c).read - HeaderLen) \div SectorSize)>>)
  BY <1>3 DEF WriteRequest, CopyIn, c, Verdict
<1>5. get_desc_rw_size(c).read - HeaderLen = m
  BY <1>1
<1> HIDE DEF m
<1>6. /\ bf_write_async(req.sector, DataFrom(req, place, m), req.count - 1)
      /\ virtual_block_req_end(h, c, <<Verdict(req.sector, req.count - 1)>>)
  BY <1>1, <1>2, <1>4, <1>5 DEF DataFrom
<1>7. AnswersWith(h, <<>>, 0, Verdict(req.sector, req.count - 1))
  BY <1>1, <1>2, <1>6, StatusAnswers DEF c
<1> QED BY <1>6, <1>7 DEF n, m

\* Requests of other types and malformed chains are skipped.
IsDropped(req) == req.type \notin {"in", "out"} \/ req.layout \notin {"joined", "split"}

LEMMA OthersDropped ==
    ASSUME NEW req \in Requests, IsDropped(req), NEW h, virtual_block_recv_request(h, req)
    PROVE  SkipRequest
<1>1. CASE req.type \notin {"in", "out"}
  BY <1>1 DEF virtual_block_recv_request
<1>2. CASE req.type \in {"in", "out"}
  <2>1. req.layout \in {"mixed", "short"}
    BY <1>2, RequestAssumption DEF IsDropped
  <2> QED BY <1>2, <2>1, MalformedChain DEF virtual_block_recv_request
<1> QED BY <1>1, <1>2

-----------------------------------------------------------------------------
(***************************************************************************)
(* The sectors that the service sees.                                      *)
(***************************************************************************)
SectorIn(table, s) == IF table[s] = NoSector THEN FileSector(s) ELSE table[s]

DiskOf(table) == [s \in SectorNumbers |-> SectorIn(table, s)]

LEMMA SectorsSeen ==
    /\ [s \in SectorNumbers |-> Sector(s)] = DiskOf(sector_table)
    /\ [s \in SectorNumbers |-> Sector(s)]' = DiskOf(sector_table')
    /\ DiskOf(sector_table)' = DiskOf(sector_table')
BY DEF Sector, SectorIn, DiskOf

\* Whole sectors have a quotient within their number.
LEMMA QuotientBelow ==
    ASSUME NEW n \in Nat \ {0}, NEW q \in Nat, NEW x \in Nat, x < q * n
    PROVE  x \div n \in Nat /\ x \div n < q
<1> DEFINE d == x \div n
           r == x % n
<1>1. d \in Nat /\ r \in Nat /\ x = (d * n) + r
  BY DivModDef
<1> HIDE DEF d, r
<1>2. ASSUME q <= d PROVE FALSE
  <2>1. PICK e \in Nat : d = q + e
    BY <1>1, <1>2
  <2>2. d * n = (q * n) + (e * n) /\ e * n \in Nat /\ q * n \in Nat
    BY <2>1
  <2> QED BY <1>1, <2>2
<1> QED BY <1>1, <1>2 DEF d

\* A read returns what its sectors hold.
LEMMA ReadReturns ==
    ASSUME NEW req, Moves(req), req.type = "in"
    PROVE  bf_read_async(req.sector, req.count)
             = [k \in 1 .. Bytes(req) |->
                  DiskOf(sector_table)[req.sector + (k - 1) \div SectorSize][((k - 1) % SectorSize) + 1]]
<1>1. /\ SectorSize \in Nat \ {0} /\ req.count \in Nat /\ req.sector \in Nat
      /\ req.sector + req.count <= NbSectors /\ NbSectors \in Nat
  BY RequestValues, BlockAssumption, DiskAssumption DEF Moves
<1> SUFFICES ASSUME NEW k \in 1 .. Bytes(req)
             PROVE  DiskOf(sector_table)[req.sector + (k - 1) \div SectorSize]
                      = Sector(req.sector + (k - 1) \div SectorSize)
  BY DEF bf_read_async, Bytes
<1> DEFINE s == req.sector + (k - 1) \div SectorSize
<1>2. s \in SectorNumbers
  <2>1. k - 1 \in Nat /\ k - 1 < req.count * SectorSize
    BY <1>1 DEF Bytes
  <2>2. (k - 1) \div SectorSize \in Nat /\ (k - 1) \div SectorSize < req.count
    BY <1>1, <2>1, QuotientBelow
  <2> QED BY <1>1, <2>2 DEF SectorNumbers
<1> HIDE DEF s
<1>3. DiskOf(sector_table)[s] = Sector(s)
  BY <1>2 DEF DiskOf, SectorIn, Sector
<1> QED BY <1>3 DEF s

\* The table after a write of `size` sectors that fits.
Landed(table, first, data, size) ==
    [s \in SectorNumbers |->
       IF s \in first .. first + size - 1
       THEN SubSeq(data, (s - first) * SectorSize + 1, (s - first + 1) * SectorSize)
       ELSE table[s]]

LEMMA WriteLands ==
    ASSUME NEW first, NEW data, NEW size, bf_write_async(first, data, size)
    PROVE  sector_table' = IF WriteFits(first, size) THEN Landed(sector_table, first, data, size)
                           ELSE sector_table
BY DEF bf_write_async, Landed

\* A write changes none but its sectors.
LEMMA OthersKept ==
    ASSUME NEW first, NEW data, NEW size, bf_write_async(first, data, size),
           NEW s \in SectorNumbers, s \notin first .. first + size - 1
    PROVE  DiskOf(sector_table')[s] = DiskOf(sector_table)[s]
<1>1. sector_table'[s] = sector_table[s]
  BY WriteLands DEF Landed
<1> QED BY <1>1 DEF DiskOf, SectorIn

\* A piece of the data of a request, as the sector they are for.
LEMMA SectorOfData ==
    ASSUME NEW req, Moves(req), NEW i \in 0 .. req.count - 1
    PROVE  SubSeq(DataFrom(req, HeaderLen, Bytes(req)), i * SectorSize + 1, (i + 1) * SectorSize)
             = [k \in 1 .. SectorSize |-> <<req.value, (i * SectorSize + k) - 1>>]
<1> DEFINE n == Bytes(req)
           data == DataFrom(req, HeaderLen, n)
           a == i * SectorSize
           m == SectorSize
<1>1. /\ n \in Nat /\ HeaderLen \in Nat /\ m \in Nat \ {0} /\ req.count \in Nat /\ i \in Nat
      /\ n = req.count * SectorSize
  BY RequestValues DEF Bytes
<1>2. a \in Nat /\ (i + 1) * SectorSize = a + m /\ a + m <= n
  <2> DEFINE e == req.count - (i + 1)
  <2>1. e \in Nat /\ req.count = (i + 1) + e
    BY <1>1
  <2> HIDE DEF e
  <2>2. /\ req.count * m = ((i + 1) * m) + (e * m) /\ e * m \in Nat
        /\ (i + 1) * m = (i * m) + m /\ i * m \in Nat
    BY <1>1, <2>1
  <2> QED BY <1>1, <2>2
<1>3. IsList(data, n)
  BY <1>1 DEF IsList, DataFrom
<1>4. \A k \in 1 .. n : data[k] = <<req.value, k - 1>>
  <2>1. \A k \in 1 .. n : (HeaderLen + k - 1) - HeaderLen = k - 1
    BY <1>1
  <2> QED BY <2>1 DEF DataFrom, DataByte
<1> HIDE DEF n, data, a, m
<1>5. SubSeq(data, a + 1, a + m) = [k \in 1 .. m |-> data[a + k]]
  BY <1>1, <1>2, <1>3, SubSeqOf
<1>6. \A k \in 1 .. m : a + k \in 1 .. n
  BY <1>1, <1>2
<1>7. SubSeq(data, a + 1, a + m) = [k \in 1 .. m |-> <<req.value, (a + k) - 1>>]
  BY <1>4, <1>5, <1>6
<1> QED BY <1>2, <1>7 DEF n, data, a, m

\* The sectors of a request, and the disk once its data are stored.
NamedBy(req) == req.sector .. req.sector + req.count - 1

StoredOn(disk, req) ==
    [s \in SectorNumbers |->
       IF s \in NamedBy(req)
       THEN [k \in 1 .. SectorSize |-> <<req.value, (s - req.sector) * SectorSize + k - 1>>]
       ELSE disk[s]]

LEMMA FitsIs ==
    ASSUME NEW req, Moves(req)
    PROVE  WriteFits(req.sector, req.count) = (NamedBy(req) \subseteq SectorNumbers)
<1>1. req.count \in Nat \ {0} /\ req.sector \in Nat /\ NbSectors \in Nat
  BY RequestValues, DiskAssumption
<1>2. WriteFits(req.sector, req.count) => NamedBy(req) \subseteq SectorNumbers
  BY <1>1 DEF WriteFits, NamedBy, SectorNumbers
<1>3. ASSUME NamedBy(req) \subseteq SectorNumbers
      PROVE  WriteFits(req.sector, req.count)
  <2>1. req.sector + req.count - 1 \in NamedBy(req)
    BY <1>1 DEF NamedBy
  <2>2. req.sector + req.count - 1 \in 0 .. NbSectors - 1
    BY <1>3, <2>1 DEF SectorNumbers
  <2> QED BY <1>1, <2>2 DEF WriteFits
<1> QED BY <1>2, <1>3 DEF WriteFits

\* A write in one buffer stores all of its sectors or none.
LEMMA WriteStores ==
    ASSUME NEW req, Moves(req),
           bf_write_async(req.sector, DataFrom(req, HeaderLen, Bytes(req)), req.count)
    PROVE  DiskOf(sector_table') = IF NamedBy(req) \subseteq SectorNumbers
                                   THEN StoredOn(DiskOf(sector_table), req) ELSE DiskOf(sector_table)
<1> DEFINE data == DataFrom(req, HeaderLen, Bytes(req))
<1>1. /\ req.count \in Nat \ {0} /\ req.sector \in Nat /\ NbSectors \in Nat
      /\ SectorSize \in Nat \ {0}
  BY RequestValues, DiskAssumption
<1>2. sector_table' = IF NamedBy(req) \subseteq SectorNumbers
                      THEN Landed(sector_table, req.sector, data, req.count) ELSE sector_table
  BY WriteLands, FitsIs
<1>3. ASSUME NamedBy(req) \subseteq SectorNumbers
      PROVE  DiskOf(sector_table') = StoredOn(DiskOf(sector_table), req)
  <2> SUFFICES ASSUME NEW s \in SectorNumbers
               PROVE  DiskOf(sector_table')[s] = StoredOn(DiskOf(sector_table), req)[s]
    BY DEF DiskOf, StoredOn
  <2>1. CASE s \in NamedBy(req)
    <3> DEFINE i == s - req.sector
               stored == [k \in 1 .. SectorSize |-> <<req.value, i * SectorSize + k - 1>>]
    <3>1. i \in 0 .. req.count - 1
      BY <1>1, <2>1 DEF NamedBy
    <3>2. SubSeq(data, i * SectorSize + 1, (i + 1) * SectorSize) = stored
      <4>1. i * SectorSize \in Int
        BY <1>1, <3>1
      <4>2. \A k \in 1 .. SectorSize : (i * SectorSize + k) - 1 = i * SectorSize + k - 1
        BY <1>1, <4>1
      <4>3. SubSeq(data, i * SectorSize + 1, (i + 1) * SectorSize)
              = [k \in 1 .. SectorSize |-> <<req.value, (i * SectorSize + k) - 1>>]
        BY <3>1, SectorOfData
      <4> HIDE DEF data, i
      <4> QED BY <4>2, <4>3
    <3>3. sector_table'[s] = SubSeq(data, i * SectorSize + 1, (i + 1) * SectorSize)
      BY <1>2, <1>3, <2>1 DEF Landed, NamedBy
    <3>4. stored # NoSector
      <4>1. 1 \in DOMAIN stored
        BY <1>1
      <4>2. 1 \notin DOMAIN NoSector
        BY DEF NoSector
      <4> HIDE DEF stored
      <4> QED BY <4>1, <4>2
    <3>5. DiskOf(sector_table')[s] = stored
      BY <3>2, <3>3, <3>4 DEF DiskOf, SectorIn
    <3>6. StoredOn(DiskOf(sector_table), req)[s] = stored
      BY <2>1 DEF StoredOn
    <3> QED BY <3>5, <3>6
  <2>2. CASE s \notin NamedBy(req)
    <3>1. DiskOf(sector_table')[s] = DiskOf(sector_table)[s]
      BY <2>2, OthersKept DEF NamedBy
    <3>2. StoredOn(DiskOf(sector_table), req)[s] = DiskOf(sector_table)[s]
      BY <2>2 DEF StoredOn
    <3> QED BY <3>1, <3>2
  <2> QED BY <2>1, <2>2
<1>4. ~(NamedBy(req) \subseteq SectorNumbers) => DiskOf(sector_table') = DiskOf(sector_table)
  BY <1>2
<1> QED BY <1>3, <1>4

\* A write in two buffers changes no sector but its own.
LEMMA SplitWriteStores ==
    ASSUME NEW req, Moves(req), NEW data, bf_write_async(req.sector, data, req.count - 1)
    PROVE  /\ DOMAIN DiskOf(sector_table') = DOMAIN DiskOf(sector_table)
           /\ \A s \in SectorNumbers \ NamedBy(req) :
                 DiskOf(sector_table')[s] = DiskOf(sector_table)[s]
<1>1. DOMAIN DiskOf(sector_table') = DOMAIN DiskOf(sector_table)
  BY DEF DiskOf
<1>2. ASSUME NEW s \in SectorNumbers \ NamedBy(req)
      PROVE  DiskOf(sector_table')[s] = DiskOf(sector_table)[s]
  <2>1. s \notin req.sector .. req.sector + (req.count - 1) - 1
    BY RequestValues DEF NamedBy
  <2>2. s \in SectorNumbers
    OBVIOUS
  <2> QED BY <2>1, <2>2, OthersKept
<1> QED BY <1>1, <1>2

-----------------------------------------------------------------------------
(***************************************************************************)
(* The requests and the answers that the service sees.                     *)
(***************************************************************************)
AskOf(h, req) == [head |-> h, req |-> req]

Asks(w, ch) == [k \in DOMAIN w |-> AskOf(w[k], ch[w[k]])]

AnswerOf(e, bytes) ==
    [head |-> e.id,
     ok   |-> bytes[Len(bytes)] = VIRTIO_BLK_S_OK,
     data |-> SubSeq(bytes, 1, Len(bytes) - 1),
     len  |-> e.len]

Answers(u, buf) == [k \in DOMAIN u |-> AnswerOf(u[k], buf[u[k].id])]

LEMMA ServiceSees ==
    /\ clean => Waiting = Asks(WaitingHeads, chains) /\ Answered = Answers(Unseen, buffer)
    /\ ~clean => Waiting = <<>> /\ Answered = <<>>
BY DEF Waiting, Answered, Asks, AskOf, Answers, AnswerOf

LEMMA ServiceSeesNext ==
    clean' => /\ Waiting' = Asks(WaitingHeads', chains')
              /\ Answered' = Answers(Unseen', buffer')
BY DEF Waiting, Answered, Asks, AskOf, Answers, AnswerOf

SameFor(w, ch, next) == \A k \in DOMAIN w : next[w[k]] = ch[w[k]]

AskedLast(w, ch, next, h) ==
    Asks(Append(w, h), next) = Append(Asks(w, ch), AskOf(h, next[h]))

\* A request more at the end.
LEMMA AsksAppend ==
    ASSUME NEW S, NEW w \in Seq(S), NEW ch, NEW next, NEW h, SameFor(w, ch, next)
    PROVE  AskedLast(w, ch, next, h)
<1> DEFINE n == Len(w)
           v == Append(w, h)
           f == Asks(w, ch)
           g == Asks(v, next)
<1>1. IsList(w, n) /\ DOMAIN w = 1 .. n /\ n \in Nat
  BY SeqIsList
<1>2. IsList(v, n + 1) /\ (\A k \in 1 .. n : v[k] = w[k]) /\ v[n + 1] = h
  BY <1>1, AppendIsList
<1>3. DOMAIN v = 1 .. n + 1
  BY <1>2, ListIsSeq
<1> HIDE DEF n, v
<1>4. IsList(f, n) /\ \A k \in 1 .. n : f[k] = AskOf(w[k], ch[w[k]])
  BY <1>1 DEF Asks, IsList
<1>5. IsList(g, n + 1) /\ \A k \in 1 .. n + 1 : g[k] = AskOf(v[k], next[v[k]])
  BY <1>1, <1>3 DEF Asks, IsList
<1>6. \A k \in 1 .. n : k \in 1 .. n + 1 /\ n + 1 \in 1 .. n + 1
  BY <1>1
<1> HIDE DEF f, g
<1>7. \A k \in 1 .. n : g[k] = f[k]
  BY <1>1, <1>2, <1>4, <1>5, <1>6 DEF SameFor
<1>8. g = Append(f, g[n + 1])
  BY <1>4, <1>5, <1>7, ListAppend
<1>9. g[n + 1] = AskOf(h, next[h])
  BY <1>1, <1>2, <1>5
<1> QED BY <1>8, <1>9 DEF f, g, v, AskedLast

\* The first request leaves.
LEMMA AsksTail ==
    ASSUME NEW S, NEW w \in Seq(S), w # <<>>, NEW ch
    PROVE  /\ Asks(Tail(w), ch) = Tail(Asks(w, ch)) /\ Asks(w, ch) # <<>>
           /\ Head(Asks(w, ch)) = AskOf(Head(w), ch[Head(w)])
<1> DEFINE n == Len(w)
           v == Tail(w)
           f == Asks(w, ch)
           g == Asks(v, ch)
<1>1. IsList(w, n) /\ DOMAIN w = 1 .. n /\ n \in Nat
  BY SeqIsList
<1>2. /\ Len(w) # 0 /\ v \in Seq(S) /\ Len(v) = n - 1 /\ Head(w) = w[1]
      /\ \A k \in 1 .. n - 1 : v[k] = w[k + 1]
  BY HeadTailProperties, EmptySeq
<1>3. IsList(v, n - 1) /\ DOMAIN v = 1 .. n - 1
  BY <1>2, SeqIsList
<1>4. n # 0
  BY <1>2
<1> HIDE DEF n, v
<1>5. IsList(f, n) /\ \A k \in 1 .. n : f[k] = AskOf(w[k], ch[w[k]])
  BY <1>1 DEF Asks, IsList
<1>6. IsList(g, n - 1) /\ \A k \in 1 .. n - 1 : g[k] = AskOf(v[k], ch[v[k]])
  BY <1>1, <1>3, <1>4 DEF Asks, IsList
<1>7. 1 \in 1 .. n /\ \A k \in 1 .. n - 1 : k + 1 \in 1 .. n
  BY <1>1, <1>4
<1> HIDE DEF f, g
<1>8. \A k \in 1 .. n - 1 : g[k] = f[k + 1]
  BY <1>2, <1>5, <1>6, <1>7
<1>9. g = Tail(f) /\ f # <<>> /\ Head(f) = f[1]
  BY <1>4, <1>5, <1>6, <1>8, ListTail
<1> QED BY <1>2, <1>5, <1>7, <1>9 DEF f, g, v

AgreeOn(u, buf, next) == \A k \in DOMAIN u : next[u[k].id] = buf[u[k].id]

LEMMA AnswersAppend ==
    ASSUME NEW S, NEW u \in Seq(S), NEW buf, NEW next, NEW e, AgreeOn(u, buf, next)
    PROVE  Answers(Append(u, e), next) = Append(Answers(u, buf), AnswerOf(e, next[e.id]))
<1> DEFINE n == Len(u)
           v == Append(u, e)
           f == Answers(u, buf)
           g == Answers(v, next)
<1>1. IsList(u, n) /\ DOMAIN u = 1 .. n /\ n \in Nat
  BY SeqIsList
<1>2. IsList(v, n + 1) /\ (\A k \in 1 .. n : v[k] = u[k]) /\ v[n + 1] = e
  BY <1>1, AppendIsList
<1>3. DOMAIN v = 1 .. n + 1
  BY <1>2, ListIsSeq
<1> HIDE DEF n, v
<1>4. IsList(f, n) /\ \A k \in 1 .. n : f[k] = AnswerOf(u[k], buf[u[k].id])
  BY <1>1 DEF Answers, IsList
<1>5. IsList(g, n + 1) /\ \A k \in 1 .. n + 1 : g[k] = AnswerOf(v[k], next[v[k].id])
  BY <1>1, <1>3 DEF Answers, IsList
<1>6. \A k \in 1 .. n : k \in 1 .. n + 1 /\ n + 1 \in 1 .. n + 1
  BY <1>1
<1> HIDE DEF f, g
<1>7. \A k \in 1 .. n : g[k] = f[k]
  BY <1>1, <1>2, <1>4, <1>5, <1>6 DEF AgreeOn
<1>8. g = Append(f, g[n + 1])
  BY <1>4, <1>5, <1>7, ListAppend
<1>9. g[n + 1] = AnswerOf(e, next[e.id])
  BY <1>1, <1>2, <1>5
<1> QED BY <1>8, <1>9 DEF f, g, v

LEMMA AnswersTail ==
    ASSUME NEW S, NEW u \in Seq(S), u # <<>>, NEW buf, NEW next,
           \A k \in DOMAIN Tail(u) : next[Tail(u)[k].id] = buf[Tail(u)[k].id]
    PROVE  Answers(Tail(u), next) = Tail(Answers(u, buf)) /\ Answers(u, buf) # <<>>
<1> DEFINE n == Len(u)
           v == Tail(u)
           f == Answers(u, buf)
           g == Answers(v, next)
<1>1. IsList(u, n) /\ DOMAIN u = 1 .. n /\ n \in Nat
  BY SeqIsList
<1>2. /\ Len(u) # 0 /\ v \in Seq(S) /\ Len(v) = n - 1
      /\ \A k \in 1 .. n - 1 : v[k] = u[k + 1]
  BY HeadTailProperties, EmptySeq
<1>3. IsList(v, n - 1) /\ DOMAIN v = 1 .. n - 1
  BY <1>2, SeqIsList
<1>4. n # 0
  BY <1>2
<1> HIDE DEF n, v
<1>5. IsList(f, n) /\ \A k \in 1 .. n : f[k] = AnswerOf(u[k], buf[u[k].id])
  BY <1>1 DEF Answers, IsList
<1>6. IsList(g, n - 1) /\ \A k \in 1 .. n - 1 : g[k] = AnswerOf(v[k], next[v[k].id])
  BY <1>1, <1>3, <1>4 DEF Answers, IsList
<1>7. \A k \in 1 .. n - 1 : k + 1 \in 1 .. n
  BY <1>1, <1>4
<1>8. \A k \in 1 .. n - 1 : next[v[k].id] = buf[v[k].id]
  BY <1>3 DEF v
<1> HIDE DEF f, g
<1>9. \A k \in 1 .. n - 1 : g[k] = f[k + 1]
  BY <1>2, <1>5, <1>6, <1>7, <1>8
<1>10. g = Tail(f) /\ f # <<>>
  BY <1>4, <1>5, <1>6, <1>9, ListTail
<1> QED BY <1>10 DEF f, g, v

\* The same requests, the same answers.
LEMMA AsksSame ==
    ASSUME NEW w, NEW ch, NEW next, \A k \in DOMAIN w : next[w[k]] = ch[w[k]]
    PROVE  Asks(w, next) = Asks(w, ch)
BY DEF Asks

LEMMA AnswersSame ==
    ASSUME NEW u, NEW buf, NEW next, \A k \in DOMAIN u : next[u[k].id] = buf[u[k].id]
    PROVE  Answers(u, next) = Answers(u, buf)
BY DEF Answers

\* What the driver reads from the buffer of an answered request.
ReplyOf(h, data, status) ==
    [head |-> h, ok |-> status = VIRTIO_BLK_S_OK, data |-> data, len |-> Len(data) + 1]

LEMMA AnswerSays ==
    ASSUME NEW h, NEW n, NEW data, IsList(data, n), NEW status
    PROVE  AnswerOf([id |-> h, len |-> n + 1], Append(data, status)) = ReplyOf(h, data, status)
<1> DEFINE bytes == Append(data, status)
<1>1. Len(bytes) = n + 1 /\ bytes[n + 1] = status /\ n \in Nat
  BY AppendIsList, ListIsSeq
<1>2. SubSeq(bytes, 1, n) = data
  BY FrontOf
<1>3. Len(data) = n /\ (n + 1) - 1 = n
  BY <1>1, ListIsSeq
<1> HIDE DEF bytes
<1>4. AnswerOf([id |-> h, len |-> n + 1], bytes)
        = [head |-> h, ok |-> bytes[Len(bytes)] = VIRTIO_BLK_S_OK,
           data |-> SubSeq(bytes, 1, Len(bytes) - 1), len |-> n + 1]
  BY DEF AnswerOf
<1> QED BY <1>1, <1>2, <1>3, <1>4 DEF ReplyOf, bytes

-----------------------------------------------------------------------------
(***************************************************************************)
(* The invariant of the refinement: the buffers of the chains that wait    *)
(* are as the driver left them.                                            *)
(***************************************************************************)
IsBuffers(buf) == buf = [h \in Heads |-> buf[h]]

AreFresh(w, ch, buf) == \A k \in DOMAIN w : buf[w[k]] = Fresh(ch[w[k]])

QueueInv ==
    /\ RingInv
    /\ IsBuffers(buffer)
    /\ clean => AreFresh(WaitingHeads, chains, buffer)

LEMMA QueueInvPrimed ==
    ASSUME RingInv', IsBuffers(buffer'), clean' => AreFresh(WaitingHeads', chains', buffer')
    PROVE  QueueInv'
BY DEF QueueInv, IsBuffers, AreFresh, Fresh

LEMMA QueueInvInit == Init => QueueInv
<1> SUFFICES ASSUME Init PROVE QueueInv
  OBVIOUS
<1>1. RingInv
  BY RingInvInit
<1>2. IsBuffers(buffer)
  BY DEF Init, IsBuffers
<1>3. WaitingHeads = <<>>
  BY DEF Init, WaitingHeads
<1>4. AreFresh(WaitingHeads, chains, buffer)
  BY <1>3 DEF AreFresh
<1> QED BY <1>1, <1>2, <1>4 DEF QueueInv

\* The device has taken the oldest request, that of head h.
Taken(h) ==
    /\ WaitingHeads \in Seq(Range(WaitingHeads)) /\ WaitingHeads # <<>>
    /\ h = Head(WaitingHeads) /\ WaitingHeads' = Tail(WaitingHeads)
    /\ h \in Heads /\ chains[h] \in Requests /\ chains' = chains
    /\ buffer[h] = Fresh(chains[h])
    /\ \A k \in DOMAIN Tail(WaitingHeads) :
          /\ Tail(WaitingHeads)[k] # h
          /\ buffer[Tail(WaitingHeads)[k]] = Fresh(chains[Tail(WaitingHeads)[k]])
          /\ Tail(WaitingHeads)[k] \in Heads
    /\ Unseen \in Seq(Range(Unseen))
    /\ \A k \in DOMAIN Unseen : Unseen[k].id # h /\ Unseen[k].id \in Heads
    /\ virtual_block_recv_request(h, chains[h])
    /\ NoCompletion => Unseen' = Unseen
    /\ \A len : virtual_consume_desc(h, len) => Unseen' = Append(Unseen, [id |-> h, len |-> len])

LEMMA ServeTakes ==
    ASSUME QueueInv, clean, clean', Serve
    PROVE  \E h : Taken(h)
<1> DEFINE h == NextHead
           w == WaitingHeads
<1>1. RingTypes /\ qsize # 0 /\ SetUpSo /\ AreFresh(w, chains, buffer)
  BY DEF QueueInv, RingInv, NotSetUp, Serve, MoreToServe
<1>2. /\ MoreToServe /\ Advance /\ UNCHANGED <<chains, qsize, seen>>
      /\ virtual_block_recv_request(h, chains[h])
  BY DEF Serve
<1>3. /\ w # <<>> /\ h = Head(w) /\ WaitingHeads' = Tail(w)
      /\ NoCompletion => Unseen' = Unseen
      /\ \A len : virtual_consume_desc(h, len) => Unseen' = Append(Unseen, [id |-> h, len |-> len])
  BY <1>1, <1>2, ServeTakesOldest
<1>4. w \in Seq(Range(w)) /\ Unseen \in Seq(Range(Unseen))
  BY <1>1, RingsWithinBounds
<1>5. OwnedOnce(w, Unseen, Busy)
  BY <1>1 DEF SetUpSo
<1> HIDE DEF h, w
<1>6. Head(w) = w[1] /\ 1 \in DOMAIN w
  BY <1>3, <1>4, TailPlaces
<1>7. \A k \in DOMAIN Tail(w) : k \in Nat /\ k + 1 \in DOMAIN w /\ Tail(w)[k] = w[k + 1] /\ k + 1 # 1
  BY <1>3, <1>4, TailPlaces
<1>8. h \in Busy /\ buffer[h] = Fresh(chains[h])
  BY <1>1, <1>3, <1>5, <1>6 DEF OwnedOnce, AreFresh
<1>9. \A k \in DOMAIN Tail(w) : /\ Tail(w)[k] # h /\ Tail(w)[k] \in Busy
                                /\ buffer[Tail(w)[k]] = Fresh(chains[Tail(w)[k]])
  BY <1>1, <1>3, <1>5, <1>6, <1>7 DEF OwnedOnce, AreFresh, IsInjective
<1>10. \A k \in DOMAIN Unseen : Unseen[k].id # h /\ Unseen[k].id \in Busy
  BY <1>3, <1>5, <1>6 DEF OwnedOnce
<1>11. \A x \in Busy : x \in Heads /\ chains[x] \in Requests
  BY <1>1 DEF Busy, RingTypes
<1> QED BY <1>2, <1>3, <1>4, <1>8, <1>9, <1>10, <1>11 DEF Taken, w, h

LEMMA TakenWaits ==
    ASSUME NEW h, Taken(h), clean, clean'
    PROVE  /\ Waiting # <<>> /\ Waiting' = Tail(Waiting)
           /\ Head(Waiting) = AskOf(h, chains[h])
<1> DEFINE w == WaitingHeads
<1>1. w \in Seq(Range(w)) /\ w # <<>> /\ h = Head(w) /\ WaitingHeads' = Tail(w) /\ chains' = chains
  BY DEF Taken
<1>2. /\ Asks(Tail(w), chains) = Tail(Asks(w, chains)) /\ Asks(w, chains) # <<>>
      /\ Head(Asks(w, chains)) = AskOf(h, chains[h])
  BY <1>1, AsksTail
<1>3. Waiting = Asks(w, chains)
  BY ServiceSees
<1>4. Waiting' = Asks(Tail(w), chains)
  BY <1>1, ServiceSeesNext
<1> QED BY <1>2, <1>3, <1>4

\* The buffer of head h, and no other, has been filled.
LEMMA TakenFilled ==
    ASSUME NEW h, Taken(h), IsBuffers(buffer), NEW bytes, buffer' = [buffer EXCEPT ![h] = bytes]
    PROVE  /\ IsBuffers(buffer') /\ buffer'[h] = bytes
           /\ \A k \in DOMAIN Unseen : buffer'[Unseen[k].id] = buffer[Unseen[k].id]
           /\ AreFresh(WaitingHeads', chains', buffer')
<1>1. h \in Heads
  BY DEF Taken
<1>2. /\ IsBuffers(buffer') /\ buffer'[h] = bytes
      /\ \A x \in Heads : x # h => buffer'[x] = buffer[x]
  BY <1>1 DEF IsBuffers
<1>3. \A k \in DOMAIN Unseen : buffer'[Unseen[k].id] = buffer[Unseen[k].id]
  BY <1>2 DEF Taken
<1>4. AreFresh(Tail(WaitingHeads), chains, buffer')
  BY <1>2 DEF Taken, AreFresh
<1>5. WaitingHeads' = Tail(WaitingHeads) /\ chains' = chains
  BY DEF Taken
<1> QED BY <1>2, <1>3, <1>4, <1>5

LEMMA TakenAnswered ==
    ASSUME NEW h, Taken(h), clean, clean', IsBuffers(buffer),
           NEW data, NEW n, NEW status, AnswersWith(h, data, n, status)
    PROVE  /\ Answered' = Append(Answered, ReplyOf(h, data, status))
           /\ IsBuffers(buffer') /\ AreFresh(WaitingHeads', chains', buffer')
<1> DEFINE bytes == Append(data, status)
           e == [id |-> h, len |-> n + 1]
<1>1. /\ IsList(data, n) /\ buffer' = [buffer EXCEPT ![h] = bytes]
      /\ virtual_consume_desc(h, n + 1)
  BY DEF AnswersWith
<1>2. Unseen' = Append(Unseen, e) /\ Unseen \in Seq(Range(Unseen))
  BY <1>1 DEF Taken
<1>3. AnswerOf(e, bytes) = ReplyOf(h, data, status)
  BY <1>1, AnswerSays
<1>4. e.id = h
  OBVIOUS
<1> HIDE DEF bytes, e
<1>5. /\ IsBuffers(buffer') /\ buffer'[h] = bytes
      /\ \A k \in DOMAIN Unseen : buffer'[Unseen[k].id] = buffer[Unseen[k].id]
      /\ AreFresh(WaitingHeads', chains', buffer')
  BY <1>1, TakenFilled
<1>6. Answers(Append(Unseen, e), buffer')
        = Append(Answers(Unseen, buffer), AnswerOf(e, buffer'[e.id]))
  <2>1. AgreeOn(Unseen, buffer, buffer')
    BY <1>5 DEF AgreeOn
  <2>2. Unseen \in Seq(Range(Unseen))
    BY <1>2
  <2> QED BY <2>1, <2>2, AnswersAppend
<1>7. Answered = Answers(Unseen, buffer) /\ Answered' = Answers(Unseen', buffer')
  BY ServiceSees, ServiceSeesNext
<1> QED BY <1>2, <1>3, <1>4, <1>5, <1>6, <1>7

LEMMA TakenDropped ==
    ASSUME NEW h, Taken(h), clean, clean', IsBuffers(buffer), SkipRequest
    PROVE  /\ Answered' = Answered
           /\ IsBuffers(buffer') /\ AreFresh(WaitingHeads', chains', buffer')
<1>1. NoCompletion /\ buffer' = buffer
  BY DEF SkipRequest
<1>2. Unseen' = Unseen
  BY <1>1 DEF Taken
<1>3. Answered = Answers(Unseen, buffer) /\ Answered' = Answers(Unseen', buffer')
  BY ServiceSees, ServiceSeesNext
<1>4. AreFresh(Tail(WaitingHeads), chains, buffer)
  BY DEF Taken, AreFresh
<1>5. WaitingHeads' = Tail(WaitingHeads) /\ chains' = chains
  BY DEF Taken
<1> QED BY <1>1, <1>2, <1>3, <1>4, <1>5

\* The four ways in which the device handles what it has taken.
IsRead(req) == req.type = "in" /\ req.layout \in {"joined", "split"}
IsWrite(req) == req.type = "out" /\ req.layout = "joined"
IsSplitWrite(req) == req.type = "out" /\ req.layout = "split"

Reads(h, req) ==
    /\ AnswersWith(h, bf_read_async(req.sector, req.count), Bytes(req), VIRTIO_BLK_S_OK)
    /\ sector_table' = sector_table

Writes(h, req) ==
    /\ AnswersWith(h, <<>>, 0, Verdict(req.sector, req.count))
    /\ bf_write_async(req.sector, DataFrom(req, HeaderLen, Bytes(req)), req.count)

SplitWrites(h, req) ==
    /\ AnswersWith(h, <<>>, 0, Verdict(req.sector, req.count - 1))
    /\ \E data : bf_write_async(req.sector, data, req.count - 1)

Handles(h, req) ==
    \/ IsRead(req) /\ Moves(req) /\ Reads(h, req)
    \/ IsWrite(req) /\ Moves(req) /\ Writes(h, req)
    \/ IsSplitWrite(req) /\ Moves(req) /\ SplitWrites(h, req)
    \/ IsDropped(req) /\ SkipRequest

LEMMA TakenHandled ==
    ASSUME NEW h, Taken(h), NEW req, req = chains[h]
    PROVE  Handles(h, req)
<1>1. h \in Heads /\ req \in Requests /\ buffer[h] = Fresh(req) /\ virtual_block_recv_request(h, req)
  BY DEF Taken
<1>2. IsRead(req) \/ IsWrite(req) \/ IsSplitWrite(req) \/ IsDropped(req)
  BY DEF IsRead, IsWrite, IsSplitWrite, IsDropped
<1>3. ASSUME IsRead(req) PROVE Handles(h, req)
  <2>1. Moves(req) /\ req.type = "in" /\ req.layout \in {"joined", "split"}
    BY <1>1, <1>3 DEF IsRead, Moves
  <2>2. Reads(h, req)
    BY <1>1, <2>1, ReadHandled DEF Reads
  <2> QED BY <1>3, <2>1, <2>2 DEF Handles
<1>4. ASSUME IsWrite(req) PROVE Handles(h, req)
  <2>1. Moves(req) /\ req.type = "out" /\ req.layout = "joined"
    BY <1>1, <1>4 DEF IsWrite, Moves
  <2>2. Writes(h, req)
    BY <1>1, <2>1, WriteHandled DEF Writes
  <2> QED BY <1>4, <2>1, <2>2 DEF Handles
<1>5. ASSUME IsSplitWrite(req) PROVE Handles(h, req)
  <2>1. Moves(req) /\ req.type = "out" /\ req.layout = "split"
    BY <1>1, <1>5 DEF IsSplitWrite, Moves
  <2>2. SplitWrites(h, req)
    BY <1>1, <2>1, SplitWriteHandled DEF SplitWrites
  <2> QED BY <1>5, <2>1, <2>2 DEF Handles
<1>6. ASSUME IsDropped(req) PROVE Handles(h, req)
  BY <1>1, <1>6, OthersDropped DEF Handles
<1> QED BY <1>2, <1>3, <1>4, <1>5, <1>6

LEMMA ServeKeepsBuffers ==
    ASSUME QueueInv, clean, clean', Serve
    PROVE  IsBuffers(buffer') /\ AreFresh(WaitingHeads', chains', buffer')
<1>1. PICK h : Taken(h)
  BY ServeTakes
<1> DEFINE req == chains[h]
<1>2. Handles(h, req)
  BY <1>1, TakenHandled
<1>3. SkipRequest \/ \E data, n, status : AnswersWith(h, data, n, status)
  BY <1>2 DEF Handles, Reads, Writes, SplitWrites
<1>4. IsBuffers(buffer)
  BY DEF QueueInv
<1> QED BY <1>1, <1>3, <1>4, TakenAnswered, TakenDropped

-----------------------------------------------------------------------------
(***************************************************************************)
(* Every step is one of the service, or changes nothing that it sees.      *)
(***************************************************************************)
Disk == [s \in SectorNumbers |-> Sector(s)]

LEMMA DiskIs ==
    /\ Disk = DiskOf(sector_table) /\ Disk' = DiskOf(sector_table')
    /\ DOMAIN Disk = SectorNumbers
BY SectorsSeen DEF Disk

LEMMA ReplyGood ==
    ASSUME NEW h, NEW data
    PROVE  ReplyOf(h, data, VIRTIO_BLK_S_OK) = Service!Reply(h, TRUE, data)
BY DEF ReplyOf, Service!Reply

LEMMA ReplyVerdict ==
    ASSUME NEW h, NEW sector, NEW size
    PROVE  \E ok \in BOOLEAN : /\ ok = WriteFits(sector, size)
                               /\ ReplyOf(h, <<>>, Verdict(sector, size)) = Service!Reply(h, ok, <<>>)
<1>1. CASE WriteFits(sector, size)
  <2>1. ReplyOf(h, <<>>, Verdict(sector, size)) = Service!Reply(h, TRUE, <<>>)
    BY <1>1, ReplyGood DEF Verdict
  <2> QED BY <1>1, <2>1
<1>2. CASE ~WriteFits(sector, size)
  <2>1. Verdict(sector, size) # VIRTIO_BLK_S_OK
    BY <1>2 DEF Verdict, VIRTIO_BLK_S_OK, VIRTIO_BLK_S_IOERR
  <2>2. ReplyOf(h, <<>>, Verdict(sector, size)) = Service!Reply(h, FALSE, <<>>)
    BY <2>1 DEF ReplyOf, Service!Reply
  <2>3. FALSE = WriteFits(sector, size)
    BY <1>2 DEF WriteFits
  <2> QED BY <2>2, <2>3
<1> QED BY <1>1, <1>2

LEMMA ReadIsAnswered ==
    ASSUME NEW h, Taken(h), clean, clean', IsBuffers(buffer),
           NEW req, Moves(req), IsRead(req), Reads(h, req)
    PROVE  Service!AnswerRead(h, req)
<1> DEFINE data == bf_read_async(req.sector, req.count)
<1>1. AnswersWith(h, data, Bytes(req), VIRTIO_BLK_S_OK) /\ sector_table' = sector_table
  BY DEF Reads
<1>2. req.type = "in"
  BY DEF IsRead
<1>3. data = [k \in 1 .. Bytes(req) |->
                Disk[req.sector + (k - 1) \div SectorSize][((k - 1) % SectorSize) + 1]]
  BY <1>2, ReadReturns, DiskIs
<1>4. Service!Data(req) = data
  BY <1>3 DEF Service!Data, Disk, Bytes
<1> HIDE DEF data
<1>5. Answered' = Append(Answered, ReplyOf(h, data, VIRTIO_BLK_S_OK))
  BY <1>1, TakenAnswered
<1>6. Answered' = Append(Answered, Service!Reply(h, TRUE, Service!Data(req)))
  BY <1>4, <1>5, ReplyGood
<1>7. Disk' = Disk
  BY <1>1, DiskIs
<1> QED BY <1>2, <1>6, <1>7 DEF Service!AnswerRead, Disk

LEMMA WriteIsAnswered ==
    ASSUME NEW h, Taken(h), clean, clean', IsBuffers(buffer),
           NEW req, Moves(req), IsWrite(req), Writes(h, req)
    PROVE  Service!AnswerWrite(h, req)
<1>1. /\ AnswersWith(h, <<>>, 0, Verdict(req.sector, req.count))
      /\ bf_write_async(req.sector, DataFrom(req, HeaderLen, Bytes(req)), req.count)
  BY DEF Writes
<1>2. req.type = "out" /\ req.layout = "joined"
  BY DEF IsWrite
<1>3. Answered' = Append(Answered, ReplyOf(h, <<>>, Verdict(req.sector, req.count)))
  BY <1>1, TakenAnswered
<1>4. Service!Fits(req) = WriteFits(req.sector, req.count)
  BY FitsIs, DiskIs DEF Service!Fits, Service!Named, NamedBy, Disk
<1>5. Answered' = Append(Answered, Service!Reply(h, Service!Fits(req), <<>>))
  <2>1. PICK ok \in BOOLEAN :
            /\ ok = WriteFits(req.sector, req.count)
            /\ ReplyOf(h, <<>>, Verdict(req.sector, req.count)) = Service!Reply(h, ok, <<>>)
    BY ReplyVerdict
  <2>2. ok = Service!Fits(req)
    BY <1>4, <2>1
  <2> QED BY <1>3, <2>1, <2>2
<1>6. Service!Stored(req) = StoredOn(Disk, req)
  BY DEF Service!Stored, Service!Named, StoredOn, NamedBy, Disk
<1>7. Disk' = IF Service!Fits(req) THEN Service!Stored(req) ELSE Disk
  BY <1>1, <1>4, <1>6, WriteStores, FitsIs, DiskIs
<1> QED BY <1>2, <1>5, <1>7 DEF Service!AnswerWrite, Disk

LEMMA SplitWriteIsAnswered ==
    ASSUME NEW h, Taken(h), clean, clean', IsBuffers(buffer),
           NEW req, Moves(req), IsSplitWrite(req), SplitWrites(h, req)
    PROVE  Service!AnswerSplitWrite(h, req)
<1>1. /\ AnswersWith(h, <<>>, 0, Verdict(req.sector, req.count - 1))
      /\ \E data : bf_write_async(req.sector, data, req.count - 1)
  BY DEF SplitWrites
<1>2. req.type = "out" /\ req.layout = "split"
  BY DEF IsSplitWrite
<1>3. Answered' = Append(Answered, ReplyOf(h, <<>>, Verdict(req.sector, req.count - 1)))
  BY <1>1, TakenAnswered
<1>4. \E ok \in BOOLEAN : Answered' = Append(Answered, Service!Reply(h, ok, <<>>))
  BY <1>3, ReplyVerdict
<1>5. /\ DOMAIN Disk' = DOMAIN Disk
      /\ \A s \in DOMAIN Disk \ Service!Named(req) : Disk'[s] = Disk[s]
  BY <1>1, SplitWriteStores, DiskIs DEF Service!Named, NamedBy
<1> QED BY <1>2, <1>4, <1>5 DEF Service!AnswerSplitWrite, Disk

LEMMA DropIsUnanswered ==
    ASSUME NEW h, Taken(h), clean, clean', IsBuffers(buffer),
           NEW req, IsDropped(req), SkipRequest
    PROVE  Service!Drop(req)
<1>1. Answered' = Answered
  BY TakenDropped
<1>2. Disk' = Disk
  BY DiskIs DEF SkipRequest
<1> QED BY <1>1, <1>2 DEF Service!Drop, IsDropped, Disk

LEMMA ServeServes ==
    ASSUME QueueInv, clean, clean', Serve
    PROVE  Service!Serve
<1>1. PICK h : Taken(h)
  BY ServeTakes
<1> DEFINE req == chains[h]
<1>2. IsBuffers(buffer) /\ clean' = clean
  BY DEF QueueInv
<1>3. Handles(h, req)
  BY <1>1, TakenHandled
<1>4. /\ Waiting # <<>> /\ Waiting' = Tail(Waiting)
      /\ Head(Waiting).head = h /\ Head(Waiting).req = req
  BY <1>1, TakenWaits DEF AskOf
<1> HIDE DEF req
<1>5. \/ Service!AnswerRead(h, req) \/ Service!AnswerWrite(h, req)
      \/ Service!AnswerSplitWrite(h, req) \/ Service!Drop(req)
  BY <1>1, <1>2, <1>3, ReadIsAnswered, WriteIsAnswered, SplitWriteIsAnswered, DropIsUnanswered
     DEF Handles
<1> QED BY <1>2, <1>4, <1>5 DEF Service!Serve

\* What the driver's steps find in the rings.
RingsFound ==
    /\ RingTypes /\ qsize # 0 /\ SetUpSo /\ clean /\ IsBuffers(buffer)
    /\ AreFresh(WaitingHeads, chains, buffer)
    /\ WaitingHeads \in Seq(Range(WaitingHeads)) /\ Unseen \in Seq(Range(Unseen))
    /\ \A k \in DOMAIN WaitingHeads : WaitingHeads[k] \in Busy
    /\ \A k \in DOMAIN Unseen : Unseen[k].id \in Busy

LEMMA DriverFinds ==
    ASSUME QueueInv, Submit \/ Collect
    PROVE  RingsFound
<1>1. clean /\ RingTypes /\ IsBuffers(buffer) /\ AreFresh(WaitingHeads, chains, buffer)
  BY DEF QueueInv, RingInv, Submit, Collect, GuestRuns
<1>2. qsize # 0
  <2>1. CASE Collect
    BY <1>1, <2>1 DEF QueueInv, RingInv, NotSetUp, Collect
  <2>2. CASE Submit /\ qsize = 0
    <3>1. Busy = {} /\ Cardinality(Busy) < 0
      BY <1>1, <2>2 DEF QueueInv, RingInv, NotSetUp, Submit
    <3> QED BY <3>1, FS_EmptySet
  <2> QED BY <2>1, <2>2
<1>3. SetUpSo
  BY <1>1, <1>2 DEF QueueInv, RingInv
<1>4. WaitingHeads \in Seq(Range(WaitingHeads)) /\ Unseen \in Seq(Range(Unseen))
  BY <1>1, <1>2, <1>3, RingsWithinBounds
<1>5. OwnedOnce(WaitingHeads, Unseen, Busy)
  BY <1>3 DEF SetUpSo
<1> QED BY <1>1, <1>2, <1>3, <1>4, <1>5 DEF RingsFound, OwnedOnce

LEMMA SubmitAsks ==
    ASSUME QueueInv, Submit
    PROVE  /\ \E h \in Heads, req \in Requests : Service!Ask(h, req)
           /\ IsBuffers(buffer') /\ AreFresh(WaitingHeads', chains', buffer')
<1> DEFINE w == WaitingHeads
<1>1. RingsFound
  BY DriverFinds
<1>2. clean /\ clean' = clean /\ clean'
  BY <1>1 DEF RingsFound, Submit
<1>3. PICK h \in Heads \ Busy, req \in Requests :
          /\ chains' = [chains EXCEPT ![h] = req]
          /\ buffer' = [buffer EXCEPT ![h] = Fresh(req)]
          /\ WaitingHeads' = Append(w, h) /\ Unseen' = Unseen
  BY <1>1, SubmitWaitsLast DEF RingsFound
<1>4. /\ chains'[h] = req /\ buffer'[h] = Fresh(req) /\ IsBuffers(buffer')
      /\ \A x \in Busy : chains'[x] = chains[x] /\ buffer'[x] = buffer[x]
  BY <1>1, <1>3 DEF RingsFound, RingTypes, IsBuffers, Busy
<1>5. /\ \A k \in DOMAIN w : chains'[w[k]] = chains[w[k]] /\ buffer'[w[k]] = buffer[w[k]]
      /\ \A k \in DOMAIN Unseen : buffer'[Unseen[k].id] = buffer[Unseen[k].id]
  BY <1>1, <1>4 DEF RingsFound
<1>6. w \in Seq(Range(w))
  BY <1>1 DEF RingsFound
<1>7. Asks(Append(w, h), chains') = Append(Asks(w, chains), AskOf(h, chains'[h]))
  <2>1. SameFor(WaitingHeads, chains, chains')
    BY <1>5 DEF SameFor
  <2>2. WaitingHeads \in Seq(Range(WaitingHeads))
    BY <1>6
  <2>3. AskedLast(WaitingHeads, chains, chains', h)
    BY <2>1, <2>2, AsksAppend
  <2> QED BY <2>3 DEF AskedLast
<1> HIDE DEF w
<1>8. Waiting' = Append(Waiting, AskOf(h, req))
  <2>1. Waiting = Asks(w, chains)
    BY <1>2, ServiceSees DEF w
  <2>2. Waiting' = Asks(Append(w, h), chains')
    BY <1>2, <1>3, ServiceSeesNext
  <2> QED BY <1>4, <1>7, <2>1, <2>2
<1>9. Answered' = Answered
  <2>1. Answers(Unseen, buffer') = Answers(Unseen, buffer)
    BY <1>5, AnswersSame
  <2> QED BY <1>2, <1>3, <2>1, ServiceSees, ServiceSeesNext
<1>10. AreFresh(Append(w, h), chains', buffer')
  <2> DEFINE v == Append(w, h)
  <2>1. /\ DOMAIN v = DOMAIN w \union {Len(w) + 1}
        /\ \A k \in DOMAIN w : v[k] = w[k]
        /\ v[Len(w) + 1] = h
    BY <1>6, AppendPlaces
  <2> HIDE DEF v
  <2>2. AreFresh(w, chains, buffer)
    BY <1>1 DEF RingsFound, w
  <2>3. AreFresh(v, chains', buffer')
    BY <1>4, <1>5, <2>1, <2>2 DEF AreFresh
  <2> QED BY <2>3 DEF v
<1>11. Disk' = Disk
  BY DiskIs DEF Submit
<1>12. Service!Ask(h, req)
  BY <1>2, <1>8, <1>9, <1>11 DEF Service!Ask, AskOf, Disk
<1> QED BY <1>3, <1>4, <1>10, <1>12

LEMMA CollectCollects ==
    ASSUME QueueInv, Collect
    PROVE  /\ Service!Collect
           /\ IsBuffers(buffer') /\ AreFresh(WaitingHeads', chains', buffer')
<1> DEFINE w == WaitingHeads
           u == Unseen
           h == Head(Unseen).id
<1>1. RingsFound
  BY DriverFinds
<1>2. clean /\ clean' = clean /\ clean'
  BY <1>1 DEF RingsFound, Collect
<1>3. /\ u # <<>> /\ Unseen' = Tail(u) /\ WaitingHeads' = w
      /\ chains' = [chains EXCEPT ![h] = NoRequest]
      /\ buffer' = [buffer EXCEPT ![h] = <<>>]
  BY <1>1, CollectTakesOldest DEF RingsFound
<1>4. u \in Seq(Range(u)) /\ OwnedOnce(w, u, Busy)
  BY <1>1 DEF RingsFound, SetUpSo
<1>5. /\ \A k \in DOMAIN Tail(u) : k + 1 \in DOMAIN u /\ Tail(u)[k] = u[k + 1] /\ k + 1 # 1
      /\ Head(u) = u[1] /\ 1 \in DOMAIN u
  BY <1>3, <1>4, TailPlaces
<1>6. /\ \A k \in DOMAIN w : w[k] # h
      /\ \A k \in DOMAIN Tail(u) : Tail(u)[k].id # h
  BY <1>4, <1>5 DEF OwnedOnce
<1>7. IsBuffers(buffer') /\ \A x \in Heads : x # h => chains'[x] = chains[x] /\ buffer'[x] = buffer[x]
  BY <1>1, <1>3 DEF RingsFound, RingTypes, IsBuffers
<1>8. \A k \in DOMAIN w : w[k] \in Heads
  BY <1>1 DEF RingsFound, Busy
<1>9. \A k \in DOMAIN Tail(u) : Tail(u)[k].id \in Heads
  BY <1>1, <1>5 DEF RingsFound, Busy
<1>10. /\ \A k \in DOMAIN w : chains'[w[k]] = chains[w[k]] /\ buffer'[w[k]] = buffer[w[k]]
       /\ \A k \in DOMAIN Tail(u) : buffer'[Tail(u)[k].id] = buffer[Tail(u)[k].id]
  BY <1>6, <1>7, <1>8, <1>9
<1>11. Waiting' = Waiting
  <2>1. Asks(w, chains') = Asks(w, chains)
    BY <1>10, AsksSame
  <2> QED BY <1>2, <1>3, <2>1, ServiceSees, ServiceSeesNext
<1>12. Answered # <<>> /\ Answered' = Tail(Answered)
  <2>1. Answers(Tail(u), buffer') = Tail(Answers(u, buffer)) /\ Answers(u, buffer) # <<>>
    BY <1>3, <1>4, <1>10, AnswersTail
  <2> QED BY <1>2, <1>3, <2>1, ServiceSees, ServiceSeesNext
<1>13. AreFresh(w, chains', buffer')
  BY <1>1, <1>10 DEF RingsFound, AreFresh
<1>14. Disk' = Disk
  BY DiskIs DEF Collect
<1>15. Service!Collect
  BY <1>2, <1>11, <1>12, <1>14 DEF Service!Collect, Disk
<1> QED BY <1>3, <1>7, <1>13, <1>15

LEMMA ResetRestarts ==
    ASSUME QueueInv, Reset
    PROVE  /\ Service!Restart
           /\ IsBuffers(buffer') /\ AreFresh(WaitingHeads', chains', buffer')
<1>1. /\ clean /\ clean' = clean /\ clean' /\ qsize' = 0 /\ sector_table' = sector_table
      /\ buffer' = [h \in Heads |-> <<>>]
  BY DEF Reset, GuestRuns
<1>2. WaitingHeads' = <<>> /\ Unseen' = <<>>
  BY <1>1 DEF WaitingHeads, Unseen
<1>3. Waiting' = <<>> /\ Answered' = <<>>
  BY <1>1, <1>2, ServiceSeesNext DEF Asks, Answers
<1>4. Disk' = Disk
  BY <1>1, DiskIs
<1>5. IsBuffers(buffer') /\ AreFresh(WaitingHeads', chains', buffer')
  BY <1>1, <1>2 DEF IsBuffers, AreFresh
<1> QED BY <1>1, <1>3, <1>4, <1>5 DEF Service!Restart, Disk

LEMMA SetUpUnseen ==
    ASSUME QueueInv, SetUp
    PROVE  /\ UNCHANGED Service!serviceVars
           /\ IsBuffers(buffer') /\ AreFresh(WaitingHeads', chains', buffer')
<1>1. /\ clean /\ clean' = clean /\ clean' /\ qsize = 0 /\ last_avail_idx' = 0
      /\ sector_table' = sector_table /\ buffer' = buffer
      /\ avail_idx' = 0 /\ used_idx' = 0 /\ seen' = 0
  BY DEF QueueInv, RingInv, NotSetUp, SetUp, GuestRuns
<1>2. WaitingHeads = <<>> /\ Unseen = <<>>
  BY <1>1 DEF WaitingHeads, Unseen
<1>3. WaitingHeads' = <<>> /\ Unseen' = <<>>
  <2>1. Distance(0, 0) = 0
    BY IndexFacts, RingConstants DEF Indices
  <2> QED BY <1>1, <2>1 DEF WaitingHeads, Unseen
<1>4. Waiting' = Waiting /\ Answered' = Answered
  BY <1>1, <1>2, <1>3, ServiceSees, ServiceSeesNext DEF Asks, Answers
<1>5. Disk' = Disk
  BY <1>1, DiskIs
<1>6. IsBuffers(buffer') /\ AreFresh(WaitingHeads', chains', buffer')
  BY <1>1, <1>3 DEF QueueInv, IsBuffers, AreFresh
<1> QED BY <1>1, <1>4, <1>5, <1>6 DEF Service!serviceVars, Disk

\* The steps that move neither requests nor answers nor data.
Outside == ServeEnds \/ Notify \/ Acknowledge \/ LeaveHandler \/ Undefined \/ UNCHANGED vars

LEMMA OthersUnseen ==
    ASSUME QueueInv, Outside
    PROVE  /\ UNCHANGED Service!serviceVars
           /\ IsBuffers(buffer') /\ (clean' => AreFresh(WaitingHeads', chains', buffer'))
<1>1. UNCHANGED <<last_avail_idx, ringVars, sector_table, chains, buffer, qsize, seen, clean>>
  BY DEF Outside, ServeEnds, EndNotify, Notify, BeginNotify, Acknowledge, LeaveHandler, Undefined,
         vars, queueVars, driverVars
<1>2. WaitingHeads' = WaitingHeads /\ Unseen' = Unseen
  BY <1>1 DEF WaitingHeads, Unseen, ringVars
<1>3. Waiting' = Waiting /\ Answered' = Answered
  BY <1>1, <1>2 DEF Waiting, Answered
<1>4. Disk' = Disk
  BY <1>1, DiskIs
<1>5. IsBuffers(buffer') /\ (clean' => AreFresh(WaitingHeads', chains', buffer'))
  BY <1>1, <1>2 DEF QueueInv, IsBuffers, AreFresh
<1> QED BY <1>1, <1>3, <1>4, <1>5 DEF Service!serviceVars, Disk

\* A step after which nothing is promised.
LEMMA ServeDirty ==
    ASSUME QueueInv, Serve, ~(clean /\ clean')
    PROVE  ~clean' /\ IsBuffers(buffer')
<1>1. ~clean'
  BY DEF Serve
<1>2. \/ SkipRequest
      \/ \E head, chain, bytes : virtual_block_req_end(head, chain, bytes)
  BY DEF Serve, virtual_block_recv_request, ReadRequest, WriteRequest
<1>3. IsBuffers(buffer')
  BY <1>2 DEF QueueInv, IsBuffers, SkipRequest, virtual_block_req_end
<1> QED BY <1>1, <1>3

LEMMA QueueInvStep == QueueInv /\ [Next]_vars => QueueInv'
<1> SUFFICES ASSUME QueueInv, [Next]_vars
             PROVE  QueueInv'
  OBVIOUS
<1>1. RingInv'
  BY RingInvStep DEF QueueInv
<1>2. ASSUME IsBuffers(buffer') /\ (clean' => AreFresh(WaitingHeads', chains', buffer'))
      PROVE  QueueInv'
  BY <1>1, <1>2, QueueInvPrimed
<1>3. CASE Serve
  <2>1. CASE clean /\ clean'
    BY <1>2, <1>3, <2>1, ServeKeepsBuffers
  <2>2. CASE ~(clean /\ clean')
    BY <1>2, <1>3, <2>2, ServeDirty
  <2> QED BY <2>1, <2>2
<1>4. CASE SetUp
  BY <1>2, <1>4, SetUpUnseen
<1>5. CASE Submit
  BY <1>2, <1>5, SubmitAsks
<1>6. CASE Collect
  BY <1>2, <1>6, CollectCollects
<1>7. CASE Reset
  BY <1>2, <1>7, ResetRestarts
<1>8. CASE Outside
  BY <1>2, <1>8, OthersUnseen
<1> QED BY <1>3, <1>4, <1>5, <1>6, <1>7, <1>8 DEF Next, Outside

LEMMA ServiceStarts == Init => Service!ServiceInit
<1> SUFFICES ASSUME Init PROVE Service!ServiceInit
  OBVIOUS
<1>1. WaitingHeads = <<>> /\ Unseen = <<>> /\ clean = TRUE
  BY DEF Init, WaitingHeads, Unseen
<1>2. Waiting = <<>> /\ Answered = <<>>
  BY <1>1, ServiceSees DEF Asks, Answers
<1>3. Disk = [s \in 0 .. NbSectors - 1 |->
                [k \in 1 .. SectorSize |-> <<FileValue, s * SectorSize + k - 1>>]]
  BY DEF Init, block_device_init, Disk, Sector, FileSector, SectorNumbers
<1> QED BY <1>1, <1>2, <1>3 DEF Service!ServiceInit, Disk

LEMMA ServiceSteps == QueueInv /\ [Next]_vars => [Service!ServiceNext]_(Service!serviceVars)
<1> SUFFICES ASSUME QueueInv, [Next]_vars
             PROVE  Service!ServiceNext \/ UNCHANGED Service!serviceVars
  BY DEF Service!serviceVars
<1>1. CASE Serve
  <2>1. CASE clean /\ clean'
    <3>1. Service!Serve
      BY <1>1, <2>1, ServeServes
    <3> QED BY <2>1, <3>1 DEF Service!ServiceNext
  <2>2. CASE clean /\ ~clean'
    <3>1. Service!GoUndefined
      BY <2>2 DEF Service!GoUndefined
    <3> QED BY <2>2, <3>1 DEF Service!ServiceNext
  <2>3. CASE ~clean
    <3>1. ~clean'
      BY <1>1, <2>3, ServeDirty
    <3> QED BY <2>3, <3>1 DEF Service!ServiceNext, Service!Anything
  <2> QED BY <2>1, <2>2, <2>3
<1>2. CASE SetUp
  BY <1>2, SetUpUnseen
<1>3. CASE Submit
  <2>1. clean /\ \E h \in Heads, req \in Requests : Service!Ask(h, req)
    BY <1>3, SubmitAsks DEF Submit, GuestRuns
  <2> QED BY <2>1 DEF Service!ServiceNext
<1>4. CASE Collect
  <2>1. clean /\ Service!Collect
    BY <1>4, CollectCollects DEF Collect, GuestRuns
  <2> QED BY <2>1 DEF Service!ServiceNext
<1>5. CASE Reset
  <2>1. clean /\ Service!Restart
    BY <1>5, ResetRestarts DEF Reset, GuestRuns
  <2> QED BY <2>1 DEF Service!ServiceNext
<1>6. CASE Outside
  BY <1>6, OthersUnseen
<1> QED BY <1>1, <1>2, <1>3, <1>4, <1>5, <1>6 DEF Next, Outside

\* The virtqueue with its block device is the service that a driver is promised:
\* requests are taken in the order in which they were made available, each is
\* answered once or dropped as the service says, a read returns what was last
\* written, a write is stored as a whole or refused.
THEOREM BlockServiceImplemented == Spec => ServiceImplemented
<1>1. Spec => [](QueueInv)
  BY QueueInvInit, QueueInvStep, PTL DEF Spec
<1> QED BY <1>1, ServiceStarts, ServiceSteps, PTL DEF Spec, ServiceImplemented, Service!ServiceSpec

-----------------------------------------------------------------------------
(***************************************************************************)
(* Types.                                                                  *)
(***************************************************************************)
\* A piece of a sequence has the length that its bounds say.
LEMMA PieceLength ==
    ASSUME NEW f, NEW a \in Nat, NEW m \in Nat
    PROVE  Len(SubSeq(f, a + 1, a + m)) = m
<1>1. SubSeq(f, a + 1, a + m) = [i \in 1 .. ((a + m) - (a + 1)) + 1 |-> f[(i + (a + 1)) - 1]]
  OBVIOUS
<1>2. ((a + m) - (a + 1)) + 1 = m
  OBVIOUS
<1>3. IsList(SubSeq(f, a + 1, a + m), m)
  BY <1>1, <1>2 DEF IsList
<1> QED BY <1>3, ListIsSeq

\* A sector that has been written has its full size.
DiskTypes(table) == \A s \in SectorNumbers : Len(table[s]) \in {0, SectorSize}

LEMMA WriteTypes ==
    ASSUME NEW first \in Nat, NEW data, NEW size, bf_write_async(first, data, size),
           DiskTypes(sector_table)
    PROVE  DiskTypes(sector_table')
<1> SUFFICES ASSUME NEW s \in SectorNumbers, WriteFits(first, size),
                    s \in first .. first + size - 1
             PROVE  Len(sector_table'[s]) = SectorSize
  BY WriteLands DEF DiskTypes, Landed
<1> DEFINE m == SectorSize
           i == s - first
<1>1. m \in Nat /\ i \in Nat
  BY DiskAssumption DEF SectorNumbers
<1>2. sector_table'[s] = SubSeq(data, i * m + 1, (i + 1) * m)
  BY WriteLands DEF Landed
<1> HIDE DEF m, i
<1>3. i * m \in Nat /\ (i + 1) * m = i * m + m
  BY <1>1
<1>4. Len(SubSeq(data, i * m + 1, i * m + m)) = m
  BY <1>1, <1>3, PieceLength
<1> QED BY <1>2, <1>3, <1>4 DEF m

\* What a request does to the used ring and the disk, whoever made it.
Entered(head) == NoCompletion \/ \E len \in Nat : virtual_consume_desc(head, len)

LEMMA ReadTypes ==
    ASSUME NEW head, NEW req \in Requests, req.type = "in", HasHeader(req), ReadRequest(head, req)
    PROVE  Entered(head) /\ sector_table' = sector_table
<1> DEFINE n == Bytes(req)
           data == bf_read_async(req.sector, req.count)
<1>1. Moves(req) /\ req.layout \in {"joined", "split"}
  BY RequestAssumption, MalformedChain DEF Moves
<1>2. Accepts(req, n + 1, HeaderLen) /\ n \in Nat /\ n \div SectorSize = req.count
  BY <1>1, ReadChain, RequestValues
<1>3. (get_desc_rw_size(ChainOf(req)).write - 1) \div SectorSize = req.count
  <2>1. get_desc_rw_size(ChainOf(req)).write = n + 1 /\ (n + 1) - 1 = n
    BY <1>2 DEF Accepts
  <2> QED BY <1>2, <2>1
<1>4. /\ virtual_consume_desc(head, Len(Append(data, VIRTIO_BLK_S_OK)))
      /\ sector_table' = sector_table
  BY <1>3 DEF ReadRequest, virtual_block_req_end
<1>5. IsList(data, n)
  BY <1>2 DEF IsList, bf_read_async, Bytes
<1> HIDE DEF n, data
<1>6. Len(Append(data, VIRTIO_BLK_S_OK)) = n + 1 /\ n + 1 \in Nat
  BY <1>2, <1>5, AppendIsList
<1> QED BY <1>4, <1>6 DEF Entered

LEMMA HandledTypes ==
    ASSUME NEW head, NEW req \in Requests, virtual_block_recv_request(head, req),
           DiskTypes(sector_table)
    PROVE  Entered(head) /\ DiskTypes(sector_table')
<1>1. CASE SkipRequest
  BY <1>1 DEF SkipRequest, Entered
<1>2. CASE req.type = "in" /\ HasHeader(req) /\ ReadRequest(head, req)
  BY <1>2, ReadTypes
<1>3. CASE WriteRequest(head, req)
  <2>1. /\ \E data, size : bf_write_async(req.sector, data, size)
        /\ \E status : virtual_consume_desc(head, Len(<<status>>))
    BY <1>3 DEF WriteRequest, virtual_block_req_end
  <2>2. req.sector \in Nat
    BY RequestAssumption
  <2>3. \A status : Len(<<status>>) = 1
    OBVIOUS
  <2> QED BY <2>1, <2>2, <2>3, WriteTypes DEF Entered
<1> QED BY <1>1, <1>2, <1>3 DEF virtual_block_recv_request

LEMMA HandledKeepsHeads ==
    ASSUME NEW head, NEW req, virtual_block_recv_request(head, req)
    PROVE  DOMAIN buffer' = DOMAIN buffer
<1>1. \/ SkipRequest
      \/ \E chain, bytes : virtual_block_req_end(head, chain, bytes)
  BY DEF virtual_block_recv_request, ReadRequest, WriteRequest
<1> QED BY <1>1 DEF SkipRequest, virtual_block_req_end

-----------------------------------------------------------------------------
(***************************************************************************)
(* Type correctness.  Behind a garbage upper half the driver stands still  *)
(* and the notification goes on with the same upper half: nothing more is  *)
(* taken from the driver's ring.                                           *)
(***************************************************************************)
Stopped == ~clean => upper # 0 \/ loop_avail = Idle

TypeInv == TypeOK /\ QueueInv /\ Stopped

LEMMA TypeInvInit == Init => TypeInv
<1> SUFFICES ASSUME Init PROVE TypeInv
  OBVIOUS
<1>1. 0 \in Indices /\ MAX_QUEUE_NUM \in 1 .. MAX_QUEUE_NUM /\ 0 \in Nat
  BY RingConstants DEF Indices
<1>2. QueueTypeOK
  BY <1>1 DEF Init, QueueInit, QueueTypeOK
<1>3. Len(<<>>) = 0
  OBVIOUS
<1>4. TypeOK
  BY <1>1, <1>2, <1>3 DEF Init, TypeOK, block_device_init, NoSector
<1> QED BY <1>4, QueueInvInit DEF TypeInv, Stopped, Init

\* What Serve takes: one of the driver's requests, or any if the head is garbage.
LEMMA ServeHandles ==
    ASSUME TypeInv, Serve
    PROVE  \/ SkipRequest
           \/ \E head \in Heads \union {Stray}, req \in Requests :
                 virtual_block_recv_request(head, req)
<1>1. CASE upper # 0
  BY <1>1 DEF Serve
<1>2. CASE upper = 0
  <2>1. clean /\ clean'
    BY <1>2 DEF TypeInv, Stopped, Serve, MoreToServe
  <2>2. PICK h : Taken(h)
    BY <2>1, ServeTakes DEF TypeInv
  <2>3. h \in Heads /\ chains[h] \in Requests /\ virtual_block_recv_request(h, chains[h])
    BY <2>2 DEF Taken
  <2> QED BY <2>3
<1> QED BY <1>1, <1>2 DEF TypeInv, TypeOK, QueueTypeOK

LEMMA ServeKeepsTypeOK ==
    ASSUME TypeInv, Serve
    PROVE  TypeOK' /\ Stopped'
<1>1. TypeOK
  BY DEF TypeInv
<1>2. /\ \E head \in Heads \union {Stray} : Entered(head)
      /\ DiskTypes(sector_table') /\ DOMAIN buffer' = Heads
  <2>1. DiskTypes(sector_table) /\ DOMAIN buffer = Heads
    BY <1>1 DEF TypeOK, DiskTypes
  <2>2. CASE SkipRequest
    BY <2>1, <2>2 DEF SkipRequest, Entered
  <2>3. ASSUME NEW head \in Heads \union {Stray}, NEW req \in Requests,
               virtual_block_recv_request(head, req)
        PROVE  Entered(head) /\ DiskTypes(sector_table') /\ DOMAIN buffer' = Heads
    BY <2>1, <2>3, HandledTypes, HandledKeepsHeads
  <2> QED BY <2>2, <2>3, ServeHandles
<1>3. /\ used_ring' \in [Slots -> [id : Heads \union {Stray}, len : Nat]]
      /\ used_idx' \in Indices /\ ring_irq' \in BOOLEAN
  <2>1. /\ used_ring \in [Slots -> [id : Heads \union {Stray}, len : Nat]]
        /\ used_idx \in Indices /\ ring_irq \in BOOLEAN /\ Step(used_idx) \in Indices
    BY <1>1, IndexFacts DEF TypeOK, QueueTypeOK
  <2>2. CASE NoCompletion
    BY <2>1, <2>2 DEF NoCompletion
  <2>3. ASSUME NEW head \in Heads \union {Stray}, NEW len \in Nat, virtual_consume_desc(head, len)
        PROVE  /\ used_ring' \in [Slots -> [id : Heads \union {Stray}, len : Nat]]
               /\ used_idx' \in Indices /\ ring_irq' \in BOOLEAN
    <3> DEFINE e == [id |-> head, len |-> len]
    <3>1. e \in [id : Heads \union {Stray}, len : Nat]
      OBVIOUS
    <3>2. /\ used_idx' = Step(used_idx) /\ ring_irq' = TRUE
          /\ used_ring' = [used_ring EXCEPT ![used_idx % num] = e]
      BY <2>3 DEF virtual_consume_desc
    <3> HIDE DEF e
    <3> QED BY <2>1, <3>1, <3>2
  <2> QED BY <1>2, <2>2, <2>3 DEF Entered
<1>4. last_avail_idx' \in Indices
  BY <1>1, IndexFacts DEF TypeOK, QueueTypeOK, Serve, Advance
<1>5. UNCHANGED <<num, avail_ring, avail_idx, loop_avail, upper, chains, qsize, seen, in_handler>>
  BY DEF Serve, Advance
<1>6. clean' \in BOOLEAN /\ (~clean' => upper' # 0 \/ ~clean)
  BY <1>1 DEF TypeOK, Serve, Advance
<1>7. QueueTypeOK'
  BY <1>1, <1>3, <1>4, <1>5 DEF TypeOK, QueueTypeOK
<1>8. TypeOK'
  BY <1>1, <1>2, <1>5, <1>6, <1>7 DEF TypeOK, DiskTypes
<1>9. Stopped'
  BY <1>5, <1>6 DEF TypeInv, Stopped
<1> QED BY <1>8, <1>9

LEMMA SetUpKeepsTypeOK ==
    ASSUME TypeInv, SetUp
    PROVE  TypeOK' /\ Stopped'
<1>1. TypeOK /\ QueueTypeOK
  BY DEF TypeInv, TypeOK
<1>2. /\ 0 \in Indices /\ 0 \in Nat
      /\ \A n \in QueueNums : n \in 1 .. MAX_QUEUE_NUM
  BY RingConstants, BlockAssumption DEF Indices
<1>3. QueueTypeOK'
  BY <1>1, <1>2 DEF SetUp, QueueTypeOK
<1>4. TypeOK'
  BY <1>1, <1>2, <1>3 DEF SetUp, TypeOK
<1> QED BY <1>4 DEF SetUp, GuestRuns, Stopped

LEMMA SubmitKeepsTypeOK ==
    ASSUME TypeInv, Submit
    PROVE  TypeOK' /\ Stopped'
<1>1. TypeOK /\ QueueTypeOK
  BY DEF TypeInv, TypeOK
<1>2. PICK h \in Heads \ Busy, req \in Requests :
          /\ chains' = [chains EXCEPT ![h] = req]
          /\ buffer' = [buffer EXCEPT ![h] = Fresh(req)]
          /\ avail_ring' = [avail_ring EXCEPT ![avail_idx % qsize] = h]
  BY DEF Submit
<1>3. avail_idx' \in Indices
  BY <1>1, IndexFacts DEF Submit, QueueTypeOK
<1>4. avail_ring' \in [Slots -> Heads \union {Stray}]
  BY <1>1, <1>2 DEF QueueTypeOK
<1>5. QueueTypeOK'
  BY <1>1, <1>3, <1>4 DEF Submit, QueueTypeOK
<1>6. chains' \in [Heads -> Requests \union {NoRequest}] /\ DOMAIN buffer' = Heads
  BY <1>1, <1>2 DEF TypeOK
<1>7. TypeOK'
  BY <1>1, <1>5, <1>6 DEF Submit, TypeOK
<1> QED BY <1>7 DEF Submit, GuestRuns, Stopped

LEMMA CollectKeepsTypeOK ==
    ASSUME TypeInv, Collect
    PROVE  TypeOK' /\ Stopped'
<1>1. TypeOK /\ QueueTypeOK
  BY DEF TypeInv, TypeOK
<1>2. QueueTypeOK'
  BY <1>1 DEF Collect, queueVars, ringVars, QueueTypeOK
<1>3. seen' \in Indices
  BY <1>1, IndexFacts DEF Collect, TypeOK
<1>4. chains' \in [Heads -> Requests \union {NoRequest}] /\ DOMAIN buffer' = Heads
  BY <1>1 DEF Collect, TypeOK
<1>5. TypeOK'
  BY <1>1, <1>2, <1>3, <1>4 DEF Collect, TypeOK
<1> QED BY <1>5 DEF Collect, GuestRuns, Stopped

LEMMA ResetKeepsTypeOK ==
    ASSUME TypeInv, Reset
    PROVE  TypeOK' /\ Stopped'
<1>1. TypeOK /\ QueueTypeOK
  BY DEF TypeInv, TypeOK
<1>2. 0 \in Indices /\ MAX_QUEUE_NUM \in 1 .. MAX_QUEUE_NUM
  BY RingConstants DEF Indices
<1>3. QueueTypeOK'
  BY <1>1, <1>2 DEF Reset, virtual_io_reset, ringVars, QueueTypeOK
<1>4. TypeOK'
  BY <1>1, <1>3 DEF Reset, TypeOK, QueueTypeOK
<1> QED BY <1>4 DEF Reset, GuestRuns, Stopped

LEMMA OthersKeepTypeOK ==
    ASSUME TypeInv, Outside
    PROVE  TypeOK' /\ Stopped'
<1>1. TypeOK /\ QueueTypeOK /\ Stopped
  BY DEF TypeInv, TypeOK
<1>2. UNCHANGED <<num, last_avail_idx, avail_ring, avail_idx, used_ring, used_idx,
                  sector_table, chains, buffer, qsize, seen, clean>>
  BY DEF Outside, ServeEnds, EndNotify, Notify, BeginNotify, Acknowledge, LeaveHandler, Undefined,
         vars, queueVars, ringVars, driverVars
<1>3. loop_avail' \in Indices \union {Idle} /\ upper' \in UpperHalves \union {0}
  BY <1>1 DEF Outside, ServeEnds, EndNotify, Notify, BeginNotify, Acknowledge, LeaveHandler, Undefined,
         vars, queueVars, ringVars, driverVars, QueueTypeOK
<1>4. ring_irq' \in BOOLEAN /\ in_handler' \in BOOLEAN
  BY <1>1 DEF Outside, ServeEnds, EndNotify, Notify, BeginNotify, Acknowledge, LeaveHandler, Undefined,
         vars, queueVars, ringVars, driverVars, QueueTypeOK, TypeOK
<1>5. QueueTypeOK'
  BY <1>1, <1>2, <1>3, <1>4 DEF QueueTypeOK
<1>6. TypeOK'
  BY <1>1, <1>2, <1>4, <1>5 DEF TypeOK
<1>7. Stopped'
  BY <1>1, <1>2 DEF Stopped, Outside, ServeEnds, EndNotify, Notify, GuestRuns, Acknowledge,
         LeaveHandler, Undefined, vars, queueVars, driverVars
<1> QED BY <1>6, <1>7

LEMMA TypeInvStep == TypeInv /\ [Next]_vars => TypeInv'
<1> SUFFICES ASSUME TypeInv, [Next]_vars
             PROVE  TypeOK' /\ Stopped' /\ QueueInv'
  BY DEF TypeInv
<1>1. QueueInv'
  BY QueueInvStep DEF TypeInv
<1>2. TypeOK' /\ Stopped'
  BY ServeKeepsTypeOK, SetUpKeepsTypeOK, SubmitKeepsTypeOK, CollectKeepsTypeOK, ResetKeepsTypeOK,
     OthersKeepTypeOK DEF Next, Outside
<1> QED BY <1>1, <1>2

\* The state of the queue, the disk and the driver has its types in every
\* behaviour, one in which a garbage upper half has been met included.
THEOREM BlockTypeCorrect == Spec => []TypeOK
<1>1. TypeInv => TypeOK
  BY DEF TypeInv
<1> QED BY <1>1, TypeInvInit, TypeInvStep, PTL DEF Spec
=============================================================================
