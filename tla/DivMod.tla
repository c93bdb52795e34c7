------------------------------- MODULE DivMod -------------------------------
(***************************************************************************)
(* Facts about quotients and remainders: a number taken apart into two     *)
(* halves, put together again, and compared with another.                  *)
(***************************************************************************)
EXTENDS Integers, WellFoundedInduction, TLAPS

\* A number is what its quotient and its remainder say.
LEMMA DivModDef ==
    ASSUME NEW x \in Nat, NEW n \in Nat \ {0}
    PROVE  /\ x \div n \in Nat /\ x % n \in Nat /\ x % n < n
           /\ x = ((x \div n) * n) + (x % n)
OBVIOUS

\* A number taken apart by a divisor.
LEMMA NatDivMod ==
    ASSUME NEW x \in Nat, NEW n \in Nat \ {0}
    PROVE  /\ x \div n \in Nat /\ x % n \in 0 .. n - 1
           /\ x = ((x \div n) * n) + (x % n)
<1> DEFINE q == x \div n
           r == x % n
<1>1. q \in Nat /\ r \in Nat /\ r < n /\ x = (q * n) + r
  BY DivModDef
<1> HIDE DEF q, r
<1>2. r \in 0 .. n - 1
  BY <1>1
<1> QED BY <1>1, <1>2 DEF q, r

\* Stated by itself, as the provers expand a product only when nothing else is asked.
LEMMA Distributes ==
    ASSUME NEW x \in Int, NEW y \in Int, NEW n \in Int
    PROVE  (x + y) * n = (x * n) + (y * n)
OBVIOUS

\* Two halves put together come apart as they were.
LEMMA DivModJoin ==
    ASSUME NEW q \in Nat, NEW r \in Nat, NEW n \in Nat \ {0}, r < n
    PROVE  ((q * n) + r) \div n = q /\ ((q * n) + r) % n = r
OBVIOUS

\* A word of two halves has a half for its quotient.
LEMMA DivBound ==
    ASSUME NEW x \in Nat, NEW n \in Nat \ {0}, x < n * n
    PROVE  x \div n < n
OBVIOUS

\* Two halves put together make a word.
LEMMA JoinBound ==
    ASSUME NEW q \in Nat, NEW r \in Nat, NEW n \in Nat \ {0}, r < n, q < n
    PROVE  (q * n) + r \in 0 .. (n * n) - 1
<1>1. (q + 1) * n <= n * n
  OBVIOUS
<1> QED BY <1>1

\* The high half never falls while the number rises.
LEMMA DivMonotone ==
    ASSUME NEW x \in Nat, NEW y \in Nat, NEW n \in Nat \ {0}, x <= y
    PROVE  (x \div n) * n <= (y \div n) * n
OBVIOUS

\* The two halves of a word.
LEMMA HalvesOfWord ==
    ASSUME NEW n \in Nat \ {0}, NEW x \in 0 .. (n * n) - 1
    PROVE  /\ x \div n \in Nat /\ x \div n < n
           /\ x % n \in Nat /\ x % n < n /\ x % n \in 0 .. (n * n) - 1
           /\ ((x \div n) * n) + (x % n) = x
<1>1. n * n \in Nat /\ x \in Nat /\ x < n * n
  OBVIOUS
<1>2. x \div n < n
  BY <1>1, DivBound
<1>3. x % n <= x
  BY <1>1, DivModDef
<1> QED BY <1>1, <1>2, <1>3, DivModDef

\* A number is known by a quotient and a remainder.
LEMMA ModUnique ==
    ASSUME NEW q \in Nat \ {0}, NEW c \in Int, NEW r \in 0 .. q - 1
    PROVE  ((c * q) + r) % q = r
OBVIOUS

\* A multiple of the modulus does not change the remainder.
LEMMA ModAdd ==
    ASSUME NEW i \in Nat, NEW q \in Nat \ {0}, NEW c \in Int
    PROVE  (i + (c * q)) % q = i % q
<1> DEFINE d == i \div q
           r == i % q
<1>1. d \in Nat /\ r \in 0 .. q - 1 /\ i = (d * q) + r
  BY DivModDef
<1> HIDE DEF d, r
<1>2. i + (c * q) = ((d + c) * q) + r
  BY <1>1
<1>3. d + c \in Int
  BY <1>1
<1>4. (((d + c) * q) + r) % q = r
  BY <1>1, <1>3, ModUnique
<1> QED BY <1>2, <1>4 DEF r

\* A number reduced by a multiple of the modulus keeps its remainder.
LEMMA ModMod ==
    ASSUME NEW i \in Nat, NEW k \in Nat, NEW q \in Nat \ {0}, NEW m \in Nat \ {0}, m % q = 0
    PROVE  ((i % m) + k) % q = (i + k) % q
<1> DEFINE c == i \div m
           d == m \div q
           n == (i % m) + k
<1>1. c \in Nat /\ i % m \in Nat /\ i = (c * m) + (i % m)
  BY DivModDef
<1>2. d \in Nat /\ m = (d * q) + (m % q)
  BY DivModDef
<1> HIDE DEF c, d
<1>3. m = d * q
  BY <1>2
<1>4. c * m = (c * d) * q
  BY <1>3, <1>1, <1>2
<1>5. i + k = n + ((c * d) * q)
  BY <1>1, <1>4
<1>6. n \in Nat /\ c * d \in Int
  BY <1>1, <1>2
<1> HIDE DEF n
<1>7. (n + ((c * d) * q)) % q = n % q
  BY <1>6, ModAdd
<1> QED BY <1>5, <1>7 DEF n

\* Numbers closer than the modulus have different remainders.
LEMMA ModDistinct ==
    ASSUME NEW a \in Nat, NEW b \in Nat, NEW q \in Nat \ {0}, 
           a % q = b % q, a - b < q, b - a < q
    PROVE  a = b
<1> DEFINE c == a \div q
           d == b \div q
           r == a % q
<1>1. c \in Nat /\ r \in Nat /\ a = (c * q) + r
  BY DivModDef
<1>2. d \in Nat /\ b = (d * q) + (b % q)
  BY DivModDef
<1>3. b = (d * q) + r
  BY <1>2
<1> HIDE DEF c, d, r
<1>4. a - b = (c - d) * q
  BY <1>1, <1>2, <1>3
<1>5. c - d >= 1 => (c - d) * q >= q
  BY <1>1, <1>2
<1>6. d - c >= 1 => (d - c) * q >= q
  BY <1>1, <1>2
<1>7. b - a = (d - c) * q
  BY <1>1, <1>2, <1>3
<1>8. a \in Int /\ b \in Int /\ q \in Int /\ c \in Int /\ d \in Int
  BY <1>1, <1>2
<1>9. ~ (c - d >= 1)
  BY <1>4, <1>5, <1>8
<1>10. ~ (d - c >= 1)
  BY <1>6, <1>7, <1>8
<1>11. c = d
  BY <1>8, <1>9, <1>10
<1> QED BY <1>11, <1>1, <1>3

-----------------------------------------------------------------------------
(* Integers.                                                               *)

\* The same for any integer.
LEMMA IntDivMod ==
    ASSUME NEW x \in Int, NEW n \in Nat \ {0}
    PROVE  /\ x \div n \in Int /\ x % n \in 0 .. n - 1
           /\ x = ((x \div n) * n) + (x % n)
OBVIOUS

\* An integer is known by its quotient and its remainder.
LEMMA IntJoin ==
    ASSUME NEW q \in Int, NEW n \in Nat \ {0}, NEW r \in 0 .. n - 1
    PROVE  ((q * n) + r) \div n = q /\ ((q * n) + r) % n = r
OBVIOUS

\* A quotient is known by the multiples on both sides.
LEMMA DivSame ==
    ASSUME NEW q \in Int, NEW n \in Nat \ {0}, NEW x \in Int, q * n <= x, x < (q + 1) * n
    PROVE  x \div n = q /\ x % n = x - (q * n)
<1> DEFINE r == x - (q * n)
<1>1. r \in 0 .. n - 1 /\ x = (q * n) + r
  OBVIOUS
<1> HIDE DEF r
<1>2. ((q * n) + r) \div n = q /\ ((q * n) + r) % n = r
  BY <1>1, IntJoin
<1> QED BY <1>1, <1>2 DEF r

\* A multiple of the divisor adds to the quotient and leaves the remainder.
LEMMA DivPlus ==
    ASSUME NEW x \in Int, NEW c \in Int, NEW n \in Nat \ {0}
    PROVE  (x + (c * n)) \div n = (x \div n) + c /\ (x + (c * n)) % n = x % n
<1> DEFINE d == x \div n
           r == x % n
<1>1. d \in Int /\ r \in 0 .. n - 1 /\ x = (d * n) + r
  BY IntDivMod
<1> HIDE DEF d, r
<1>2. x + (c * n) = ((d + c) * n) + r
  BY <1>1
<1>3. d + c \in Int
  BY <1>1
<1>4. (((d + c) * n) + r) \div n = d + c /\ (((d + c) * n) + r) % n = r
  BY <1>1, <1>3, IntJoin
<1> QED BY <1>2, <1>4 DEF d, r

\* Dividing twice is dividing by the product.
LEMMA DivDiv ==
    ASSUME NEW x \in Int, NEW m \in Nat \ {0}, NEW n \in Nat \ {0}
    PROVE  (x \div m) \div n = x \div (m * n)
<1> DEFINE d == x \div m
           r == x % m
           e == d \div n
           s == d % n
<1>1. d \in Int /\ r \in 0 .. m - 1 /\ x = (d * m) + r
  BY IntDivMod
<1> HIDE DEF d, r
<1>2. e \in Int /\ s \in 0 .. n - 1 /\ d = (e * n) + s
  BY <1>1, IntDivMod
<1> HIDE DEF e, s
<1>3. m * n \in Nat \ {0}
  OBVIOUS
<1> DEFINE t == (s * m) + r
<1>4. x = (e * (m * n)) + t
  <2>1. d * m = ((e * n) * m) + (s * m)
    BY <1>1, <1>2
  <2>2. (e * n) * m = e * (m * n)
    BY <1>2
  <2> QED BY <1>1, <1>2, <2>1, <2>2
<1>5. t \in 0 .. (m * n) - 1
  <2>1. (s + 1) * m <= n * m
    BY <1>2
  <2>2. s * m >= 0
    BY <1>2
  <2>3. (s + 1) * m = (s * m) + m /\ n * m = m * n
    BY <1>2
  <2> QED BY <1>1, <1>2, <2>1, <2>2, <2>3
<1> HIDE DEF t
<1>6. x \div (m * n) = e
  BY <1>2, <1>3, <1>4, <1>5, IntJoin
<1> QED BY <1>6 DEF d, e

\* k is m times n; kept folded, so that the provers find m and n by it.
IsProduct(k, m, n) == k = m * n

\* The two parts of a remainder by a product.
LEMMA ModOfMod ==
    ASSUME NEW x \in Int, NEW m \in Nat \ {0}, NEW n \in Nat \ {0}, NEW k, IsProduct(k, m, n)
    PROVE  /\ (x % k) % m = x % m
           /\ (x % k) \div m = (x \div m) % n
<1> DEFINE e == x \div k
           y == x % k
           d == x \div m
           r == x % m
<1>0. k = m * n
  BY DEF IsProduct
<1>1. k \in Nat \ {0}
  BY <1>0
<1>2. e \in Int /\ y \in 0 .. k - 1 /\ x = (e * k) + y
  BY <1>1, IntDivMod
<1>3. d \in Int /\ r \in 0 .. m - 1 /\ x = (d * m) + r
  BY IntDivMod
<1>4. e = d \div n
  BY <1>0, DivDiv
<1>5. d % n \in 0 .. n - 1 /\ d = (e * n) + (d % n)
  BY <1>3, <1>4, IntDivMod
<1> DEFINE s == d % n
<1> HIDE DEF e, y, d, r, s
<1>9. s \in 0 .. n - 1 /\ d = (e * n) + s
  BY <1>5 DEF s
<1>6. y = (s * m) + r
  <2>1. d * m = ((e * n) * m) + (s * m)
    BY <1>2, <1>3, <1>9
  <2>2. (e * n) * m = e * k
    BY <1>0, <1>2
  <2> QED BY <1>2, <1>3, <1>9, <2>1, <2>2
<1>8. s \in Int
  BY <1>5 DEF s
<1>7. ((s * m) + r) \div m = s /\ ((s * m) + r) % m = r
  BY <1>3, <1>8, IntJoin
<1> QED BY <1>6, <1>7 DEF y, s, d, r

\* Reducing by a multiple first does not matter.
LEMMA ModOfDivisor ==
    ASSUME NEW x \in Int, NEW m \in Nat \ {0}, NEW k \in Nat \ {0}, k % m = 0
    PROVE  (x % k) % m = x % m
<1> DEFINE n == k \div m
<1>1. n \in Nat /\ k = (n * m) + (k % m)
  BY DivModDef
<1> HIDE DEF n
<1>2. n \in Nat \ {0} /\ k = m * n
  BY <1>1
<1>3. IsProduct(k, m, n)
  BY <1>2 DEF IsProduct
<1>4. \A p : IsProduct(p, m, n) => (x % p) % m = x % m
  BY <1>2, ModOfMod
<1> QED BY <1>3, <1>4

\* A remainder by an even number is even if the number is.
LEMMA EvenModulus ==
    ASSUME NEW x \in Int, NEW n \in Nat \ {0}, NEW k, IsProduct(k, 2, n)
    PROVE  (x % k) % 2 = x % 2
<1> DEFINE e == x \div k
           d == x % k
           c == e * n
<1>0. k \in Nat \ {0}
  BY DEF IsProduct
<1>1. e \in Int /\ d \in 0 .. k - 1 /\ x = (e * k) + d
  BY <1>0, IntDivMod
<1> HIDE DEF e, d
<1>2. e * k = c * 2 /\ c \in Int
  BY <1>1 DEF IsProduct
<1> HIDE DEF c
<1>5. d \in Int /\ 2 \in Nat \ {0}
  BY <1>0, <1>1
<1>3. (d + (c * 2)) % 2 = d % 2
  BY <1>2, <1>5, DivPlus
<1>4. x = d + (c * 2)
  BY <1>1, <1>2, <1>5
<1> QED BY <1>3, <1>4 DEF d

\* The quotients 0 and 1.
LEMMA DivSmall ==
    ASSUME NEW n \in Nat \ {0}, NEW x \in Int
    PROVE  /\ 0 <= x /\ x < n => x \div n = 0 /\ x % n = x
           /\ n <= x /\ x < 2 * n => x \div n = 1 /\ x % n = x - n
<1> DEFINE zero == 0
           one == 1
<1>1. zero \in Int /\ zero * n = 0 /\ (zero + 1) * n = n /\ zero = 0
  OBVIOUS
<1>2. one \in Int /\ one * n = n /\ (one + 1) * n = 2 * n /\ one = 1
  OBVIOUS
<1> HIDE DEF zero, one
<1>3. 0 <= x /\ x < n => x \div n = zero /\ x % n = x - (zero * n)
  BY <1>1, DivSame
<1>4. n <= x /\ x < 2 * n => x \div n = one /\ x % n = x - (one * n)
  BY <1>2, DivSame
<1> QED BY <1>1, <1>2, <1>3, <1>4

-----------------------------------------------------------------------------
(* Induction, over the set of the numbers for which something holds: the   *)
(* theorems of the library take an operator instead.                       *)

\* The order of the natural numbers as a relation.
Below == {x \in Nat \X Nat : x[1] < x[2]}

\* There is no infinite descent in the natural numbers.
LEMMA BelowWF == IsWellFoundedOn(Below, Nat)
BY NatLessThanWellFounded DEF OpToRel, Below

\* A set of natural numbers has a smallest member.
LEMMA SmallestOf ==
    ASSUME NEW T, T \subseteq Nat, T # {}
    PROVE  \E x \in T : \A y \in T : x <= y
<1>1. \E x \in T : \A y \in T : ~ (<<y, x>> \in Below)
  BY BelowWF, WFMin
<1>2. ASSUME NEW x \in T, NEW y \in T, ~ (<<y, x>> \in Below) PROVE x <= y
  <2>1. x \in Nat /\ y \in Nat
    OBVIOUS
  <2>2. <<y, x>> \in Nat \X Nat
    BY <2>1
  <2>3. <<y, x>>[1] = y /\ <<y, x>>[2] = x
    OBVIOUS
  <2>4. ~ (y < x)
    <3> SUFFICES ASSUME y < x PROVE <<y, x>> \in Below
      BY <1>2
    <3>1. <<y, x>>[1] < <<y, x>>[2]
      BY <2>3
    <3> QED BY <2>2, <3>1 DEF Below
  <2> QED BY <2>1, <2>4
<1> QED BY <1>1, <1>2

\* Induction, on the set of the numbers for which something holds.
LEMMA Induct ==
    ASSUME NEW T, 0 \in T, \A n \in Nat : n \in T => n + 1 \in T
    PROVE  Nat \subseteq T
<1> DEFINE U == Nat \ T
<1> SUFFICES ASSUME U # {} PROVE FALSE
  OBVIOUS
<1>1. PICK x \in U : \A y \in U : x <= y
  BY SmallestOf
<1>2. x # 0 /\ x - 1 \in Nat /\ x - 1 \notin U
  BY <1>1
<1> QED BY <1>1, <1>2

\* A running sum, as the recursive functions of the models define one, exists.
LEMMA SumExists ==
    ASSUME NEW N \in Nat, NEW d
    PROVE  \E g : g = [k \in 0 .. N |-> IF k = 0 THEN 0 ELSE g[k - 1] + d[k]]
<1> DEFINE T == { n \in Nat : \E g : g = [k \in 0 .. n |-> IF k = 0 THEN 0 ELSE g[k - 1] + d[k]] }
<1>1. 0 \in T
  <2> DEFINE g == [k \in 0 .. 0 |-> 0]
  <2>1. g = [k \in 0 .. 0 |-> IF k = 0 THEN 0 ELSE g[k - 1] + d[k]]
    OBVIOUS
  <2> QED BY <2>1
<1>2. ASSUME NEW n \in Nat, n \in T PROVE n + 1 \in T
  <2>1. PICK g : g = [k \in 0 .. n |-> IF k = 0 THEN 0 ELSE g[k - 1] + d[k]]
    BY <1>2
  <2> DEFINE h == [k \in 0 .. n + 1 |-> IF k = n + 1 THEN g[n] + d[n + 1] ELSE g[k]]
  <2>2. \A k \in 0 .. n : h[k] = g[k] /\ g[k] = IF k = 0 THEN 0 ELSE g[k - 1] + d[k]
    BY <2>1
  <2>3. h[n + 1] = g[n] + d[n + 1]
    OBVIOUS
  <2>4. ASSUME NEW k \in 0 .. n + 1
        PROVE  h[k] = IF k = 0 THEN 0 ELSE h[k - 1] + d[k]
    <3>1. CASE k = n + 1
      BY <2>2, <2>3, <3>1
    <3>2. CASE k \in 0 .. n
      <4>1. k = 0 \/ k - 1 \in 0 .. n
        BY <3>2
      <4> HIDE DEF h
      <4> QED BY <2>2, <3>2, <4>1
    <3> QED BY <3>1, <3>2
  <2>5. h = [k \in 0 .. n + 1 |-> IF k = 0 THEN 0 ELSE h[k - 1] + d[k]]
    <3>1. h = [k \in 0 .. n + 1 |-> h[k]]
      OBVIOUS
    <3> HIDE DEF h
    <3> QED BY <2>4, <3>1
  <2> HIDE DEF h
  <2>6. \E f : f = [k \in 0 .. n + 1 |-> IF k = 0 THEN 0 ELSE f[k - 1] + d[k]]
    BY <2>5
  <2> QED BY <2>6
<1> HIDE DEF T
<1>3. N \in T
  BY <1>1, <1>2, Induct
<1> QED BY <1>3 DEF T
=============================================================================
