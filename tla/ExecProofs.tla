----------------------------- MODULE ExecProofs -----------------------------
(***************************************************************************)
(* Theorems about Exec, for every set of instructions a guest may consist  *)
(* of and every width.  The first half is about Alu: powers of two and     *)
(* bits, values of a width, and then one operation after the other, up to  *)
(* RegAgreesAlways, WordAgreesAlways and AmoAgreesAlways.  The second is   *)
(* about steps: exceptions are precise, floating-point instructions mark   *)
(* their unit dirty (but for two), a conditional store needs its           *)
(* reservation, registers hold words and pc goes where it is told.         *)
(***************************************************************************)
EXTENDS Exec, DivMod

-----------------------------------------------------------------------------
(* Powers of two, and the bits of a number.                                 *)

\* The exponents that occur: a shift count and a place of a bit together.
Exponents == 0 .. 2 * XLEN

\* They are positive, each twice the one before it, and add up their exponents.
LEMMA PowerType ==
    ASSUME NEW k \in Exponents
    PROVE  2 ^ k \in Nat \ {0}
BY AluAssumption, PowerAssumption DEF Exponents

\* Each is twice the one before it,
LEMMA PowerNext ==
    ASSUME NEW k \in Exponents, k # 0
    PROVE  k - 1 \in Exponents /\ 2 ^ k = 2 * 2 ^ (k - 1)
<1>1. k - 1 \in 0 .. 2 * XLEN /\ (k - 1) + 1 = k
  BY AluAssumption, PowerAssumption DEF Exponents
<1>2. 2 ^ ((k - 1) + 1) = 2 * 2 ^ (k - 1)
  BY <1>1, PowerAssumption
<1> QED BY <1>1, <1>2 DEF Exponents

\* and a power with a sum of exponents is the product of the powers.
LEMMA PowerSum ==
    ASSUME NEW i \in Nat, NEW j \in Nat, i + j \in Exponents
    PROVE  2 ^ (i + j) = 2 ^ i * 2 ^ j
<1> DEFINE T == { n \in Nat : i + n \in Exponents => 2 ^ (i + n) = 2 ^ i * 2 ^ n }
<1>0. i \in Exponents
  BY AluAssumption, PowerAssumption DEF Exponents
<1>1. 0 \in T
  <2>1. i + 0 = i /\ 2 ^ i \in Nat /\ 2 ^ 0 = 1
    BY <1>0, PowerType, PowerAssumption
  <2> QED BY <2>1
<1>2. ASSUME NEW n \in Nat, n \in T PROVE n + 1 \in T
  <2> SUFFICES ASSUME i + (n + 1) \in Exponents PROVE 2 ^ (i + (n + 1)) = 2 ^ i * 2 ^ (n + 1)
    OBVIOUS
  <2>1. i + n \in Exponents /\ n \in Exponents /\ n + 1 \in Exponents
    BY AluAssumption, PowerAssumption DEF Exponents
  <2>2. 2 ^ (i + n) = 2 ^ i * 2 ^ n
    BY <1>2, <2>1
  <2>3. 2 ^ ((i + n) + 1) = 2 * 2 ^ (i + n) /\ 2 ^ (n + 1) = 2 * 2 ^ n
    BY <2>1, AluAssumption, PowerAssumption DEF Exponents
  <2>4. i + (n + 1) = (i + n) + 1
    OBVIOUS
  <2>5. 2 ^ i \in Nat /\ 2 ^ n \in Nat
    BY <1>0, <2>1, PowerType
  <2> DEFINE p == 2 ^ i  q == 2 ^ n
  <2>6. 2 * (p * q) = p * (2 * q)
    <3> HIDE DEF p, q
    <3>1. p \in Nat /\ q \in Nat
      BY <2>5 DEF p, q
    <3> QED BY <3>1
  <2> QED BY <2>2, <2>3, <2>4, <2>6
<1> HIDE DEF T
<1>3. Nat \subseteq T
  BY <1>1, <1>2, Induct
<1> QED BY <1>3 DEF T

\* A power is the product of a smaller one and of the rest.
LEMMA PowerSplit ==
    ASSUME NEW i \in Nat, NEW j \in Exponents, i <= j
    PROVE  /\ i \in Exponents /\ j - i \in Exponents
           /\ 2 ^ j = 2 ^ i * 2 ^ (j - i)
<1>1. i \in Exponents /\ j - i \in Exponents /\ j - i \in Nat /\ i + (j - i) = j
  BY AluAssumption, PowerAssumption DEF Exponents
<1> QED BY <1>1, PowerSum

\* They grow.
LEMMA PowerLess ==
    ASSUME NEW i \in Nat, NEW j \in Exponents, i <= j
    PROVE  2 ^ i <= 2 ^ j
<1> DEFINE m == 2 ^ i  n == 2 ^ (j - i)
<1>1. 2 ^ j = m * n /\ m \in Nat /\ n \in Nat \ {0}
  BY PowerSplit, PowerType
<1> HIDE DEF m, n
<1>2. m <= m * n
  BY <1>1
<1> QED BY <1>1, <1>2 DEF m

\* The bits below w do not notice a value being wrapped to w bits.
LEMMA BitWrap ==
    ASSUME NEW v \in Int, NEW w \in Exponents, NEW k \in Nat, k < w
    PROVE  Bit(v % 2 ^ w, k) <=> Bit(v, k)
<1> DEFINE m == 2 ^ k  n == 2 ^ (w - (k + 1))  d == v \div m
<1>1. 2 ^ w = m * (2 * n) /\ m \in Nat \ {0} /\ n \in Nat \ {0}
  <2>1. k + 1 <= w /\ k + 1 \in Nat
    BY DEF Exponents
  <2>2. 2 ^ w = 2 ^ (k + 1) * n /\ k + 1 \in Exponents /\ w - (k + 1) \in Exponents
    BY <2>1, PowerSplit
  <2>3. k \in Exponents
    BY <2>2, AluAssumption, PowerAssumption DEF Exponents
  <2>4. 2 ^ (k + 1) = 2 * m /\ m \in Nat \ {0} /\ n \in Nat \ {0}
    BY <2>2, <2>3, PowerType, AluAssumption, PowerAssumption DEF Exponents
  <2> HIDE DEF m, n
  <2>5. (2 * m) * n = m * (2 * n)
    BY <2>4
  <2> QED BY <2>2, <2>4, <2>5
<1> HIDE DEF m, n
<1>2. d \in Int
  BY <1>1, IntDivMod
<1> DEFINE t == 2 * n
           u == m * t
<1>5. t \in Nat \ {0}
  BY <1>1
<1>10. IsProduct(t, 2, n)
  BY DEF IsProduct
<1> HIDE DEF t
<1>6. (d % t) % 2 = d % 2
  BY <1>1, <1>2, <1>10, EvenModulus
<1>9. IsProduct(u, m, t)
  BY DEF IsProduct
<1> HIDE DEF u
<1>7. (v % u) \div m = (v \div m) % t
  BY <1>1, <1>5, <1>9, ModOfMod
<1>8. u = 2 ^ w
  BY <1>1, <1>9 DEF t, IsProduct
<1> QED BY <1>6, <1>7, <1>8 DEF Bit, m, d, u

\* Shifting down moves every bit down,
LEMMA BitShiftDown ==
    ASSUME NEW v \in Int, NEW n \in Nat, NEW k \in Nat, n + k \in Exponents
    PROVE  Bit(v \div 2 ^ n, k) <=> Bit(v, n + k)
<1>1. n \in Exponents /\ k \in Exponents
  BY AluAssumption, PowerAssumption DEF Exponents
<1>2. 2 ^ n \in Nat \ {0} /\ 2 ^ k \in Nat \ {0} /\ 2 ^ (n + k) = 2 ^ n * 2 ^ k
  BY <1>1, PowerType, PowerSum
<1>3. (v \div 2 ^ n) \div 2 ^ k = v \div 2 ^ (n + k)
  BY <1>2, DivDiv
<1> QED BY <1>3 DEF Bit

\* and shifting up moves it up, zeroes following.
LEMMA BitShiftUp ==
    ASSUME NEW v \in Int, NEW n \in Exponents, NEW k \in Exponents
    PROVE  Bit(v * 2 ^ n, k) <=> k >= n /\ Bit(v, k - n)
<1>1. CASE k >= n
  <2> DEFINE m == 2 ^ n  p == 2 ^ (k - n)
  <2>1. 2 ^ k = m * p /\ m \in Nat \ {0} /\ p \in Nat \ {0}
    <3>1. n \in Nat /\ n <= k
      BY <1>1 DEF Exponents
    <3> QED BY <3>1, PowerSplit, PowerType
  <2> HIDE DEF m, p
  <2>2. (v * m) \div m = v
    <3>1. ((v * m) + 0) \div m = v /\ v * m \in Int
      BY <2>1, IntJoin
    <3> QED BY <3>1
  <2>3. (v * m) \div (m * p) = v \div p
    <3>1. v * m \in Int
      BY <2>1
    <3>2. ((v * m) \div m) \div p = (v * m) \div (m * p)
      BY <2>1, <3>1, DivDiv
    <3> QED BY <2>2, <3>2
  <2> QED BY <1>1, <2>1, <2>3 DEF Bit, m, p
<1>2. CASE k < n
  <2> DEFINE m == 2 ^ k  p == 2 ^ (n - (k + 1))
  <2>1. 2 ^ n = (2 * m) * p /\ m \in Nat \ {0} /\ p \in Nat \ {0}
    <3>1. k + 1 \in Nat /\ k + 1 <= n
      BY <1>2 DEF Exponents
    <3>2. 2 ^ n = 2 ^ (k + 1) * p /\ n - (k + 1) \in Exponents
      BY <3>1, PowerSplit
    <3> QED BY <3>2, PowerType, AluAssumption, PowerAssumption DEF Exponents
  <2> HIDE DEF m, p
  <2>2. v * ((2 * m) * p) = (((v * p) * 2) * m) + 0
    BY <2>1
  <2>3. (v * p) * 2 \in Int /\ v * p \in Int
    BY <2>1
  <2>4. ((((v * p) * 2) * m) + 0) \div m = (v * p) * 2
    BY <2>1, <2>3, IntJoin
  <2>5. ((v * p) * 2) % 2 = 0
    BY <2>3
  <2>6. (v * 2 ^ n) \div m = (v * p) * 2
    BY <2>1, <2>2, <2>4
  <2>7. ~ Bit(v * 2 ^ n, k)
    BY <2>5, <2>6 DEF Bit, m
  <2>8. ~ (k >= n)
    BY <1>2 DEF Exponents
  <2> QED BY <2>7, <2>8
<1> QED BY <1>1, <1>2 DEF Exponents

\* Above its width a number has zeroes,
LEMMA BitHigh ==
    ASSUME NEW w \in Nat, NEW k \in Exponents, w <= k, NEW v \in 0 .. 2 ^ w - 1
    PROVE  ~ Bit(v, k)
<1>1. 2 ^ w \in Nat /\ 2 ^ k \in Nat \ {0} /\ 2 ^ w <= 2 ^ k
  BY PowerLess, PowerSplit, PowerType
<1> DEFINE m == 2 ^ k
<1>2. v \in Int /\ 0 <= v /\ v < m
  BY <1>1
<1>3. m \in Nat \ {0}
  BY <1>1
<1> HIDE DEF m
<1>4. v \div m = 0
  BY <1>2, <1>3, DivSame
<1> QED BY <1>4 DEF Bit, m

\* and a negative one ones.
LEMMA BitNegative ==
    ASSUME NEW w \in Nat, NEW k \in Exponents, w <= k, NEW v \in - (2 ^ w) .. -1
    PROVE  Bit(v, k)
<1>1. 2 ^ w \in Nat /\ 2 ^ k \in Nat \ {0} /\ 2 ^ w <= 2 ^ k
  BY PowerLess, PowerSplit, PowerType
<1> DEFINE m == 2 ^ k
<1>2. v \in Int /\ (-1) * m <= v /\ v < ((-1) + 1) * m
  BY <1>1
<1>3. m \in Nat \ {0}
  BY <1>1
<1> HIDE DEF m
<1>4. v \div m = -1
  BY <1>2, <1>3, DivSame
<1> QED BY <1>4 DEF Bit, m

\* The top bit tells the upper half of the numbers.
LEMMA BitTop ==
    ASSUME NEW w \in Exponents \ {0}, NEW v \in 0 .. 2 ^ w - 1
    PROVE  Bit(v, w - 1) <=> v >= 2 ^ (w - 1)
<1> DEFINE m == 2 ^ (w - 1)
<1>1. m \in Nat \ {0} /\ 2 ^ w = 2 * m
  BY PowerNext, PowerType
<1>2. v < 2 * m /\ v \in Int /\ 0 <= v
  BY <1>1
<1> HIDE DEF m
<1>3. CASE v >= m
  <2>2. v \div m = 1
    BY <1>1, <1>2, <1>3, DivSmall
  <2> QED BY <1>3, <2>2 DEF Bit, m
<1>4. CASE v < m
  <2>1. v \div m = 0
    BY <1>1, <1>2, <1>4, DivSmall
  <2> QED BY <1>4, <1>1, <1>2, <2>1 DEF Bit, m
<1> QED BY <1>1, <1>2, <1>3, <1>4

\* The width of a register and of its half.
LEMMA WidthFacts ==
    /\ XLEN \in Exponents \ {0} /\ Half \in Exponents \ {0}
    /\ XLEN = Half + Half
    /\ HalfBase \in Nat \ {0} /\ 2 ^ XLEN \in Nat \ {0}
    /\ 2 ^ XLEN = HalfBase * HalfBase
<1>1. XLEN = Half + Half /\ Half \in Nat \ {0}
  BY AluAssumption DEF Half
<1>2. XLEN \in Exponents \ {0} /\ Half \in Exponents \ {0}
  BY <1>1 DEF Exponents
<1> QED BY <1>1, <1>2, PowerType, PowerSum DEF HalfBase

-----------------------------------------------------------------------------
(* Words combined bit by bit.                                               *)

\* A sum of the powers of two in a set has just the bits of that set.
SumOver(C, g) ==
    g = [k \in 0 .. XLEN |-> IF k = 0 THEN 0 ELSE g[k - 1] + 2 ^ (k - 1) * Flag(k - 1 \in C)]

\* The sum that Combined defines recursively exists,
LEMMA SumOverExists ==
    ASSUME NEW C
    PROVE  \E g : SumOver(C, g)
<1> DEFINE d == [k \in 1 .. XLEN |-> 2 ^ (k - 1) * Flag(k - 1 \in C)]
<1>0. XLEN \in Nat
  BY AluAssumption
<1>1. PICK g : g = [k \in 0 .. XLEN |-> IF k = 0 THEN 0 ELSE g[k - 1] + d[k]]
  BY <1>0, SumExists
<1>2. \A k \in 0 .. XLEN : k # 0 => d[k] = 2 ^ (k - 1) * Flag(k - 1 \in C)
  BY <1>0
<1> HIDE DEF d
<1>3. SumOver(C, g)
  BY <1>1, <1>2 DEF SumOver
<1> QED BY <1>3

\* and is a word with just these bits.
LEMMA SumOverBits ==
    ASSUME NEW C, NEW g, SumOver(C, g)
    PROVE  g[XLEN] \in Word /\ \A i \in 0 .. XLEN - 1 : Bit(g[XLEN], i) <=> i \in C
<1> DEFINE Good(n) == g[n] \in 0 .. 2 ^ n - 1 /\ \A i \in 0 .. n - 1 : Bit(g[n], i) <=> i \in C
           T == { n \in Nat : n <= XLEN => Good(n) }
<1>0. XLEN \in Nat /\ 2 ^ 0 = 1
  BY AluAssumption, PowerAssumption
<1>1. 0 \in T
  <2>1. g[0] = 0
    BY <1>0 DEF SumOver
  <2> QED BY <1>0, <2>1
<1>2. ASSUME NEW n \in Nat, n \in T PROVE n + 1 \in T
  <2> SUFFICES ASSUME n + 1 <= XLEN PROVE Good(n + 1)
    OBVIOUS
  <2> DEFINE m == 2 ^ n
             f == Flag(n \in C)
             x == g[n]
  <2>1. Good(n) /\ n \in Exponents /\ n + 1 \in Exponents
    BY <1>0, <1>2 DEF Exponents
  <2>2. m \in Nat \ {0} /\ 2 ^ (n + 1) = 2 * m
    BY <2>1, PowerType, PowerAssumption DEF Exponents
  <2>3. g[n + 1] = x + (m * f)
    <3>1. n + 1 \in 0 .. XLEN /\ n + 1 # 0 /\ (n + 1) - 1 = n
      BY <1>0
    <3> QED BY <3>1 DEF SumOver
  <2>4. x \in 0 .. m - 1 /\ f \in {0, 1} /\ (f = 1 <=> n \in C)
    BY <2>1 DEF Flag
  <2>5. \A i \in 0 .. n - 1 : Bit(x, i) <=> i \in C
    BY <2>1
  <2> HIDE DEF m, f, x
  <2>6. g[n + 1] = (f * m) + x
    BY <2>2, <2>3, <2>4
  <2>7. g[n + 1] \in 0 .. (2 * m) - 1
    BY <2>2, <2>4, <2>6
  <2>8. g[n + 1] \div m = f /\ g[n + 1] % m = x
    BY <2>2, <2>4, <2>6, IntJoin
  <2>9. Bit(g[n + 1], n) <=> n \in C
    BY <2>4, <2>8 DEF Bit, m
  <2>10. ASSUME NEW i \in 0 .. n - 1 PROVE Bit(g[n + 1], i) <=> i \in C
    <3>1. Bit(g[n + 1] % 2 ^ n, i) <=> Bit(g[n + 1], i)
      BY <2>1, <2>2, <2>7, BitWrap
    <3> QED BY <2>5, <2>8, <3>1 DEF m
  <2> QED BY <2>2, <2>7, <2>9, <2>10
<1> HIDE DEF T
<1>3. XLEN \in T
  BY <1>0, <1>1, <1>2, Induct
<1> QED BY <1>0, <1>3 DEF T, Word

\* The three operations: each combines the bits of two registers.
IsCombined(c, C) == c \in Word /\ \A i \in 0 .. XLEN - 1 : Bit(c, i) <=> i \in C

\* The bits of both,
LEMMA AndBits ==
    ASSUME NEW a, NEW b
    PROVE  IsCombined(And(a, b), { i \in 0 .. XLEN - 1 : Bit(a, i) /\ Bit(b, i) })
<1> DEFINE C == { i \in 0 .. XLEN - 1 : Bit(a, i) /\ Bit(b, i) }
           Sums(g) == g = [k \in 0 .. XLEN |-> IF k = 0 THEN 0 ELSE g[k - 1] +
                              2 ^ (k - 1) * Flag(Bit(a, k - 1) /\ Bit(b, k - 1))]
<1>1. \A k \in 0 .. XLEN : k # 0 => (k - 1 \in C <=> (Bit(a, k - 1) /\ Bit(b, k - 1)))
  BY AluAssumption
<1> HIDE DEF C
<1>2. \A g : Sums(g) <=> SumOver(C, g)
  BY <1>1 DEF SumOver, Flag
<1>3. \E g : Sums(g)
  BY <1>2, SumOverExists
<1>4. \E g : Sums(g) /\ And(a, b) = g[XLEN]
  BY <1>3 DEF And, Combined, Both
<1> HIDE DEF Sums
<1>5. IsCombined(And(a, b), C)
  BY <1>2, <1>4, SumOverBits DEF IsCombined
<1> QED BY <1>5 DEF C

\* of either,
LEMMA OrBits ==
    ASSUME NEW a, NEW b
    PROVE  IsCombined(Or(a, b), { i \in 0 .. XLEN - 1 : Bit(a, i) \/ Bit(b, i) })
<1> DEFINE C == { i \in 0 .. XLEN - 1 : Bit(a, i) \/ Bit(b, i) }
           Sums(g) == g = [k \in 0 .. XLEN |-> IF k = 0 THEN 0 ELSE g[k - 1] +
                              2 ^ (k - 1) * Flag(Bit(a, k - 1) \/ Bit(b, k - 1))]
<1>1. \A k \in 0 .. XLEN : k # 0 => (k - 1 \in C <=> (Bit(a, k - 1) \/ Bit(b, k - 1)))
  BY AluAssumption
<1> HIDE DEF C
<1>2. \A g : Sums(g) <=> SumOver(C, g)
  BY <1>1 DEF SumOver, Flag
<1>3. \E g : Sums(g)
  BY <1>2, SumOverExists
<1>4. \E g : Sums(g) /\ Or(a, b) = g[XLEN]
  BY <1>3 DEF Or, Combined, Either
<1> HIDE DEF Sums
<1>5. IsCombined(Or(a, b), C)
  BY <1>2, <1>4, SumOverBits DEF IsCombined
<1> QED BY <1>5 DEF C

\* and of one but not the other.
LEMMA XorBits ==
    ASSUME NEW a, NEW b
    PROVE  IsCombined(Xor(a, b), { i \in 0 .. XLEN - 1 : Bit(a, i) # Bit(b, i) })
<1> DEFINE C == { i \in 0 .. XLEN - 1 : Bit(a, i) # Bit(b, i) }
           Sums(g) == g = [k \in 0 .. XLEN |-> IF k = 0 THEN 0 ELSE g[k - 1] +
                              2 ^ (k - 1) * Flag(Bit(a, k - 1) # Bit(b, k - 1))]
<1>1. \A k \in 0 .. XLEN : k # 0 => (k - 1 \in C <=> (Bit(a, k - 1) # Bit(b, k - 1)))
  BY AluAssumption
<1> HIDE DEF C
<1>2. \A g : Sums(g) <=> SumOver(C, g)
  BY <1>1 DEF SumOver, Flag
<1>3. \E g : Sums(g)
  BY <1>2, SumOverExists
<1>4. \E g : Sums(g) /\ Xor(a, b) = g[XLEN]
  BY <1>3 DEF Xor, Combined, Differ
<1> HIDE DEF Sums
<1>5. IsCombined(Xor(a, b), C)
  BY <1>2, <1>4, SumOverBits DEF IsCombined
<1> QED BY <1>5 DEF C

-----------------------------------------------------------------------------
(* Values of a width: wrapped, signed, extended.                            *)

\* The widths of an operation: the register or its lower half.
Widths == {Half, XLEN}
Values(w) == 0 .. 2 ^ w - 1

\* A width is an exponent, and its values are two halves.
LEMMA WidthOf ==
    ASSUME NEW w \in Widths
    PROVE  /\ w \in Exponents \ {0} /\ w \in Nat \ {0} /\ w <= XLEN /\ XLEN \in Nat
           /\ 2 ^ w \in Nat \ {0} /\ 2 ^ (w - 1) \in Nat \ {0} /\ 2 ^ w = 2 * 2 ^ (w - 1)
<1>1. w \in Exponents \ {0} /\ w <= XLEN /\ XLEN \in Nat
  BY WidthFacts DEF Widths, Exponents
<1> QED BY <1>1, PowerType, PowerNext DEF Exponents

\* A wrapped number is a value that differs by a multiple of 2^w, and a value is left alone.
LEMMA WrapFacts ==
    ASSUME NEW w \in Widths, NEW v \in Int
    PROVE  /\ Wrap(v, w) \in Values(w) /\ Modulo(Wrap(v, w), v, w)
           /\ v \in Values(w) => Wrap(v, w) = v
<1> DEFINE m == 2 ^ w  q == v \div m  r == v % m
<1>1. m \in Nat \ {0}
  BY WidthOf
<1> HIDE DEF m
<1>2. q \in Int /\ r \in 0 .. m - 1 /\ v = (q * m) + r
  BY <1>1, IntDivMod
<1>3. v \in 0 .. m - 1 => r = v
  BY <1>1, DivSmall
<1> HIDE DEF q, r
<1>4. r - v = ((-q) * m) + 0
  BY <1>1, <1>2
<1>5. (((-q) * m) + 0) % m = 0
  BY <1>1, <1>2, IntJoin
<1> QED BY <1>2, <1>3, <1>4, <1>5 DEF Wrap, Values, Modulo, r, m

\* Wrapping keeps the bits.
LEMMA WrapBits ==
    ASSUME NEW w \in Widths, NEW v \in Int, NEW i \in 0 .. w - 1
    PROVE  Bit(Wrap(v, w), i) <=> Bit(v, i)
BY WidthOf, BitWrap DEF Wrap

\* Numbers that differ by a multiple of 2^w wrap to the same.
LEMMA WrapSame ==
    ASSUME NEW w \in Widths, NEW v \in Int, NEW c \in Int
    PROVE  Wrap(v + c * 2 ^ w, w) = Wrap(v, w)
BY WidthOf, DivPlus DEF Wrap

\* What a value means as a signed number.
LEMMA SignedFacts ==
    ASSUME NEW w \in Widths, NEW a \in Values(w)
    PROVE  /\ Signed(a, w) \in - (2 ^ (w - 1)) .. 2 ^ (w - 1) - 1
           /\ Signed(a, w) = a \/ Signed(a, w) = a - 2 ^ w
           /\ Signed(a, w) < 0 <=> Signed(a, w) # a
           /\ Signed(a, w) < 0 <=> a >= 2 ^ (w - 1)
           /\ a = 0 <=> Signed(a, w) = 0
BY WidthOf DEF Signed, Values

\* A number that fits is what its wrapped form means.
LEMMA SignedWrap ==
    ASSUME NEW w \in Widths, NEW v \in - (2 ^ (w - 1)) .. 2 ^ (w - 1) - 1
    PROVE  Signed(Wrap(v, w), w) = v
<1> DEFINE m == 2 ^ w  h == 2 ^ (w - 1)
<1>1. m \in Nat \ {0} /\ h \in Nat \ {0} /\ m = 2 * h
  BY WidthOf
<1>2. v \in Int /\ -h <= v /\ v < h
  BY <1>1
<1> HIDE DEF m, h
<1>3. CASE v >= 0
  <2>1. v % m = v
    BY <1>1, <1>2, <1>3, DivSmall
  <2> QED BY <1>1, <1>2, <2>1 DEF Signed, Wrap, m, h
<1>4. CASE v < 0
  <2>1. v % m = v + m
    <3>1. v = ((-1) * m) + (v + m) /\ v + m \in 0 .. m - 1
      BY <1>1, <1>2, <1>4
    <3> QED BY <1>1, <3>1, IntJoin
  <2> QED BY <1>1, <1>2, <1>4, <2>1 DEF Signed, Wrap, m, h
<1> QED BY <1>2, <1>3, <1>4

\* and the wrapped form of what a number means is that number.
LEMMA WrapSigned ==
    ASSUME NEW w \in Widths, NEW a \in Values(w)
    PROVE  Wrap(Signed(a, w), w) = a
<1> DEFINE m == 2 ^ w
           s == Signed(a, w)
<1>1. m \in Nat \ {0} /\ a \in 0 .. m - 1
  BY WidthOf DEF Values
<1>2. s = a \/ s = a - m
  BY SignedFacts
<1> HIDE DEF m, s
<1>3. CASE s = a
  BY <1>1, <1>3, DivSmall DEF Wrap, m, s
<1>4. CASE s = a - m
  <2>1. s = ((-1) * m) + a
    BY <1>1, <1>4
  <2>2. s % m = a
    BY <1>1, <2>1, IntJoin
  <2> QED BY <2>2 DEF Wrap, m, s
<1> QED BY <1>2, <1>3, <1>4

\* Extending the sign keeps the lower half and repeats its top bit above it.
LEMMA ExtendedFacts ==
    ASSUME NEW v \in Int
    PROVE  /\ SignExtended(v) \in Word
           /\ Low(SignExtended(v)) = Wrap(v, Half)
           /\ \A i \in Half .. XLEN - 1 :
                 i \in BitsIn(SignExtended(v), XLEN) <=> Half - 1 \in BitsIn(SignExtended(v), XLEN)
<1> DEFINE l == Wrap(v, Half)
           s == Signed(l, Half)
<1>0. Half \in Widths /\ XLEN \in Widths /\ Half \in Nat \ {0} /\ XLEN = Half + Half
  BY WidthFacts DEF Widths, Exponents
<1>1. l \in Values(Half) /\ Low(v) = l
  BY <1>0, WrapFacts DEF Low, HalfBase, Wrap
<1> HIDE DEF l
<1>2. s \in - (2 ^ (Half - 1)) .. 2 ^ (Half - 1) - 1 /\ (s = l \/ s = l - 2 ^ Half)
  BY <1>0, <1>1, SignedFacts
<1>3. s \in Int
  BY <1>0, <1>2, WidthOf
<1>4. SignExtended(v) = Wrap(s, XLEN)
  BY <1>1 DEF SignExtended
<1>5. SignExtended(v) \in Word
  BY <1>0, <1>3, <1>4, WrapFacts DEF Word, Values
<1>6. Low(SignExtended(v)) = l
  <2> DEFINE y == SignExtended(v) % HalfBase
  <2>1. SignExtended(v) % HalfBase = s % HalfBase
    <3>1. IsProduct(2 ^ XLEN, HalfBase, HalfBase) /\ HalfBase \in Nat \ {0}
      BY WidthFacts DEF IsProduct
    <3> HIDE DEF s
    <3> QED BY <1>3, <1>4, <3>1, ModOfMod DEF Wrap
  <2>2. s % HalfBase = l
    BY <1>0, <1>1, WrapSigned DEF Wrap, HalfBase
  <2> QED BY <2>1, <2>2 DEF Low
<1>7. ASSUME NEW i \in Half - 1 .. XLEN - 1
      PROVE  Bit(SignExtended(v), i) <=> s < 0
  <2>1. Bit(SignExtended(v), i) <=> Bit(s, i)
    BY <1>0, <1>3, <1>4, <1>7, WrapBits
  <2>2. i \in Exponents /\ Half - 1 \in Nat /\ Half - 1 <= i
    BY <1>0, <1>7 DEF Exponents
  <2>3. s \in 0 .. 2 ^ (Half - 1) - 1 \/ s \in - (2 ^ (Half - 1)) .. -1
    BY <1>0, <1>2, WidthOf
  <2>4. s \in 0 .. 2 ^ (Half - 1) - 1 => ~ Bit(s, i)
    BY <2>2, BitHigh
  <2>5. s \in - (2 ^ (Half - 1)) .. -1 => Bit(s, i)
    BY <2>2, BitNegative
  <2> QED BY <1>3, <2>1, <2>3, <2>4, <2>5
<1>8. \A i \in Half .. XLEN - 1 : i \in BitsIn(SignExtended(v), XLEN) <=> Half - 1 \in BitsIn(SignExtended(v), XLEN)
  BY <1>0, <1>7 DEF BitsIn
<1> QED BY <1>5, <1>6, <1>8 DEF l

-----------------------------------------------------------------------------
(* Shifts.                                                                  *)

\* A shift to the left moves the bits up, and zeroes follow,
LEMMA BitsShiftLeft ==
    ASSUME NEW w \in Widths, NEW a \in Values(w), NEW b \in Nat
    PROVE  /\ ShiftLeft(a, b, w) \in Values(w)
           /\ BitsIn(ShiftLeft(a, b, w), w) = { i \in b % w .. w - 1 : i - (b % w) \in BitsIn(a, w) }
<1> DEFINE n == b % w
           c == ShiftLeft(a, b, w)
           v == a * 2 ^ n
<1>1. n \in 0 .. w - 1 /\ w \in Nat \ {0} /\ n \in Exponents
  <2>1. w \in Nat \ {0} /\ w \in Exponents
    BY WidthOf
  <2>2. n \in 0 .. w - 1
    BY <2>1
  <2> QED BY <2>1, <2>2, AluAssumption DEF Exponents
<1> HIDE DEF n
<1>2. a \in Int /\ 2 ^ n \in Int /\ v \in Int
  BY <1>1, WidthOf, PowerType DEF Values
<1>3. c = Wrap(v, w)
  BY DEF ShiftLeft, n
<1> HIDE DEF c
<1>4. ASSUME NEW i \in 0 .. w - 1
      PROVE  Bit(c, i) <=> i >= n /\ Bit(a, i - n)
  <2>1. i \in Exponents
    BY <1>1, WidthOf, AluAssumption DEF Exponents
  <2>2. Bit(v, i) <=> i >= n /\ Bit(a, i - n)
    BY <1>1, <1>2, <2>1, BitShiftUp
  <2> HIDE DEF v
  <2>3. Bit(Wrap(v, w), i) <=> Bit(v, i)
    BY <1>2, WrapBits
  <2> QED BY <1>3, <2>2, <2>3
<1>5. c \in Values(w)
  BY <1>2, <1>3, WrapFacts
<1>6. BitsIn(c, w) = { i \in n .. w - 1 : i - n \in BitsIn(a, w) }
  BY <1>1, <1>4 DEF BitsIn
<1> QED BY <1>5, <1>6 DEF c, n

\* one to the right moves them down,
LEMMA BitsShiftRight ==
    ASSUME NEW w \in Widths, NEW a \in Values(w), NEW b \in Nat
    PROVE  /\ ShiftRight(a, b, w) \in Values(w)
           /\ BitsIn(ShiftRight(a, b, w), w)
                = { i - (b % w) : i \in BitsIn(a, w) \cap (b % w .. w - 1) }
<1> DEFINE n == b % w
           c == ShiftRight(a, b, w)
<1>1. n \in 0 .. w - 1 /\ w \in Nat \ {0} /\ n \in Exponents
  <2>1. w \in Nat \ {0} /\ w \in Exponents
    BY WidthOf
  <2>2. n \in 0 .. w - 1
    BY <2>1
  <2> QED BY <2>1, <2>2, AluAssumption DEF Exponents
<1> HIDE DEF n
<1>2. a \in Nat /\ 2 ^ n \in Nat \ {0}
  BY <1>1, WidthOf, PowerType DEF Values
<1>3. c = a \div 2 ^ n
  BY DEF ShiftRight, n
<1> HIDE DEF c
<1>4. ASSUME NEW i \in 0 .. w - 1
      PROVE  Bit(c, i) <=> Bit(a, n + i)
  <2>1. n + i \in Exponents /\ i \in Nat /\ n \in Nat /\ a \in Int
    BY <1>1, <1>2, WidthOf, AluAssumption DEF Exponents
  <2> QED BY <1>3, <2>1, BitShiftDown
<1>5. c \in Values(w)
  <2> DEFINE m == 2 ^ n
  <2>1. m \in Nat \ {0} /\ c = a \div m
    BY <1>2, <1>3
  <2> HIDE DEF m
  <2>2. c \in Nat /\ c <= a
    <3>1. c \in Nat /\ a = (c * m) + (a % m) /\ a % m \in Nat
      BY <1>2, <2>1, DivModDef
    <3>4. c \in Nat /\ m \in Nat \ {0}
      BY <2>1, <3>1
    <3>2. c * m >= c
      BY <3>4
    <3>3. c * m \in Nat
      BY <3>4
    <3> QED BY <1>2, <3>1, <3>2, <3>3
  <2> QED BY <2>2, WidthOf DEF Values
<1>6. ASSUME NEW i \in w .. w + n
      PROVE  ~ Bit(a, i)
  <2>1. w \in Nat /\ i \in Exponents /\ w <= i
    BY <1>1, WidthOf, AluAssumption DEF Exponents
  <2> QED BY <2>1, BitHigh DEF Values
<1>7. BitsIn(c, w) = { i - n : i \in BitsIn(a, w) \cap (n .. w - 1) }
  <2>1. ASSUME NEW i \in BitsIn(c, w)
        PROVE  \E j \in BitsIn(a, w) \cap (n .. w - 1) : i = j - n
    <3>1. i \in 0 .. w - 1 /\ Bit(a, n + i)
      BY <1>4 DEF BitsIn
    <3>2. n + i \in 0 .. w - 1
      BY <1>1, <1>6, <3>1
    <3>3. n + i \in BitsIn(a, w) /\ n + i \in n .. w - 1 /\ i = (n + i) - n
      BY <1>1, <3>1, <3>2 DEF BitsIn
    <3> QED BY <3>3
  <2>2. ASSUME NEW j \in BitsIn(a, w) \cap (n .. w - 1)
        PROVE  j - n \in BitsIn(c, w)
    <3>1. j - n \in 0 .. w - 1 /\ n + (j - n) = j /\ Bit(a, j)
      BY <1>1 DEF BitsIn
    <3>2. Bit(c, j - n) <=> Bit(a, n + (j - n))
      BY <1>4, <3>1
    <3> QED BY <3>1, <3>2 DEF BitsIn
  <2> QED BY <2>1, <2>2
<1> QED BY <1>5, <1>7 DEF c, n

\* and an arithmetic one repeats the top bit.
LEMMA BitsShiftArith ==
    ASSUME NEW w \in Widths, NEW a \in Values(w), NEW b \in Nat
    PROVE  /\ ShiftArith(a, b, w) \in Values(w)
           /\ BitsIn(ShiftArith(a, b, w), w)
                = { i \in 0 .. w - 1 : (IF i + (b % w) < w THEN i + (b % w) ELSE w - 1) \in BitsIn(a, w) }
<1> DEFINE n == b % w
           c == ShiftArith(a, b, w)
           s == Signed(a, w)
           v == s \div 2 ^ n
<1>1. n \in 0 .. w - 1 /\ w \in Nat \ {0} /\ n \in Exponents
  <2>1. w \in Nat \ {0} /\ w \in Exponents
    BY WidthOf
  <2>2. n \in 0 .. w - 1
    BY <2>1
  <2> QED BY <2>1, <2>2, AluAssumption DEF Exponents
<1> HIDE DEF n
<1>2. s \in Int /\ 2 ^ n \in Nat \ {0} /\ v \in Int
  <2>1. s \in Int
    BY SignedFacts, WidthOf
  <2> HIDE DEF s
  <2>2. 2 ^ n \in Nat \ {0}
    BY <1>1, PowerType
  <2> QED BY <2>1, <2>2, IntDivMod
<1>3. c = Wrap(v, w)
  BY DEF ShiftArith, n
<1>4. s \in 0 .. 2 ^ (w - 1) - 1 \/ s \in - (2 ^ (w - 1)) .. -1
  BY SignedFacts, WidthOf
<1>5. s < 0 <=> Bit(a, w - 1)
  BY SignedFacts, BitTop, WidthOf DEF Values
<1>11. Wrap(s, w) = a
  BY WrapSigned
<1> HIDE DEF s
<1>7. ASSUME NEW i \in 0 .. w - 1
      PROVE  Bit(c, i) <=> (IF i + n < w THEN i + n ELSE w - 1) \in BitsIn(a, w)
  <2>1. n + i \in Exponents /\ i \in Nat /\ n \in Nat
    BY <1>1, WidthOf, AluAssumption DEF Exponents
  <2>2. Bit(v, i) <=> Bit(s, n + i)
    BY <1>2, <2>1, BitShiftDown
  <2> HIDE DEF v, c
  <2>3. Bit(Wrap(v, w), i) <=> Bit(v, i)
    BY <1>2, WrapBits
  <2>4. CASE i + n < w
    <3>1. n + i \in 0 .. w - 1 /\ n + i = i + n
      BY <1>1, <2>4
    <3>2. Bit(Wrap(s, w), n + i) <=> Bit(s, n + i)
      BY <1>2, <3>1, WrapBits
    <3> QED BY <1>3, <1>11, <2>2, <2>3, <2>4, <3>1, <3>2 DEF BitsIn
  <2>5. CASE ~ (i + n < w)
    <3>1. w - 1 \in Nat /\ w - 1 <= n + i /\ w - 1 \in 0 .. w - 1
      BY <1>1, <2>5
    <3>2. Bit(s, n + i) <=> s < 0
      <4>1. s \in 0 .. 2 ^ (w - 1) - 1 => ~ Bit(s, n + i)
        BY <2>1, <3>1, BitHigh
      <4>2. s \in - (2 ^ (w - 1)) .. -1 => Bit(s, n + i)
        BY <2>1, <3>1, BitNegative
      <4> QED BY <1>2, <1>4, <4>1, <4>2
    <3> QED BY <1>3, <1>5, <2>2, <2>3, <2>5, <3>1, <3>2 DEF BitsIn
  <2> QED BY <2>4, <2>5
<1>8. c \in Values(w)
  BY <1>2, <1>3, WrapFacts
<1>9. BitsIn(c, w) = { i \in 0 .. w - 1 : (IF i + n < w THEN i + n ELSE w - 1) \in BitsIn(a, w) }
  <2> HIDE DEF c
  <2> QED BY <1>7 DEF BitsIn
<1> QED BY <1>8, <1>9 DEF c, n

-----------------------------------------------------------------------------
(* Division.                                                                *)

\* Quotient and Remainder round towards zero, as division in C does.
LEMMA QuotientFacts ==
    ASSUME NEW x \in Int, NEW y \in Int, y # 0
    PROVE  /\ Quotient(x, y) \in Int
           /\ Magnitude(Quotient(x, y)) <= Magnitude(x)
           /\ Divides(x, y, Quotient(x, y), Remainder(x, y))
<1> DEFINE A == Magnitude(x)  B == Magnitude(y)  Q == A \div B  R == A % B
           q == Quotient(x, y)  r == Remainder(x, y)
<1>1. A \in Nat /\ B \in Nat \ {0} /\ (x = A \/ x = - A) /\ (y = B \/ y = - B)
  BY DEF Magnitude
<1>2. (x < 0 => x = - A) /\ (~ (x < 0) => x = A) /\ (y < 0 => y = - B) /\ (~ (y < 0) => y = B)
  BY DEF Magnitude
<1>3. q = (IF (x < 0) = (y < 0) THEN Q ELSE - Q)
  BY DEF Quotient
<1>4. r = x - (y * q)
  BY DEF Remainder
<1> HIDE DEF A, B, q, r
<1>5. Q \in Nat /\ R \in 0 .. B - 1 /\ A = (Q * B) + R
  <2>1. Q \in Nat /\ R \in Nat /\ R < B /\ A = (Q * B) + R
    BY <1>1, DivModDef
  <2> HIDE DEF Q, R
  <2> QED BY <1>1, <2>1
<1> HIDE DEF Q, R
<1>6. Q <= A
  <2>1. Q * B >= Q /\ Q * B \in Nat
    BY <1>1, <1>5
  <2> QED BY <1>1, <1>5, <2>1
<1>7. q \in Int /\ (q = Q \/ q = - Q) /\ Magnitude(q) <= A
  BY <1>1, <1>3, <1>5, <1>6 DEF Magnitude
<1>8. /\ x = (y * q) + r
      /\ r = (IF x < 0 THEN - R ELSE R)
  <2>1. CASE x < 0 /\ y < 0
    <3>1. y * q = - (Q * B)
      BY <1>1, <1>2, <1>3, <1>5, <2>1
    <3> QED BY <1>1, <1>2, <1>4, <1>5, <2>1, <3>1
  <2>2. CASE x < 0 /\ ~ (y < 0)
    <3>1. y * q = - (Q * B)
      BY <1>1, <1>2, <1>3, <1>5, <2>2
    <3> QED BY <1>1, <1>2, <1>4, <1>5, <2>2, <3>1
  <2>3. CASE ~ (x < 0) /\ y < 0
    <3>1. y * q = Q * B
      BY <1>1, <1>2, <1>3, <1>5, <2>3
    <3> QED BY <1>1, <1>2, <1>4, <1>5, <2>3, <3>1
  <2>4. CASE ~ (x < 0) /\ ~ (y < 0)
    <3>1. y * q = Q * B
      BY <1>1, <1>2, <1>3, <1>5, <2>4
    <3> QED BY <1>1, <1>2, <1>4, <1>5, <2>4, <3>1
  <2> QED BY <2>1, <2>2, <2>3, <2>4
<1>9. Magnitude(r) < B /\ (r # 0 => (r < 0) = (x < 0))
  BY <1>1, <1>5, <1>8 DEF Magnitude
<1> QED BY <1>7, <1>8, <1>9 DEF Divides, A, B, q, r

\* The quotient that does not fit: of the least number and -1.
Overflows(a, b, w) == a = 2 ^ (w - 1) /\ b = 2 ^ w - 1

\* The one quotient that does not fit, the least number by -1.
LEMMA OverflowFacts ==
    ASSUME NEW w \in Widths, NEW a \in Values(w), NEW b \in Values(w), Overflows(a, b, w)
    PROVE  /\ Signed(a, w) = - (2 ^ (w - 1)) /\ Signed(b, w) = -1
           /\ Divides(Signed(a, w), Signed(b, w), 2 ^ (w - 1), 0)
BY WidthOf DEF Overflows, Signed, Divides, Magnitude

\* When it does fit, every part of a division is a number of the width.
LEMMA FitsFacts ==
    ASSUME NEW w \in Widths, NEW a \in Values(w), NEW b \in Values(w), b # 0,
           NEW q, q = Quotient(Signed(a, w), Signed(b, w)),
           NEW r, r = Remainder(Signed(a, w), Signed(b, w))
    PROVE  /\ q \in Int /\ q \in - (2 ^ w) .. 2 ^ w
           /\ r \in - (2 ^ (w - 1)) .. 2 ^ (w - 1) - 1
           /\ Divides(Signed(a, w), Signed(b, w), q, r)
<1> DEFINE m == 2 ^ w  h == 2 ^ (w - 1)  x == Signed(a, w)  y == Signed(b, w)
<1>1. m \in Nat \ {0} /\ h \in Nat \ {0} /\ m = 2 * h
  BY WidthOf
<1>2. x \in - h .. h - 1 /\ y \in - h .. h - 1 /\ y # 0
  BY SignedFacts
<1>3. q = Quotient(x, y) /\ r = Remainder(x, y)
  OBVIOUS
<1> HIDE DEF m, h, x, y
<1>4. x \in Int /\ y \in Int
  BY <1>1, <1>2
<1>5. q \in Int /\ Magnitude(q) <= Magnitude(x) /\ Divides(x, y, q, r)
  BY <1>2, <1>3, <1>4, QuotientFacts
<1>6. Magnitude(r) < Magnitude(y)
  BY <1>5 DEF Divides
<1>7. r \in Int
  <2>1. y * q \in Int
    BY <1>4, <1>5
  <2> QED BY <1>3, <1>4, <2>1 DEF Remainder
<1>8. Magnitude(x) <= h /\ Magnitude(y) <= h
  BY <1>1, <1>2 DEF Magnitude
<1>9. r \in - h .. h - 1 /\ q \in - m .. m
  BY <1>1, <1>4, <1>5, <1>6, <1>7, <1>8 DEF Magnitude
<1> QED BY <1>5, <1>9 DEF m, h, x, y

\* Signed division yields the quotient,
LEMMA DivAgrees ==
    ASSUME NEW w \in Widths, NEW a \in Values(w), NEW b \in Values(w)
    PROVE  DivOf(a, b, w) \in Values(w) /\ Agrees("div", a, b, DivOf(a, b, w), w)
<1> DEFINE c == DivOf(a, b, w)  x == Signed(a, w)  y == Signed(b, w)
           Fits(q) == Divides(x, y, q, x - y * q) /\ Modulo(c, q, w)
<1>0. 2 ^ w \in Nat \ {0} /\ 2 ^ (w - 1) \in Nat \ {0} /\ 2 ^ w = 2 * 2 ^ (w - 1)
  BY WidthOf
<1>1. CASE b = 0
  BY <1>0, <1>1 DEF Agrees, DivOf, Values
<1>2. CASE b # 0 /\ Overflows(a, b, w)
  <2> DEFINE h == 2 ^ (w - 1)
  <2>1. c = a /\ a = h
    BY <1>2 DEF DivOf, Overflows
  <2>2. x = - h /\ y = -1 /\ Divides(x, y, h, 0)
    BY <1>2, OverflowFacts
  <2>3. x - y * h = 0 /\ h \in - (2 ^ w) .. 2 ^ w
    BY <1>0, <2>2
  <2>4. Modulo(c, h, w)
    BY <1>0, <2>1 DEF Modulo
  <2>5. \E q \in - (2 ^ w) .. 2 ^ w : Fits(q)
    <3> HIDE DEF h, c, x, y
    <3> QED BY <2>2, <2>3, <2>4
  <2> QED BY <1>2, <2>1, <2>5 DEF Agrees
<1>3. CASE b # 0 /\ ~ Overflows(a, b, w)
  <2> DEFINE q0 == Quotient(x, y)  r0 == Remainder(x, y)
  <2>1. c = Wrap(q0, w)
    BY <1>3 DEF DivOf, Overflows
  <2>2. q0 \in Int /\ q0 \in - (2 ^ w) .. 2 ^ w /\ Divides(x, y, q0, r0)
    BY <1>3, FitsFacts
  <2>3. r0 = x - y * q0
    BY DEF Remainder
  <2> HIDE DEF c, x, y, q0, r0
  <2>4. c \in Values(w) /\ Modulo(c, q0, w)
    BY <2>1, <2>2, WrapFacts
  <2>5. \E q \in - (2 ^ w) .. 2 ^ w : Fits(q)
    BY <2>2, <2>3, <2>4
  <2> QED BY <1>3, <2>4, <2>5 DEF Agrees, c, x, y
<1> QED BY <1>1, <1>2, <1>3

\* and the remainder goes with it.
LEMMA RemAgrees ==
    ASSUME NEW w \in Widths, NEW a \in Values(w), NEW b \in Values(w)
    PROVE  RemOf(a, b, w) \in Values(w) /\ Agrees("rem", a, b, RemOf(a, b, w), w)
<1> DEFINE c == RemOf(a, b, w)  x == Signed(a, w)  y == Signed(b, w)
           Fits(q) == Divides(x, y, q, Signed(c, w))
<1>0. 2 ^ w \in Nat \ {0} /\ 2 ^ (w - 1) \in Nat \ {0} /\ 2 ^ w = 2 * 2 ^ (w - 1)
  BY WidthOf
<1>1. CASE b = 0
  BY <1>0, <1>1 DEF Agrees, RemOf, Values
<1>2. CASE b # 0 /\ Overflows(a, b, w)
  <2> DEFINE h == 2 ^ (w - 1)
  <2>1. c = 0 /\ Signed(c, w) = 0
    BY <1>0, <1>2 DEF RemOf, Overflows, Signed
  <2>2. Divides(x, y, h, 0)
    BY <1>2, OverflowFacts
  <2>3. h \in - (2 ^ w) .. 2 ^ w
    BY <1>0
  <2>4. \E q \in - (2 ^ w) .. 2 ^ w : Fits(q)
    <3> HIDE DEF h, c, x, y
    <3> QED BY <2>1, <2>2, <2>3
  <2> QED BY <1>0, <1>2, <2>1, <2>4 DEF Agrees, Values
<1>3. CASE b # 0 /\ ~ Overflows(a, b, w)
  <2> DEFINE q0 == Quotient(x, y)  r0 == Remainder(x, y)
  <2>1. c = Wrap(r0, w)
    BY <1>3 DEF RemOf, Overflows
  <2>2. q0 \in - (2 ^ w) .. 2 ^ w /\ Divides(x, y, q0, r0) /\ r0 \in - (2 ^ (w - 1)) .. 2 ^ (w - 1) - 1
    BY <1>3, FitsFacts
  <2> HIDE DEF c, x, y, q0, r0
  <2>3. r0 \in Int
    BY <1>0, <2>2
  <2>4. c \in Values(w) /\ Signed(c, w) = r0
    BY <2>1, <2>2, <2>3, WrapFacts, SignedWrap
  <2>5. \E q \in - (2 ^ w) .. 2 ^ w : Fits(q)
    BY <2>2, <2>4
  <2> QED BY <1>3, <2>4, <2>5 DEF Agrees, c, x, y
<1> QED BY <1>1, <1>2, <1>3

\* Unsigned division does without the special case.
LEMMA UnsignedAgrees ==
    ASSUME NEW w \in Widths, NEW a \in Values(w), NEW b \in Values(w), b # 0
    PROVE  /\ a \div b \in Values(w) /\ Divides(a, b, a \div b, a - b * (a \div b))
           /\ a % b \in Values(w) /\ \E q \in - (2 ^ w) .. 2 ^ w : Divides(a, b, q, a % b)
<1> DEFINE m == 2 ^ w  q == a \div b  r == a % b
<1>0. m \in Nat \ {0}
  BY WidthOf
<1>1. a \in Nat /\ b \in Nat \ {0} /\ a < m /\ b < m
  BY <1>0 DEF Values
<1>2. q \in Nat /\ r \in Nat /\ r < b /\ a = (q * b) + r
  BY <1>1, DivModDef
<1> HIDE DEF m, q, r
<1>3. q * b >= q /\ q * b \in Nat /\ b * q = q * b
  BY <1>1, <1>2
<1>4. q < m /\ r < m /\ a - b * q = r
  BY <1>0, <1>1, <1>2, <1>3
<1>5. Divides(a, b, q, r)
  BY <1>1, <1>2, <1>3 DEF Divides, Magnitude
<1>6. q \in - m .. m /\ q \in 0 .. m - 1 /\ r \in 0 .. m - 1
  BY <1>0, <1>2, <1>4
<1>7. \E p \in - m .. m : Divides(a, b, p, r)
  BY <1>5, <1>6
<1> QED BY <1>4, <1>5, <1>6, <1>7 DEF Values, m, q, r

-----------------------------------------------------------------------------
(* The upper words of products.                                             *)

\* The upper word of the product of two words, from the products of the halves.
LEMMA UpperFromHalves ==
    ASSUME NEW B \in Nat \ {0}, NEW a0 \in 0 .. B - 1, NEW a1 \in 0 .. B - 1,
           NEW b0 \in 0 .. B - 1, NEW b1 \in 0 .. B - 1,
           NEW a, NEW b, a = (a1 * B) + a0, b = (b1 * B) + b0
    PROVE  a * b = ((a1 * b1) * (B * B)) + ((((a0 * b1) + (a1 * b0)) * B) + (a0 * b0))
<1>1. a \in Int /\ b \in Int /\ a1 * B \in Int /\ b1 * B \in Int
  OBVIOUS
<1>2. a * b = ((a1 * B) * b) + (a0 * b)
  BY <1>1
<1>3. a0 * b = ((a0 * b1) * B) + (a0 * b0)
  OBVIOUS
<1>4. (a1 * B) * b = ((a1 * B) * (b1 * B)) + ((a1 * B) * b0)
  BY <1>1
<1>5. (a1 * B) * (b1 * B) = (a1 * b1) * (B * B)
  OBVIOUS
<1>6. (a1 * B) * b0 = (a1 * b0) * B
  OBVIOUS
<1>7. ((a0 * b1) + (a1 * b0)) * B = ((a0 * b1) * B) + ((a1 * b0) * B)
  OBVIOUS
<1> QED BY <1>2, <1>3, <1>4, <1>5, <1>6, <1>7

\* The carries of mulhu are those of the whole product.
LEMMA MulhuUpper ==
    ASSUME NEW a \in Word, NEW b \in Word
    PROVE  /\ mulhu(a, b) \in Word
           /\ a * b - mulhu(a, b) * 2 ^ XLEN \in 0 .. 2 ^ XLEN - 1
<1> DEFINE B == HalfBase
           a0 == Low(a)  a1 == a \div HalfBase  b0 == Low(b)  b1 == b \div HalfBase
           r00 == a0 * b0  r01 == a0 * b1  r10 == a1 * b0  r11 == a1 * b1
           c1 == (r00 \div B + Low(r01)) + Low(r10)
           c2 == ((c1 \div B + r01 \div B) + r10 \div B) + Low(r11)
           u == Low(c2 \div B + r11 \div B) * B + Low(c2)
<1>1. B \in Nat \ {0} /\ 2 ^ XLEN = B * B
  BY WidthFacts
<1>2. mulhu(a, b) = u
  BY DEF mulhu
<1>3. /\ a0 \in 0 .. B - 1 /\ a1 \in 0 .. B - 1 /\ a = (a1 * B) + a0
      /\ b0 \in 0 .. B - 1 /\ b1 \in 0 .. B - 1 /\ b = (b1 * B) + b0
  <2>1. a \in 0 .. (B * B) - 1 /\ b \in 0 .. (B * B) - 1
    BY <1>1 DEF Word
  <2>2. a0 = a % B /\ b0 = b % B
    BY DEF Low
  <2>3. /\ a1 \in Nat /\ a1 < B /\ a % B \in Nat /\ a % B < B /\ (a1 * B) + (a % B) = a
        /\ b1 \in Nat /\ b1 < B /\ b % B \in Nat /\ b % B < B /\ (b1 * B) + (b % B) = b
    BY <1>1, <2>1, HalvesOfWord
  <2> HIDE DEF a0, a1, b0, b1, B
  <2> QED BY <1>1, <2>2, <2>3
<1> HIDE DEF u, a0, a1, b0, b1
<1>4. r00 \in Nat /\ r01 \in Nat /\ r10 \in Nat /\ r11 \in Nat
  BY <1>1, <1>3
<1>5. a * b = (r11 * (B * B)) + (((r01 + r10) * B) + r00)
  BY <1>1, <1>3, UpperFromHalves
<1> HIDE DEF r00, r01, r10, r11
<1> DEFINE h00 == r00 \div B  l00 == r00 % B  h01 == r01 \div B  l01 == r01 % B
           h10 == r10 \div B  l10 == r10 % B  h11 == r11 \div B  l11 == r11 % B
           C == c1 \div B  D == c1 % B  E == c2 \div B  F == c2 % B
<1>6. /\ h00 \in Nat /\ l00 \in 0 .. B - 1 /\ r00 = (h00 * B) + l00
      /\ h01 \in Nat /\ l01 \in 0 .. B - 1 /\ r01 = (h01 * B) + l01
      /\ h10 \in Nat /\ l10 \in 0 .. B - 1 /\ r10 = (h10 * B) + l10
      /\ h11 \in Nat /\ l11 \in 0 .. B - 1 /\ r11 = (h11 * B) + l11
  <2>1. \A r \in Nat : r \div B \in Nat /\ r % B \in 0 .. B - 1 /\ r = ((r \div B) * B) + (r % B)
    BY <1>1, NatDivMod
  <2> QED BY <1>4, <2>1
<1>7. c1 = (h00 + l01) + l10 /\ c2 = ((C + h01) + h10) + l11
  BY DEF Low
<1>8. u = ((E + h11) % B) * B + F
  BY DEF u, Low
<1> HIDE DEF c1, c2
<1> HIDE DEF h00, l00, h01, l01, h10, l10, h11, l11
<1>9. c1 \in Nat
  BY <1>1, <1>6, <1>7
<1>10. C \in Nat /\ D \in 0 .. B - 1 /\ c1 = (C * B) + D
  BY <1>1, <1>9, NatDivMod
<1> HIDE DEF C, D
<1>11. c2 \in Nat
  BY <1>1, <1>6, <1>7, <1>10
<1>12. E \in Nat /\ F \in 0 .. B - 1 /\ c2 = (E * B) + F
  BY <1>1, <1>11, NatDivMod
<1> HIDE DEF E, F
<1> DEFINE U == ((h11 + E) * B) + F
           t == (D * B) + l00
<1>13. a * b = (U * (B * B)) + t
  <2> DEFINE W == B * B
  <2>1. W \in Nat
    BY <1>1
  <2>2. r11 * W = ((h11 * B) * W) + (l11 * W)
    <3>1. h11 * B \in Int /\ l11 \in Int /\ W \in Int /\ r11 = (h11 * B) + l11
      BY <1>1, <1>6, <2>1
    <3> QED BY <3>1, Distributes
  <2>3. (r01 + r10) * B = ((h01 + h10) * W) + ((l01 + l10) * B)
    BY <1>1, <1>6
  <2>4. h00 * B + ((l01 + l10) * B) = c1 * B
    BY <1>1, <1>6, <1>7
  <2>5. c1 * B = (C * W) + (D * B)
    BY <1>1, <1>10
  <2>6. c2 * W = (((C * W) + (h01 * W)) + (h10 * W)) + (l11 * W)
    BY <1>6, <1>7, <1>10, <2>1
  <2>7. c2 * W = ((E * B) * W) + (F * W)
    <3>1. E * B \in Int /\ F \in Int /\ W \in Int /\ c2 = (E * B) + F
      BY <1>1, <1>12, <2>1
    <3> QED BY <3>1, Distributes
  <2>8. U * W = (((h11 * B) * W) + ((E * B) * W)) + (F * W)
    BY <1>1, <1>6, <1>12, <2>1
  <2>9. (h01 + h10) * W = (h01 * W) + (h10 * W)
    BY <1>6, <2>1
  <2> HIDE DEF W, U
  <2> DEFINE x1 == (h11 * B) * W  x2 == l11 * W  x3 == C * W  x4 == D * B  x5 == h01 * W  x6 == h10 * W
             x7 == (E * B) * W  x8 == F * W  y == (l01 + l10) * B  z == h00 * B
  <2>10. x1 \in Int /\ x2 \in Int /\ x3 \in Int /\ x4 \in Int /\ x5 \in Int /\ x6 \in Int /\ x7 \in Int
         /\ x8 \in Int /\ y \in Int /\ z \in Int
    BY <1>1, <1>6, <1>10, <1>12, <2>1
  <2>11. r11 * W = x1 + x2 /\ (r01 + r10) * B = (x5 + x6) + y /\ z + y = x3 + x4
         /\ ((x3 + x5) + x6) + x2 = x7 + x8 /\ U * W = (x1 + x7) + x8 /\ r00 = z + l00
    BY <1>6, <2>2, <2>3, <2>4, <2>5, <2>6, <2>7, <2>8, <2>9
  <2>12. a * b = (r11 * W) + (((r01 + r10) * B) + r00)
    BY <1>5 DEF W
  <2>13. t = x4 + l00 /\ l00 \in Int
    BY <1>6
  <2>14. a * b = (U * W) + t
    <3> HIDE DEF x1, x2, x3, x4, x5, x6, x7, x8, y, z, t
    <3> QED BY <2>10, <2>11, <2>12, <2>13
  <2> QED BY <2>14 DEF W
<1>14. t \in 0 .. (B * B) - 1
  BY <1>1, <1>6, <1>10, JoinBound
<1>15. U \in Nat
  BY <1>1, <1>6, <1>12
<1>16. U < B * B
  <2> DEFINE W == B * B
  <2>1. W \in Nat \ {0}
    BY <1>1
  <2>2. a \in 0 .. W - 1 /\ b \in 0 .. W - 1
    BY <1>1 DEF Word
  <2>3. a * b = (U * W) + t /\ t \in Nat
    BY <1>13, <1>14
  <2> HIDE DEF W, U, t
  <2>4. a * b <= (W - 1) * (W - 1)
    <3>1. a * b <= a * (W - 1)
      BY <2>1, <2>2
    <3>2. a * (W - 1) <= (W - 1) * (W - 1)
      BY <2>1, <2>2
    <3>3. a * b \in Int /\ a * (W - 1) \in Int /\ (W - 1) * (W - 1) \in Int
      BY <2>1, <2>2
    <3> QED BY <3>1, <3>2, <3>3
  <2>5. ASSUME U >= W PROVE FALSE
    <3>1. U * W >= W * W
      BY <1>15, <2>1, <2>5
    <3>2. W * W > (W - 1) * (W - 1)
      BY <2>1
    <3>3. U * W \in Int /\ W * W \in Int /\ (W - 1) * (W - 1) \in Int /\ a * b \in Int
      BY <1>15, <2>1, <2>2
    <3> QED BY <2>3, <2>4, <3>1, <3>2, <3>3
  <2> QED BY <1>15, <2>1, <2>5 DEF W
<1>17. h11 + E \in 0 .. B - 1
  <2>1. h11 + E \in Nat
    BY <1>6, <1>12
  <2>2. ASSUME h11 + E >= B PROVE FALSE
    <3>1. (h11 + E) * B >= B * B
      BY <1>1, <2>1, <2>2
    <3>2. (h11 + E) * B \in Int /\ B * B \in Int /\ F \in Nat
      BY <1>1, <1>12, <2>1
    <3> QED BY <1>16, <3>1, <3>2
  <2> QED BY <1>1, <2>1, <2>2
<1>18. u = U
  <2>1. E + h11 = h11 + E
    BY <1>6, <1>12
  <2>2. (h11 + E) % B = h11 + E
    BY <1>1, <1>17, DivSmall
  <2> QED BY <1>8, <2>1, <2>2
<1>19. U \in 0 .. (B * B) - 1
  BY <1>1, <1>15, <1>16
<1>20. a * b - U * (B * B) = t
  <2> HIDE DEF t, U
  <2>1. U * (B * B) \in Int /\ t \in Int
    BY <1>1, <1>14, <1>15
  <2> QED BY <1>13, <2>1
<1> QED BY <1>1, <1>2, <1>14, <1>18, <1>19, <1>20 DEF Word

\* A high word, as Agrees asks for one: what is left of the product is a word.
Upper(p, h) == h \in Int /\ p - h * 2 ^ XLEN \in 0 .. 2 ^ XLEN - 1

\* Making an operand negative subtracts the other one from the high word.
LEMMA UpperMinus ==
    ASSUME NEW p \in Int, NEW h \in Int, NEW b \in Int, Upper(p, h)
    PROVE  Upper(p - b * 2 ^ XLEN, h - b)
<1> DEFINE m == 2 ^ XLEN
<1>1. m \in Nat
  BY WidthFacts
<1> HIDE DEF m
<1>2. (h - b) * m = (h * m) - (b * m) /\ h * m \in Int /\ b * m \in Int
  BY <1>1
<1>3. (p - b * m) - (h - b) * m = p - h * m
  BY <1>2
<1> QED BY <1>3 DEF Upper, m

\* It is a signed number when the product is smaller than half of all words.
LEMMA UpperFits ==
    ASSUME NEW p \in Int, NEW h \in Int, Upper(p, h),
           NEW r \in Nat, r = 2 ^ (XLEN - 1), - (r * (2 * r)) <= p, p < r * (2 * r)
    PROVE  h \in - r .. r - 1
<1>1. r \in Nat \ {0} /\ 2 ^ XLEN = 2 * r
  BY WidthOf DEF Widths
<1> DEFINE m == 2 * r
<1>2. p - h * m >= 0 /\ p - h * m < m
  BY <1>1 DEF Upper
<1>3. m \in Nat \ {0}
  BY <1>1
<1>6. - (r * m) <= p /\ p < r * m
  OBVIOUS
<1> HIDE DEF m
<1>4. ASSUME h >= r PROVE FALSE
  <2>1. h * m >= r * m /\ h * m \in Int /\ r * m \in Int
    BY <1>1, <1>3, <1>4
  <2> QED BY <1>2, <1>6, <2>1
<1>5. ASSUME h < - r PROVE FALSE
  <2>1. (h + 1) * m <= (- r) * m /\ (h + 1) * m = h * m + m /\ (-r) * m = - (r * m)
    BY <1>1, <1>3, <1>5
  <2>2. h * m \in Int /\ r * m \in Int
    BY <1>1, <1>3
  <2> QED BY <1>2, <1>3, <1>6, <2>1, <2>2
<1> QED BY <1>1, <1>4, <1>5

\* Of a register.
LEMMA SignedWord ==
    ASSUME NEW a \in Word
    PROVE  /\ S(a) \in Int /\ a \in Nat /\ a < 2 ^ XLEN
           /\ - (2 ^ (XLEN - 1)) <= S(a) /\ S(a) < 2 ^ (XLEN - 1)
           /\ S(a) = a - (IF S(a) < 0 THEN 2 ^ XLEN ELSE 0)
           /\ Wrap(a, XLEN) = a /\ Wrap(S(a), XLEN) = a
<1>1. XLEN \in Widths /\ a \in Values(XLEN)
  BY DEF Widths, Values, Word
<1>2. a \in Int
  BY <1>1, WidthOf DEF Values
<1> QED BY <1>1, <1>2, WidthOf, SignedFacts, WrapFacts, WrapSigned DEF S, Values

\* A negative first operand takes the second from the high word,
LEMMA MulhsuFacts ==
    ASSUME NEW a \in Word, NEW b \in Word
    PROVE  \E h \in - (2 ^ (XLEN - 1)) .. 2 ^ (XLEN - 1) - 1 :
               Upper(S(a) * b, h) /\ mulhsu(a, b) = Wrap(h, XLEN)
<1> DEFINE m == 2 ^ XLEN  r == 2 ^ (XLEN - 1)  u == mulhu(a, b)  x == S(a)
           c == IF x < 0 THEN b ELSE 0
           h == u - c
<1>1. m \in Nat \ {0} /\ r \in Nat \ {0} /\ m = 2 * r
  BY WidthOf DEF Widths
<1>2. u \in Int /\ Upper(a * b, u)
  BY MulhuUpper, WidthFacts DEF Word, Upper
<1>3. x \in Int /\ - r <= x /\ x < r /\ x = a - (IF x < 0 THEN m ELSE 0)
  BY SignedWord
<1>4. a \in Int /\ b \in Int /\ 0 <= b /\ b < m
  BY SignedWord
<1>5. mulhsu(a, b) = Wrap(h, XLEN)
  BY DEF mulhsu
<1> HIDE DEF u, x
<1>6. c \in Int /\ x * b = a * b - c * m
  BY <1>1, <1>3, <1>4
<1> HIDE DEF c
<1>7. h \in Int /\ Upper(x * b, h)
  <2>1. a * b \in Int
    BY <1>4
  <2> QED BY <1>2, <1>6, <2>1, UpperMinus
<1> HIDE DEF h
<1>8. - (r * (2 * r)) <= x * b /\ x * b < r * (2 * r) /\ x * b \in Int
  <2>1. (- r) * b <= x * b /\ x * b <= (r - 1) * b
    BY <1>1, <1>3, <1>4
  <2>2. (- r) * b = - (r * b) /\ r * b <= r * (2 * r) /\ (r - 1) * b <= (r - 1) * (2 * r)
    BY <1>1, <1>4
  <2>3. (r - 1) * (2 * r) < r * (2 * r)
    BY <1>1
  <2>4. x * b \in Int /\ r * b \in Int /\ r * (2 * r) \in Int /\ (r - 1) * b \in Int /\ (r - 1) * (2 * r) \in Int
    BY <1>1, <1>3, <1>4
  <2> QED BY <2>1, <2>2, <2>3, <2>4
<1>9. h \in - r .. r - 1
  BY <1>1, <1>7, <1>8, UpperFits
<1> QED BY <1>5, <1>7, <1>9 DEF x

\* and a negative second the first.
LEMMA MulhFacts ==
    ASSUME NEW a \in Word, NEW b \in Word
    PROVE  \E h \in - (2 ^ (XLEN - 1)) .. 2 ^ (XLEN - 1) - 1 :
               Upper(S(a) * S(b), h) /\ mulh(a, b) = Wrap(h, XLEN)
<1> DEFINE m == 2 ^ XLEN  r == 2 ^ (XLEN - 1)  x == S(a)  y == S(b)
<1>1. m \in Nat \ {0} /\ r \in Nat \ {0} /\ m = 2 * r
  BY WidthOf DEF Widths
<1>2. PICK h \in - r .. r - 1 : Upper(x * b, h) /\ mulhsu(a, b) = Wrap(h, XLEN)
  BY MulhsuFacts
<1>3. /\ x \in Int /\ - r <= x /\ x < r /\ x = a - (IF x < 0 THEN m ELSE 0)
      /\ y \in Int /\ - r <= y /\ y < r /\ y = b - (IF y < 0 THEN m ELSE 0)
  BY SignedWord
<1>4. a \in Int /\ b \in Int /\ h \in Int
  BY <1>1, SignedWord
<1> DEFINE c == IF y < 0 THEN x ELSE 0
           d == IF y < 0 THEN a ELSE 0
           g == h - c
<1>5. mulh(a, b) = Wrap(Wrap(h, XLEN) - d, XLEN)
  BY <1>2 DEF mulh
<1> HIDE DEF x, y
<1>6. c \in Int /\ x * y = x * b - c * m
  BY <1>1, <1>3, <1>4
<1>7. Wrap(Wrap(h, XLEN) - d, XLEN) = Wrap(g, XLEN)
  <2> DEFINE k == h \div m
             e == IF y < 0 /\ x < 0 THEN 1 ELSE 0
  <2>0. k \in Int /\ h % m \in 0 .. m - 1 /\ h = (k * m) + (h % m)
    BY <1>1, <1>4, IntDivMod
  <2> HIDE DEF k
  <2>1. k \in Int /\ Wrap(h, XLEN) \in Int /\ h = (k * m) + Wrap(h, XLEN)
    BY <1>1, <2>0 DEF Wrap
  <2>2. d = c + e * m /\ e \in {0, 1} /\ d \in Int
    BY <1>1, <1>3, <1>4
  <2> HIDE DEF d, c, e
  <2>3. Wrap(h, XLEN) - d = g + ((- k) - e) * m
    <3>0. m \in Int /\ k \in Int /\ e \in Int
      BY <1>1, <2>1, <2>2
    <3> HIDE DEF m
    <3>1. ((- k) - e) * m = (- (k * m)) - (e * m) /\ k * m \in Int /\ e * m \in Int
      BY <3>0
    <3> QED BY <1>4, <1>6, <2>1, <2>2, <3>0, <3>1
  <2>4. g \in Int /\ (- k) - e \in Int /\ XLEN \in Widths
    BY <1>4, <1>6, <2>1, <2>2 DEF Widths
  <2> HIDE DEF g
  <2> QED BY <2>3, <2>4, WrapSame
<1> HIDE DEF c
<1>8. g \in Int /\ Upper(x * y, g)
  <2>1. x * b \in Int
    BY <1>3, <1>4
  <2>2. Upper(x * b, h)
    BY <1>2
  <2> QED BY <1>4, <1>6, <2>1, <2>2, UpperMinus
<1> HIDE DEF g
<1>9. - (r * (2 * r)) <= x * y /\ x * y < r * (2 * r) /\ x * y \in Int
  <2>1. x * y \in Int
    BY <1>3
  <2>2. Magnitude(x) \in 0 .. r /\ Magnitude(y) \in 0 .. r
    BY <1>1, <1>3 DEF Magnitude
  <2>3. Magnitude(x) * Magnitude(y) <= r * r
    <3> DEFINE p == Magnitude(x)  q == Magnitude(y)
    <3>1. p \in 0 .. r /\ q \in 0 .. r
      BY <2>2
    <3> HIDE DEF p, q
    <3>2. p * q <= p * r /\ p * r <= r * r /\ p * q \in Int /\ p * r \in Int /\ r * r \in Int
      BY <1>1, <3>1
    <3> QED BY <3>2 DEF p, q
  <2>4. x * y = Magnitude(x) * Magnitude(y) \/ x * y = - (Magnitude(x) * Magnitude(y))
    BY <1>3 DEF Magnitude
  <2>5. r * (2 * r) = (r * r) + (r * r) /\ r * r > 0 /\ r * r \in Int
    BY <1>1
  <2> DEFINE z == Magnitude(x) * Magnitude(y)
  <2>6. z \in Int /\ z >= 0
    BY <1>1, <2>2
  <2> HIDE DEF z
  <2> QED BY <2>1, <2>3, <2>4, <2>5, <2>6 DEF z
<1>10. g \in - r .. r - 1
  BY <1>1, <1>8, <1>9, UpperFits
<1> QED BY <1>5, <1>7, <1>8, <1>10 DEF x, y

-----------------------------------------------------------------------------
(* Every operation yields what it is for.                                   *)

\* Sums, differences and products are right modulo 2^w.
LEMMA SumAgrees ==
    ASSUME NEW w \in Widths, NEW a \in Values(w), NEW b \in Values(w)
    PROVE  /\ a + b \in Int /\ Agrees("add", a, b, Wrap(a + b, w), w)
           /\ a - b \in Int /\ Agrees("sub", a, b, Wrap(a - b, w), w)
           /\ Signed(a, w) * Signed(b, w) \in Int
           /\ Agrees("mul", a, b, Wrap(Signed(a, w) * Signed(b, w), w), w)
<1>1. a \in Int /\ b \in Int /\ Signed(a, w) \in Int /\ Signed(b, w) \in Int
  BY WidthOf, SignedFacts DEF Values
<1> DEFINE x == Signed(a, w)  y == Signed(b, w)
<1>2. x \in Int /\ y \in Int
  BY <1>1
<1> HIDE DEF x, y
<1>3. a + b \in Int /\ a - b \in Int /\ x * y \in Int
  BY <1>1, <1>2
<1>4. Modulo(Wrap(a + b, w), a + b, w) /\ Modulo(Wrap(a - b, w), a - b, w) /\ Modulo(Wrap(x * y, w), x * y, w)
  BY <1>3, WrapFacts
<1> QED BY <1>3, <1>4 DEF Agrees, x, y

\* Shifts, by a count of which only the lower bits matter.
LEMMA ShiftAgrees ==
    ASSUME NEW w \in Widths, NEW a \in Values(w), NEW b \in Nat, NEW n \in Nat, b % w = n % w
    PROVE  /\ ShiftLeft(a, n, w) \in Values(w) /\ Agrees("sll", a, b, ShiftLeft(a, n, w), w)
           /\ ShiftRight(a, n, w) \in Values(w) /\ Agrees("srl", a, b, ShiftRight(a, n, w), w)
           /\ ShiftArith(a, n, w) \in Values(w) /\ Agrees("sra", a, b, ShiftArith(a, n, w), w)
<1>1. ShiftLeft(a, n, w) \in Values(w) /\ Agrees("sll", a, b, ShiftLeft(a, n, w), w)
  BY BitsShiftLeft DEF Agrees
<1>2. ShiftRight(a, n, w) \in Values(w) /\ Agrees("srl", a, b, ShiftRight(a, n, w), w)
  BY BitsShiftRight DEF Agrees
<1>3. ShiftArith(a, n, w) \in Values(w) /\ Agrees("sra", a, b, ShiftArith(a, n, w), w)
  BY BitsShiftArith DEF Agrees
<1> QED BY <1>1, <1>2, <1>3

\* The logical operations.
LEMMA CombinedAgrees ==
    ASSUME NEW w \in Widths, NEW a, NEW b
    PROVE  /\ Agrees("and", a, b, And(a, b), w)
           /\ Agrees("or", a, b, Or(a, b), w)
           /\ Agrees("xor", a, b, Xor(a, b), w)
<1>1. \A i \in 0 .. w - 1 : i \in 0 .. XLEN - 1
  BY WidthOf
<1>2. \A i \in 0 .. w - 1 : Bit(And(a, b), i) <=> Bit(a, i) /\ Bit(b, i)
  BY <1>1, AndBits DEF IsCombined
<1>3. \A i \in 0 .. w - 1 : Bit(Or(a, b), i) <=> Bit(a, i) \/ Bit(b, i)
  BY <1>1, OrBits DEF IsCombined
<1>4. \A i \in 0 .. w - 1 : Bit(Xor(a, b), i) <=> Bit(a, i) # Bit(b, i)
  BY <1>1, XorBits DEF IsCombined
<1>5. Agrees("and", a, b, And(a, b), w)
  BY <1>2 DEF Agrees, BitsIn
<1>6. Agrees("or", a, b, Or(a, b), w)
  BY <1>3 DEF Agrees, BitsIn
<1>7. Agrees("xor", a, b, Xor(a, b), w)
  <2>2. ASSUME NEW i \in 0 .. w - 1
        PROVE  i \in BitsIn(Xor(a, b), w) <=> (i \in BitsIn(a, w)) # (i \in BitsIn(b, w))
    <3>1. /\ i \in BitsIn(Xor(a, b), w) <=> Bit(Xor(a, b), i)
          /\ i \in BitsIn(a, w) <=> Bit(a, i)
          /\ i \in BitsIn(b, w) <=> Bit(b, i)
      BY DEF BitsIn
    <3>2. Bit(Xor(a, b), i) <=> ~ (Bit(a, i) <=> Bit(b, i))
      BY <1>4 DEF Bit
    <3> QED BY <3>1, <3>2
  <2> QED BY <2>2 DEF Agrees
<1> QED BY <1>5, <1>6, <1>7

\* The upper words of products.
LEMMA HighAgrees ==
    ASSUME NEW a \in Word, NEW b \in Word
    PROVE  /\ mulhu(a, b) \in Word /\ Agrees("mulhu", a, b, mulhu(a, b), XLEN)
           /\ mulhsu(a, b) \in Word /\ Agrees("mulhsu", a, b, mulhsu(a, b), XLEN)
           /\ mulh(a, b) \in Word /\ Agrees("mulh", a, b, mulh(a, b), XLEN)
<1>0. XLEN \in Widths /\ Word = Values(XLEN)
  BY DEF Widths, Word, Values
<1>1. mulhu(a, b) \in Word /\ Agrees("mulhu", a, b, mulhu(a, b), XLEN)
  BY MulhuUpper DEF Agrees
<1>2. mulhsu(a, b) \in Word /\ Agrees("mulhsu", a, b, mulhsu(a, b), XLEN)
  <2>1. PICK h \in - (2 ^ (XLEN - 1)) .. 2 ^ (XLEN - 1) - 1 :
           Upper(S(a) * b, h) /\ mulhsu(a, b) = Wrap(h, XLEN)
    BY MulhsuFacts
  <2>2. Signed(mulhsu(a, b), XLEN) = h /\ mulhsu(a, b) \in Word
    BY <1>0, <2>1, SignedWrap, WrapFacts, WidthOf
  <2> QED BY <2>1, <2>2 DEF Agrees, Upper, S
<1>3. mulh(a, b) \in Word /\ Agrees("mulh", a, b, mulh(a, b), XLEN)
  <2>1. PICK h \in - (2 ^ (XLEN - 1)) .. 2 ^ (XLEN - 1) - 1 :
           Upper(S(a) * S(b), h) /\ mulh(a, b) = Wrap(h, XLEN)
    BY MulhFacts
  <2>2. Signed(mulh(a, b), XLEN) = h /\ mulh(a, b) \in Word
    BY <1>0, <2>1, SignedWrap, WrapFacts, WidthOf
  <2> QED BY <2>1, <2>2 DEF Agrees, Upper, S
<1> QED BY <1>1, <1>2, <1>3

\* Unsigned division, with its special case.
LEMMA DivideAgrees ==
    ASSUME NEW w \in Widths, NEW a \in Values(w), NEW b \in Values(w)
    PROVE  LET q == IF b = 0 THEN 2 ^ w - 1 ELSE a \div b
               r == IF b = 0 THEN a ELSE a % b
           IN  /\ q \in Values(w) /\ Agrees("divu", a, b, q, w)
               /\ r \in Values(w) /\ Agrees("remu", a, b, r, w)
<1>1. CASE b = 0
  BY <1>1, WidthOf DEF Agrees, Values
<1>2. CASE b # 0
  BY <1>2, UnsignedAgrees DEF Agrees
<1> QED BY <1>1, <1>2

\* Every operation on two registers yields what it is for.
LEMMA RegAgreesAlways ==
    ASSUME NEW a \in Word, NEW b \in Word, NEW op \in RegOps
    PROVE  RegAgrees(op, a, b)
<1> DEFINE c == op_reg(op, a, b)
<1>0. XLEN \in Widths /\ Word = Values(XLEN) /\ a \in Nat /\ b \in Nat /\ a \in Int /\ b \in Int
  BY WidthFacts DEF Widths, Word, Values
<1>1. CASE op \in {"add", "sub", "mul"}
  <2>1. /\ op = "add" => c = Wrap(a + b, XLEN)
        /\ op = "sub" => c = Wrap(a - b, XLEN)
        /\ op = "mul" => c = Wrap(Signed(a, XLEN) * Signed(b, XLEN), XLEN)
    BY DEF op_reg, S
  <2>2. Agrees(op, a, b, c, XLEN) /\ c \in Word
    BY <1>0, <1>1, <2>1, SumAgrees, WrapFacts
  <2> QED BY <2>2 DEF RegAgrees
<1>2. CASE op \in {"sll", "srl", "sra"}
  <2>1. /\ op = "sll" => c = ShiftLeft(a, b, XLEN)
        /\ op = "srl" => c = ShiftRight(a, b, XLEN)
        /\ op = "sra" => c = ShiftArith(a, b, XLEN)
    BY DEF op_reg
  <2> QED BY <1>0, <1>2, <2>1, ShiftAgrees DEF RegAgrees
<1>3. CASE op \in {"slt", "sltu"}
  <2>1. /\ op = "slt" => c = Flag(Signed(a, XLEN) < Signed(b, XLEN))
        /\ op = "sltu" => c = Flag(a < b)
    BY DEF op_reg, S
  <2>2. c \in {0, 1}
    BY <1>3, <2>1 DEF Flag
  <2>3. Agrees(op, a, b, c, XLEN)
    <3>1. CASE op = "slt"
      BY <2>1, <2>2, <3>1 DEF Agrees, Flag
    <3>2. CASE op = "sltu"
      BY <2>1, <2>2, <3>2 DEF Agrees, Flag
    <3> QED BY <1>3, <3>1, <3>2
  <2>4. c \in Word
    BY <1>0, <2>2, WidthOf DEF Word
  <2> QED BY <2>3, <2>4 DEF RegAgrees
<1>4. CASE op \in {"and", "or", "xor"}
  <2>1. /\ op = "and" => c = And(a, b) 
        /\ op = "or" => c = Or(a, b) 
        /\ op = "xor" => c = Xor(a, b)
    BY DEF op_reg
  <2>2. And(a, b) \in Word /\ Or(a, b) \in Word /\ Xor(a, b) \in Word
    BY AndBits, OrBits, XorBits DEF IsCombined
  <2> QED BY <1>0, <1>4, <2>1, <2>2, CombinedAgrees DEF RegAgrees
<1>5. CASE op \in {"mulh", "mulhsu", "mulhu"}
  <2>1. /\ op = "mulh" => c = mulh(a, b) 
        /\ op = "mulhsu" => c = mulhsu(a, b) 
        /\ op = "mulhu" => c = mulhu(a, b)
    BY DEF op_reg
  <2> QED BY <1>0, <1>5, <2>1, HighAgrees DEF RegAgrees
<1>6. CASE op \in {"div", "rem"}
  <2>1. /\ op = "div" => c = DivOf(a, b, XLEN) 
        /\ op = "rem" => c = RemOf(a, b, XLEN)
    BY DEF op_reg, m_div, rem
  <2> QED BY <1>0, <1>6, <2>1, DivAgrees, RemAgrees DEF RegAgrees
<1>7. CASE op \in {"divu", "remu"}
  <2>1. /\ op = "divu" => c = IF b = 0 THEN 2 ^ XLEN - 1 ELSE a \div b
        /\ op = "remu" => c = IF b = 0 THEN a ELSE a % b
    BY DEF op_reg, m_divu, remu
  <2> QED BY <1>0, <1>7, <2>1, DivideAgrees DEF RegAgrees
<1> QED BY <1>1, <1>2, <1>3, <1>4, <1>5, <1>6, <1>7 DEF RegOps

\* The lower half of a register is a value of Half bits.
LEMMA LowFacts ==
    ASSUME NEW a \in Word
    PROVE  /\ Low(a) \in Values(Half) /\ Low(a) \in Nat /\ Half \in Widths /\ a \in Nat
           /\ Low(a) % Half = a % Half /\ Low(a) = Wrap(a, Half)
<1>1. Half \in Widths /\ a \in Nat /\ a \in Int
  BY WidthFacts DEF Widths, Word
<1>2. Low(a) \in Values(Half) /\ Low(a) = Wrap(a, Half)
  BY <1>1, WrapFacts DEF Low, HalfBase, Wrap
<1>3. Low(a) % Half = a % Half
  <2>1. Half \in Nat \ {0} /\ HalfBase \in Nat \ {0} /\ HalfBase % Half = 0
    BY WidthFacts, AluAssumption DEF Exponents
  <2>4. (a % HalfBase) % Half = a % Half
    BY <1>1, <2>1, ModOfDivisor
  <2> QED BY <2>4 DEF Low
<1> QED BY <1>1, <1>2, <1>3, WidthOf DEF Values

\* The 32-bit forms do the same to the lower halves and extend the sign.
LEMMA WordAgreesAlways ==
    ASSUME NEW a \in Word, NEW b \in Word, NEW op \in WordOps
    PROVE  WordAgrees(op, a, b)
<1> DEFINE la == Low(a)  lb == Low(b)
<1>0. la \in Values(Half) /\ lb \in Values(Half) /\ Half \in Widths /\ b \in Nat /\ lb \in Nat /\ lb % Half = b % Half
  BY LowFacts
<1>1. SUFFICES \E v \in Int : op_32(op, a, b) = SignExtended(v) /\ Agrees(BaseOf[op], la, lb, Wrap(v, Half), Half)
  BY ExtendedFacts DEF WordAgrees
<1>2. \A c \in Values(Half) : c \in Int /\ Wrap(c, Half) = c
  BY <1>0, WidthOf, WrapFacts DEF Values
<1>3. \A v \in Int : Modulo(Wrap(v, Half), v, Half)
  BY <1>0, WrapFacts
<1>4. CASE op \in {"addw", "subw"}
  <2> DEFINE p == a \div HalfBase  q == b \div HalfBase
  <2>1. /\ a \in Int /\ b \in Int /\ la \in Int /\ lb \in Int /\ p \in Int /\ q \in Int
        /\ a = (p * HalfBase) + la /\ b = (q * HalfBase) + lb
    <3>1. a \in Nat /\ b \in Nat /\ HalfBase \in Nat \ {0} /\ la = a % HalfBase /\ lb = b % HalfBase
      BY WidthFacts, LowFacts DEF Low
    <3> HIDE DEF la, lb
    <3> QED BY <3>1, NatDivMod
  <2> HIDE DEF p, q, la, lb
  <2>2. /\ a + b = (la + lb) + (p + q) * HalfBase
        /\ a - b = (la - lb) + (p - q) * HalfBase
    BY <2>1, WidthFacts
  <2>3. Wrap(a + b, Half) = Wrap(la + lb, Half) /\ Wrap(a - b, Half) = Wrap(la - lb, Half)
    <3>1. la + lb \in Int /\ p + q \in Int /\ la - lb \in Int /\ p - q \in Int
      BY <2>1
    <3>2. Wrap((la + lb) + (p + q) * 2 ^ Half, Half) = Wrap(la + lb, Half)
      BY <1>0, <3>1, WrapSame
    <3>3. Wrap((la - lb) + (p - q) * 2 ^ Half, Half) = Wrap(la - lb, Half)
      BY <1>0, <3>1, WrapSame
    <3> QED BY <2>2, <3>2, <3>3 DEF HalfBase
  <2>4. /\ Agrees("add", la, lb, Wrap(la + lb, Half), Half)
        /\ Agrees("sub", la, lb, Wrap(la - lb, Half), Half)
    BY <1>0, SumAgrees
  <2>5. a + b \in Int /\ a - b \in Int
    BY <2>1
  <2>6. CASE op = "addw"
    <3>1. op_32(op, a, b) = SignExtended(a + b) /\ BaseOf[op] = "add"
      BY <2>6 DEF op_32, BaseOf
    <3> QED BY <2>3, <2>4, <2>5, <3>1
  <2>7. CASE op = "subw"
    <3>1. op_32(op, a, b) = SignExtended(a - b) /\ BaseOf[op] = "sub"
      BY <2>7 DEF op_32, BaseOf
    <3> QED BY <2>3, <2>4, <2>5, <3>1
  <2> QED BY <1>4, <2>6, <2>7
<1>5. CASE op = "mulw"
  <2>1. op_32(op, a, b) = SignExtended(Signed(la, Half) * Signed(lb, Half)) /\ BaseOf[op] = "mul"
    BY <1>5 DEF op_32, BaseOf
  <2> HIDE DEF la, lb
  <2> QED BY <1>0, <2>1, SumAgrees
<1>6. CASE op \in {"sllw", "srlw", "sraw"}
  <2> DEFINE c == IF op = "sllw" THEN ShiftLeft(la, b, Half)
                  ELSE IF op = "srlw" THEN ShiftRight(la, b, Half) ELSE ShiftArith(la, b, Half)
  <2>1. op_32(op, a, b) = SignExtended(c)
    BY <1>6 DEF op_32
  <2>2. BaseOf[op] = IF op = "sllw" THEN "sll" ELSE IF op = "srlw" THEN "srl" ELSE "sra"
    BY <1>6 DEF BaseOf
  <2> HIDE DEF la, lb
  <2>3. c \in Values(Half) /\ Agrees(BaseOf[op], la, lb, c, Half)
    BY <1>0, <2>2, ShiftAgrees
  <2> QED BY <1>2, <2>1, <2>3
<1>7. CASE op \in {"divw", "remw"}
  <2> DEFINE c == IF op = "divw" THEN DivOf(la, lb, Half) ELSE RemOf(la, lb, Half)
  <2>1. op_32(op, a, b) = SignExtended(c)
    BY <1>7 DEF op_32, m_div32, rem32
  <2>2. BaseOf[op] = IF op = "divw" THEN "div" ELSE "rem"
    BY <1>7 DEF BaseOf
  <2> HIDE DEF la, lb
  <2>3. c \in Values(Half) /\ Agrees(BaseOf[op], la, lb, c, Half)
    BY <1>0, <2>2, DivAgrees, RemAgrees
  <2> QED BY <1>2, <2>1, <2>3
<1>8. CASE op \in {"divuw", "remuw"}
  <2> DEFINE q == IF lb = 0 THEN 2 ^ Half - 1 ELSE la \div lb
             r == IF lb = 0 THEN la ELSE la % lb
             c == IF op = "divuw" THEN q ELSE r
  <2>1. op_32(op, a, b) = SignExtended(c)
    BY <1>8 DEF op_32, m_divu32, remu32, HalfBase
  <2>2. BaseOf[op] = IF op = "divuw" THEN "divu" ELSE "remu"
    BY <1>8 DEF BaseOf
  <2> HIDE DEF la, lb
  <2>3. q \in Values(Half) /\ Agrees("divu", la, lb, q, Half) /\ r \in Values(Half) /\ Agrees("remu", la, lb, r, Half)
    BY <1>0, DivideAgrees
  <2> HIDE DEF q, r
  <2>4. c \in Values(Half) /\ Agrees(BaseOf[op], la, lb, c, Half)
    BY <2>2, <2>3
  <2> QED BY <1>2, <2>1, <2>4
<1> QED BY <1>4, <1>5, <1>6, <1>7, <1>8 DEF WordOps

\* An AMO stores what the operation makes of memory and register, in either width.
LEMMA AmoAgreesAt ==
    ASSUME NEW a \in Word, NEW b \in Word, NEW op \in AmoOps, NEW w \in Widths
    PROVE  Agrees(BaseOf[op], Wrap(a, w), Wrap(b, w), amo(op, a, b, w), w)
<1> DEFINE x == Wrap(a, w)  y == Wrap(b, w)  c == amo(op, a, b, w)
<1>1. x \in Values(w) /\ y \in Values(w) /\ a \in Int /\ b \in Int
  BY WrapFacts, WidthFacts DEF Word
<1>2. /\ op = "amoswap" => c = y /\ BaseOf[op] = "swap"
      /\ op = "amoadd" => c = Wrap(x + y, w) /\ BaseOf[op] = "add"
      /\ op = "amoxor" => c = Xor(x, y) /\ BaseOf[op] = "xor"
      /\ op = "amoand" => c = And(x, y) /\ BaseOf[op] = "and"
      /\ op = "amoor" => c = Or(x, y) /\ BaseOf[op] = "or"
  BY DEF amo, BaseOf
<1>3. /\ op = "amomin" => BaseOf[op] = "min" /\ c = IF Signed(x, w) < Signed(y, w) THEN x ELSE y
      /\ op = "amomax" => BaseOf[op] = "max" /\ c = IF Signed(x, w) > Signed(y, w) THEN x ELSE y
      /\ op = "amominu" => BaseOf[op] = "minu" /\ c = IF x < y THEN x ELSE y
      /\ op = "amomaxu" => BaseOf[op] = "maxu" /\ c = IF x > y THEN x ELSE y
  BY DEF amo, BaseOf
<1> SUFFICES Agrees(BaseOf[op], x, y, c, w)
  OBVIOUS
<1> HIDE DEF x, y, c
<1>4. x \in Int /\ y \in Int /\ Signed(x, w) \in Int /\ Signed(y, w) \in Int
  BY <1>1, SignedFacts, WidthOf DEF Values
<1>5. CASE op = "amoswap"
  BY <1>2, <1>5 DEF Agrees
<1>6. CASE op = "amoadd"
  BY <1>1, <1>2, <1>6, SumAgrees
<1>7. CASE op \in {"amoxor", "amoand", "amoor"}
  BY <1>2, <1>7, CombinedAgrees
<1>8. CASE op = "amomin"
  <2>1. BaseOf[op] = "min" /\ c \in {x, y} /\ Signed(c, w) <= Signed(x, w) /\ Signed(c, w) <= Signed(y, w)
    BY <1>3, <1>4, <1>8
  <2> QED BY <2>1 DEF Agrees
<1>9. CASE op = "amomax"
  <2>1. BaseOf[op] = "max" /\ c \in {x, y} /\ Signed(c, w) >= Signed(x, w) /\ Signed(c, w) >= Signed(y, w)
    BY <1>3, <1>4, <1>9
  <2> QED BY <2>1 DEF Agrees
<1>10. CASE op = "amominu"
  <2>1. BaseOf[op] = "minu" /\ c \in {x, y} /\ c <= x /\ c <= y
    BY <1>3, <1>4, <1>10
  <2> QED BY <2>1 DEF Agrees
<1>11. CASE op = "amomaxu"
  <2>1. BaseOf[op] = "maxu" /\ c \in {x, y} /\ c >= x /\ c >= y
    BY <1>3, <1>4, <1>11
  <2> QED BY <2>1 DEF Agrees
<1> QED BY <1>5, <1>6, <1>7, <1>8, <1>9, <1>10, <1>11 DEF AmoOps

\* Both widths of every AMO.
LEMMA AmoAgreesAlways ==
    ASSUME NEW a \in Word, NEW b \in Word, NEW op \in AmoOps
    PROVE  AmoAgrees(op, a, b)
<1>1. XLEN \in Widths /\ Half \in Widths
  BY DEF Widths
<1>2. Wrap(a, XLEN) = a /\ Wrap(b, XLEN) = b /\ Wrap(a, Half) = Low(a) /\ Wrap(b, Half) = Low(b)
  BY SignedWord, LowFacts
<1> QED BY <1>1, <1>2, AmoAgreesAt DEF AmoAgrees

-----------------------------------------------------------------------------
(* Reservations and exceptions.                                            *)

\* What a step that ends an instruction needs to know of the state before it:
\* the registers are a function, the word in hand is one of the guest, and the
\* history of lr differs from load_res at most by a reservation of address 0.
ExecInv ==
    /\ regs = [r \in Registers |-> regs[r]]
    /\ word \in Words \cup {NoWord}
    /\ granted \subseteq {load_res}
    /\ load_res # 0 => granted = {load_res}

-----------------------------------------------------------------------------
(* An instruction raises its exception or retires.                         *)

\* Writing a register, or none of them, leaves a function.
LEMMA WrittenFunction ==
    ASSUME ExecInv, NEW rd, NEW value
    PROVE  Written(rd, value) = [r \in Registers |-> Written(rd, value)[r]]
BY DEF ExecInv, Written

LEMMA WrittenValue ==
    ASSUME ExecInv, NEW rd \in Registers \ {0}, NEW value
    PROVE  Written(rd, value)[rd] = value
BY DEF ExecInv, Written, Registers

LEMMA RaiseInv ==
    ASSUME ExecInv, NEW cause, raise_exception(cause)
    PROVE  ExecInv'
BY DEF ExecInv, raise_exception, resVars

LEMMA GoToInv ==
    ASSUME ExecInv, NEW target, NEW x, GoTo(target, x),
           x = [r \in Registers |-> x[r]], UNCHANGED resVars
    PROVE  ExecInv'
BY DEF ExecInv, GoTo, resVars

LEMMA RetireInv ==
    ASSUME ExecInv, NEW rd, NEW value, Retire(Written(rd, value)), UNCHANGED resVars
    PROVE  ExecInv'
BY WrittenFunction, GoToInv DEF Retire

LEMMA RetireSameInv ==
    ASSUME ExecInv, Retire(regs), UNCHANGED resVars
    PROVE  ExecInv'
BY GoToInv DEF Retire, ExecInv

-----------------------------------------------------------------------------
(* The invariant.                                                          *)

LEMMA InitInv == Init => ExecInv
BY DEF Init, ExecInv, resVars

\* The instructions that compute, jump or raise: none touches the reservation.
LEMMA IntegerInv ==
    ASSUME ExecInv,
           OpReg \/ OpImm \/ OpUpper \/ OpBranch \/ OpJal \/ OpJalr \/ OpSystem \/ OpFence \/ OpUndefined
    PROVE  ExecInv'
<1>1. CASE OpReg
  BY <1>1, RetireInv DEF OpReg
<1>2. CASE OpImm
  BY <1>2, RetireInv, RaiseInv DEF OpImm
<1>3. CASE OpUpper
  BY <1>3, RetireInv DEF OpUpper
<1>4. CASE OpBranch
  <2>1. regs = [r \in Registers |-> regs[r]]
    BY DEF ExecInv
  <2> QED BY <1>4, <2>1, RetireSameInv, GoToInv DEF OpBranch
<1>5. CASE OpJal
  BY <1>5, GoToInv, WrittenFunction DEF OpJal, Link
<1>6. CASE OpJalr
  BY <1>6, GoToInv, WrittenFunction DEF OpJalr, Link
<1>7. CASE OpSystem \/ OpUndefined
  BY <1>7, RaiseInv DEF OpSystem, OpUndefined
<1>8. CASE OpFence
  BY <1>8, RaiseInv, RetireSameInv DEF OpFence
<1> QED BY <1>1, <1>2, <1>3, <1>4, <1>5, <1>6, <1>7, <1>8

\* A load reserves its address, and a store that is made gives it up.
LEMMA MemoryInv ==
    ASSUME ExecInv, OpLoad \/ OpStore \/ load_reserved \/ store_conditional \/ read_modify_write
    PROVE  ExecInv'
<1>1. CASE OpLoad
  BY <1>1, RetireInv, RaiseInv DEF OpLoad
<1>2. CASE OpStore
  BY <1>2, RetireSameInv, RaiseInv DEF OpStore
<1>3. CASE read_modify_write
  BY <1>3, RetireInv, RaiseInv DEF read_modify_write
<1>4. ASSUME NEW value, NEW rd, Retire(Written(rd, value)),
             \/ load_res' = Address /\ granted' = {Address}
             \/ load_res' = 0 /\ granted' = {}
      PROVE  ExecInv'
  <2>1. regs' = Written(rd, value) /\ word' = NoWord
    BY <1>4 DEF Retire, GoTo
  <2>2. regs' = [r \in Registers |-> regs'[r]]
    BY <2>1, WrittenFunction
  <2> QED BY <1>4, <2>1, <2>2 DEF ExecInv
<1>5. CASE load_reserved
  BY <1>4, <1>5, RaiseInv DEF load_reserved
<1>6. CASE store_conditional
  <2>1. CASE load_res = Address
    BY <1>4, <1>6, <2>1, RaiseInv DEF store_conditional
  <2>2. CASE load_res # Address
    BY <1>6, <2>2, RetireInv DEF store_conditional
  <2> QED BY <2>1, <2>2
<1> QED BY <1>1, <1>2, <1>3, <1>5, <1>6

LEMMA FloatInv ==
    ASSUME ExecInv, FpLoad \/ FpStore \/ FpRefused \/ FpFused \/ FpArithmetic \/ FpSelect \/ FpFromRegister
           \/ FpConvert \/ FpToRegister
    PROVE  ExecInv'
<1>1. CASE FpLoad
  BY <1>1, RetireSameInv, RaiseInv DEF FpLoad
<1>2. CASE FpStore
  BY <1>2, RetireSameInv, RaiseInv DEF FpStore
<1>3. CASE FpRefused
  BY <1>3, RaiseInv DEF FpRefused
<1>4. CASE FpFused \/ FpArithmetic \/ FpSelect \/ FpFromRegister \/ FpConvert
  BY <1>4, RetireSameInv DEF FpWrites, FpFused, FpArithmetic, FpSelect, FpFromRegister, FpConvert
<1>5. CASE FpToRegister
  BY <1>5, RetireInv DEF FpToRegister
<1> QED BY <1>1, <1>2, <1>3, <1>4, <1>5

LEMMA StepInv ==
    ASSUME ExecInv, [Next]_vars
    PROVE  ExecInv'
<1>1. CASE Fetch \/ FetchFault
  BY <1>1, RaiseInv DEF Fetch, FetchFault, ExecInv, resVars
<1>2. CASE Resume \/ SetFs
  BY <1>2 DEF Resume, SetFs, ExecInv, resVars
<1>3. CASE UNCHANGED vars
  BY <1>3 DEF vars, ExecInv, resVars
<1> QED BY <1>1, <1>2, <1>3, IntegerInv, MemoryInv, FloatInv DEF Next

\* The invariant holds for every guest.
THEOREM ExecInvariant == Spec => []ExecInv
BY InitInv, StepInv, PTL DEF Spec

-----------------------------------------------------------------------------
(* Steps.                                                                  *)

\* Only raise_exception sets a cause.
LEMMA PreciseNext ==
    ASSUME [Next]_vars
    PROVE  [PreciseStep]_vars
<1> SUFFICES ASSUME Next, trap' \notin {trap, "none"}
             PROVE  UNCHANGED <<pc, regs, fpVars, resVars>>
  BY DEF PreciseStep
<1>1. \E cause : raise_exception(cause)
  BY DEF Next, Fetch, FetchFault, OpReg, OpImm, OpUpper, OpBranch, OpJal, OpJalr, OpSystem, OpFence,
         OpUndefined, OpLoad, OpStore, load_reserved, store_conditional, read_modify_write, FpLoad,
         FpStore, FpRefused, FpWrites, FpFused, FpArithmetic, FpSelect, FpFromRegister,
         FpConvert, FpToRegister, Resume, SetFs, Retire, GoTo
<1> QED BY <1>1 DEF raise_exception

\* Exceptions are precise, for every instruction of every guest.
THEOREM ExceptionsPrecise == Spec => PreciseException
BY PreciseNext, PTL DEF Spec, PreciseException

\* The unit changes only by its own instructions, and these need it on; only the
\* supervisor, between two instructions, sets fs to anything but dirty.
LEMMA DirtyNext ==
    ASSUME [Next]_vars
    PROVE  [DirtyStep]_vars
<1> SUFFICES ASSUME Next PROVE DirtyStep
  OBVIOUS
<1>1. CASE FpLoad
  BY <1>1 DEF FpLoad, FpOff, raise_exception, fpVars, DirtyStep
<1>2. CASE FpFused \/ FpArithmetic \/ FpSelect \/ FpFromRegister
  BY <1>2 DEF FpWrites, FpFused, FpArithmetic, FpSelect, FpFromRegister, FpOff, DirtyStep
<1>3. CASE FpConvert
  BY <1>3 DEF FpConvert, FpOff, DirtyStep
<1>4. CASE FpToRegister
  BY <1>4 DEF FpToRegister, FpOff, DirtyStep
<1>5. CASE ~ (FpLoad \/ FpFused \/ FpArithmetic \/ FpSelect \/ FpFromRegister \/ FpConvert \/ FpToRegister)
  <2>1. UNCHANGED <<fp_reg, fflags>> /\ (word # NoWord => UNCHANGED fs)
    BY <1>5 DEF Next, Fetch, FetchFault, OpReg, OpImm, OpUpper, OpBranch, OpJal, OpJalr, OpSystem,
         OpFence, OpUndefined, OpLoad, OpStore, load_reserved, store_conditional, read_modify_write,
         FpStore, FpRefused, Resume, SetFs, raise_exception, fpVars
  <2> QED BY <2>1 DEF DirtyStep
<1> QED BY <1>1, <1>2, <1>3, <1>4, <1>5

\* Every instruction but fcvt.s.d and fcvt.d.s marks the unit dirty when it changes
\* a floating-point register, and no instruction takes the mark back, so that it
\* is there until the supervisor clears it; while the unit is off, no instruction
\* at all changes a register or raises a flag.
THEOREM DirtyIsMarked == Spec => FsTracksF
BY DirtyNext, PTL DEF Spec, FsTracksF

\* Of the steps that retire an amo instruction only one is a conditional store.
LEMMA ConditionalOnly ==
    ASSUME Next, Retires, inst.class = "amo", inst.op = "sc"
    PROVE  store_conditional
<1>1. \A cause : raise_exception(cause) => trap' = cause
  BY DEF raise_exception
<1> QED
  BY <1>1 DEF Retires, Next, Is, Fetch, FetchFault, OpReg, OpImm, OpUpper, OpBranch, OpJal, OpJalr, OpSystem,
     OpFence, OpUndefined, OpLoad, OpStore, load_reserved, read_modify_write, AmoOps, FpLoad,
     FpStore, FpRefused, FpWrites, FpFused, FpArithmetic, FpSelect, FpFromRegister,
         FpConvert, FpToRegister, Resume, SetFs

LEMMA ConditionalNext ==
    ASSUME ExecInv, [Next]_vars
    PROVE  [ConditionalStep]_vars
<1> SUFFICES ASSUME Next, Retires, inst.class = "amo", inst.op = "sc", inst.rd # 0
             PROVE  IF Address = 0 THEN Address \in granted => regs'[inst.rd] = 0
                    ELSE regs'[inst.rd] = 0 <=> Address \in granted
  BY DEF ConditionalStep
<1>1. store_conditional
  BY ConditionalOnly
<1>2. inst.rd \in Registers \ {0}
  BY ExecAssumption DEF Retires, ExecInv, inst
<1>3. CASE load_res = Address
  <2>1. regs' = Written(inst.rd, 0)
    BY <1>1, <1>3 DEF store_conditional, Retires, raise_exception, Retire, GoTo
  <2>2. regs'[inst.rd] = 0
    BY <1>2, <2>1, WrittenValue
  <2> QED BY <1>3, <2>2 DEF ExecInv
<1>4. CASE load_res # Address
  <2>1. regs' = Written(inst.rd, 1)
    BY <1>1, <1>4 DEF store_conditional, Retire, GoTo
  <2>2. regs'[inst.rd] = 1
    BY <1>2, <2>1, WrittenValue
  <2>3. Address \notin granted
    BY <1>4 DEF ExecInv
  <2> QED BY <2>2, <2>3
<1> QED BY <1>3, <1>4

\* A conditional store succeeds for the last lr that none has used, and but for
\* address 0 only then.
THEOREM ConditionalNeedsReservation == Spec => ScNeedsReservation
BY ExecInvariant, ConditionalNext, PTL DEF Spec, ScNeedsReservation

-----------------------------------------------------------------------------
(* Values.                                                                 *)

\* What AluAgrees and ControlFlow rest on: registers hold words, pc is a word and
\* even, and the word in hand is one of the guest.
ValuesInv ==
    /\ regs \in [Registers -> Word]
    /\ pc \in Word /\ pc % 2 = 0
    /\ word \in Words \cup {NoWord}

\* Words, and the numbers wrapped to one.
LEMMA WordFacts ==
    /\ 0 \in Word /\ 1 \in Word /\ Word \subseteq Int
    /\ \A v \in Int : Wrap(v, XLEN) \in Word
    /\ \A v \in Word : Wrap(v, XLEN) = v
    /\ \A v \in Int : v % 2 = 0 => Wrap(v, XLEN) % 2 = 0
<1>1. XLEN \in Widths /\ Word = Values(XLEN)
  BY DEF Widths, Values, Word
<1> DEFINE m == 2 ^ XLEN
<1>2. m \in Nat \ {0} /\ m = 2 * 2 ^ (XLEN - 1) /\ 2 ^ (XLEN - 1) \in Nat \ {0}
  BY <1>1, WidthOf
<1>3. Word = 0 .. m - 1
  BY DEF Word
<1> HIDE DEF m
<1>4. m % 2 = 0 /\ m >= 2
  BY <1>2
<1>5. \A v \in Int : v % 2 = 0 => (v % m) % 2 = 0
  <2>1. 2 \in Nat \ {0}
    OBVIOUS
  <2> QED BY <1>2, <1>4, <2>1, ModOfDivisor
<1>6. 0 \in Word /\ 1 \in Word /\ Word \subseteq Int
  BY <1>2, <1>3, <1>4
<1>7. \A v \in Int : Wrap(v, XLEN) \in Word /\ (v \in Word => Wrap(v, XLEN) = v)
  BY <1>1, WrapFacts
<1> QED BY <1>5, <1>6, <1>7 DEF Wrap, m

\* The word in hand is decoded, and its fields are those of an instruction.
LEMMA InHand ==
    ASSUME ValuesInv, word # NoWord
    PROVE  /\ inst.rd \in Registers /\ inst.rs1 \in Registers /\ inst.rs2 \in Registers
           /\ inst.imm \in Int /\ inst.len \in {2, 4}
           /\ inst.class \in {"branch", "jal"} => inst.imm % 2 = 0
           /\ inst.class \in {"reg", "imm"} => inst.op \in RegOps \cup WordOps
           /\ inst.class = "load" => inst.op \in {"lw", "lwu", "ld"}
           /\ regs[inst.rs1] \in Word /\ regs[inst.rs2] \in Word
           /\ Address \in Word
<1>1. word \in Words
  BY DEF ValuesInv
<1>2. /\ inst.rd \in Registers /\ inst.rs1 \in Registers /\ inst.rs2 \in Registers
      /\ inst.imm \in Int /\ inst.len \in {2, 4}
      /\ inst.class \in {"branch", "jal"} => inst.imm % 2 = 0
      /\ inst.class \in {"reg", "imm"} => inst.op \in RegOps \cup WordOps
      /\ inst.class = "load" => inst.op \in {"lw", "lwu", "ld"}
  BY <1>1, ExecAssumption DEF inst
<1>3. regs[inst.rs1] \in Word /\ regs[inst.rs2] \in Word
  BY <1>2 DEF ValuesInv
<1>4. regs[inst.rs1] + inst.imm \in Int
  BY <1>2, <1>3, WordFacts
<1> QED BY <1>2, <1>3, <1>4, WordFacts DEF Address

\* What an operation computes is a word.
LEMMA OperationValue ==
    ASSUME NEW op \in RegOps \cup WordOps, NEW a \in Word, NEW b \in Word
    PROVE  (IF op \in RegOps THEN op_reg(op, a, b) ELSE op_32(op, a, b)) \in Word
<1>1. CASE op \in RegOps
  BY <1>1, RegAgreesAlways DEF RegAgrees
<1>2. CASE op \notin RegOps
  BY <1>2, WordAgreesAlways DEF WordAgrees
<1> QED BY <1>1, <1>2

\* A load extends what it has read to a word.
LEMMA ExtendedValue ==
    ASSUME NEW op \in {"lw", "lwu", "ld"}, NEW value \in Word
    PROVE  Extended(op, value) \in Word
<1>1. SignExtended(value) \in Word
  BY WordFacts, ExtendedFacts
<1>2. Low(value) \in Word
  <2>1. Low(value) \in 0 .. HalfBase - 1
    BY LowFacts DEF Values, HalfBase
  <2>2. HalfBase <= 2 ^ XLEN /\ HalfBase \in Nat /\ 2 ^ XLEN \in Nat
    BY WidthFacts
  <2> QED BY <2>1, <2>2 DEF Word
<1>3. CASE op = "lw"
  BY <1>1, <1>3 DEF Extended
<1>4. CASE op = "lwu"
  BY <1>2, <1>4 DEF Extended
<1>5. CASE op = "ld"
  BY <1>5 DEF Extended
<1> QED BY <1>3, <1>4, <1>5

-----------------------------------------------------------------------------
(* One step of an instruction: where pc goes, what the registers hold.     *)

\* Writing a word leaves words.
LEMMA WrittenWords ==
    ASSUME ValuesInv, NEW rd, NEW value \in Word
    PROVE  Written(rd, value) \in [Registers -> Word]
BY DEF ValuesInv, Written

\* An instruction that goes to an even target keeps the invariant,
LEMMA GoToValues ==
    ASSUME ValuesInv, NEW target \in Int, target % 2 = 0, NEW x \in [Registers -> Word], GoTo(target, x)
    PROVE  ValuesInv'
BY WordFacts DEF ValuesInv, GoTo

\* and the place behind an instruction is one;
LEMMA BehindEven ==
    ASSUME ValuesInv, word # NoWord
    PROVE  pc + inst.len \in Int /\ (pc + inst.len) % 2 = 0
<1>1. pc \in Int /\ pc % 2 = 0 /\ inst.len \in {2, 4}
  BY WordFacts, InHand DEF ValuesInv
<1> QED BY <1>1

\* so does one that writes a word and goes on,
LEMMA RetireValues ==
    ASSUME ValuesInv, word # NoWord, NEW rd, NEW value \in Word, Retire(Written(rd, value))
    PROVE  ValuesInv'
BY BehindEven, WrittenWords, GoToValues DEF Retire

\* or writes nothing,
LEMMA RetireSameValues ==
    ASSUME ValuesInv, word # NoWord, Retire(regs)
    PROVE  ValuesInv'
<1>1. regs \in [Registers -> Word]
  BY DEF ValuesInv
<1> QED BY <1>1, BehindEven, GoToValues DEF Retire

\* or raises an exception.
LEMMA RaiseValues ==
    ASSUME ValuesInv, NEW cause, raise_exception(cause)
    PROVE  ValuesInv'
BY DEF ValuesInv, raise_exception

\* The address behind a jump is a word.
LEMMA LinkWords ==
    ASSUME ValuesInv, word # NoWord
    PROVE  Link \in [Registers -> Word]
<1>1. Wrap(pc + inst.len, XLEN) \in Word
  BY BehindEven, WordFacts
<1> QED BY <1>1, WrittenWords DEF Link

\* Targets of branches and jumps are even; that of jalr is made so.
LEMMA TargetEven ==
    ASSUME ValuesInv, word # NoWord
    PROVE  /\ inst.class \in {"branch", "jal"} => pc + inst.imm \in Int /\ (pc + inst.imm) % 2 = 0
           /\ Address - (Address % 2) \in Word /\ (Address - (Address % 2)) % 2 = 0
           /\ Address \in {Address - (Address % 2), (Address - (Address % 2)) + 1}
<1>1. pc \in Int /\ pc % 2 = 0 /\ inst.imm \in Int /\ (inst.class \in {"branch", "jal"} => inst.imm % 2 = 0)
  BY WordFacts, InHand DEF ValuesInv
<1>2. Address \in Nat /\ Address \in Word
  BY InHand DEF Word
<1> DEFINE A == Address
<1>3. A - (A % 2) \in Nat /\ A - (A % 2) <= A /\ (A - (A % 2)) % 2 = 0 /\ A \in {A - (A % 2), (A - (A % 2)) + 1}
  <2>1. A \in Nat
    BY <1>2
  <2> HIDE DEF A
  <2> QED BY <2>1
<1>4. A - (A % 2) \in Word
  <2>1. A \in 0 .. 2 ^ XLEN - 1 /\ 2 ^ XLEN \in Nat
    BY <1>2, WidthFacts DEF Word
  <2> HIDE DEF A
  <2> QED BY <1>3, <2>1 DEF Word
<1>5. ASSUME inst.class \in {"branch", "jal"}
      PROVE  pc + inst.imm \in Int /\ (pc + inst.imm) % 2 = 0
  <2>1. inst.imm % 2 = 0
    BY <1>1, <1>5
  <2> QED BY <1>1, <2>1
<1>6. Address - (Address % 2) \in Word /\ (Address - (Address % 2)) % 2 = 0
  BY <1>3, <1>4
<1>7. Address \in {Address - (Address % 2), (Address - (Address % 2)) + 1}
  BY <1>3
<1> QED BY <1>5, <1>6, <1>7

-----------------------------------------------------------------------------
(* The invariant on values.                                                *)

\* The guest starts at 0, with words in its registers.
LEMMA InitValues == Init => ValuesInv
<1> SUFFICES ASSUME NEW start \in Starts, pc = 0, word = NoWord,
                    regs = [r \in Registers |-> IF r = Sp THEN start.sp ELSE 0]
             PROVE  ValuesInv
  BY DEF Init
<1>1. start.sp \in Word
  BY ExecAssumption
<1> QED BY <1>1, WordFacts DEF ValuesInv

\* The instructions that compute, jump or raise,
LEMMA IntegerValues ==
    ASSUME ValuesInv,
           OpReg \/ OpImm \/ OpUpper \/ OpBranch \/ OpJal \/ OpJalr \/ OpSystem \/ OpFence \/ OpUndefined
    PROVE  ValuesInv'
<1>0. word # NoWord
  BY DEF OpReg, OpImm, OpUpper, OpBranch, OpJal, OpJalr, OpSystem, OpFence, OpUndefined, Is
<1>1. CASE OpReg
  <2>1. inst.op \in RegOps \cup WordOps /\ regs[inst.rs1] \in Word /\ regs[inst.rs2] \in Word
    BY <1>0, <1>1, InHand DEF OpReg, Is
  <2> QED BY <1>0, <1>1, <2>1, OperationValue, RetireValues DEF OpReg
<1>2. CASE OpImm
  <2>1. inst.op \in RegOps \cup WordOps /\ regs[inst.rs1] \in Word /\ Wrap(inst.imm, XLEN) \in Word
    BY <1>0, <1>2, InHand, WordFacts DEF OpImm, Is
  <2>2. CASE BadShift
    BY <1>2, <2>2, RaiseValues DEF OpImm
  <2>3. CASE ~ BadShift
    BY <1>0, <1>2, <2>1, <2>3, OperationValue, RetireValues DEF OpImm
  <2> QED BY <2>2, <2>3
<1>3. CASE OpUpper
  <2>1. pc + inst.imm \in Int /\ inst.imm \in Int
    <3>1. pc \in Int /\ inst.imm \in Int
      BY <1>0, InHand, WordFacts DEF ValuesInv
    <3> QED BY <3>1
  <2>2. Wrap(IF inst.op = "auipc" THEN pc + inst.imm ELSE inst.imm, XLEN) \in Word
    BY <2>1, WordFacts
  <2> QED BY <1>0, <1>3, <2>2, RetireValues DEF OpUpper
<1>4. CASE OpBranch
  <2>1. pc + inst.imm \in Int /\ (pc + inst.imm) % 2 = 0
    BY <1>0, <1>4, TargetEven DEF OpBranch, Is
  <2>2. regs \in [Registers -> Word]
    BY DEF ValuesInv
  <2> QED BY <1>0, <1>4, <2>1, <2>2, GoToValues, RetireSameValues DEF OpBranch
<1>5. CASE OpJal
  <2>1. pc + inst.imm \in Int /\ (pc + inst.imm) % 2 = 0
    BY <1>0, <1>5, TargetEven DEF OpJal, Is
  <2> QED BY <1>0, <1>5, <2>1, LinkWords, GoToValues DEF OpJal
<1>6. CASE OpJalr
  <2>1. Address - (Address % 2) \in Int /\ (Address - (Address % 2)) % 2 = 0
    BY <1>0, TargetEven, WordFacts
  <2> QED BY <1>0, <1>6, <2>1, LinkWords, GoToValues DEF OpJalr
<1>7. CASE OpSystem \/ OpUndefined
  BY <1>7, RaiseValues DEF OpSystem, OpUndefined
<1>8. CASE OpFence
  BY <1>0, <1>8, RaiseValues, RetireSameValues DEF OpFence
<1> QED BY <1>1, <1>2, <1>3, <1>4, <1>5, <1>6, <1>7, <1>8

\* those that read and write memory,
LEMMA MemoryValues ==
    ASSUME ValuesInv, OpLoad \/ OpStore \/ load_reserved \/ store_conditional \/ read_modify_write
    PROVE  ValuesInv'
<1>0. word # NoWord /\ LoadValues \subseteq Word /\ 0 \in Word /\ 1 \in Word
  BY ExecAssumption, WordFacts DEF OpLoad, OpStore, load_reserved, store_conditional, read_modify_write, Is
<1>1. CASE OpLoad
  <2>1. inst.op \in {"lw", "lwu", "ld"}
    BY <1>0, <1>1, InHand DEF OpLoad, Is
  <2>2. \A value \in LoadValues : Extended(inst.op, value) \in Word
    BY <1>0, <2>1, ExtendedValue
  <2> QED BY <1>0, <1>1, <2>2, RetireValues, RaiseValues DEF OpLoad
<1>2. CASE OpStore
  BY <1>0, <1>2, RetireSameValues, RaiseValues DEF OpStore
<1>3. CASE load_reserved
  BY <1>0, <1>3, RetireValues, RaiseValues DEF load_reserved
<1>4. CASE store_conditional
  BY <1>0, <1>4, RetireValues, RaiseValues DEF store_conditional
<1>5. CASE read_modify_write
  BY <1>0, <1>5, RetireValues, RaiseValues DEF read_modify_write
<1> QED BY <1>1, <1>2, <1>3, <1>4, <1>5

\* and those of the floating-point unit.
LEMMA FloatValues ==
    ASSUME ValuesInv, FpLoad \/ FpStore \/ FpRefused \/ FpFused \/ FpArithmetic \/ FpSelect \/ FpFromRegister
           \/ FpConvert \/ FpToRegister
    PROVE  ValuesInv'
<1>0. word # NoWord /\ LoadValues \subseteq Word /\ 0 \in Word /\ 1 \in Word
  BY ExecAssumption, WordFacts DEF Is, FpLoad, FpStore, FpRefused, FpWrites, FpFused, FpArithmetic, FpSelect,
     FpFromRegister, FpConvert, FpToRegister
<1>1. CASE FpLoad
  BY <1>0, <1>1, RetireSameValues, RaiseValues DEF FpLoad
<1>2. CASE FpStore
  BY <1>0, <1>2, RetireSameValues, RaiseValues DEF FpStore
<1>3. CASE FpRefused
  BY <1>3, RaiseValues DEF FpRefused
<1>4. CASE FpFused \/ FpArithmetic \/ FpSelect \/ FpFromRegister \/ FpConvert
  BY <1>0, <1>4, RetireSameValues DEF FpWrites, FpFused, FpArithmetic, FpSelect, FpFromRegister, FpConvert
<1>5. CASE FpToRegister
  BY <1>0, <1>5, RetireValues DEF FpToRegister
<1> QED BY <1>1, <1>2, <1>3, <1>4, <1>5

\* The supervisor goes on at the instruction or behind it.
LEMMA SupervisorValues ==
    ASSUME ValuesInv, Resume \/ SetFs
    PROVE  ValuesInv'
<1>1. \A n \in {2, 4} : Wrap(pc + n, XLEN) \in Word /\ Wrap(pc + n, XLEN) % 2 = 0
  <2> SUFFICES ASSUME NEW n \in {2, 4} PROVE Wrap(pc + n, XLEN) \in Word /\ Wrap(pc + n, XLEN) % 2 = 0
    OBVIOUS
  <2>1. pc \in Int /\ pc % 2 = 0
    BY WordFacts DEF ValuesInv
  <2>2. pc + n \in Int /\ (pc + n) % 2 = 0
    BY <2>1
  <2> QED BY <2>2, WordFacts
<1>2. pc' \in Word /\ pc' % 2 = 0 /\ regs' = regs /\ word' = word
  BY <1>1 DEF Resume, SetFs, ValuesInv
<1> QED BY <1>2 DEF ValuesInv

\* No step leaves it.
LEMMA StepValues ==
    ASSUME ValuesInv, [Next]_vars
    PROVE  ValuesInv'
<1>1. CASE Fetch \/ FetchFault
  BY <1>1, RaiseValues DEF Fetch, FetchFault, ValuesInv
<1>2. CASE UNCHANGED vars
  BY <1>2 DEF vars, ValuesInv
<1> QED BY <1>1, <1>2, IntegerValues, MemoryValues, FloatValues, SupervisorValues DEF Next

\* Registers hold words and pc stays even, whatever the guest executes.
THEOREM ValuesInvariant == Spec => []ValuesInv
BY InitValues, StepValues, PTL DEF Spec

-----------------------------------------------------------------------------
(* What follows from it.                                                   *)

\* Of two registers every operation is right.
LEMMA ValuesAgree ==
    ASSUME ValuesInv
    PROVE  AluAgrees
<1> SUFFICES ASSUME NEW a \in {regs[1], regs[2]}, NEW b \in {regs[1], regs[2]}
             PROVE  /\ \A op \in RegOps : RegAgrees(op, a, b)
                    /\ \A op \in WordOps : WordAgrees(op, a, b)
                    /\ \A op \in AmoOps : AmoAgrees(op, a, b)
  BY DEF AluAgrees
<1>1. 1 \in Registers /\ 2 \in Registers
  BY DEF Registers
<1>2. a \in Word /\ b \in Word
  BY <1>1 DEF ValuesInv
<1> QED BY <1>2, RegAgreesAlways, WordAgreesAlways, AmoAgreesAlways

\* Every operation yields what it is for, at every width and for every operand.
THEOREM AluIsRight == Spec => []AluAgrees
BY ValuesInvariant, ValuesAgree, PTL

\* A step that retires goes behind itself or to its target.
LEMMA ControlNext ==
    ASSUME ValuesInv, [Next]_vars
    PROVE  [ControlStep]_vars
<1> SUFFICES ASSUME Next, Retires PROVE ControlStep
  BY DEF ControlStep
<1> DEFINE behind == Wrap(pc + inst.len, XLEN)
<1>0. word # NoWord
  BY DEF Retires
<1>1. pc' % 2 = 0
  BY StepValues DEF ValuesInv
<1>2. \A cause : raise_exception(cause) => trap' = cause
  BY DEF raise_exception
<1>3. \A x : Retire(x) => pc' = behind /\ regs' = x
  BY DEF Retire, GoTo
<1>4. ASSUME inst.class \notin {"branch", "jal", "jalr"}
      PROVE  pc' = behind
  BY <1>0, <1>2, <1>3, <1>4 DEF Retires, Next, Is, Fetch, FetchFault, OpReg, OpImm, OpUpper, OpBranch, OpJal,
     OpJalr, OpSystem, OpFence, OpUndefined, OpLoad, OpStore, load_reserved, store_conditional,
     read_modify_write, FpLoad, FpStore, FpRefused, FpWrites, FpFused, FpArithmetic, FpSelect,
     FpFromRegister, FpConvert, FpToRegister, Resume, SetFs
<1>5. ASSUME inst.class \in {"branch", "jal", "jalr"}
      PROVE  OpBranch \/ OpJal \/ OpJalr
  BY <1>0, <1>5 DEF Retires, Next, Is, Fetch, FetchFault, OpReg, OpImm, OpUpper,
     OpSystem, OpFence, OpUndefined, OpLoad, OpStore, load_reserved, store_conditional,
     read_modify_write, FpLoad, FpStore, FpRefused, FpWrites, FpFused, FpArithmetic, FpSelect,
     FpFromRegister, FpConvert, FpToRegister, Resume, SetFs
<1>6. ASSUME inst.class = "branch"
      PROVE  pc' \in {behind, Wrap(pc + inst.imm, XLEN)} /\ regs' = regs
  <2>1. OpBranch
    BY <1>5, <1>6 DEF OpJal, OpJalr, Is
  <2> QED BY <1>3, <2>1 DEF OpBranch, GoTo
<1>7. ASSUME inst.class = "jalr"
      PROVE  Wrap(regs[inst.rs1] + inst.imm, XLEN) \in {pc', pc' + 1}
  <2>1. OpJalr
    BY <1>5, <1>7 DEF OpBranch, OpJal, Is
  <2>2. pc' = Wrap(Address - (Address % 2), XLEN)
    BY <2>1 DEF OpJalr, GoTo
  <2>3. Address - (Address % 2) \in Word /\ Address \in {Address - (Address % 2), (Address - (Address % 2)) + 1}
    BY <1>0, TargetEven
  <2>4. pc' = Address - (Address % 2)
    BY <2>2, <2>3, WordFacts
  <2> QED BY <2>3, <2>4 DEF Address
<1>8. ASSUME inst.class \in {"jal", "jalr"}, inst.rd # 0
      PROVE  regs'[inst.rd] = behind
  <2>1. OpJal \/ OpJalr
    BY <1>5, <1>8 DEF OpBranch, Is
  <2>2. regs' = Written(inst.rd, behind)
    BY <2>1 DEF OpJal, OpJalr, GoTo, Link
  <2>3. inst.rd \in Registers /\ regs = [r \in Registers |-> regs[r]]
    BY <1>0, InHand DEF ValuesInv
  <2> QED BY <1>8, <2>2, <2>3 DEF Written
<1> QED BY <1>1, <1>4, <1>6, <1>7, <1>8 DEF ControlStep

\* Every instruction leaves pc behind itself or at its target, and a jump links.
THEOREM ControlIsKept == Spec => ControlFlow
BY ValuesInvariant, ControlNext, PTL DEF Spec, ControlFlow
=============================================================================
