------------------------------- MODULE MulDiv -------------------------------
(***************************************************************************)
(* Multiplication and division of src/instructions.c: mulhu and its signed *)
(* forms from products of half words, and the divisions with their cases.  *)
(*                                                                         *)
(* A register holds a value of XLEN bits as a number 0 .. 2^XLEN - 1; the  *)
(* 32-bit forms work on its lower Half bits and extend the sign of their   *)
(* result.  Where C leaves an overflow undefined the build wraps.          *)
(***************************************************************************)
EXTENDS Integers

CONSTANT XLEN    \* the width of a register

Half == XLEN \div 2
HalfBase == 2 ^ Half

\* XLEN is a power of two, so that a shift count is the lower bits of a register.
ASSUME AluAssumption ==
    /\ XLEN \in Nat \ {0} /\ XLEN % 2 = 0
    /\ HalfBase % Half = 0

\* What there is to know about powers of two: the provers do not know it.
ASSUME PowerAssumption ==
    /\ 2 ^ 0 = 1
    /\ \A k \in 0 .. 2 * XLEN : 2 ^ k \in Nat \ {0} /\ 2 ^ (k + 1) = 2 * 2 ^ k

Word == 0 .. 2 ^ XLEN - 1

Wrap(v, w) == v % 2 ^ w
Signed(v, w) == IF v < 2 ^ (w - 1) THEN v ELSE v - 2 ^ w
S(v) == Signed(v, XLEN)
Low(v) == v % HalfBase
SignExtended(v) == Wrap(Signed(Low(v), Half), XLEN)
Flag(b) == IF b THEN 1 ELSE 0

-----------------------------------------------------------------------------
(* Multiplication and division.                                            *)

\* Mutant: the middle products do not carry into the high word.
mulhu_NoCarry(a, b) ==
    LET r01 == Low(a) * (b \div HalfBase)
        r10 == (a \div HalfBase) * Low(b)
        r11 == (a \div HalfBase) * (b \div HalfBase)
        c == r01 \div HalfBase + r10 \div HalfBase + Low(r11)
    IN  Low(c \div HalfBase + r11 \div HalfBase) * HalfBase + Low(c)

\* The upper word of a product, from the products of the halves.
mulhu(a, b) ==
    LET r00 == Low(a) * Low(b)
        r01 == Low(a) * (b \div HalfBase)
        r10 == (a \div HalfBase) * Low(b)
        r11 == (a \div HalfBase) * (b \div HalfBase)
        c1 == r00 \div HalfBase + Low(r01) + Low(r10)
        c2 == c1 \div HalfBase + r01 \div HalfBase + r10 \div HalfBase + Low(r11)
    IN  Low(c2 \div HalfBase + r11 \div HalfBase) * HalfBase + Low(c2)

mulhsu(a, b) == Wrap(mulhu(a, b) - (IF S(a) < 0 THEN b ELSE 0), XLEN)
mulh(a, b) == Wrap(mulhsu(a, b) - (IF S(b) < 0 THEN a ELSE 0), XLEN)

\* Division in C rounds towards zero, and a remainder has the sign of the dividend.
Magnitude(a) == IF a < 0 THEN - a ELSE a
Quotient(a, b) ==
    LET q == Magnitude(a) \div Magnitude(b) IN IF (a < 0) = (b < 0) THEN q ELSE - q
Remainder(a, b) == a - b * Quotient(a, b)

\* Of numbers of w bits: m_div and m_div32 differ in w only.
DivOf(a, b, w) ==
    IF b = 0 THEN 2 ^ w - 1
    ELSE IF a = 2 ^ (w - 1) /\ b = 2 ^ w - 1 THEN a
    ELSE Wrap(Quotient(Signed(a, w), Signed(b, w)), w)

RemOf(a, b, w) ==
    IF b = 0 THEN a
    ELSE IF a = 2 ^ (w - 1) /\ b = 2 ^ w - 1 THEN 0
    ELSE Wrap(Remainder(Signed(a, w), Signed(b, w)), w)

m_div(a, b) == DivOf(a, b, XLEN)
m_divu(a, b) == IF b = 0 THEN 2 ^ XLEN - 1 ELSE a \div b
rem(a, b) == RemOf(a, b, XLEN)
remu(a, b) == IF b = 0 THEN a ELSE a % b
m_div32(a, b) == DivOf(a, b, Half)
m_divu32(a, b) == IF b = 0 THEN HalfBase - 1 ELSE a \div b
rem32(a, b) == RemOf(a, b, Half)
remu32(a, b) == IF b = 0 THEN a ELSE a % b
=============================================================================
