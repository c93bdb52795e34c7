--------------------------------- MODULE Alu ---------------------------------
(* What the integer instructions OP_REG, OP_IMM, OP_32 and OP_IMM32 and the *)
(* AMO instructions of src/instructions.c compute, by name.                 *)
EXTENDS MulDiv

\* Two words combined bit by bit.
Bit(v, k) == (v \div 2 ^ k) % 2 = 1
Combined(Op(_, _), a, b) ==
    LET lower[k \in 0 .. XLEN] ==
          IF k = 0 THEN 0 ELSE lower[k - 1] + 2 ^ (k - 1) * Flag(Op(Bit(a, k - 1), Bit(b, k - 1)))
    IN  lower[XLEN]

Both(p, q) == p /\ q
Either(p, q) == p \/ q
Differ(p, q) == p # q

And(a, b) == Combined(Both, a, b)
Or(a, b) == Combined(Either, a, b)
Xor(a, b) == Combined(Differ, a, b)

ShiftLeft(v, n, w) == Wrap(v * 2 ^ (n % w), w)
ShiftRight(v, n, w) == v \div 2 ^ (n % w)
ShiftArith(v, n, w) == Wrap(Signed(v, w) \div 2 ^ (n % w), w)

op_reg(op, a, b) ==
    CASE op = "add" -> Wrap(a + b, XLEN)
      [] op = "sub" -> Wrap(a - b, XLEN)
      [] op = "sll" -> ShiftLeft(a, b, XLEN)
      [] op = "slt" -> Flag(S(a) < S(b))
      [] op = "sltu" -> Flag(a < b)
      [] op = "xor" -> Xor(a, b)
      [] op = "srl" -> ShiftRight(a, b, XLEN)
      [] op = "sra" -> ShiftArith(a, b, XLEN)
      [] op = "or" -> Or(a, b)
      [] op = "and" -> And(a, b)
      [] op = "mul" -> Wrap(S(a) * S(b), XLEN)
      [] op = "mulh" -> mulh(a, b)
      [] op = "mulhsu" -> mulhsu(a, b)
      [] op = "mulhu" -> mulhu(a, b)
      [] op = "div" -> m_div(a, b)
      [] op = "divu" -> m_divu(a, b)
      [] op = "rem" -> rem(a, b)
      [] op = "remu" -> remu(a, b)

op_32(op, a, b) ==
    SignExtended(
        CASE op = "addw" -> a + b
          [] op = "subw" -> a - b
          [] op = "sllw" -> ShiftLeft(Low(a), b, Half)
          [] op = "srlw" -> ShiftRight(Low(a), b, Half)
          [] op = "sraw" -> ShiftArith(Low(a), b, Half)
          [] op = "mulw" -> Signed(Low(a), Half) * Signed(Low(b), Half)
          [] op = "divw" -> m_div32(Low(a), Low(b))
          [] op = "divuw" -> m_divu32(Low(a), Low(b))
          [] op = "remw" -> rem32(Low(a), Low(b))
          [] op = "remuw" -> remu32(Low(a), Low(b)))

\* What an AMO of w bits stores: of the value it has read and of the register.
amo(op, value, val2, w) ==
    LET a == Wrap(value, w)
        b == Wrap(val2, w)
    IN  CASE op = "amoswap" -> b
          [] op = "amoadd" -> Wrap(a + b, w)
          [] op = "amoxor" -> Xor(a, b)
          [] op = "amoand" -> And(a, b)
          [] op = "amoor" -> Or(a, b)
          [] op = "amomin" -> IF Signed(a, w) < Signed(b, w) THEN a ELSE b
          [] op = "amomax" -> IF Signed(a, w) > Signed(b, w) THEN a ELSE b
          [] op = "amominu" -> IF a < b THEN a ELSE b
          [] op = "amomaxu" -> IF a > b THEN a ELSE b

RegOps == {"add", "sub", "sll", "slt", "sltu", "xor", "srl", "sra", "or", "and",
           "mul", "mulh", "mulhsu", "mulhu", "div", "divu", "rem", "remu"}
WordOps == {"addw", "subw", "sllw", "srlw", "sraw", "mulw", "divw", "divuw", "remw", "remuw"}
AmoOps == {"amoswap", "amoadd", "amoxor", "amoand", "amoor",
           "amomin", "amomax", "amominu", "amomaxu"}

-----------------------------------------------------------------------------
(* What the instructions are for, as relations between operands and result *)
(* c of w bits: on integers for arithmetic, on sets of bits for the rest.  *)

BitsIn(v, w) == { i \in 0 .. w - 1 : Bit(v, i) }
Modulo(c, v, w) == (c - v) % 2 ^ w = 0

\* c and r are the quotient and the remainder of a and b, rounded towards zero.
\* (The one quotient that does not fit is its own value modulo 2^w.)
Divides(a, b, q, r) ==
    /\ a = b * q + r /\ Magnitude(r) < Magnitude(b)
    /\ r # 0 => (r < 0) = (a < 0)

Agrees(op, a, b, c, w) ==
    LET sa == Signed(a, w)
        sb == Signed(b, w)
        n == b % w
        lows == 0 .. 2 ^ w - 1
        quotients == - (2 ^ w) .. 2 ^ w
    IN  CASE op = "add" -> Modulo(c, a + b, w)
          [] op = "sub" -> Modulo(c, a - b, w)
          [] op = "mul" -> Modulo(c, sa * sb, w)
          [] op = "slt" -> c \in {0, 1} /\ (c = 1 <=> sa < sb)
          [] op = "sltu" -> c \in {0, 1} /\ (c = 1 <=> a < b)
          [] op = "sll" -> BitsIn(c, w) = { i \in n .. w - 1 : i - n \in BitsIn(a, w) }
          [] op = "srl" -> BitsIn(c, w) = { i - n : i \in BitsIn(a, w) \cap n .. w - 1 }
          [] op = "sra" -> BitsIn(c, w) = { i \in 0 .. w - 1 :
                               (IF i + n < w THEN i + n ELSE w - 1) \in BitsIn(a, w) }
          [] op = "and" -> BitsIn(c, w) = BitsIn(a, w) \cap BitsIn(b, w)
          [] op = "or" -> BitsIn(c, w) = BitsIn(a, w) \cup BitsIn(b, w)
          [] op = "xor" -> \A i \in 0 .. w - 1 :
                               i \in BitsIn(c, w) <=> (i \in BitsIn(a, w)) # (i \in BitsIn(b, w))
          [] op = "mulhu" -> a * b - c * 2 ^ w \in lows
          [] op = "mulhsu" -> sa * b - Signed(c, w) * 2 ^ w \in lows
          [] op = "mulh" -> sa * sb - Signed(c, w) * 2 ^ w \in lows
          [] op = "div" -> IF b = 0 THEN c = 2 ^ w - 1
                           ELSE \E q \in quotients : Divides(sa, sb, q, sa - sb * q) /\ Modulo(c, q, w)
          [] op = "rem" -> IF b = 0 THEN c = a
                           ELSE \E q \in quotients : Divides(sa, sb, q, Signed(c, w))
          [] op = "divu" -> IF b = 0 THEN c = 2 ^ w - 1 ELSE Divides(a, b, c, a - b * c)
          [] op = "remu" -> IF b = 0 THEN c = a
                            ELSE \E q \in quotients : Divides(a, b, q, c)
          [] op = "min" -> c \in {a, b} /\ Signed(c, w) <= sa /\ Signed(c, w) <= sb
          [] op = "max" -> c \in {a, b} /\ Signed(c, w) >= sa /\ Signed(c, w) >= sb
          [] op = "minu" -> c \in {a, b} /\ c <= a /\ c <= b
          [] op = "maxu" -> c \in {a, b} /\ c >= a /\ c >= b
          [] op = "swap" -> c = b

\* The operation a 32-bit form applies to the lower halves, and an AMO to memory.
BaseOf == [addw |-> "add", subw |-> "sub", sllw |-> "sll", srlw |-> "srl", sraw |-> "sra",
           mulw |-> "mul", divw |-> "div", divuw |-> "divu", remw |-> "rem", remuw |-> "remu",
           amoswap |-> "swap", amoadd |-> "add", amoxor |-> "xor", amoand |-> "and", amoor |-> "or",
           amomin |-> "min", amomax |-> "max", amominu |-> "minu", amomaxu |-> "maxu"]

RegAgrees(op, a, b) == op_reg(op, a, b) \in Word /\ Agrees(op, a, b, op_reg(op, a, b), XLEN)

WordAgrees(op, a, b) ==
    LET c == op_32(op, a, b)
    IN  /\ c \in Word
        /\ Agrees(BaseOf[op], Low(a), Low(b), Low(c), Half)
        /\ \A i \in Half .. XLEN - 1 : i \in BitsIn(c, XLEN) <=> Half - 1 \in BitsIn(c, XLEN)

AmoAgrees(op, a, b) ==
    /\ Agrees(BaseOf[op], a, b, amo(op, a, b, XLEN), XLEN)
    /\ Agrees(BaseOf[op], Low(a), Low(b), amo(op, a, b, Half), Half)
=============================================================================
