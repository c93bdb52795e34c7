--------------------------------- MODULE Rvc ---------------------------------
(***************************************************************************)
(* Instructions as decode_inst of src/instructions.c sees them, and what   *)
(* its three C_QUADRANT cases make of the compressed ones.  An instruction *)
(* is a record of its fields; the bits it is put together from are left    *)
(* out.                                                                    *)
(*   class, op      the opcode and what funct3 and funct7 select           *)
(*   rd, rs1, rs2   registers                                              *)
(*   imm            the immediate, an integer                              *)
(*   rm             the rounding mode field                                *)
(*   len            in bytes                                               *)
(***************************************************************************)
EXTENDS Integers

Sp == 2    \* the stack pointer

Inst(class, op, rd, rs1, rs2, imm) ==
    [class |-> class, op |-> op, rd |-> rd, rs1 |-> rs1, rs2 |-> rs2, imm |-> imm, rm |-> 0, len |-> 4]

Short(class, op, rd, rs1, rs2, imm) == [Inst(class, op, rd, rs1, rs2, imm) EXCEPT !.len = 2]

\* An encoding without a meaning: every default of the decoder leads here.
Undefined == Inst("undefined", "", 0, 0, 0, 0)

quadrant0(c) ==
    CASE c.op = "c.addi4spn" -> IF c.imm = 0 THEN Undefined ELSE Short("imm", "add", c.rd, Sp, 0, c.imm)
      [] c.op = "c.fld" -> Short("fpload", "fld", c.rd, c.rs1, 0, c.imm)
      [] c.op = "c.lw" -> Short("load", "lw", c.rd, c.rs1, 0, c.imm)
      [] c.op = "c.ld" -> Short("load", "ld", c.rd, c.rs1, 0, c.imm)
      [] c.op = "c.fsd" -> Short("fpstore", "fsd", 0, c.rs1, c.rs2, c.imm)
      [] c.op = "c.sw" -> Short("store", "sw", 0, c.rs1, c.rs2, c.imm)
      [] c.op = "c.sd" -> Short("store", "sd", 0, c.rs1, c.rs2, c.imm)

\* c.lui and c.addi16sp share an encoding; only the second refuses a zero.
lui_or_addi16sp(c) ==
    IF c.rd # Sp THEN Short("upper", "lui", c.rd, 0, 0, c.imm)
    ELSE IF c.imm = 0 THEN Undefined
    ELSE Short("imm", "add", Sp, Sp, 0, c.imm)

\* The operations of a register on itself.
arithmetic(c) ==
    CASE c.op = "c.srli" -> Short("imm", "srl", c.rd, c.rd, 0, c.imm)
      [] c.op = "c.srai" -> Short("imm", "sra", c.rd, c.rd, 0, c.imm)
      [] c.op = "c.andi" -> Short("imm", "and", c.rd, c.rd, 0, c.imm)
      [] c.op = "c.sub" -> Short("reg", "sub", c.rd, c.rd, c.rs2, 0)
      [] c.op = "c.xor" -> Short("reg", "xor", c.rd, c.rd, c.rs2, 0)
      [] c.op = "c.or" -> Short("reg", "or", c.rd, c.rd, c.rs2, 0)
      [] c.op = "c.and" -> Short("reg", "and", c.rd, c.rd, c.rs2, 0)
      [] c.op = "c.subw" -> Short("reg", "subw", c.rd, c.rd, c.rs2, 0)
      [] c.op = "c.addw" -> Short("reg", "addw", c.rd, c.rd, c.rs2, 0)

quadrant1(c) ==
    CASE c.op = "c.addi" -> Short("imm", "add", c.rd, c.rd, 0, c.imm)
      [] c.op = "c.addiw" -> Short("imm", "addw", c.rd, c.rd, 0, c.imm)
      [] c.op = "c.li" -> Short("imm", "add", c.rd, 0, 0, c.imm)
      [] c.op = "c.lui" -> lui_or_addi16sp(c)
      [] c.op = "c.j" -> Short("jal", "", 0, 0, 0, c.imm)
      [] c.op = "c.beqz" -> Short("branch", "beq", 0, c.rs1, 0, c.imm)
      [] c.op = "c.bnez" -> Short("branch", "bne", 0, c.rs1, 0, c.imm)
      [] OTHER -> arithmetic(c)

\* Jumps and moves share an encoding too: without rs2 it is a jump, and without
\* either register c.jr means nothing and c.jalr is the breakpoint.
jump_or_move(c) ==
    CASE c.op = "c.jr" -> IF c.rs2 # 0 THEN Short("reg", "add", c.rd, 0, c.rs2, 0)
                          ELSE IF c.rd = 0 THEN Undefined
                          ELSE Short("jalr", "", 0, c.rd, 0, 0)
      [] c.op = "c.jalr" -> IF c.rs2 # 0 THEN Short("reg", "add", c.rd, c.rd, c.rs2, 0)
                            ELSE IF c.rd = 0 THEN Short("system", "ebreak", 0, 0, 0, 0)
                            ELSE Short("jalr", "", 1, c.rd, 0, 0)

quadrant2(c) ==
    CASE c.op = "c.slli" -> Short("imm", "sll", c.rd, c.rd, 0, c.imm)
      [] c.op = "c.fldsp" -> Short("fpload", "fld", c.rd, Sp, 0, c.imm)
      [] c.op = "c.lwsp" -> Short("load", "lw", c.rd, Sp, 0, c.imm)
      [] c.op = "c.ldsp" -> Short("load", "ld", c.rd, Sp, 0, c.imm)
      [] c.op = "c.fsdsp" -> Short("fpstore", "fsd", 0, Sp, c.rs2, c.imm)
      [] c.op = "c.swsp" -> Short("store", "sw", 0, Sp, c.rs2, c.imm)
      [] c.op = "c.sdsp" -> Short("store", "sd", 0, Sp, c.rs2, c.imm)
      [] OTHER -> jump_or_move(c)

Decoded(word) ==
    CASE word.class = "quadrant 0" -> quadrant0(word)
      [] word.class = "quadrant 1" -> quadrant1(word)
      [] word.class = "quadrant 2" -> quadrant2(word)
      [] OTHER -> word
=============================================================================
