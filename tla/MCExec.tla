------------------------------- MODULE MCExec -------------------------------
(* An instance of Exec for TLC: registers of four bits, x1 and the stack    *)
(* pointer, and a guest that may execute each of these words at any time.   *)
EXTENDS Exec

Reg(op, rd) == Inst("reg", op, rd, 1, Sp, 0)
Imm(op, imm) == Inst("imm", op, 1, 1, 0, imm)
Branch(op, imm) == Inst("branch", op, 0, 1, Sp, imm)
Fp(op, rd, rm) == [Inst("fp", op, rd, 1, Sp, 0) EXCEPT !.rm = rm]

BaseWords == {
    Reg("add", 0), Reg("sub", 1), Reg("mulhsu", 1), Reg("divw", 1),
    Imm("add", 1), Imm("slt", -2), Imm("sll", 4), Imm("sraw", 1), Imm("sllw", 2),
    Inst("upper", "lui", 1, 0, 0, 4), Inst("upper", "auipc", 1, 0, 0, 8),
    Branch("beq", 6), Branch("bne", -4), Branch("blt", 6), Branch("bge", -4),
    Branch("bltu", 6), Branch("bgeu", -4),
    Inst("jal", "", 1, 0, 0, -6), Inst("jalr", "", 1, 1, 0, 1),
    Inst("system", "ecall", 0, 0, 0, 0), Inst("system", "ebreak", 1, 0, 0, 0),
    Inst("fence", "", 0, 0, 0, 0), Inst("fence", "", 1, 0, 0, 0), Undefined,
    Inst("load", "lw", 1, 1, 0, 0), Inst("load", "lwu", 1, 1, 0, 0), Inst("load", "ld", 0, 1, 0, 0),
    Inst("store", "sd", 0, 1, Sp, 0),
    Inst("amo", "lr", 0, 1, 0, 0), Inst("amo", "lr", 1, 1, 0, 0), Inst("amo", "lr", 1, 1, Sp, 0),
    Inst("amo", "sc", 1, 1, Sp, 0), Inst("amo", "sc", 0, 1, Sp, 0),
    Inst("amo", "amoadd", 1, 1, Sp, 0),
    Inst("fpload", "fld", 0, 1, 0, 0), Inst("fpstore", "fsd", 0, 1, 0, 0),
    Fp("fused", 0, 7), Fp("arithmetic", 0, 0), Fp("arithmetic", 0, 5), Fp("arithmetic", 0, 7),
    Fp("sign", 0, 7), Fp("minmax", 0, 1), Fp("compare", 1, 2), Fp("convert", 0, 0),
    Fp("to integer", 1, 7), Fp("from integer", 0, 0), Fp("move out", 1, 0), Fp("move in", 0, 7)}

C(class, op, rd, rs2, imm) ==
    [class |-> class, op |-> op, rd |-> rd, rs1 |-> 1, rs2 |-> rs2, imm |-> imm]

CompressedWords == {
    C("quadrant 0", "c.addi4spn", 1, 0, 0), C("quadrant 0", "c.addi4spn", 1, 0, 4),
    C("quadrant 0", "c.fld", 0, 0, 0), C("quadrant 0", "c.lw", 1, 0, 0),
    C("quadrant 0", "c.fsd", 0, 0, 0), C("quadrant 0", "c.sw", 0, Sp, 0),
    C("quadrant 1", "c.addi", 0, 0, 1), C("quadrant 1", "c.li", 1, 0, 4),
    C("quadrant 1", "c.lui", 1, 0, -4), C("quadrant 1", "c.lui", Sp, 0, 8),
    C("quadrant 1", "c.lui", Sp, 0, 0), C("quadrant 1", "c.srai", 1, 0, 3),
    C("quadrant 1", "c.subw", 1, Sp, 0), C("quadrant 1", "c.j", 0, 0, -2),
    C("quadrant 1", "c.beqz", 0, 0, 4), C("quadrant 1", "c.bnez", 0, 0, 4),
    C("quadrant 2", "c.slli", 1, 0, 1), C("quadrant 2", "c.lwsp", 0, 0, 0),
    C("quadrant 2", "c.sdsp", 0, Sp, 0),
    C("quadrant 2", "c.jr", 0, 0, 0), C("quadrant 2", "c.jr", 1, 0, 0), C("quadrant 2", "c.jr", 1, Sp, 0),
    C("quadrant 2", "c.jalr", 0, 0, 0), C("quadrant 2", "c.jalr", 1, 0, 0),
    C("quadrant 2", "c.jalr", 1, Sp, 0)}

Guest == BaseWords \cup CompressedWords

InMemory == {0, 4, 9}
Floats == {0, 1}
Reserved == {0, 4}
Boots == {[sp |-> 15, frm |-> 5], [sp |-> 8, frm |-> 0]}
=============================================================================
