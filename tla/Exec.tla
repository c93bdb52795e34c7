-------------------------------- MODULE Exec --------------------------------
(***************************************************************************)
(* The unprivileged instructions: fetch_inst and decode_inst of            *)
(* src/instructions.c.  An iteration of the machine loop is two steps      *)
(* here, the fetch of an instruction and its execution.  An exception ends *)
(* the execution with a cause in trap; what raise_exception does with it,  *)
(* and the privileged instructions, are in Hart.                           *)
(*                                                                         *)
(* Memory is left to Mmu: a load finds any of LoadValues or faults, a      *)
(* store is made or faults.  A floating-point register holds any of FValues *)
(* and an operation on it yields any of them and may raise a flag.         *)
(***************************************************************************)
EXTENDS Alu, Rvc

CONSTANTS
    Words,        \* the instructions the guest consists of
    LoadValues,   \* what memory holds, values of a register
    FValues,      \* what a floating-point register holds
    ReserveAt,    \* the addresses the guest uses with lr
    Starts,       \* [sp, frm] the guest sets up
    NoWord        \* nothing has been fetched

Registers == 0 .. 2

\* Targets are even, as the immediates of jumps and branches have no lowest bit.
ASSUME ExecAssumption ==
    /\ LoadValues \subseteq Word /\ ReserveAt \subseteq Word
    /\ Starts \subseteq [sp : Word, frm : 0 .. 7]
    /\ NoWord \notin Words
    /\ \A w \in Words :
          /\ {Decoded(w).rd, Decoded(w).rs1, Decoded(w).rs2} \subseteq Registers
          /\ Decoded(w).imm \in Int /\ Decoded(w).len \in {2, 4}
          /\ Decoded(w).class \in {"branch", "jal"} => Decoded(w).imm % 2 = 0
          /\ Decoded(w).class \in {"reg", "imm"} => Decoded(w).op \in RegOps \cup WordOps
          /\ Decoded(w).class = "load" => Decoded(w).op \in {"lw", "lwu", "ld"}

VARIABLES
    pc, regs,
    fp_reg, frm,
    fflags,            \* whether any flag has been raised
    fs,                \* 0 off, 1 initial or clean, 3 dirty
    load_res,          \* the reserved address, 0 also when there is none
    word,              \* the instruction in hand, or NoWord
    trap,              \* the exception it has raised, or "none"
    granted            \* history: the addresses of lr that no sc has used

fpVars == <<fp_reg, frm, fflags, fs>>
resVars == <<load_res, granted>>
vars == <<pc, regs, fpVars, resVars, word, trap>>

Init ==
    \E start \in Starts :
        /\ pc = 0 /\ regs = [r \in Registers |-> IF r = Sp THEN start.sp ELSE 0]
        /\ frm = start.frm /\ fs = 0 /\ fp_reg \in FValues /\ fflags = FALSE
        /\ load_res = 0 /\ granted = {}
        /\ word = NoWord /\ trap = "none"

-----------------------------------------------------------------------------
(* How an instruction ends.                                                *)

inst == Decoded(word)
Is(class) == word # NoWord /\ inst.class = class

Written(rd, value) == IF rd = 0 THEN regs ELSE [regs EXCEPT ![rd] = value]

\* With the registers x, at the next instruction or at a target.
GoTo(target, x) ==
    pc' = Wrap(target, XLEN) /\ regs' = x /\ word' = NoWord /\ UNCHANGED trap
Retire(x) == GoTo(pc + inst.len, x)

raise_exception(cause) ==
    /\ trap' = cause /\ word' = NoWord
    /\ UNCHANGED <<pc, regs, fpVars, resVars>>

Address == Wrap(regs[inst.rs1] + inst.imm, XLEN)

-----------------------------------------------------------------------------
(* fetch_inst.                                                             *)

Fetch ==
    /\ word = NoWord /\ trap = "none"
    /\ word' \in Words
    /\ UNCHANGED <<pc, regs, fpVars, resVars, trap>>

FetchFault ==
    /\ word = NoWord /\ trap = "none"
    /\ raise_exception("fetch fault")

-----------------------------------------------------------------------------
(* Integer instructions.                                                   *)

OpReg ==
    /\ Is("reg")
    /\ Retire(Written(inst.rd, IF inst.op \in RegOps THEN op_reg(inst.op, regs[inst.rs1], regs[inst.rs2])
                            ELSE op_32(inst.op, regs[inst.rs1], regs[inst.rs2])))
    /\ UNCHANGED <<fpVars, resVars>>

\* A shift by more than the width is refused in the immediate form.
BadShift ==
    \/ inst.op \in {"sll", "srl", "sra"} /\ inst.imm \notin 0 .. XLEN - 1
    \/ inst.op \in {"sllw", "srlw", "sraw"} /\ inst.imm \notin 0 .. Half - 1

OpImm ==
    /\ Is("imm")
    /\ IF BadShift THEN raise_exception("illegal instruction")
       ELSE /\ LET imm == Wrap(inst.imm, XLEN)
               IN  Retire(Written(inst.rd, IF inst.op \in RegOps THEN op_reg(inst.op, regs[inst.rs1], imm)
                                        ELSE op_32(inst.op, regs[inst.rs1], imm)))
            /\ UNCHANGED <<fpVars, resVars>>

OpUpper ==
    /\ Is("upper")
    /\ Retire(Written(inst.rd, Wrap(IF inst.op = "auipc" THEN pc + inst.imm ELSE inst.imm, XLEN)))
    /\ UNCHANGED <<fpVars, resVars>>

Taken ==
    LET a == regs[inst.rs1]
        b == regs[inst.rs2]
    IN  CASE inst.op = "beq" -> a = b
          [] inst.op = "bne" -> a # b
          [] inst.op = "blt" -> S(a) < S(b)
          [] inst.op = "bge" -> S(a) >= S(b)
          [] inst.op = "bltu" -> a < b
          [] inst.op = "bgeu" -> a >= b

OpBranch ==
    /\ Is("branch")
    /\ IF Taken THEN GoTo(pc + inst.imm, regs) ELSE Retire(regs)
    /\ UNCHANGED <<fpVars, resVars>>

Link == Written(inst.rd, Wrap(pc + inst.len, XLEN))

OpJal ==
    /\ Is("jal")
    /\ GoTo(pc + inst.imm, Link)
    /\ UNCHANGED <<fpVars, resVars>>

\* Mutant: the link is written first, and the target read after it.
OpJalr_LinkFirst ==
    /\ Is("jalr")
    /\ LET target == Wrap(Link[inst.rs1] + inst.imm, XLEN) IN GoTo(target - (target % 2), Link)
    /\ UNCHANGED <<fpVars, resVars>>

OpJalr ==
    /\ Is("jalr")
    /\ GoTo(Address - (Address % 2), Link)
    /\ UNCHANGED <<fpVars, resVars>>

\* Both want zeroes in the fields they do not use.
OpSystem ==
    /\ Is("system")
    /\ raise_exception(IF inst.rd # 0 THEN "illegal instruction"
                       ELSE IF inst.op = "ecall" THEN "ecall" ELSE "breakpoint")

OpFence ==
    /\ Is("fence")
    /\ IF inst.rd # 0 THEN raise_exception("illegal instruction")
       ELSE Retire(regs) /\ UNCHANGED <<fpVars, resVars>>

OpUndefined == Is("undefined") /\ raise_exception("illegal instruction")

-----------------------------------------------------------------------------
(* Memory.                                                                 *)

\* lw and lwu stand for the narrower forms as well.
Extended(op, value) ==
    CASE op = "lw" -> SignExtended(value)
      [] op = "lwu" -> Low(value)
      [] op = "ld" -> value

\* Mutant: the register is written before the result of the load is looked at.
OpLoad_WritesFirst ==
    /\ Is("load")
    /\ \/ \E value \in LoadValues :
              Retire(Written(inst.rd, Extended(inst.op, value))) /\ UNCHANGED <<fpVars, resVars>>
       \/ /\ trap' = "load fault" /\ word' = NoWord /\ regs' = Written(inst.rd, 0)
          /\ UNCHANGED <<pc, fpVars, resVars>>

OpLoad ==
    /\ Is("load")
    /\ \/ \E value \in LoadValues :
              Retire(Written(inst.rd, Extended(inst.op, value))) /\ UNCHANGED <<fpVars, resVars>>
       \/ raise_exception("load fault")

OpStore ==
    /\ Is("store")
    /\ \/ Retire(regs) /\ UNCHANGED <<fpVars, resVars>>
       \/ raise_exception("store fault")

load_reserved ==
    /\ Is("amo") /\ inst.op = "lr"
    /\ IF inst.rs2 # 0 THEN raise_exception("illegal instruction")
       ELSE \/ /\ Address \in ReserveAt
               /\ \E value \in LoadValues : Retire(Written(inst.rd, value))
               /\ load_res' = Address /\ granted' = {Address}
               /\ UNCHANGED fpVars
            \/ raise_exception("load fault")

\* Mutant: a store that is made leaves the reservation as it is.
store_conditional_Keeps ==
    /\ Is("amo") /\ inst.op = "sc"
    /\ IF load_res = Address
       THEN \/ /\ Retire(Written(inst.rd, 0))
               /\ granted' = {} /\ UNCHANGED <<load_res, fpVars>>
            \/ raise_exception("store fault")
       ELSE Retire(Written(inst.rd, 1)) /\ UNCHANGED <<resVars, fpVars>>

\* Only a store that is made gives up the reservation.
store_conditional ==
    /\ Is("amo") /\ inst.op = "sc"
    /\ IF load_res = Address
       THEN \/ /\ Retire(Written(inst.rd, 0))
               /\ load_res' = 0 /\ granted' = {}
               /\ UNCHANGED fpVars
            \/ raise_exception("store fault")
       ELSE Retire(Written(inst.rd, 1)) /\ UNCHANGED <<resVars, fpVars>>

\* What is read goes to rd, once the store is made; the cause of a fault is
\* that of the half that fails.
read_modify_write ==
    /\ Is("amo") /\ inst.op \in AmoOps
    /\ \/ /\ \E value \in LoadValues : Retire(Written(inst.rd, value))
          /\ UNCHANGED <<fpVars, resVars>>
       \/ raise_exception("load fault")
       \/ raise_exception("store fault")

-----------------------------------------------------------------------------
(* Floating point.                                                         *)

FpOff == fs = 0

\* Mutant: a load of a floating-point register is no reason to save them.
FpLoad_StaysClean ==
    /\ Is("fpload")
    /\ IF FpOff THEN raise_exception("illegal instruction")
       ELSE \/ /\ Retire(regs) /\ fp_reg' \in FValues
               /\ UNCHANGED <<frm, fflags, fs, resVars>>
            \/ raise_exception("load fault")

FpLoad ==
    /\ Is("fpload")
    /\ IF FpOff THEN raise_exception("illegal instruction")
       ELSE \/ /\ Retire(regs) /\ fp_reg' \in FValues /\ fs' = 3
               /\ UNCHANGED <<frm, fflags, resVars>>
            \/ raise_exception("load fault")

FpStore ==
    /\ Is("fpstore")
    /\ IF FpOff THEN raise_exception("illegal instruction")
       ELSE \/ Retire(regs) /\ UNCHANGED <<fpVars, resVars>>
            \/ raise_exception("store fault")

\* A reserved mode in the instruction is refused, one in frm is not looked at.
get_inst_rm(rm) == IF rm = 7 THEN frm ELSE IF rm >= 5 THEN -1 ELSE rm

\* The same field selects among operations that do not round; it is replaced by
\* frm there too, except in the moves of a register into the unit.
Selected == IF inst.op = "move in" THEN inst.rm ELSE get_inst_rm(inst.rm)

\* Defined for every mode: arithmetic, fused or not, and conversions within the
\* unit, to and from integers.
FpDefined ==
    CASE inst.op \in {"fused", "arithmetic", "convert", "to integer", "from integer"} -> Selected >= 0
      [] inst.op \in {"sign", "compare"} -> Selected \in 0 .. 2
      [] inst.op \in {"minmax", "move out"} -> Selected \in 0 .. 1
      [] inst.op = "move in" -> Selected = 0

\* The flags of softfp accumulate; moves of bits raise none.
FlagsRaised ==
    fflags' \in IF inst.op \in {"sign", "move in", "move out"} THEN {fflags} ELSE {fflags, TRUE}

FpRefused ==
    /\ Is("fp") /\ (FpOff \/ ~ FpDefined)
    /\ raise_exception("illegal instruction")

\* Operations with a result in a floating-point register mark it dirty.
FpWrites(ops) ==
    /\ Is("fp") /\ ~ FpOff /\ FpDefined
    /\ inst.op \in ops
    /\ Retire(regs) /\ fp_reg' \in FValues /\ FlagsRaised /\ fs' = 3
    /\ UNCHANGED <<frm, resVars>>

FpFused == FpWrites({"fused"})
FpArithmetic == FpWrites({"arithmetic"})
FpSelect == FpWrites({"sign", "minmax"})
FpFromRegister == FpWrites({"from integer", "move in"})

\* fcvt.s.d and fcvt.d.s leave fs as it is.
FpConvert ==
    /\ Is("fp") /\ ~ FpOff /\ FpDefined
    /\ inst.op = "convert"
    /\ Retire(regs) /\ fp_reg' \in FValues /\ FlagsRaised
    /\ UNCHANGED <<fs, frm, resVars>>

\* To an integer register: a conversion, a comparison, the bits or their class.
FpToRegister ==
    /\ Is("fp") /\ ~ FpOff /\ FpDefined
    /\ inst.op \in {"to integer", "compare", "move out"}
    /\ \E value \in IF inst.op = "compare" THEN {0, 1} ELSE LoadValues : Retire(Written(inst.rd, value))
    /\ FlagsRaised
    /\ UNCHANGED <<fp_reg, frm, fs, resVars>>

-----------------------------------------------------------------------------
(* The rest of the guest's life: the supervisor handles the exception and  *)
(* returns to the instruction or behind it, and sets fs with a CSR         *)
(* instruction (Hart).                                                     *)

Resume ==
    /\ trap # "none"
    /\ trap' = "none" /\ pc' \in {pc, Wrap(pc + 2, XLEN), Wrap(pc + 4, XLEN)}
    /\ UNCHANGED <<regs, fpVars, resVars, word>>

SetFs ==
    /\ word = NoWord /\ trap = "none"
    /\ fs' \in {0, 1, 3} /\ pc' = Wrap(pc + 4, XLEN)
    /\ UNCHANGED <<regs, fp_reg, frm, fflags, resVars, word, trap>>

Next ==
    \/ Fetch \/ FetchFault
    \/ OpReg \/ OpImm \/ OpUpper \/ OpBranch \/ OpJal \/ OpJalr
    \/ OpSystem \/ OpFence \/ OpUndefined
    \/ OpLoad \/ OpStore
    \/ load_reserved \/ store_conditional \/ read_modify_write
    \/ FpLoad \/ FpStore
    \/ FpRefused \/ FpFused \/ FpArithmetic \/ FpSelect \/ FpFromRegister
    \/ FpConvert \/ FpToRegister
    \/ Resume \/ SetFs

Spec == Init /\ [][Next]_vars

-----------------------------------------------------------------------------
(* Properties.                                                             *)

Retires == word # NoWord /\ word' = NoWord /\ trap' = "none"

\* Whatever two registers hold, every operation on them (multiplication by half
\* words, division with its special cases, 32-bit forms, AMO) yields what it is
\* for: the result stands in the arithmetic relation of Alu to the operands.
AluAgrees ==
    word = NoWord /\ trap = "none" =>
        \A a, b \in {regs[1], regs[2]} :
            /\ \A op \in RegOps : RegAgrees(op, a, b)
            /\ \A op \in WordOps : WordAgrees(op, a, b)
            /\ \A op \in AmoOps : AmoAgrees(op, a, b)

\* An exception is precise: at whatever point an instruction raises it, no
\* register, neither pc nor the reservation nor the state of the unit has
\* changed, so that the handler can repeat or skip the instruction.
PreciseStep == trap' \notin {trap, "none"} => UNCHANGED <<pc, regs, fpVars, resVars>>
PreciseException == [][PreciseStep]_vars

\* An instruction that retires leaves pc behind itself, two bytes on for a
\* compressed one, or at its target; a jump leaves the address behind it in rd,
\* and its target comes from the registers as they were, rd among them.
ControlStep ==
    Retires =>
        LET behind == Wrap(pc + inst.len, XLEN)
        IN  /\ pc' % 2 = 0
            /\ inst.class \notin {"branch", "jal", "jalr"} => pc' = behind
            /\ inst.class = "branch" => pc' \in {behind, Wrap(pc + inst.imm, XLEN)} /\ regs' = regs
            /\ inst.class = "jalr" => Wrap(regs[inst.rs1] + inst.imm, XLEN) \in {pc', pc' + 1}
            /\ inst.class \in {"jal", "jalr"} /\ inst.rd # 0 => regs'[inst.rd] = behind
ControlFlow == [][ControlStep]_vars

\* A conditional store succeeds if and only if its address is that of the last
\* lr and no conditional store has succeeded since, whatever traps, faulting or
\* failing attempts came in between; address 0 alone needs no lr.
ConditionalStep ==
    Retires /\ inst.class = "amo" /\ inst.op = "sc" /\ inst.rd # 0 =>
        IF Address = 0 THEN Address \in granted => regs'[inst.rd] = 0
        ELSE regs'[inst.rd] = 0 <=> Address \in granted
ScNeedsReservation == [][ConditionalStep]_vars

\* The supervisor saves the floating-point registers only when fs says dirty.
\* Every instruction that changes one marks the unit dirty, but for two of which
\* this is not claimed: the conversions between the formats, fcvt.s.d and
\* fcvt.d.s, do not mark it, and their result may be lost.  No instruction takes
\* a mark back, and while the unit is off none changes a register or raises a
\* flag.  (While it is on a flag may be raised without a mark.)
DirtyStep ==
    /\ fp_reg' # fp_reg /\ inst.op # "convert" => fs' = 3
    /\ word # NoWord => fs' \in {fs, 3}
    /\ fs = 0 => UNCHANGED <<fp_reg, fflags>>
FsTracksF == [][DirtyStep]_vars
=============================================================================
