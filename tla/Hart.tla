-------------------------------- MODULE Hart --------------------------------
(***************************************************************************)
(* The hart of the emulator: the privileged state of cpu_state_t           *)
(* (src/regs.h), the trap and return code of src/regs.c, the OP_SYSTEM     *)
(* instructions of src/instructions.c, and machine_loop, which runs them.  *)
(*                                                                         *)
(* machine_loop is one thread.  The model splits one turn of it at the     *)
(* places where the world outside the hart can have changed: the timer     *)
(* comparison, the poll for console events, the interrupt check and the    *)
(* instruction.  Variable "step" says which of them runs next.             *)
(*                                                                         *)
(* The peripherals are abstract here.  The timer may be found due or not,  *)
(* a poll may move the external-interrupt bits, and a store to a device    *)
(* may clear MTIP or move them; Machine composes the hart with the real    *)
(* CLINT, PLIC and virtio lines and implements this module.                *)
(*                                                                         *)
(* mstatus is kept by field: "ie" is the set of privileges whose xIE bit   *)
(* is set, since the code selects those bits with (mstatus >> priv) & 1.   *)
(* A mip, mie, mideleg or medeleg word is the set of its bit numbers.      *)
(***************************************************************************)
EXTENDS Mip

CONSTANTS
    Addr,          \* the instruction addresses of the guest program
    Plus4,         \* the address after each of them (pc + 4)
    MVec, SVec,    \* where mtvec and stvec point
    ResetPc,       \* where cpu_state_reset starts the hart (0x1000)
    ZeroPc,        \* address 0, which it leaves in mepc and sepc
    MstatusValues, \* the values the guest writes to mstatus and sstatus
    IrqBits,       \* the bits it sets in mie, mip, mideleg, sie and sip
    ExcCodes,      \* the exceptions it meets and the medeleg bits it sets
    GuestCsrs      \* the control registers it writes

PRIV_U == 0
PRIV_S == 1
PRIV_H == 2
PRIV_M == 3

CAUSE_USER_ECALL == 8

Privs == PRIV_U .. PRIV_M
Fields == [ie : SUBSET {PRIV_U, PRIV_S, PRIV_M}, spie : BOOLEAN, mpie : BOOLEAN,
           spp : {PRIV_U, PRIV_S}, mpp : Privs, uxl : 0 .. 3, sxl : 0 .. 3]

ASSUME AddrAssumption ==
    Plus4 \in [Addr -> Addr] /\ {MVec, SVec, ResetPc, ZeroPc} \subseteq Addr
ASSUME GuestAssumption ==
    /\ MstatusValues \subseteq Fields
    /\ IrqBits \subseteq 0 .. 31
    /\ ExcCodes \subseteq 0 .. 15

VARIABLES
    step,             \* where machine_loop is: "timer", "events", "irq" or "exec"
    pc, mepc, sepc,
    priv,             \* current privilege
    xlen,             \* current register width
    mxl, uxl, sxl,    \* misa.MXL, mstatus.UXL and mstatus.SXL
    ie,               \* the privileges p whose pIE bit of mstatus is set
    spie, mpie, spp, mpp,
    mideleg, medeleg

mstatus == <<ie, spie, mpie, spp, mpp, uxl, sxl>>
delegation == <<mideleg, medeleg>>
vars == <<step, pc, mepc, sepc, priv, xlen, mxl, mstatus, irqState, delegation>>

-----------------------------------------------------------------------------
(* Operations of regs.c and regs.h.                                        *)

\* The register width an MXL, SXL or UXL field stands for.
XlenOf(field) == 2 ^ (4 + field)

\* The field that gives privilege p its width.
WidthField(p) == IF p = PRIV_S THEN sxl ELSE IF p = PRIV_U THEN uxl ELSE mxl

\* Mutant: the cached width is left behind.
set_priv_StaleWidth(p) == priv' = p /\ UNCHANGED xlen

set_priv(p) ==
    /\ priv' = p
    /\ xlen' = IF p = priv THEN xlen ELSE XlenOf(WidthField(p))

\* Mutant: the delegation words are not consulted.
Delegated_Always(isIrq, code) == priv <= PRIV_S

\* A trap is taken in S mode when it is delegated and starts below M.  The
\* interrupt-enable bit that is saved is the one of the interrupted privilege.
Delegated(isIrq, code) ==
    priv <= PRIV_S /\ code \in (IF isIrq THEN mideleg ELSE medeleg)

\* Mutant: the handler of S mode starts with SIE as it was.
TrapToS_KeepsEnable ==
    /\ sepc' = pc /\ spie' = (priv \in ie) /\ spp' = priv
    /\ set_priv(PRIV_S) /\ pc' = SVec
    /\ UNCHANGED <<ie, mepc, mpie, mpp>>

TrapToS ==
    /\ sepc' = pc
    /\ spie' = (priv \in ie)
    /\ spp' = priv
    /\ ie' = ie \ {PRIV_S}
    /\ set_priv(PRIV_S)
    /\ pc' = SVec
    /\ UNCHANGED <<mepc, mpie, mpp>>

\* Mutant: MPIE takes MIE instead of the enable of the interrupted privilege.
TrapToM_SavesMIE ==
    /\ mepc' = pc /\ mpie' = (PRIV_M \in ie) /\ mpp' = priv
    /\ ie' = ie \ {PRIV_M}
    /\ set_priv(PRIV_M) /\ pc' = MVec
    /\ UNCHANGED <<sepc, spie, spp>>

TrapToM ==
    /\ mepc' = pc
    /\ mpie' = (priv \in ie)
    /\ mpp' = priv
    /\ ie' = ie \ {PRIV_M}
    /\ set_priv(PRIV_M)
    /\ pc' = MVec
    /\ UNCHANGED <<sepc, spie, spp>>

raise_exception(isIrq, code) ==
    /\ IF Delegated(isIrq, code) THEN TrapToS ELSE TrapToM
    /\ UNCHANGED <<mxl, uxl, sxl, irqState, delegation>>

\* Mutant: with SIE clear, S mode masks the interrupts of M as well.
get_pending_irq_mask_Masked ==
    { i \in mip \intersect mie :
        CASE priv = PRIV_M -> PRIV_M \in ie /\ i \notin mideleg
          [] priv = PRIV_S -> PRIV_S \in ie
          [] OTHER -> TRUE }

\* The pending and enabled interrupts that the current privilege admits.
get_pending_irq_mask ==
    { i \in mip \intersect mie :
        CASE priv = PRIV_M -> PRIV_M \in ie /\ i \notin mideleg
          [] priv = PRIV_S -> i \notin mideleg \/ PRIV_S \in ie
          [] OTHER -> TRUE }

\* The lowest-numbered bit of the mask is served first.
raise_interrupt ==
    \E i \in get_pending_irq_mask :
        /\ \A j \in get_pending_irq_mask : i <= j
        /\ raise_exception(TRUE, i)

\* Mutant: sret does not give the interrupt enable back.
handle_sret_KeepsEnable ==
    /\ spie' = TRUE /\ spp' = PRIV_U
    /\ set_priv(spp) /\ pc' = sepc
    /\ UNCHANGED <<ie, sepc, mepc, mpie, mpp, mxl, uxl, sxl, irqState, delegation>>

handle_sret ==
    /\ ie' = (ie \ {spp}) \union (IF spie THEN {spp} ELSE {})
    /\ spie' = TRUE
    /\ spp' = PRIV_U
    /\ set_priv(spp)
    /\ pc' = sepc
    /\ UNCHANGED <<sepc, mepc, mpie, mpp, mxl, uxl, sxl, irqState, delegation>>

handle_mret ==
    /\ ie' = (ie \ {mpp}) \union (IF mpie THEN {mpp} ELSE {})
    /\ mpie' = TRUE
    /\ mpp' = PRIV_U
    /\ set_priv(mpp)
    /\ pc' = mepc
    /\ UNCHANGED <<sepc, mepc, spie, spp, mxl, uxl, sxl, irqState, delegation>>

\* HIE is not writable.  An illegal UXL keeps both width fields; SXL is taken as
\* it comes when UXL is legal, because its test reads the UXL bits again.
set_mstatus(v) ==
    /\ ie' = (ie \intersect {PRIV_H}) \union v.ie
    /\ spie' = v.spie
    /\ mpie' = v.mpie
    /\ spp' = v.spp
    /\ mpp' = v.mpp
    /\ uxl' = IF v.uxl \in 1 .. 2 THEN v.uxl ELSE uxl
    /\ sxl' = IF v.uxl \in 1 .. 2 THEN v.sxl ELSE sxl

\* Mutant: sstatus is written without its mask.
SstatusValue_Unmasked(v) == v

\* The value an sstatus write hands to set_mstatus: the S and U fields of v, and
\* mstatus as it is elsewhere.
SstatusValue(v) ==
    [ie |-> (ie \intersect {PRIV_M}) \union (v.ie \intersect {PRIV_U, PRIV_S}),
     spie |-> v.spie, mpie |-> mpie, spp |-> v.spp, mpp |-> mpp,
     uxl |-> v.uxl, sxl |-> sxl]

\* A write of val to the bits of a word that mask selects.
Masked(word, mask, val) == (word \ mask) \union (val \intersect mask)

mieMask == {MSIP, MTIP, SSIP, STIP, SEIP}
midelegMask == {SSIP, STIP, SEIP}
medelegMask == 0 .. 15

-----------------------------------------------------------------------------
(* One turn of machine_loop.                                               *)

Init ==
    /\ step = "timer"
    /\ pc = ResetPc /\ mepc = ZeroPc /\ sepc = ZeroPc
    /\ priv = PRIV_M
    /\ xlen = XlenOf(2)
    /\ mxl = 2 /\ uxl = 2 /\ sxl = 2
    /\ ie = {} /\ spie = FALSE /\ mpie = FALSE /\ spp = PRIV_U /\ mpp = PRIV_U
    /\ mie = {} /\ mip = {} /\ mideleg = {} /\ medeleg = {}
    /\ power_down_flag = FALSE

\* The state that only instructions and traps change.
control == <<pc, mepc, sepc, priv, xlen, mxl, mstatus, mie, delegation>>

\* machine_get_sleep_duration: a timer found due raises MTIP.
TimerCheck(due) ==
    /\ step = "timer" /\ step' = "events"
    /\ IF due /\ MTIP \notin mip THEN set_mip({MTIP}) ELSE UNCHANGED <<mip, power_down_flag>>
    /\ UNCHANGED control

\* A console event found by the poll may move the line of the device, and
\* with it the two external-interrupt bits, which the PLIC drives together.
ExternalBits ==
    \/ set_mip({MEIP, SEIP})
    \/ reset_mip({MEIP, SEIP})

PollEvents ==
    /\ step = "events" /\ step' = "irq"
    /\ ExternalBits \/ UNCHANGED <<mip, power_down_flag>>
    /\ UNCHANGED control

\* An interrupt that is pending, enabled and admitted preempts the instruction.
TakeInterrupt ==
    /\ step = "irq" /\ step' = "timer"
    /\ mip \intersect mie # {}
    /\ raise_interrupt

SkipInterrupt ==
    /\ step = "irq"
    /\ get_pending_irq_mask = {}
    /\ step' = IF power_down_flag THEN "timer" ELSE "exec"
    /\ UNCHANGED <<control, mip, power_down_flag>>

-----------------------------------------------------------------------------
(* The instructions.  Each ends the turn.                                  *)

Exec == step = "exec" /\ step' = "timer"

\* Any instruction that touches neither control state nor a device.
Compute ==
    /\ Exec
    /\ pc' \in Addr
    /\ UNCHANGED <<mepc, sepc, priv, xlen, mxl, mstatus, irqState, delegation>>

\* Any instruction, or its fetch, that raises exception c.
Fault(c) ==
    /\ Exec
    /\ raise_exception(FALSE, c)

Ecall ==
    /\ Exec
    /\ raise_exception(FALSE, CAUSE_USER_ECALL + priv)

Sret ==
    /\ Exec
    /\ priv >= PRIV_S
    /\ handle_sret

Mret ==
    /\ Exec
    /\ priv >= PRIV_M
    /\ handle_mret

\* MSTATUS_TW cannot be written, so its test in the code never fails.
Wfi ==
    /\ Exec
    /\ priv # PRIV_U
    /\ power_down_flag' = (mip \intersect mie = {})
    /\ pc' = Plus4[pc]
    /\ UNCHANGED <<mepc, sepc, priv, xlen, mxl, mstatus, mie, mip, delegation>>

\* A csrrw, csrrs or csrrc on a register whose lowest privilege is level.
CsrAccess(csr, level) ==
    /\ Exec
    /\ csr \in GuestCsrs
    /\ priv >= level
    /\ pc' = Plus4[pc]
    /\ UNCHANGED priv

WriteMstatus(v) ==
    /\ CsrAccess("mstatus", PRIV_M)
    /\ set_mstatus(v)
    /\ UNCHANGED <<mepc, sepc, xlen, mxl, irqState, delegation>>

WriteSstatus(v) ==
    /\ CsrAccess("sstatus", PRIV_S)
    /\ set_mstatus(SstatusValue(v))
    /\ UNCHANGED <<mepc, sepc, xlen, mxl, irqState, delegation>>

WriteMie(bits) ==
    /\ CsrAccess("mie", PRIV_M)
    /\ mie' = Masked(mie, mieMask, bits)
    /\ UNCHANGED <<mepc, sepc, xlen, mxl, mstatus, mip, power_down_flag, delegation>>

WriteSie(bits) ==
    /\ CsrAccess("sie", PRIV_S)
    /\ mie' = Masked(mie, mideleg, bits)
    /\ UNCHANGED <<mepc, sepc, xlen, mxl, mstatus, mip, power_down_flag, delegation>>

WriteMip(bits) ==
    /\ CsrAccess("mip", PRIV_M)
    /\ mip' = Masked(mip, {SSIP, STIP}, bits)
    /\ UNCHANGED <<mepc, sepc, xlen, mxl, mstatus, mie, power_down_flag, delegation>>

WriteSip(bits) ==
    /\ CsrAccess("sip", PRIV_S)
    /\ mip' = Masked(mip, mideleg, bits)
    /\ UNCHANGED <<mepc, sepc, xlen, mxl, mstatus, mie, power_down_flag, delegation>>

\* Mutant: every interrupt can be delegated.
WriteMideleg_Unmasked(bits) ==
    /\ CsrAccess("mideleg", PRIV_M)
    /\ mideleg' = bits
    /\ UNCHANGED <<mepc, sepc, xlen, mxl, mstatus, irqState, medeleg>>

WriteMideleg(bits) ==
    /\ CsrAccess("mideleg", PRIV_M)
    /\ mideleg' = Masked(mideleg, midelegMask, bits)
    /\ UNCHANGED <<mepc, sepc, xlen, mxl, mstatus, irqState, medeleg>>

WriteMedeleg(codes) ==
    /\ CsrAccess("medeleg", PRIV_M)
    /\ medeleg' = Masked(medeleg, medelegMask, codes)
    /\ UNCHANGED <<mepc, sepc, xlen, mxl, mstatus, irqState, mideleg>>

\* misa: a legal MXL other than the current one changes the width at once.
WriteMisa(new_mxl) ==
    /\ CsrAccess("misa", PRIV_M)
    /\ IF new_mxl \in 1 .. 2 /\ new_mxl # mxl
       THEN mxl' = new_mxl /\ xlen' = XlenOf(new_mxl)
       ELSE UNCHANGED <<mxl, xlen>>
    /\ UNCHANGED <<mepc, sepc, mstatus, irqState, delegation>>

WriteMepc(a) ==
    /\ CsrAccess("mepc", PRIV_M)
    /\ mepc' = a
    /\ UNCHANGED <<sepc, xlen, mxl, mstatus, irqState, delegation>>

WriteSepc(a) ==
    /\ CsrAccess("sepc", PRIV_S)
    /\ sepc' = a
    /\ UNCHANGED <<mepc, xlen, mxl, mstatus, irqState, delegation>>

\* A store to mtimecmp clears MTIP; an access to the PLIC or to a virtio
\* register may move the external-interrupt bits.
DeviceAccess ==
    /\ Exec
    /\ reset_mip({MTIP}) \/ ExternalBits
    /\ pc' = Plus4[pc]
    /\ UNCHANGED <<mepc, sepc, priv, xlen, mxl, mstatus, mie, delegation>>

CsrWrite ==
    \/ \E v \in MstatusValues : WriteMstatus(v) \/ WriteSstatus(v)
    \/ \E bits \in SUBSET IrqBits :
          \/ WriteMie(bits) \/ WriteSie(bits)
          \/ WriteMip(bits) \/ WriteSip(bits)
          \/ WriteMideleg(bits)
    \/ \E codes \in SUBSET ExcCodes : WriteMedeleg(codes)
    \/ \E m \in 0 .. 3 : WriteMisa(m)
    \/ \E a \in Addr : WriteMepc(a) \/ WriteSepc(a)

Trap == TakeInterrupt \/ Ecall \/ \E c \in ExcCodes : Fault(c)

\* Every step of the hart that needs nothing from a peripheral.
HartStep == Trap \/ SkipInterrupt \/ Compute \/ Sret \/ Mret \/ Wfi \/ CsrWrite

PeripheralStep == (\E due \in BOOLEAN : TimerCheck(due)) \/ PollEvents \/ DeviceAccess

Next == HartStep \/ PeripheralStep

\* main calls machine_loop for ever, and nothing in it blocks without a timeout.
Spec == Init /\ [][Next]_vars /\ WF_vars(Next)
-----------------------------------------------------------------------------
(* Properties.                                                             *)

\* Every variable keeps its range.  In particular a word that software writes
\* stays inside its mask: MEIP can never be enabled, and a machine interrupt
\* can never be delegated.
TypeOK ==
    /\ step \in {"timer", "events", "irq", "exec"}
    /\ pc \in Addr /\ mepc \in Addr /\ sepc \in Addr
    /\ priv \in Privs
    /\ mxl \in 1 .. 2 /\ uxl \in 1 .. 2 /\ sxl \in 0 .. 3
    /\ ie \subseteq Privs
    /\ spie \in BOOLEAN /\ mpie \in BOOLEAN
    /\ spp \in {PRIV_U, PRIV_S} /\ mpp \in Privs
    /\ mie \subseteq mieMask /\ mideleg \subseteq midelegMask
    /\ mip \subseteq {SSIP, STIP, MTIP, SEIP, MEIP} /\ medeleg \subseteq medelegMask
    /\ power_down_flag \in BOOLEAN

\* No wakeup is lost: a hart sleeping in WFI has no interrupt that is pending
\* and enabled, whichever peripheral or check raised it.  WFI tests the words
\* once, and set_mip is the only code that wakes the hart.
SleepingHasNoWakeup == power_down_flag => mip \intersect mie = {}

\* The cached width is the one the current privilege is configured for, over
\* traps, returns and writes of misa, mstatus and sstatus.  At M it is the
\* comment in csr_write: "cur_xlen = 2^(mxl + 4)".
XlenTracksPriv == xlen = XlenOf(WidthField(priv))

\* An interrupt that must preempt the current privilege has preempted it before
\* an instruction runs: those that are not delegated preempt all code below M,
\* and M itself when MIE is set; the delegated ones preempt U and H, and S when SIE
\* is set.  No instruction is executed by a hart that sleeps.
ExecHasNoDueInterrupt ==
    step = "exec" =>
        LET due == mip \intersect mie
        IN  /\ priv < PRIV_M \/ PRIV_M \in ie => due \ mideleg = {}
            /\ priv \in {PRIV_U, PRIV_H} \/ (priv = PRIV_S /\ PRIV_S \in ie)
                   => due \intersect mideleg = {}
            /\ ~power_down_flag

\* Code below M cannot change what belongs to M, nor U code what belongs to S,
\* except by trapping there: sstatus, sie, sip, sret and the return of a nested
\* handler all go through code that M shares.
ConfinedStep ==
    /\ priv < PRIV_M /\ priv' < PRIV_M =>
          /\ UNCHANGED <<mepc, mpie, mpp, mxl, sxl, delegation>>
          /\ PRIV_M \in ie' <=> PRIV_M \in ie
          /\ mie' \ mideleg = mie \ mideleg
    /\ priv = PRIV_U /\ priv' = PRIV_U =>
          /\ UNCHANGED <<sepc, spie, spp, uxl, mie>>
          /\ PRIV_S \in ie' <=> PRIV_S \in ie
          /\ mip' \ {MTIP, SEIP, MEIP} = mip \ {MTIP, SEIP, MEIP}

PrivilegeConfined == [][ConfinedStep]_vars

\* The privilege rises only by a trap, which masks the interrupts of the level
\* it enters and saves where it came from; it falls only by a return, to the
\* level and the address that were saved.
SavedChange ==
    /\ priv' > priv =>
          /\ priv' \notin ie'
          /\ priv = (IF priv' = PRIV_M THEN mpp' ELSE spp')
          /\ pc = (IF priv' = PRIV_M THEN mepc' ELSE sepc')
          /\ (priv \in ie) = (IF priv' = PRIV_M THEN mpie' ELSE spie')
    /\ priv' < priv =>
          \/ priv = PRIV_M /\ priv' = mpp /\ pc' = mepc
          \/ priv' = spp /\ pc' = sepc

PrivilegeChangesSaved == [][SavedChange]_vars

\* An interrupt reaches the level that owns it: S only when a delegated one is
\* due, and M from U or S only when one is due that is not delegated.
OwnedInterrupt ==
    step = "irq" /\ step' = "timer" /\ ~power_down_flag =>
        LET due == mip \intersect mie
        IN  \/ priv' = PRIV_S /\ due \intersect mideleg # {}
            \/ priv' = PRIV_M /\ (due \ mideleg # {} \/ priv = PRIV_H)

InterruptsReachOwner == [][OwnedInterrupt]_vars

\* A machine timer interrupt that is enabled is taken from code below M, even
\* when delegated interrupts with lower numbers are served first, unless a
\* store to mtimecmp withdraws it.
TimerInterruptTaken ==
    (priv < PRIV_M /\ MTIP \in mip \intersect mie)
        ~> (priv = PRIV_M \/ MTIP \notin mip)
=============================================================================
