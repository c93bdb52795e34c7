----------------------------- MODULE HartProofs -----------------------------
(***************************************************************************)
(* Theorems about Hart, for every program of the guest: every set of       *)
(* addresses, mstatus values, interrupt bits and exception codes.  Behind  *)
(* them those about HartResume: a handler that keeps its hands off the     *)
(* saved state returns to what it has interrupted, over any nesting of     *)
(* traps.                                                                  *)
(***************************************************************************)
EXTENDS HartResume, TLAPS

USE DEF PRIV_U, PRIV_S, PRIV_H, PRIV_M, SSIP, MSIP, STIP, MTIP, SEIP, MEIP

\* A trap keeps the types, leaves the interrupt words alone and keeps the cached
\* width in step with the privilege it enters.
LEMMA TrapStep ==
    ASSUME TypeOK, XlenTracksPriv, step' \in {"timer", "events", "irq", "exec"},
           NEW isIrq \in BOOLEAN, NEW code, raise_exception(isIrq, code)
    PROVE  /\ TypeOK' /\ XlenTracksPriv'
           /\ UNCHANGED <<mie, mip, power_down_flag>>
<1> USE AddrAssumption DEF TypeOK, XlenTracksPriv, raise_exception, set_priv, Privs,
        irqState, delegation
<1>1. CASE Delegated(isIrq, code)
  <2>1. TrapToS /\ priv \in {PRIV_U, PRIV_S}
    BY <1>1 DEF Delegated
  <2>2. TypeOK'
    BY <2>1 DEF TrapToS
  <2>3. XlenTracksPriv'
    BY <2>1 DEF TrapToS, WidthField
  <2> QED BY <2>2, <2>3
<1>2. CASE ~Delegated(isIrq, code)
  <2>1. TrapToM
    BY <1>2
  <2>2. TypeOK'
    BY <2>1 DEF TrapToM
  <2>3. XlenTracksPriv'
    BY <2>1 DEF TrapToM, WidthField
  <2> QED BY <2>2, <2>3
<1> QED BY <1>1, <1>2

\* The conjunction is inductive: a wakeup cannot be lost while an instruction
\* writes mie or mip because the hart is awake then, and that is a conjunct of
\* ExecHasNoDueInterrupt.
HartInv ==
    TypeOK /\ XlenTracksPriv /\ SleepingHasNoWakeup /\ ExecHasNoDueInterrupt

\* The state cpu_state_reset leaves satisfies it.
LEMMA InitInv == Init => HartInv
<1> SUFFICES ASSUME Init PROVE HartInv
  OBVIOUS
<1> USE DEF Init
<1>0. spie \in BOOLEAN /\ mpie \in BOOLEAN /\ power_down_flag \in BOOLEAN
  OBVIOUS
<1>1. TypeOK
  BY <1>0, AddrAssumption DEF TypeOK, Privs
<1>2. XlenTracksPriv
  BY DEF XlenTracksPriv, WidthField
<1>3. SleepingHasNoWakeup /\ ExecHasNoDueInterrupt
  BY DEF SleepingHasNoWakeup, ExecHasNoDueInterrupt
<1> QED BY <1>1, <1>2, <1>3 DEF HartInv

\* A control register access keeps the invariant.
LEMMA CsrStep ==
    ASSUME HartInv, CsrWrite
    PROVE  HartInv'
<1> USE GuestAssumption
    DEF HartInv, TypeOK, XlenTracksPriv, SleepingHasNoWakeup, ExecHasNoDueInterrupt,
        CsrAccess, Exec, WidthField, Privs, Fields, irqState, mstatus, delegation
<1>1. ~power_down_flag /\ pc' \in Addr /\ step' = "timer" /\ priv' = priv
  BY AddrAssumption DEF CsrWrite, WriteMstatus, WriteSstatus, WriteMie, WriteSie, WriteMip,
      WriteSip, WriteMideleg, WriteMedeleg, WriteMisa, WriteMepc, WriteSepc
<1>2. ASSUME NEW v \in MstatusValues, WriteMstatus(v) PROVE HartInv'
  BY <1>1, <1>2 DEF WriteMstatus, set_mstatus
<1>3. ASSUME NEW v \in MstatusValues, WriteSstatus(v) PROVE HartInv'
  <2>1. SstatusValue(v) \in Fields
    BY DEF SstatusValue
  <2>2. SstatusValue(v).sxl = sxl
    BY DEF SstatusValue
  <2> QED BY <1>1, <1>3, <2>1, <2>2 DEF WriteSstatus, set_mstatus
<1>4. ASSUME NEW bits \in SUBSET IrqBits,
             WriteMie(bits) \/ WriteSie(bits) \/ WriteMip(bits) \/ WriteSip(bits)
                 \/ WriteMideleg(bits)
      PROVE  HartInv'
  <2>1. CASE WriteMie(bits)
    BY <1>1, <2>1 DEF WriteMie, Masked, mieMask
  <2>2. CASE WriteSie(bits)
    BY <1>1, <2>2 DEF WriteSie, Masked, mieMask, midelegMask
  <2>3. CASE WriteMip(bits)
    BY <1>1, <2>3 DEF WriteMip, Masked
  <2>4. CASE WriteSip(bits)
    BY <1>1, <2>4 DEF WriteSip, Masked, midelegMask
  <2>5. CASE WriteMideleg(bits)
    BY <1>1, <2>5 DEF WriteMideleg, Masked, midelegMask
  <2> QED BY <1>4, <2>1, <2>2, <2>3, <2>4, <2>5
<1>5. ASSUME NEW codes \in SUBSET ExcCodes, WriteMedeleg(codes) PROVE HartInv'
  BY <1>1, <1>5 DEF WriteMedeleg, Masked, medelegMask
<1>6. ASSUME NEW m \in 0 .. 3, WriteMisa(m) PROVE HartInv'
  BY <1>1, <1>6 DEF WriteMisa
<1>7. ASSUME NEW a \in Addr, WriteMepc(a) \/ WriteSepc(a) PROVE HartInv'
  <2>1. TypeOK'
    BY <1>1, <1>7 DEF WriteMepc, WriteSepc
  <2>2. XlenTracksPriv' /\ SleepingHasNoWakeup' /\ ExecHasNoDueInterrupt'
    BY <1>1, <1>7 DEF WriteMepc, WriteSepc
  <2> QED BY <2>1, <2>2
<1> QED BY <1>2, <1>3, <1>4, <1>5, <1>6, <1>7 DEF CsrWrite

\* A peripheral that raises or drops bits of its own keeps the hart awake while
\* an enabled one is pending.
LEMMA PeripheralBits ==
    ASSUME TypeOK, SleepingHasNoWakeup, UNCHANGED mie, NEW bits \in SUBSET {MTIP, SEIP, MEIP},
           set_mip(bits) \/ reset_mip(bits) \/ UNCHANGED <<mip, power_down_flag>>
    PROVE  /\ mip' \subseteq {SSIP, STIP, MTIP, SEIP, MEIP}
           /\ power_down_flag' \in BOOLEAN
           /\ SleepingHasNoWakeup'
<1>1. mip' \subseteq {SSIP, STIP, MTIP, SEIP, MEIP}
  BY DEF TypeOK, set_mip, reset_mip
<1>2. power_down_flag' \in BOOLEAN
  BY Zenon DEF TypeOK, set_mip, reset_mip
<1>3. SleepingHasNoWakeup'
  BY DEF SleepingHasNoWakeup, set_mip, reset_mip
<1> QED BY <1>1, <1>2, <1>3

\* Every step of a peripheral keeps the invariant.
LEMMA PeripheralInv ==
    ASSUME HartInv, PeripheralStep
    PROVE  HartInv'
<1> DEFINE Bits(bits) == set_mip(bits) \/ reset_mip(bits) \/ UNCHANGED <<mip, power_down_flag>>
<1>1. UNCHANGED <<mepc, sepc, priv, xlen, mxl, mstatus, mie, delegation>>
  BY DEF PeripheralStep, TimerCheck, PollEvents, DeviceAccess, control
<1>2. pc' \in Addr /\ step' \in {"timer", "events", "irq"}
  BY AddrAssumption DEF PeripheralStep, TimerCheck, PollEvents, DeviceAccess, Exec, control,
      HartInv, TypeOK
<1>3. \E bits \in SUBSET {MTIP, SEIP, MEIP} : Bits(bits)
  <2>1. ASSUME NEW due \in BOOLEAN, TimerCheck(due) PROVE Bits({MTIP})
    BY <2>1 DEF TimerCheck
  <2>2. CASE PollEvents
    BY <2>2 DEF PollEvents, ExternalBits
  <2>3. CASE DeviceAccess
    BY <2>3 DEF DeviceAccess, ExternalBits
  <2> QED BY <2>1, <2>2, <2>3 DEF PeripheralStep
<1>4. /\ mip' \subseteq {SSIP, STIP, MTIP, SEIP, MEIP}
      /\ power_down_flag' \in BOOLEAN
      /\ SleepingHasNoWakeup'
  BY <1>1, <1>3, PeripheralBits DEF HartInv
<1>5. TypeOK'
  BY <1>1, <1>2, <1>4 DEF HartInv, TypeOK, mstatus, delegation
<1>6. XlenTracksPriv'
  BY <1>1 DEF HartInv, XlenTracksPriv, WidthField, mstatus
<1> QED BY <1>2, <1>4, <1>5, <1>6 DEF HartInv, ExecHasNoDueInterrupt

\* So does every trap: it ends the turn and leaves the interrupt words alone.
LEMMA TrapInv ==
    ASSUME HartInv, Trap
    PROVE  HartInv'
<1>1. step' = "timer"
  BY DEF Trap, TakeInterrupt, Ecall, Fault, Exec
<1>2. \E isIrq \in BOOLEAN : \E code : raise_exception(isIrq, code)
  BY DEF Trap, TakeInterrupt, raise_interrupt, Ecall, Fault
<1>3. /\ TypeOK' /\ XlenTracksPriv'
      /\ UNCHANGED <<mie, mip, power_down_flag>>
  BY <1>1, <1>2, TrapStep DEF HartInv
<1> QED BY <1>1, <1>3 DEF HartInv, SleepingHasNoWakeup, ExecHasNoDueInterrupt

\* And every other step of the hart.
LEMMA HartStepInv ==
    ASSUME HartInv, HartStep
    PROVE  HartInv'
<1> USE AddrAssumption
    DEF HartInv, TypeOK, XlenTracksPriv, SleepingHasNoWakeup, ExecHasNoDueInterrupt,
        Exec, set_priv, WidthField, Privs, irqState, mstatus, delegation, control
<1>1. CASE Trap
  BY <1>1, TrapInv
<1>2. CASE SkipInterrupt
  BY <1>2 DEF SkipInterrupt, get_pending_irq_mask
<1>3. CASE Compute
  BY <1>3 DEF Compute
<1>4. CASE Sret
  BY <1>4 DEF Sret, handle_sret
<1>5. CASE Mret
  BY <1>5 DEF Mret, handle_mret
<1>6. CASE Wfi
  BY <1>6 DEF Wfi
<1>7. CASE CsrWrite
  BY <1>7, CsrStep
<1> QED BY <1>1, <1>2, <1>3, <1>4, <1>5, <1>6, <1>7 DEF HartStep

\* It says nothing of what is not in vars.
LEMMA StutterInv ==
    ASSUME HartInv, UNCHANGED vars
    PROVE  HartInv'
BY DEF HartInv, TypeOK, XlenTracksPriv, SleepingHasNoWakeup, ExecHasNoDueInterrupt, WidthField,
       vars, irqState, mstatus, delegation

-----------------------------------------------------------------------------
\* The inductive invariant of the hart holds for every guest program.
THEOREM HartInvariant == Spec => []HartInv
<1>1. HartInv /\ [Next]_vars => HartInv'
  BY HartStepInv, PeripheralInv, StutterInv DEF Next
<1> QED BY InitInv, <1>1, PTL DEF Spec

\* Every state word keeps its range: no program can enable MEIP or delegate a
\* machine interrupt.
THEOREM TypeCorrect == Spec => []TypeOK
BY HartInvariant, PTL DEF HartInv

\* No program and no order of device events loses the wakeup of a WFI.
THEOREM NoLostWakeup == Spec => []SleepingHasNoWakeup
BY HartInvariant, PTL DEF HartInv

\* The cached register width follows the privilege.
THEOREM WidthFollowsPrivilege == Spec => []XlenTracksPriv
BY HartInvariant, PTL DEF HartInv

\* No instruction runs before an interrupt that must preempt it.
THEOREM InterruptsPreempt == Spec => []ExecHasNoDueInterrupt
BY HartInvariant, PTL DEF HartInv

-----------------------------------------------------------------------------
\* A trap rises to M or stays below it in S, and saves the interrupted context.
LEMMA TrapSaves ==
    ASSUME TypeOK, NEW isIrq \in BOOLEAN, NEW code, raise_exception(isIrq, code)
    PROVE  /\ priv' >= priv
           /\ priv' \in {PRIV_S, PRIV_M}
           /\ SavedChange
           /\ ConfinedStep
<1> USE DEF TypeOK, raise_exception, set_priv, Privs, irqState, delegation, SavedChange,
        ConfinedStep
<1>1. CASE Delegated(isIrq, code)
  BY <1>1 DEF Delegated, TrapToS
<1>2. CASE ~Delegated(isIrq, code)
  BY <1>2 DEF TrapToM
<1> QED BY <1>1, <1>2

\* No step of any guest program changes state of a higher level without trapping.
LEMMA ConfinedNext ==
    ASSUME HartInv, [Next]_vars
    PROVE  [ConfinedStep]_vars
<1> SUFFICES ASSUME Next PROVE ConfinedStep
  OBVIOUS
<1> USE DEF ConfinedStep, irqState, mstatus, delegation
<1>1. CASE Trap
  <2>1. \E isIrq \in BOOLEAN : \E code : raise_exception(isIrq, code)
    BY <1>1 DEF Trap, TakeInterrupt, raise_interrupt, Ecall, Fault
  <2> QED BY <2>1, TrapSaves DEF HartInv
<1>2. CASE SkipInterrupt \/ Compute \/ Wfi
  BY <1>2 DEF SkipInterrupt, Compute, Wfi, control
<1>3. CASE Sret
  <2>1. /\ UNCHANGED <<mepc, mpie, mpp, mxl, sxl, mie, delegation>>
        /\ ie' = (ie \ {spp}) \union (IF spie THEN {spp} ELSE {})
    BY <1>3 DEF Sret, handle_sret
  <2>2. priv # PRIV_U /\ spp # PRIV_M
    BY <1>3 DEF Sret, HartInv, TypeOK
  <2>3. PRIV_M \in ie' <=> PRIV_M \in ie
    BY <2>1, <2>2
  <2> QED BY <2>1, <2>2, <2>3
<1>4. CASE Mret
  <2>1. priv = PRIV_M
    BY <1>4 DEF Mret, HartInv, TypeOK, Privs
  <2> QED BY <2>1
<1>5. CASE CsrWrite
  <2> USE DEF CsrAccess, HartInv, TypeOK, Privs
  <2>1. ASSUME NEW v \in MstatusValues, WriteMstatus(v) PROVE ConfinedStep
    BY <2>1 DEF WriteMstatus
  <2>2. ASSUME NEW v \in MstatusValues, WriteSstatus(v) PROVE ConfinedStep
    BY <2>2 DEF WriteSstatus, set_mstatus, SstatusValue
  <2>3. ASSUME NEW bits \in SUBSET IrqBits,
               WriteMie(bits) \/ WriteSie(bits) \/ WriteMip(bits) \/ WriteSip(bits)
                   \/ WriteMideleg(bits)
        PROVE  ConfinedStep
    BY <2>3 DEF WriteMie, WriteSie, WriteMip, WriteSip, WriteMideleg, Masked
  <2>4. ASSUME NEW codes \in SUBSET ExcCodes, WriteMedeleg(codes) PROVE ConfinedStep
    BY <2>4 DEF WriteMedeleg
  <2>5. ASSUME NEW m \in 0 .. 3, WriteMisa(m) PROVE ConfinedStep
    BY <2>5 DEF WriteMisa
  <2>6. ASSUME NEW a \in Addr, WriteMepc(a) \/ WriteSepc(a) PROVE ConfinedStep
    BY <2>6 DEF WriteMepc, WriteSepc
  <2> QED BY <1>5, <2>1, <2>2, <2>3, <2>4, <2>5, <2>6 DEF CsrWrite
<1>6. CASE PeripheralStep
  BY <1>6 DEF PeripheralStep, TimerCheck, PollEvents, DeviceAccess, ExternalBits, set_mip,
      reset_mip, control
<1> QED BY <1>1, <1>2, <1>3, <1>4, <1>5, <1>6 DEF Next, HartStep

\* Code below M cannot change the state of M, nor U code that of S, whatever
\* sequence of csr writes, returns and traps it tries.
THEOREM Confinement == Spec => PrivilegeConfined
BY HartInvariant, ConfinedNext, PTL DEF Spec, PrivilegeConfined

\* The privilege changes only through saved state.
LEMMA SavedNext ==
    ASSUME HartInv, [Next]_vars
    PROVE  [SavedChange]_vars
<1> SUFFICES ASSUME Next PROVE SavedChange
  OBVIOUS
<1> USE DEF SavedChange, HartInv, TypeOK, Privs
<1>1. CASE Trap
  <2>1. \E isIrq \in BOOLEAN : \E code : raise_exception(isIrq, code)
    BY <1>1 DEF Trap, TakeInterrupt, raise_interrupt, Ecall, Fault
  <2> QED BY <2>1, TrapSaves
<1>2. CASE Sret
  <2>1. priv' = spp /\ pc' = sepc
    BY <1>2 DEF Sret, handle_sret, set_priv
  <2>2. ~(priv' > priv)
    BY <1>2, <2>1 DEF Sret
  <2> QED BY <2>1, <2>2
<1>3. CASE Mret
  <2>1. priv = PRIV_M /\ priv' = mpp /\ pc' = mepc
    BY <1>3 DEF Mret, handle_mret, set_priv
  <2>2. ~(priv' > priv)
    BY <2>1
  <2> QED BY <2>1, <2>2
<1>4. CASE SkipInterrupt \/ Compute \/ Wfi \/ CsrWrite \/ PeripheralStep
  <2>1. UNCHANGED priv
    BY <1>4 DEF SkipInterrupt, Compute, Wfi, CsrWrite, PeripheralStep, CsrAccess, WriteMstatus,
        WriteSstatus, WriteMie, WriteSie, WriteMip, WriteSip, WriteMideleg, WriteMedeleg,
        WriteMisa, WriteMepc, WriteSepc, TimerCheck, PollEvents, DeviceAccess, control
  <2> QED BY <2>1
<1> QED BY <1>1, <1>2, <1>3, <1>4 DEF Next, HartStep

\* raise_exception, handle_sret and handle_mret are the only ways to change the
\* privilege, and each goes through the saved state.
THEOREM SavedPrivilege == Spec => PrivilegeChangesSaved
BY HartInvariant, SavedNext, PTL DEF Spec, PrivilegeChangesSaved

\* An interrupt goes to the level that owns it.
LEMMA OwnedNext ==
    ASSUME HartInv, [Next]_vars
    PROVE  [OwnedInterrupt]_vars
<1> SUFFICES ASSUME Next, step = "irq", step' = "timer", ~power_down_flag
             PROVE  OwnedInterrupt
  BY DEF OwnedInterrupt
<1>1. TakeInterrupt
  BY DEF Next, HartStep, Trap, TakeInterrupt, SkipInterrupt, Ecall, Fault, Compute, Sret, Mret,
      Wfi, CsrWrite, WriteMstatus, WriteSstatus, WriteMie, WriteSie, WriteMip, WriteSip,
      WriteMideleg, WriteMedeleg, WriteMisa, WriteMepc, WriteSepc, PeripheralStep, TimerCheck,
      PollEvents, DeviceAccess, CsrAccess, Exec
<1>2. PICK i \in get_pending_irq_mask : raise_exception(TRUE, i)
  BY <1>1 DEF TakeInterrupt, raise_interrupt
<1>3. i \in mip \intersect mie
  BY <1>2 DEF get_pending_irq_mask
<1>4. CASE Delegated(TRUE, i)
  BY <1>2, <1>3, <1>4 DEF Delegated, OwnedInterrupt, raise_exception, TrapToS, set_priv
<1>5. CASE ~Delegated(TRUE, i)
  <2>1. priv' = PRIV_M
    BY <1>2, <1>5 DEF raise_exception, TrapToM, set_priv
  <2>2. CASE i \notin mideleg
    BY <1>3, <2>1, <2>2 DEF OwnedInterrupt
  <2>3. CASE i \in mideleg
    <3>1. priv \in {PRIV_H, PRIV_M}
      BY <1>5, <2>3 DEF Delegated, HartInv, TypeOK, Privs
    <3>2. priv # PRIV_M
      BY <1>2, <2>3 DEF get_pending_irq_mask
    <3> QED BY <2>1, <3>1, <3>2 DEF OwnedInterrupt
  <2> QED BY <2>2, <2>3
<1> QED BY <1>4, <1>5

\* raise_interrupt never hands a level an interrupt while none that belongs to it
\* is due.
THEOREM InterruptOwnership == Spec => InterruptsReachOwner
BY HartInvariant, OwnedNext, PTL DEF Spec, InterruptsReachOwner

-----------------------------------------------------------------------------
(* Returning from traps.                                                   *)

\* What mret will restore of the S state: the enable bit of S is one of those it
\* writes when it returns to S.
SupervisorKept == <<spie, spp, sepc, IF mpp = PRIV_S THEN mpie ELSE PRIV_S \in ie>>

\* A frame of M exists only while the handler runs, for every way out of M gives
\* it up, and the registers mret reads still hold it.
MframeKept ==
    mframe # None =>
        /\ priv = PRIV_M
        /\ mframe = [priv |-> mpp, pc |-> mepc, enabled |-> mpie,
                     xlen |-> XlenOf(WidthField(mpp)), supervisor |-> SupervisorKept]

\* A frame of S outlives every trap to M and the return from it.
SframeKept ==
    sframe # None =>
        sframe = [priv |-> spp, pc |-> sepc, enabled |-> spie, xlen |-> XlenOf(WidthField(spp))]

ResumeInv == HartInv /\ MframeKept /\ SframeKept

-----------------------------------------------------------------------------
(* The frames only watch: every step is one of Hart.                       *)

LEMMA WritesAreCsrWrites ==
    ASSUME WriteSavedState \/ WriteSavedM \/ OtherWrite
    PROVE  CsrWrite
BY DEF WriteSavedState, WriteSavedM, OtherWrite, CsrWrite

LEMMA ResumeRefines ==
    ASSUME [RNext]_rvars
    PROVE  [Next]_vars
BY WritesAreCsrWrites DEF RNext, TrapWithFrame, SretWithFrame, MretWithFrame, Next, HartStep, rvars

\* HartSteps keep the invariant of Hart.
LEMMA HartInvKept ==
    ASSUME HartInv, [RNext]_rvars
    PROVE  HartInv'
BY ResumeRefines, HartStepInv, PeripheralInv, StutterInv DEF Next

-----------------------------------------------------------------------------
(* The frames.                                                             *)

\* The width that a trap leaves is the one the return will look up.
LEMMA TrapFrames ==
    ASSUME ResumeInv, TrapWithFrame
    PROVE  MframeKept' /\ SframeKept'
<1>0. PICK isIrq \in BOOLEAN : \E code : raise_exception(isIrq, code)
  BY DEF TrapWithFrame, Trap, TakeInterrupt, raise_interrupt, Ecall, Fault
<1>1. PICK code : raise_exception(isIrq, code)
  BY <1>0
<1>2. UNCHANGED <<mxl, uxl, sxl>>
  BY <1>1 DEF raise_exception
<1>3. xlen = XlenOf(WidthField(priv)) /\ priv \in Privs
  BY DEF ResumeInv, HartInv, XlenTracksPriv, TypeOK
<1>4. CASE Delegated(isIrq, code)
  <2>1. TrapToS /\ priv <= PRIV_S
    BY <1>1, <1>4 DEF raise_exception, Delegated
  <2>2. priv' = PRIV_S
    BY <2>1 DEF TrapToS, set_priv
  <2>3. mframe' = mframe /\ mframe = None
    BY <2>1, <2>2 DEF TrapWithFrame, ResumeInv, MframeKept
  <2>4. sframe' = Context
    BY <2>2 DEF TrapWithFrame
  <2>5. sepc' = pc /\ spie' = (priv \in ie) /\ spp' = priv
    BY <2>1 DEF TrapToS
  <2>6. XlenOf(WidthField(spp))' = xlen
    BY <1>2, <1>3, <2>5 DEF WidthField
  <2> QED BY <2>3, <2>4, <2>5, <2>6 DEF MframeKept, SframeKept, Context
<1>5. CASE ~Delegated(isIrq, code)
  <2>1. TrapToM
    BY <1>1, <1>5 DEF raise_exception
  <2>2. priv' = PRIV_M
    BY <2>1 DEF TrapToM, set_priv
  <2>3. mframe' = MContext /\ sframe' = sframe
    BY <2>2 DEF TrapWithFrame
  <2>4. mepc' = pc /\ mpie' = (priv \in ie) /\ mpp' = priv /\ ie' = ie \ {PRIV_M}
        /\ UNCHANGED <<sepc, spie, spp>>
    BY <2>1 DEF TrapToM
  <2>5. XlenOf(WidthField(mpp))' = xlen
    BY <1>2, <1>3, <2>4 DEF WidthField
  <2>6. SupervisorKept' = SupervisorFrame
    BY <2>4 DEF SupervisorKept, SupervisorFrame
  <2>7. MframeKept'
    BY <2>2, <2>3, <2>4, <2>5, <2>6 DEF MframeKept, MContext
  <2>8. XlenOf(WidthField(spp))' = XlenOf(WidthField(spp))
    BY <1>2, <2>4 DEF WidthField
  <2>9. SframeKept'
    BY <2>3, <2>4, <2>8 DEF SframeKept, ResumeInv
  <2> QED BY <2>7, <2>9
<1> QED BY <1>4, <1>5

\* A step that touches neither the saved state nor the widths keeps both frames.
LEMMA FramesKept ==
    ASSUME ResumeInv, UNCHANGED <<mepc, sepc, priv, mxl, mstatus, frames>>
    PROVE  MframeKept' /\ SframeKept'
BY DEF ResumeInv, MframeKept, SframeKept, SupervisorKept, WidthField, mstatus, frames

LEMMA FramesStep ==
    ASSUME ResumeInv, [RNext]_rvars
    PROVE  MframeKept' /\ SframeKept'
<1>1. CASE TrapWithFrame
  BY <1>1, TrapFrames
<1>2. CASE WriteSavedState \/ SretWithFrame
  BY <1>2 DEF WriteSavedState, SretWithFrame, MframeKept, SframeKept
<1>3. CASE WriteSavedM
  <2>1. UNCHANGED <<sepc, mstatus, sframe>> /\ mframe' = None
    BY <1>3 DEF WriteSavedM, WriteMepc, WriteMisa
  <2>2. spp \in {PRIV_U, PRIV_S}
    BY DEF ResumeInv, HartInv, TypeOK
  <2> QED BY <2>1, <2>2 DEF ResumeInv, MframeKept, SframeKept, WidthField, mstatus
<1>4. CASE MretWithFrame
  BY <1>4 DEF MretWithFrame, Mret, handle_mret, ResumeInv, MframeKept, SframeKept, WidthField
<1>5. CASE (SkipInterrupt \/ Compute \/ Wfi \/ OtherWrite \/ PeripheralStep) /\ UNCHANGED frames
  <2>1. UNCHANGED <<mepc, sepc, priv, mxl, mstatus>>
    BY <1>5 DEF SkipInterrupt, Compute, Wfi, OtherWrite, WriteMie, WriteSie, WriteMip, WriteSip,
        WriteMideleg, WriteMedeleg, CsrAccess, PeripheralStep, TimerCheck, PollEvents,
        DeviceAccess, control
  <2> QED BY <1>5, <2>1, FramesKept
<1>6. CASE UNCHANGED rvars
  BY <1>6, FramesKept DEF rvars, vars, frames
<1> QED BY <1>1, <1>2, <1>3, <1>4, <1>5, <1>6 DEF RNext

LEMMA ResumeInvariant == RSpec => []ResumeInv
<1>1. RInit => ResumeInv
  BY InitInv DEF RInit, ResumeInv, MframeKept, SframeKept
<1>2. ResumeInv /\ [RNext]_rvars => ResumeInv'
  BY HartInvKept, FramesStep DEF ResumeInv
<1> QED BY <1>1, <1>2, PTL DEF RSpec

-----------------------------------------------------------------------------
(* The returns.                                                            *)

\* mret restores what the frame holds.
LEMMA MretRestores ==
    ASSUME ResumeInv, MretWithFrame, mframe # None
    PROVE  /\ mframe = [priv |-> priv', pc |-> pc', enabled |-> priv' \in ie', xlen |-> xlen',
                        supervisor |-> mframe.supervisor]
           /\ SupervisorFrame' = mframe.supervisor
<1>1. mframe = [priv |-> mpp, pc |-> mepc, enabled |-> mpie,
                xlen |-> XlenOf(WidthField(mpp)), supervisor |-> SupervisorKept]
  BY DEF ResumeInv, MframeKept
<1>2. priv' = mpp /\ pc' = mepc /\ ie' = (ie \ {mpp}) \union (IF mpie THEN {mpp} ELSE {})
      /\ UNCHANGED <<sepc, spie, spp>>
  BY DEF MretWithFrame, Mret, handle_mret, set_priv
<1>3. xlen' = XlenOf(WidthField(mpp))
  BY DEF MretWithFrame, Mret, handle_mret, set_priv, ResumeInv, HartInv, XlenTracksPriv
<1>4. mpie \in BOOLEAN
  BY DEF ResumeInv, HartInv, TypeOK
<1>5. (priv' \in ie') = mpie
  BY <1>2, <1>4
<1>6. SupervisorFrame' = SupervisorKept
  BY <1>2, <1>4 DEF SupervisorFrame, SupervisorKept
<1> QED BY <1>1, <1>2, <1>3, <1>5, <1>6

LEMMA SretRestores ==
    ASSUME ResumeInv, SretWithFrame, sframe # None
    PROVE  sframe = [priv |-> priv', pc |-> pc', enabled |-> priv' \in ie', xlen |-> xlen']
<1>1. sframe = [priv |-> spp, pc |-> sepc, enabled |-> spie, xlen |-> XlenOf(WidthField(spp))]
  BY DEF ResumeInv, SframeKept
<1>2. priv' = spp /\ pc' = sepc /\ ie' = (ie \ {spp}) \union (IF spie THEN {spp} ELSE {})
  BY DEF SretWithFrame, Sret, handle_sret, set_priv
<1>3. xlen' = XlenOf(WidthField(spp))
  BY DEF SretWithFrame, Sret, handle_sret, set_priv, ResumeInv, HartInv, XlenTracksPriv
<1>4. spie \in BOOLEAN
  BY DEF ResumeInv, HartInv, TypeOK
<1>5. (priv' \in ie') = spie
  BY <1>2, <1>4
<1> QED BY <1>1, <1>2, <1>3, <1>5

\* An M handler that leaves the saved state alone returns to what it interrupted,
\* and the S handler under it finds its own saved state as it was.
THEOREM MretResumesContext == RSpec => MretResumes
BY ResumeInvariant, MretRestores, PTL DEF RSpec, MretResumes

\* So does an S handler, however often it was interrupted itself.
THEOREM SretResumesContext == RSpec => SretResumes
BY ResumeInvariant, SretRestores, PTL DEF RSpec, SretResumes
=============================================================================
