---------------------------- MODULE MachineProofs ----------------------------
(***************************************************************************)
(* Theorems about Machine: it implements Hart, so what HartProofs proves   *)
(* of every peripheral holds of the real ones; and the interrupt words of  *)
(* the PLIC and of the virtio devices stay consistent.                     *)
(***************************************************************************)
EXTENDS Machine, HartProofs, DivMod

\* A device moves mip in one of three ways, and wakes the hart when it should.
DeviceBits ==
    reset_mip({MTIP}) \/ ExternalBits \/ UNCHANGED <<mip, power_down_flag>>

\* The PLIC raises and drops both external bits together.
LEMMA PlicBits ==
    ASSUME plic_update_mip
    PROVE  ExternalBits
BY DEF plic_update_mip, ExternalBits

\* Every operation of a virtio device moves at most the external bits.
LEMMA VirtioBits ==
    /\ \A d \in Devices : CompleteRequests(d) => ExternalBits
    /\ \A d \in Devices : \A bits : Acknowledge(d, bits) =>
          ExternalBits \/ UNCHANGED <<mip, power_down_flag>>
    /\ \A d \in Devices : ResetDevice(d) => ExternalBits
    /\ ReportResize => ExternalBits \/ UNCHANGED <<mip, power_down_flag>>
BY PlicBits DEF CompleteRequests, Acknowledge, ResetDevice, ReportResize, plic_set_irq

\* An access of the guest to a device is one of Hart, or an instruction that
\* touches nothing of the hart.
LEMMA AccessStep ==
    ASSUME TypeOK, Access, DeviceBits
    PROVE  DeviceAccess \/ Compute
<1>1. CASE reset_mip({MTIP}) \/ ExternalBits
  BY <1>1 DEF Access, DeviceAccess
<1>2. CASE UNCHANGED <<mip, power_down_flag>>
  <2>1. pc' \in Addr
    BY AddrAssumption DEF Access, TypeOK
  <2> QED BY <1>2, <2>1 DEF Access, Compute, irqState
<1> QED BY <1>1, <1>2 DEF DeviceBits

\* Every step of the machine is one of the hart, or leaves the hart alone.
LEMMA StepRefines ==
    ASSUME TypeOK, [MachineNext]_machineVars
    PROVE  [Next]_vars
<1>1. CASE TimerTurn
  <2>1. TimerCheck(MTIP \notin mip /\ TimerDue)
    BY <1>1 DEF TimerTurn, TimerCheck, CheckTimer
  <2>2. (MTIP \notin mip /\ TimerDue) \in BOOLEAN
    OBVIOUS
  <2> QED BY <2>1, <2>2 DEF Next, PeripheralStep
<1>2. CASE EventTurn
  BY <1>2, VirtioBits DEF EventTurn, PollEvents, Next, PeripheralStep
<1>3. CASE HartTurn
  BY <1>3 DEF HartTurn, Next
<1>4. CASE ClintAccess
  <2>1. reset_mip({MTIP})
    BY <1>4 DEF ClintAccess, clint_write_low, clint_write_high, clint_write_both
  <2> QED BY <1>4, <2>1, AccessStep DEF ClintAccess, DeviceBits, Next, PeripheralStep, HartStep
<1>5. CASE PlicAccess
  <2>1. ExternalBits
    BY <1>5, PlicBits DEF PlicAccess, plic_claim, plic_complete
  <2> QED BY <1>5, <2>1, AccessStep DEF PlicAccess, DeviceBits, Next, PeripheralStep, HartStep
<1>6. CASE VirtioAccess
  <2>1. PICK d \in UsedDevices :
          \/ CompleteRequests(d)
          \/ \E bits \in SUBSET {"ring", "config"} : Acknowledge(d, bits)
          \/ ResetDevice(d)
          \/ d = Console /\ \E available \in BOOLEAN : SetReceiveQueue(available)
    BY <1>6 DEF VirtioAccess
  <2>2. d \in Devices
    BY MachineAssumption
  <2>3. DeviceBits
    BY <2>1, <2>2, VirtioBits DEF DeviceBits, SetReceiveQueue
  <2> QED BY <1>6, <2>3, AccessStep DEF VirtioAccess, Next, PeripheralStep, HartStep
<1>7. CASE ClockTick \/ Winch \/ UNCHANGED machineVars
  BY <1>7 DEF ClockTick, Winch, machineVars
<1> QED BY <1>1, <1>2, <1>3, <1>4, <1>5, <1>6, <1>7 DEF MachineNext, LoopStep

\* The CLINT, the PLIC and the virtio devices are peripherals as Hart expects
\* them: the machine is an implementation of the hart.
THEOREM MachineImplementsHart == MachineSpec => HartSafety
<1>1. MachineInit => Init /\ HartInv
  BY InitInv DEF MachineInit
<1>2. HartInv /\ [MachineNext]_machineVars => [Next]_vars
  BY StepRefines DEF HartInv
<1>3. HartInv /\ [Next]_vars => HartInv'
  BY HartStepInv, PeripheralInv, StutterInv DEF Next
<1> QED BY <1>1, <1>2, <1>3, PTL DEF MachineSpec, HartSafety

-----------------------------------------------------------------------------
(* The interrupt words.                                                    *)

\* The external bits say what a claim would return.  The S-mode bit does so while
\* the guest writes it back as it was.
BitsFollowPlic ==
    /\ ExternalBitFollowsPlic
    /\ GuestSparesSEIP => SupervisorBitFollowsPlic

\* The words of the PLIC and of the devices agree with each other and with mip.
WordsInv == PlicTypeOK /\ VirtioTypeOK /\ LineFollowsStatus /\ BitsFollowPlic

\* plic_update_mip establishes the bits whatever they were.
LEMMA UpdateSetsBits ==
    ASSUME plic_update_mip
    PROVE  BitsFollowPlic'
BY MachineAssumption DEF plic_update_mip, set_mip, reset_mip, BitsFollowPlic,
    ExternalBitFollowsPlic, SupervisorBitFollowsPlic, Claimable, SEIP, MEIP

\* A step that moves neither the external bits nor the PLIC keeps them.
LEMMA BitsKept ==
    ASSUME BitsFollowPlic, UNCHANGED plicVars,
           MEIP \in mip' <=> MEIP \in mip,
           GuestSparesSEIP => (SEIP \in mip' <=> SEIP \in mip)
    PROVE  BitsFollowPlic'
BY MachineAssumption DEF BitsFollowPlic, ExternalBitFollowsPlic, SupervisorBitFollowsPlic,
    Claimable, plicVars

\* No instruction writes MEIP: the masks of sip and mip leave it out.
LEMMA HartKeepsMEIP ==
    ASSUME TypeOK, HartStep
    PROVE  MEIP \in mip' <=> MEIP \in mip
<1> USE DEF irqState, MEIP, SSIP, STIP, SEIP
<1>1. CASE Trap
  BY <1>1 DEF Trap, TakeInterrupt, raise_interrupt, Ecall, Fault, raise_exception
<1>2. CASE SkipInterrupt \/ Compute \/ Sret \/ Mret \/ Wfi
  BY <1>2 DEF SkipInterrupt, Compute, Sret, Mret, Wfi, handle_sret, handle_mret
<1>3. CASE CsrWrite
  <2>1. ASSUME NEW bits, WriteMip(bits) PROVE MEIP \in mip' <=> MEIP \in mip
    BY <2>1 DEF WriteMip, Masked
  <2>2. ASSUME NEW bits, WriteSip(bits) PROVE MEIP \in mip' <=> MEIP \in mip
    BY <2>2 DEF WriteSip, Masked, TypeOK, midelegMask
  <2> QED BY <1>3, <2>1, <2>2 DEF CsrWrite, WriteMstatus, WriteSstatus, WriteMie, WriteSie,
      WriteMideleg, WriteMedeleg, WriteMisa, WriteMepc, WriteSepc
<1> QED BY <1>1, <1>2, <1>3 DEF HartStep

\* The two devices have sources of their own.
LEMMA IrqOfDevices ==
    /\ \A d \in Devices : IrqOf(d) \in Sources
    /\ \A d, e \in Devices : IrqOf(d) = IrqOf(e) => d = e
BY DeviceSources DEF Devices, IrqOf, Console, Block

\* A device whose status word and line move together stays consistent.
LEMMA LineMoves ==
    ASSUME WordsInv, NEW d \in Devices, NEW level \in BOOLEAN, NEW word \in SUBSET {"ring", "config"},
           int_status' = [int_status EXCEPT ![d] = word], level <=> word # {},
           plic_set_irq(IrqOf(d), level)
    PROVE  PlicTypeOK' /\ LineFollowsStatus' /\ BitsFollowPlic'
<1> USE DEF plic_set_irq, PlicTypeOK
<1>1. PlicTypeOK'
  BY IrqOfDevices DEF WordsInv
<1>2. LineFollowsStatus'
  BY IrqOfDevices DEF WordsInv, LineFollowsStatus, VirtioTypeOK
<1>3. BitsFollowPlic'
  BY UpdateSetsBits
<1> QED BY <1>1, <1>2, <1>3

\* Every operation of a virtio device keeps the words.
LEMMA VirtioWords ==
    ASSUME WordsInv,
           \/ ReportResize
           \/ \E d \in Devices :
                 \/ CompleteRequests(d)
                 \/ \E bits \in SUBSET {"ring", "config"} : Acknowledge(d, bits)
                 \/ ResetDevice(d)
                 \/ d = Console /\ \E available \in BOOLEAN : SetReceiveQueue(available)
    PROVE  WordsInv'
<1>1. CASE ReportResize /\ rx_available /\ resize_pending
  <2>1. /\ int_status' = [int_status EXCEPT ![Console] = int_status[Console] \union {"config"}]
        /\ plic_set_irq(IrqOf(Console), TRUE)
        /\ resize_pending' = FALSE /\ rx_available' = rx_available
    BY <1>1 DEF ReportResize
  <2>2. int_status[Console] \union {"config"} \in SUBSET {"ring", "config"}
    BY DEF WordsInv, VirtioTypeOK, Devices
  <2>3. PlicTypeOK' /\ LineFollowsStatus' /\ BitsFollowPlic'
    BY <2>1, <2>2, LineMoves DEF Devices
  <2>4. int_status' \in [Devices -> SUBSET {"ring", "config"}]
    BY <2>1, <2>2 DEF WordsInv, VirtioTypeOK
  <2>5. rx_available' \in BOOLEAN /\ resize_pending' \in BOOLEAN
    BY <2>1, Zenon DEF WordsInv, VirtioTypeOK
  <2> QED BY <2>3, <2>4, <2>5 DEF WordsInv, VirtioTypeOK
<1>2. CASE ReportResize /\ ~(rx_available /\ resize_pending)
  <2>1. UNCHANGED <<int_status, rx_available, resize_pending, plicVars, mip>>
    BY <1>2 DEF ReportResize, virtioVars
  <2>2. BitsFollowPlic'
    BY <2>1, BitsKept DEF WordsInv
  <2>3. PlicTypeOK' /\ LineFollowsStatus'
    BY <2>1 DEF WordsInv, PlicTypeOK, LineFollowsStatus, plicVars
  <2>4. VirtioTypeOK'
    BY <2>1, Zenon DEF WordsInv, VirtioTypeOK
  <2> QED BY <2>2, <2>3, <2>4 DEF WordsInv
<1>3. ASSUME NEW d \in Devices, CompleteRequests(d) PROVE WordsInv'
  <2>1. int_status[d] \union {"ring"} \in SUBSET {"ring", "config"}
    BY DEF WordsInv, VirtioTypeOK
  <2>2. PlicTypeOK' /\ LineFollowsStatus' /\ BitsFollowPlic'
    BY <1>3, <2>1, LineMoves DEF CompleteRequests
  <2>3. int_status' \in [Devices -> SUBSET {"ring", "config"}]
    BY <1>3, <2>1 DEF CompleteRequests, WordsInv, VirtioTypeOK
  <2>4. rx_available' \in BOOLEAN /\ resize_pending' \in BOOLEAN
    BY <1>3, Zenon DEF CompleteRequests, WordsInv, VirtioTypeOK
  <2> QED BY <2>2, <2>3, <2>4 DEF WordsInv, VirtioTypeOK
<1>4. ASSUME NEW d \in Devices, NEW bits \in SUBSET {"ring", "config"}, Acknowledge(d, bits)
      PROVE  WordsInv'
  <2> DEFINE word == int_status[d] \ bits
  <2>1. /\ int_status' = [int_status EXCEPT ![d] = word]
        /\ UNCHANGED <<rx_available, resize_pending>>
    BY <1>4 DEF Acknowledge
  <2>2. word \in SUBSET {"ring", "config"} /\ int_status'[d] = word
    BY <2>1 DEF WordsInv, VirtioTypeOK
  <2>3. PlicTypeOK' /\ LineFollowsStatus' /\ BitsFollowPlic'
    <3>1. CASE word = {}
      BY <1>4, <2>1, <2>2, <3>1, LineMoves DEF Acknowledge
    <3>2. CASE word # {}
      <4>1. UNCHANGED <<plicVars, mip, power_down_flag>>
        BY <1>4, <2>2, <3>2 DEF Acknowledge
      <4>2. BitsFollowPlic'
        BY <4>1, BitsKept DEF WordsInv
      <4>3. int_status[d] # {} /\ plic_pending_irq' = plic_pending_irq
            /\ plic_served_irq' = plic_served_irq
        BY <3>2, <4>1 DEF plicVars
      <4>4. PlicTypeOK' /\ LineFollowsStatus'
        BY <2>1, <2>2, <3>2, <4>3
            DEF WordsInv, PlicTypeOK, LineFollowsStatus, VirtioTypeOK
      <4> QED BY <4>2, <4>4
    <3> QED BY <3>1, <3>2
  <2>4. int_status' \in [Devices -> SUBSET {"ring", "config"}]
    BY <2>1, <2>2 DEF WordsInv, VirtioTypeOK
  <2>5. rx_available' \in BOOLEAN /\ resize_pending' \in BOOLEAN
    BY <2>1, Zenon DEF WordsInv, VirtioTypeOK
  <2> QED BY <2>3, <2>4, <2>5 DEF WordsInv, VirtioTypeOK
<1>5. ASSUME NEW d \in Devices, ResetDevice(d) PROVE WordsInv'
  <2>1. PlicTypeOK' /\ LineFollowsStatus' /\ BitsFollowPlic'
    BY <1>5, LineMoves DEF ResetDevice
  <2>2. int_status' \in [Devices -> SUBSET {"ring", "config"}]
    BY <1>5 DEF ResetDevice, WordsInv, VirtioTypeOK
  <2>3. rx_available' \in BOOLEAN /\ resize_pending' \in BOOLEAN
    BY <1>5, Zenon DEF ResetDevice, WordsInv, VirtioTypeOK
  <2> QED BY <2>1, <2>2, <2>3 DEF WordsInv, VirtioTypeOK
<1>6. ASSUME NEW available \in BOOLEAN, SetReceiveQueue(available) PROVE WordsInv'
  <2>1. UNCHANGED <<int_status, resize_pending, plicVars, mip>> /\ rx_available' \in BOOLEAN
    BY <1>6 DEF SetReceiveQueue
  <2>2. BitsFollowPlic'
    BY <2>1, BitsKept DEF WordsInv
  <2>3. PlicTypeOK' /\ LineFollowsStatus'
    BY <2>1 DEF WordsInv, PlicTypeOK, LineFollowsStatus, plicVars
  <2>4. VirtioTypeOK'
    BY <2>1, Zenon DEF WordsInv, VirtioTypeOK
  <2> QED BY <2>2, <2>3, <2>4 DEF WordsInv
<1> QED BY <1>1, <1>2, <1>3, <1>4, <1>5, <1>6

\* A step that leaves the devices alone, and the external bits with them.
LEMMA WordsKept ==
    ASSUME WordsInv, UNCHANGED <<plicVars, int_status, rx_available>>,
           resize_pending' \in BOOLEAN,
           MEIP \in mip' <=> MEIP \in mip,
           GuestSparesSEIP => (SEIP \in mip' <=> SEIP \in mip)
    PROVE  WordsInv'
<1>1. BitsFollowPlic'
  BY BitsKept DEF WordsInv
<1>2. PlicTypeOK' /\ LineFollowsStatus'
  BY DEF WordsInv, PlicTypeOK, LineFollowsStatus, plicVars
<1>3. VirtioTypeOK'
  BY Zenon DEF WordsInv, VirtioTypeOK
<1> QED BY <1>1, <1>2, <1>3 DEF WordsInv

\* No step of the machine breaks the agreement.
LEMMA WordsStep ==
    ASSUME TypeOK, WordsInv, [MachineNext]_machineVars
    PROVE  WordsInv'
<1>0. resize_pending \in BOOLEAN
  BY DEF WordsInv, VirtioTypeOK
<1>1. CASE TimerTurn
  <2>1. UNCHANGED <<plicVars, int_status, rx_available, resize_pending>>
    BY <1>1 DEF TimerTurn, deviceVars, virtioVars
  <2>2. (MEIP \in mip' <=> MEIP \in mip) /\ (SEIP \in mip' <=> SEIP \in mip)
    BY <1>1 DEF TimerTurn, CheckTimer, set_mip, MEIP, SEIP, MTIP
  <2> QED BY <1>0, <2>1, <2>2, WordsKept
<1>2. CASE EventTurn
  BY <1>2, VirtioWords DEF EventTurn
<1>3. CASE HartTurn
  <2>1. UNCHANGED <<plicVars, int_status, rx_available, resize_pending>>
    BY <1>3 DEF HartTurn, deviceVars, virtioVars
  <2> QED BY <1>0, <1>3, <2>1, HartKeepsMEIP, WordsKept DEF HartTurn
<1>4. CASE ClintAccess
  <2>1. UNCHANGED <<plicVars, int_status, rx_available, resize_pending>>
    BY <1>4 DEF ClintAccess, virtioVars
  <2>2. (MEIP \in mip' <=> MEIP \in mip) /\ (SEIP \in mip' <=> SEIP \in mip)
    BY <1>4 DEF ClintAccess, clint_write_low, clint_write_high, clint_write_both, reset_mip,
        MEIP, SEIP, MTIP
  <2> QED BY <1>0, <2>1, <2>2, WordsKept
<1>5. CASE PlicAccess
  <2>1. UNCHANGED <<int_status, rx_available, resize_pending>> /\ plic_pending_irq' = plic_pending_irq
    BY <1>5 DEF PlicAccess, plic_claim, plic_complete, virtioVars
  <2>2. BitsFollowPlic'
    BY <1>5, UpdateSetsBits DEF PlicAccess, plic_claim, plic_complete
  <2>3. PlicTypeOK'
    BY <1>5, <2>1 DEF PlicAccess, plic_claim, plic_complete, WordsInv, PlicTypeOK
  <2>4. LineFollowsStatus' /\ VirtioTypeOK'
    BY <2>1, Zenon DEF WordsInv, LineFollowsStatus, VirtioTypeOK
  <2> QED BY <2>2, <2>3, <2>4 DEF WordsInv
<1>6. CASE VirtioAccess
  <2>1. UsedDevices \subseteq Devices
    BY MachineAssumption
  <2> QED BY <1>6, <2>1, VirtioWords DEF VirtioAccess
<1>7. CASE ClockTick \/ UNCHANGED machineVars
  <2>1. UNCHANGED <<plicVars, int_status, rx_available, resize_pending, mip>>
    BY <1>7 DEF ClockTick, machineVars, deviceVars, virtioVars, vars, irqState
  <2> QED BY <1>0, <2>1, WordsKept
<1>8. CASE Winch
  <2>1. UNCHANGED <<plicVars, int_status, rx_available, mip>> /\ resize_pending' = TRUE
    BY <1>8 DEF Winch, term_resize_handler, vars, irqState
  <2> QED BY <2>1, WordsKept
<1> QED BY <1>1, <1>2, <1>3, <1>4, <1>5, <1>6, <1>7, <1>8 DEF MachineNext, LoopStep

\* At reset nothing is pending anywhere.
LEMMA WordsInit ==
    ASSUME MachineInit
    PROVE  WordsInv
<1> USE DEF MachineInit, Init, PlicInit, VirtioInit
<1>1. PlicTypeOK
  BY DEF PlicTypeOK
<1>2. VirtioTypeOK
  <2>1. int_status \in [Devices -> SUBSET {"ring", "config"}]
    OBVIOUS
  <2>2. rx_available \in BOOLEAN /\ resize_pending \in BOOLEAN
    OBVIOUS
  <2> QED BY <2>1, <2>2 DEF VirtioTypeOK
<1>3. LineFollowsStatus
  BY DEF LineFollowsStatus
<1>4. BitsFollowPlic
  BY MachineAssumption DEF BitsFollowPlic, ExternalBitFollowsPlic, SupervisorBitFollowsPlic,
      Claimable
<1> QED BY <1>1, <1>2, <1>3, <1>4 DEF WordsInv

\* The hart's invariant and the agreement of the words hold of the machine.
THEOREM MachineInvariant == MachineSpec => [](HartInv /\ WordsInv)
<1>1. MachineInit => HartInv /\ WordsInv
  BY InitInv, WordsInit DEF MachineInit
<1>2. HartInv /\ WordsInv /\ [MachineNext]_machineVars => HartInv' /\ WordsInv'
  <2>1. HartInv /\ [Next]_vars => HartInv'
    BY HartStepInv, PeripheralInv, StutterInv DEF Next
  <2> QED BY <2>1, StepRefines, WordsStep DEF HartInv
<1> QED BY <1>1, <1>2, PTL DEF MachineSpec

\* No order of claims, completions and device events leaves MEIP stale.
THEOREM ExternalBitCorrect == MachineSpec => []ExternalBitFollowsPlic
BY MachineInvariant, PTL DEF WordsInv, BitsFollowPlic

\* No order of completions, acknowledgements, resizes and resets separates a line
\* from the status word behind it.
THEOREM LineCorrect == MachineSpec => []LineFollowsStatus
BY MachineInvariant, PTL DEF WordsInv

\* While the guest gives SEIP back as it reads it, the S-mode bit is exact too.
THEOREM SupervisorBitCorrect ==
    ASSUME GuestSparesSEIP
    PROVE  MachineSpec => []SupervisorBitFollowsPlic
<1>1. WordsInv => SupervisorBitFollowsPlic
  BY DEF WordsInv, BitsFollowPlic
<1> QED BY <1>1, MachineInvariant, PTL

\* And no hart sleeps over an enabled interrupt that a device has raised.
THEOREM SleepIsQuiet ==
    ASSUME GuestSparesSEIP
    PROVE  MachineSpec => []SleepsOnlyWhenQuiet
<1>1. HartInv /\ WordsInv => SleepsOnlyWhenQuiet
  BY DEF HartInv, SleepingHasNoWakeup, WordsInv, BitsFollowPlic, SupervisorBitFollowsPlic,
      LineFollowsStatus, Claimable, SleepsOnlyWhenQuiet
<1> QED BY <1>1, MachineInvariant, PTL

-----------------------------------------------------------------------------
(* The clock and the deadline.                                             *)

ClockTypeOK == now \in 0 .. MaxTime /\ mtimecmp \in 0 .. Range - 1

\* Whichever half the guest stores, the deadline stays a word.
LEMMA ClintWord ==
    ASSUME ClockTypeOK, ClintAccess
    PROVE  mtimecmp' \in 0 .. Range - 1
<1>1. PICK d \in Deadlines :
        \/ clint_write_low(d % Half)
        \/ clint_write_high(d \div Half)
        \/ clint_write_both(d % Half, d \div Half)
  BY DEF ClintAccess
<1>2. d \in 0 .. Range - 1 /\ mtimecmp \in 0 .. Range - 1
  BY MachineAssumption DEF ClockTypeOK
<1>3. CASE clint_write_low(d % Half)
  BY <1>2, <1>3, HalvesOfWord, HalfAssumption DEF clint_write_low, Range
<1>4. CASE clint_write_high(d \div Half)
  BY <1>2, <1>4, HalvesOfWord, JoinBound, HalfAssumption DEF clint_write_high, Range
<1>5. CASE clint_write_both(d % Half, d \div Half)
  BY <1>2, <1>5, HalvesOfWord, JoinBound, HalfAssumption DEF clint_write_both, Range
<1> QED BY <1>1, <1>3, <1>4, <1>5

LEMMA ClockStep ==
    ASSUME ClockTypeOK, [MachineNext]_machineVars
    PROVE  ClockTypeOK'
<1>1. CASE ClintAccess
  BY <1>1, ClintWord DEF ClintAccess, ClockTypeOK
<1>2. CASE ClockTick
  BY <1>2, MachineAssumption DEF ClockTick, Tick, ClockTypeOK
<1>3. CASE TimerTurn \/ EventTurn \/ HartTurn \/ PlicAccess \/ VirtioAccess \/ Winch
           \/ UNCHANGED machineVars
  BY <1>3 DEF TimerTurn, EventTurn, HartTurn, PlicAccess, VirtioAccess, Winch, machineVars,
      deviceVars, clintVars, ClockTypeOK
<1> QED BY <1>1, <1>2, <1>3 DEF MachineNext, LoopStep

\* Every word of the machine keeps its range, whatever the guest stores.
THEOREM MachineTypeCorrect == MachineSpec => []MachineTypeOK
<1>1. MachineInit => ClockTypeOK
  BY MachineAssumption, HalfAssumption DEF MachineInit, ClintInit, ClockTypeOK, Range
<1>2. ClockTypeOK /\ [MachineNext]_machineVars => ClockTypeOK'
  BY ClockStep
<1>3. HartInv /\ WordsInv /\ ClockTypeOK => MachineTypeOK
  BY DEF HartInv, WordsInv, ClockTypeOK, MachineTypeOK
<1> QED BY <1>1, <1>2, <1>3, MachineInvariant, PTL DEF MachineSpec
=============================================================================
