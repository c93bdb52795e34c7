------------------------------ MODULE Machine -------------------------------
(***************************************************************************)
(* The emulator: the hart of Hart with the CLINT, the PLIC and the virtio  *)
(* devices in place of its abstract peripherals.  All of it runs in the    *)
(* one thread that calls machine_loop; only the clock and the signal       *)
(* handler of the console act on their own.                                *)
(***************************************************************************)
EXTENDS Hart, Clint, VirtioIrq

CONSTANTS
    Deadlines,         \* the values the guest programs into mtimecmp
    MaxTime,           \* bound: the clock stops here
    UsedDevices,       \* the virtio devices the guest drives
    GuestSparesSEIP    \* every write of sip gives SEIP back as it was read

ASSUME MachineAssumption ==
    /\ Deadlines \subseteq 0 .. Range - 1
    /\ MaxTime \in Nat /\ 2 * MaxTime < Range   \* the clock does not run for 2^63 ticks
    /\ UsedDevices \subseteq Devices
    /\ GuestSparesSEIP \in BOOLEAN

deviceVars == <<clintVars, plicVars, virtioVars>>
machineVars == <<vars, deviceVars>>

MachineInit == Init /\ ClintInit /\ PlicInit /\ VirtioInit

\* The turn of machine_loop, with the devices it consults.
TimerTurn ==
    /\ step = "timer" /\ step' = "events"
    /\ CheckTimer
    /\ UNCHANGED <<control, deviceVars>>

EventTurn ==
    /\ step = "events" /\ step' = "irq"
    /\ ReportResize
    /\ UNCHANGED <<control, clintVars>>

\* csrs and csrc on another bit of sip write SEIP back as it was; csrw need not.
HartTurn ==
    /\ HartStep
    /\ GuestSparesSEIP => (SEIP \in mip' <=> SEIP \in mip)
    /\ UNCHANGED deviceVars

\* A load or store of the guest that a device answers.
Access ==
    /\ Exec
    /\ pc' = Plus4[pc]
    /\ UNCHANGED <<mepc, sepc, priv, xlen, mxl, mstatus, mie, delegation>>

ClintAccess ==
    /\ Access
    /\ \E d \in Deadlines :
          \/ clint_write_low(d % Half)
          \/ clint_write_high(d \div Half)
          \/ clint_write_both(d % Half, d \div Half)
    /\ UNCHANGED <<now, plicVars, virtioVars>>

PlicAccess ==
    /\ Access
    /\ \E i \in Sources : plic_claim(i) \/ plic_complete(i)
    /\ UNCHANGED <<clintVars, virtioVars>>

VirtioAccess ==
    /\ Access
    /\ \E d \in UsedDevices :
          \/ CompleteRequests(d)
          \/ \E bits \in SUBSET {"ring", "config"} : Acknowledge(d, bits)
          \/ ResetDevice(d)
          \/ d = Console /\ \E available \in BOOLEAN : SetReceiveQueue(available)
    /\ UNCHANGED clintVars

\* What happens outside the thread.
ClockTick ==
    /\ now < MaxTime
    /\ Tick
    /\ UNCHANGED <<vars, plicVars, virtioVars>>

Winch ==
    /\ term_resize_handler
    /\ UNCHANGED <<vars, clintVars, plicVars>>

LoopStep == TimerTurn \/ EventTurn \/ HartTurn \/ ClintAccess \/ PlicAccess \/ VirtioAccess

MachineNext == LoopStep \/ ClockTick \/ Winch

\* The thread keeps turning and the clock keeps running.
MachineSpec ==
    MachineInit /\ [][MachineNext]_machineVars
        /\ WF_machineVars(LoopStep) /\ WF_machineVars(ClockTick)

-----------------------------------------------------------------------------
\* The devices keep their words: no source is served that has no device, and the
\* clock and the deadline stay inside a word.
MachineTypeOK ==
    /\ TypeOK /\ PlicTypeOK /\ VirtioTypeOK
    /\ now \in 0 .. MaxTime /\ mtimecmp \in 0 .. Range - 1

\* The machine is an implementation of the hart with abstract peripherals: the
\* safety part of Hart, so that whatever Hart promises the machine keeps.
HartSafety == Init /\ [][Next]_vars

\* Both external bits follow the PLIC, as long as the guest does not overwrite
\* SEIP through sip: no claim, completion or device event leaves one stale.
SupervisorBitFollowsPlic == SEIP \in mip <=> Claimable # {}

\* Everything a sleeping hart may wait for has been looked at: nothing enabled
\* is pending in a device that the hart has not been told of.
SleepsOnlyWhenQuiet ==
    power_down_flag => ~(SEIP \in mie /\ \E d \in Devices :
                            int_status[d] # {} /\ IrqOf(d) \notin plic_served_irq)

\* A hart that sleeps with the timer enabled is woken, whatever the devices do.
TimerWakesSleeper == power_down_flag /\ MTIP \in mie ~> ~power_down_flag
=============================================================================
