----------------------------- MODULE VirtioIrq ------------------------------
(***************************************************************************)
(* The interrupt side of the two virtio devices of                         *)
(* src/virtio_interface.c: the INTERRUPT_STATUS word, the line to the PLIC *)
(* and the events that move them.  The queues are reduced to what decides  *)
(* an interrupt: whether a notification completed a request, and whether   *)
(* the console has receive buffers.                                        *)
(***************************************************************************)
EXTENDS Plic

Console == "console"
Block == "block"
Devices == {Console, Block}

\* main hands out the sources from VIRTIO_IRQ = 1.
IrqOf(d) == IF d = Console THEN 1 ELSE 2

ASSUME DeviceSources == Sources = {1, 2}

VARIABLES
    int_status,       \* per device, a subset of {"ring", "config"}
    rx_available,     \* queue 0 of the console is ready and has buffers
    resize_pending    \* SIGWINCH has arrived and has not been reported

virtioVars == <<int_status, rx_available, resize_pending>>

VirtioInit ==
    /\ int_status = [d \in Devices |-> {}]
    /\ rx_available = FALSE
    /\ resize_pending = TRUE

\* virtual_consume_desc, for every request the notification completes.
CompleteRequests(d) ==
    /\ int_status' = [int_status EXCEPT ![d] = @ \union {"ring"}]
    /\ plic_set_irq(IrqOf(d), TRUE)
    /\ UNCHANGED <<rx_available, resize_pending>>

\* Mutant: any acknowledgement takes the line down.
Acknowledge_DropsLine(d, bits) ==
    /\ int_status' = [int_status EXCEPT ![d] = @ \ bits]
    /\ plic_set_irq(IrqOf(d), FALSE)
    /\ UNCHANGED <<rx_available, resize_pending>>

\* A write to INTERRUPT_ACK.
Acknowledge(d, bits) ==
    /\ int_status' = [int_status EXCEPT ![d] = @ \ bits]
    /\ IF int_status'[d] = {}
       THEN plic_set_irq(IrqOf(d), FALSE)
       ELSE UNCHANGED <<plicVars, mip, power_down_flag>>
    /\ UNCHANGED <<rx_available, resize_pending>>

\* A write of 0 to STATUS: the line drops and virtual_io_reset clears the rest.
ResetDevice(d) ==
    /\ int_status' = [int_status EXCEPT ![d] = {}]
    /\ plic_set_irq(IrqOf(d), FALSE)
    /\ rx_available' = (rx_available /\ d # Console)
    /\ UNCHANGED resize_pending

\* The guest makes receive buffers available, or takes queue 0 away.
SetReceiveQueue(available) ==
    /\ rx_available' = available
    /\ UNCHANGED <<int_status, resize_pending, plicVars, mip, power_down_flag>>

\* The handler of SIGWINCH.
term_resize_handler ==
    /\ resize_pending' = TRUE
    /\ UNCHANGED <<int_status, rx_available>>

\* machine_loop reports a pending resize once the console can take data.
ReportResize ==
    IF rx_available /\ resize_pending
    THEN /\ int_status' = [int_status EXCEPT ![Console] = @ \union {"config"}]
         /\ resize_pending' = FALSE
         /\ plic_set_irq(IrqOf(Console), TRUE)
         /\ UNCHANGED rx_available
    ELSE UNCHANGED <<virtioVars, plicVars, mip, power_down_flag>>

-----------------------------------------------------------------------------
VirtioTypeOK ==
    /\ int_status \in [Devices -> SUBSET {"ring", "config"}]
    /\ rx_available \in BOOLEAN /\ resize_pending \in BOOLEAN

\* The line of a device is up exactly while it has a reason the driver has not
\* acknowledged: an acknowledgement that races with another event of the same
\* device leaves the line up, and a reset takes it down.
LineFollowsStatus ==
    \A d \in Devices : IrqOf(d) \in plic_pending_irq <=> int_status[d] # {}
=============================================================================
