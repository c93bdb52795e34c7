-------------------------------- MODULE Mip ---------------------------------
(***************************************************************************)
(* The interrupt-pending word of the hart and the three operations of      *)
(* src/regs.h through which the peripherals reach it.  The CLINT, the PLIC *)
(* and the hart itself share these variables.  A word is the set of the    *)
(* numbers of its bits.                                                    *)
(***************************************************************************)
EXTENDS Naturals

SSIP == 1
MSIP == 3
STIP == 5
MTIP == 7
SEIP == 9
MEIP == 11

VARIABLES
    mie, mip,         \* interrupts enabled and pending
    power_down_flag   \* the hart sleeps in WFI

irqState == <<mie, mip, power_down_flag>>

\* Mutant: a peripheral raises its bits without waking the hart.
set_mip_NoWake(bits) == mip' = mip \union bits /\ UNCHANGED power_down_flag

\* Bits raised by the peripherals wake the hart when one of them is enabled.
set_mip(bits) ==
    /\ mip' = mip \union bits
    /\ power_down_flag' = (power_down_flag /\ mip' \intersect mie = {})

reset_mip(bits) ==
    /\ mip' = mip \ bits
    /\ UNCHANGED power_down_flag
=============================================================================
