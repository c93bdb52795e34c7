------------------------------- MODULE Clint --------------------------------
(***************************************************************************)
(* The timer of src/clint.c and its comparison in                          *)
(* machine_get_sleep_duration of src/regs.c.  Time and the deadline are    *)
(* unsigned words of two halves; the guest writes the deadline one half    *)
(* at a time, or both with one doubleword store.  The code's half is 32    *)
(* bits wide; Half is the number of values of one.                         *)
(***************************************************************************)
EXTENDS Mip

CONSTANT Half

ASSUME HalfAssumption == Half \in Nat \ {0}

VARIABLES
    now,        \* rtc_get_time: ticks since the emulator started
    mtimecmp    \* the deadline

clintVars == <<now, mtimecmp>>

Range == Half * Half

ClintInit == now = 0 /\ mtimecmp = 0

\* Mutant: a deadline that is reached exactly has not passed.
TimerDue_Strict == 2 * ((mtimecmp + (Range - now)) % Range) >= Range

\* The code takes the difference as a signed number: the deadline has passed
\* when it is zero or its sign bit is set.
TimerDue ==
    LET delay == (mtimecmp + (Range - now)) % Range
    IN  delay = 0 \/ 2 * delay >= Range

\* Mutant: the bit of the S-mode timer is raised.
CheckTimer_STIP ==
    IF TimerDue THEN set_mip({STIP}) ELSE UNCHANGED <<mip, power_down_flag>>

\* machine_get_sleep_duration as far as mip is concerned.
CheckTimer ==
    IF MTIP \notin mip /\ TimerDue
    THEN set_mip({MTIP})
    ELSE UNCHANGED <<mip, power_down_flag>>

\* A store to the low half.  The mask ~0xffffffff is a 32-bit constant of
\* value 0, so the high half is cleared, not kept.
clint_write_low(value) ==
    /\ mtimecmp' = value
    /\ reset_mip({MTIP})

\* Mutant: the low half is cleared.
clint_write_high_DropsLow(value) == mtimecmp' = value * Half /\ reset_mip({MTIP})

clint_write_high(value) ==
    /\ mtimecmp' = (value * Half) + (mtimecmp % Half)
    /\ reset_mip({MTIP})

\* Mutant: the interrupt of the old deadline stays pending.
clint_write_both_KeepsMtip(low, high) ==
    mtimecmp' = (high * Half) + low /\ UNCHANGED <<mip, power_down_flag>>

\* A doubleword store writes the low half and then the high half.
clint_write_both(low, high) ==
    /\ mtimecmp' = (high * Half) + low
    /\ reset_mip({MTIP})

\* A load of one half of mtime.
clint_read_sub(half) == IF half = "low" THEN now % Half ELSE Half * (now \div Half)

\* Mutant: the halves of a doubleword are loaded downwards.
clint_read_Downwards == <<"high", "low">>

\* A doubleword load reads the clock once for each half, upwards.
clint_read == <<"low", "high">>

Tick == now' = now + 1 /\ UNCHANGED mtimecmp
=============================================================================
