------------------------------- MODULE Timer --------------------------------
(***************************************************************************)
(* The timer as a guest uses it: a driver that programs deadlines, a hart  *)
(* that may sleep until the interrupt, and machine_loop, which compares.   *)
(*                                                                         *)
(* The driver is not part of the emulator.  It stores a deadline with one  *)
(* doubleword store, or the low half and then the high half.  want is the  *)
(* deadline it has asked for and low_written whether the high half of it   *)
(* is still to come.  It reads the clock with doubleword loads; load is    *)
(* what the device has done of one, and the clock runs on in between.      *)
(***************************************************************************)
EXTENDS Clint

CONSTANTS
    Deadlines,   \* what the driver asks for
    MaxTime      \* bound: the clock stops here

\* The comparison is signed, so a deadline further away than half the range has
\* "passed" already; the driver asks for no such deadline.
ASSUME DeadlineAssumption ==
    /\ Deadlines \subseteq 0 .. MaxTime
    /\ MaxTime \in Nat
    /\ 2 * MaxTime < Range

VARIABLES
    want, low_written,
    load    \* the load of mtime: whether it is under way, when it began, its value

timerVars == <<irqState, clintVars, want, low_written, load>>

TimerInit ==
    /\ ClintInit
    /\ mie = {} /\ mip = {} /\ power_down_flag = FALSE
    /\ want = 0 /\ low_written = FALSE
    /\ load = [busy |-> FALSE, since |-> 0, value |-> 0]

\* machine_loop compares on every turn, asleep or not.
Compare ==
    /\ ~load.busy
    /\ CheckTimer
    /\ UNCHANGED <<mie, clintVars, want, low_written, load>>

Elapse ==
    /\ now < MaxTime
    /\ Tick
    /\ UNCHANGED <<irqState, want, low_written, load>>

\* The guest runs only when it is awake, one instruction at a time.
Running == ~power_down_flag /\ ~load.busy

BeginLoad ==
    /\ Running
    /\ load' = [busy |-> TRUE, since |-> now, value |-> clint_read_sub(clint_read[1])]
    /\ UNCHANGED <<irqState, clintVars, want, low_written>>

EndLoad ==
    /\ load.busy
    /\ load' = [load EXCEPT !.busy = FALSE, !.value = @ + clint_read_sub(clint_read[2])]
    /\ UNCHANGED <<irqState, clintVars, want, low_written>>

StoreDoubleword(d) ==
    /\ Running /\ ~low_written
    /\ clint_write_both(d % Half, d \div Half)
    /\ want' = d
    /\ UNCHANGED <<mie, now, low_written, load>>

StoreLow(d) ==
    /\ Running /\ ~low_written
    /\ clint_write_low(d % Half)
    /\ want' = d /\ low_written' = TRUE
    /\ UNCHANGED <<mie, now, load>>

StoreHigh ==
    /\ Running /\ low_written
    /\ clint_write_high(want \div Half)
    /\ low_written' = FALSE
    /\ UNCHANGED <<mie, now, want, load>>

EnableTimer(bits) ==
    /\ Running
    /\ mie' = bits
    /\ UNCHANGED <<mip, power_down_flag, clintVars, want, low_written, load>>

\* WFI, between two deadlines.
Sleep ==
    /\ Running /\ ~low_written
    /\ mip \intersect mie = {}
    /\ power_down_flag' = TRUE
    /\ UNCHANGED <<mie, mip, clintVars, want, low_written, load>>

TimerNext ==
    \/ Compare
    \/ Elapse
    \/ \E d \in Deadlines : StoreDoubleword(d) \/ StoreLow(d)
    \/ StoreHigh
    \/ EnableTimer({}) \/ EnableTimer({MTIP})
    \/ Sleep
    \/ BeginLoad
    \/ EndLoad

\* Time passes, a load that has begun ends, and machine_loop turns, so that it
\* comes back to the comparison, whatever the guest does.
TimerSpec ==
    /\ TimerInit /\ [][TimerNext]_timerVars
    /\ SF_timerVars(Compare) /\ WF_timerVars(EndLoad) /\ WF_timerVars(Elapse)

-----------------------------------------------------------------------------
TimerTypeOK ==
    /\ now \in 0 .. MaxTime /\ want \in 0 .. MaxTime
    /\ mtimecmp \in 0 .. Range - 1
    /\ mie \in SUBSET {MTIP} /\ mip \in SUBSET {MTIP}
    /\ power_down_flag \in BOOLEAN /\ low_written \in BOOLEAN
    /\ load.busy \in BOOLEAN /\ load.since \in 0 .. now /\ load.value \in 0 .. Range - 1

\* The timer word holds the deadline the driver asked for once it has stored
\* both halves, whatever was left in it before.
DeadlineKept == ~low_written => mtimecmp = want

\* A pending timer interrupt is never early, and never the leftover of a
\* deadline that has since been moved: every store to the word clears MTIP.
TimerNotEarly == ~low_written /\ MTIP \in mip => now >= want

\* A deadline that has passed is announced, unless the driver moves it first.
TimerAnnounced ==
    ~low_written /\ now >= want ~> MTIP \in mip \/ low_written \/ now < want

\* A hart that sleeps with the timer enabled wakes up, however far the deadline.
SleeperWakes == power_down_flag /\ MTIP \in mie ~> ~power_down_flag

\* A load of mtime never returns a time before it began: when the clock carries
\* into the high half between the two reads, the torn value lies ahead of both.
MtimeNeverBehind == ~load.busy => load.value >= load.since
=============================================================================
