---------------------------- MODULE TimerProofs -----------------------------
(***************************************************************************)
(* Theorems about Timer, for every width of a half, every set of deadlines *)
(* and every bound of the clock: the word keeps the deadline, the          *)
(* interrupt is not early and a load of the clock does not lie behind.     *)
(***************************************************************************)
EXTENDS Timer, DivMod

\* Between the two halves of a deadline the word holds the low one, so that the
\* store of the high half completes the deadline.
HalfKept == low_written => mtimecmp = want % Half

\* A load under way holds the low half of the clock as it was when it began.
LoadKept == load.busy => load.value = load.since % Half

TimerInv ==
    /\ TimerTypeOK
    /\ load \in [busy : BOOLEAN, since : Nat, value : Nat]
    /\ DeadlineKept /\ HalfKept
    /\ TimerNotEarly
    /\ LoadKept /\ MtimeNeverBehind

\* A word is a number.
LEMMA RangeIsNat == Range \in Nat /\ Range > 0
BY HalfAssumption DEF Range

\* The signed comparison is the comparison of numbers while neither the clock nor
\* the deadline reaches half the range.
LEMMA DueMeansPassed ==
    ASSUME mtimecmp \in 0 .. MaxTime, now \in 0 .. MaxTime
    PROVE  TimerDue <=> now >= mtimecmp
<1> DEFINE delay == (mtimecmp + (Range - now)) % Range
<1>1. CASE now >= mtimecmp
  <2>1. CASE now = mtimecmp
    <3>1. delay = 0
      BY <2>1, RangeIsNat, DeadlineAssumption
    <3> QED BY <2>1, <3>1 DEF TimerDue
  <2>2. CASE now > mtimecmp
    <3>1. delay = mtimecmp + (Range - now)
      BY <2>2, RangeIsNat, DeadlineAssumption
    <3> QED BY <2>2, <3>1, RangeIsNat, DeadlineAssumption DEF TimerDue
  <2> QED BY <1>1, <2>1, <2>2
<1>2. CASE now < mtimecmp
  <2>1. delay = mtimecmp - now
    <3>1. mtimecmp + (Range - now) = Range + (mtimecmp - now)
      BY RangeIsNat, DeadlineAssumption
    <3> QED BY <1>2, <3>1, RangeIsNat, DeadlineAssumption
  <2> QED BY <1>2, <2>1, RangeIsNat, DeadlineAssumption DEF TimerDue
<1> QED BY <1>1, <1>2, DeadlineAssumption

-----------------------------------------------------------------------------
(* The operations of the CLINT.                                            *)

\* The timer bit comes and goes as the comparison says.
LEMMA CheckTimerMeans ==
    ASSUME CheckTimer
    PROVE  mip' = IF TimerDue THEN mip \union {MTIP} ELSE mip
BY DEF CheckTimer, set_mip

\* The deadlines of the driver are words, and so are their halves.
LEMMA DeadlineHalves ==
    ASSUME NEW d \in 0 .. MaxTime
    PROVE  /\ d \in 0 .. Range - 1
           /\ d \div Half \in Nat /\ d \div Half < Half
           /\ d % Half \in Nat /\ d % Half < Half /\ d % Half \in 0 .. Range - 1
           /\ ((d \div Half) * Half) + (d % Half) = d
<1>1. d \in 0 .. Range - 1
  BY RangeIsNat, DeadlineAssumption
<1> QED BY <1>1, HalvesOfWord, HalfAssumption DEF Range

\* What a doubleword load returns: the low half as it was when the load began, the
\* high half as it is now.
LEMMA LoadEnds ==
    ASSUME NEW since \in 0 .. now, now \in 0 .. MaxTime
    PROVE  /\ (since % Half) + (Half * (now \div Half)) \in 0 .. Range - 1
           /\ (since % Half) + (Half * (now \div Half)) >= since
<1>1. since \in 0 .. MaxTime
  BY DeadlineAssumption
<1>2. (since \div Half) * Half <= (now \div Half) * Half
  BY <1>1, DivMonotone, HalfAssumption, DeadlineAssumption
<1>3. ((now \div Half) * Half) + (since % Half) \in 0 .. Range - 1
  BY <1>1, DeadlineHalves, JoinBound, HalfAssumption DEF Range
<1>4. Half * (now \div Half) = (now \div Half) * Half
  BY DeadlineHalves, HalfAssumption
<1> HIDE DEF Range
<1> QED BY <1>1, <1>2, <1>3, <1>4, DeadlineHalves, HalfAssumption, RangeIsNat

-----------------------------------------------------------------------------
(* The invariant.                                                          *)

LEMMA InitInv == TimerInit => TimerInv
<1> SUFFICES ASSUME TimerInit PROVE TimerInv
  OBVIOUS
<1>1. load = [busy |-> FALSE, since |-> 0, value |-> 0]
  BY DEF TimerInit
<1>2. load \in [busy : BOOLEAN, since : Nat, value : Nat] /\ load.busy = FALSE
     /\ load.since = 0 /\ load.value = 0
  BY <1>1
<1>3. 0 \in 0 .. Range - 1 /\ 0 \in 0 .. MaxTime /\ 0 \in 0 .. 0
  BY RangeIsNat, DeadlineAssumption
<1>4. TimerTypeOK
  BY <1>2, <1>3 DEF TimerInit, ClintInit, TimerTypeOK
<1>5. DeadlineKept /\ HalfKept /\ TimerNotEarly
  BY DEF TimerInit, ClintInit, DeadlineKept, HalfKept, TimerNotEarly
<1>6. LoadKept /\ MtimeNeverBehind
  BY <1>2 DEF LoadKept, MtimeNeverBehind
<1> QED BY <1>2, <1>4, <1>5, <1>6 DEF TimerInv

\* The comparison of machine_loop.  Between two halves of a deadline it may raise
\* the bit for no deadline at all: the store of the high half takes it back.
LEMMA CompareInv ==
    ASSUME TimerInv, Compare
    PROVE  TimerInv'
<1>1. UNCHANGED <<mie, now, mtimecmp, want, low_written, load>> /\ CheckTimer
  BY DEF Compare, clintVars
<1>2. mip' \in SUBSET {MTIP} /\ power_down_flag' \in BOOLEAN
  BY <1>1, CheckTimerMeans DEF CheckTimer, set_mip, TimerInv, TimerTypeOK
<1>3. TimerNotEarly'
  <2> SUFFICES ASSUME ~low_written, MTIP \in mip' PROVE now >= want
    BY <1>1 DEF TimerNotEarly
  <2>1. mtimecmp = want /\ want \in 0 .. MaxTime /\ now \in 0 .. MaxTime
    BY DEF TimerInv, DeadlineKept, TimerTypeOK
  <2>2. MTIP \in mip \/ TimerDue
    BY <1>1, CheckTimerMeans
  <2> QED BY <2>1, <2>2, DueMeansPassed DEF TimerInv, TimerNotEarly
<1> QED BY <1>1, <1>2, <1>3 DEF TimerInv, TimerTypeOK, DeadlineKept, HalfKept, LoadKept, MtimeNeverBehind

\* Time passes: what was due stays due, and a load that began before now still did.
LEMMA ElapseInv ==
    ASSUME TimerInv, Elapse
    PROVE  TimerInv'
BY DeadlineAssumption DEF Elapse, Tick, irqState, TimerInv, TimerTypeOK, DeadlineKept,
    HalfKept, TimerNotEarly, LoadKept, MtimeNeverBehind

\* A store to the deadline clears the interrupt of the old one.
LEMMA StoreInv ==
    ASSUME TimerInv,
           (\E d \in Deadlines : StoreDoubleword(d) \/ StoreLow(d)) \/ StoreHigh
    PROVE  TimerInv'
<1> USE DEF TimerInv, TimerTypeOK, DeadlineKept, HalfKept, TimerNotEarly, LoadKept, MtimeNeverBehind,
        reset_mip
<1>1. ASSUME NEW d \in Deadlines, StoreDoubleword(d) PROVE TimerInv'
  <2>1. d \in 0 .. MaxTime
    BY DeadlineAssumption
  <2>2. mtimecmp' = d
    BY <1>1, <2>1, DeadlineHalves DEF StoreDoubleword, clint_write_both
  <2> QED BY <1>1, <2>1, <2>2, DeadlineHalves DEF StoreDoubleword, clint_write_both
<1>2. ASSUME NEW d \in Deadlines, StoreLow(d) PROVE TimerInv'
  <2>1. d \in 0 .. MaxTime
    BY DeadlineAssumption
  <2> QED BY <1>2, <2>1, DeadlineHalves DEF StoreLow, clint_write_low
<1>3. CASE StoreHigh
  <2>1. mtimecmp' = ((want \div Half) * Half) + ((want % Half) % Half)
    BY <1>3 DEF StoreHigh, clint_write_high
  <2>2. (want % Half) % Half = want % Half
    BY DeadlineHalves, HalfAssumption
  <2>3. mtimecmp' = want
    BY <2>1, <2>2, DeadlineHalves
  <2> QED BY <1>3, <2>3, DeadlineHalves DEF StoreHigh, clint_write_high
<1> QED BY <1>1, <1>2, <1>3

\* A load of the clock.
LEMMA LoadInv ==
    ASSUME TimerInv, BeginLoad \/ EndLoad
    PROVE  TimerInv'
<1> USE DEF TimerInv, TimerTypeOK, DeadlineKept, HalfKept, TimerNotEarly, LoadKept, MtimeNeverBehind,
        irqState, clintVars, clint_read, clint_read_sub
<1>1. CASE BeginLoad
  <2>1. now % Half \in 0 .. Range - 1 /\ now % Half \in Nat /\ now \in Nat
    BY DeadlineHalves, DeadlineAssumption
  <2> QED BY <1>1, <2>1 DEF BeginLoad
<1>2. CASE EndLoad
  <2>1. load' = [load EXCEPT !.busy = FALSE, !.value = (load.since % Half) + (Half * (now \div Half))]
    BY <1>2 DEF EndLoad
  <2>2. /\ (load.since % Half) + (Half * (now \div Half)) \in 0 .. Range - 1
        /\ (load.since % Half) + (Half * (now \div Half)) >= load.since
    BY LoadEnds
  <2> DEFINE value == (load.since % Half) + (Half * (now \div Half))
  <2>3. load \in [busy : BOOLEAN, since : Nat, value : Nat] /\ value \in Nat
    BY <2>2, RangeIsNat
  <2>4. load' = [load EXCEPT !.busy = FALSE, !.value = value]
    BY <2>1
  <2>5. load'.busy = FALSE /\ load'.since = load.since /\ load'.value = value
        /\ load' \in [busy : BOOLEAN, since : Nat, value : Nat]
    <3> HIDE DEF value
    <3> QED BY <2>3, <2>4
  <2> HIDE DEF clint_read, clint_read_sub
  <2> QED BY <1>2, <2>2, <2>5 DEF EndLoad
<1> QED BY <1>1, <1>2

\* What the guest does otherwise.
LEMMA GuestInv ==
    ASSUME TimerInv,
           EnableTimer({}) \/ EnableTimer({MTIP}) \/ Sleep \/ UNCHANGED timerVars
    PROVE  TimerInv'
<1>1. power_down_flag' \in BOOLEAN
  BY DEF EnableTimer, Sleep, timerVars, irqState, TimerInv, TimerTypeOK
<1>2. mie' \in SUBSET {MTIP}
  BY DEF EnableTimer, Sleep, timerVars, irqState, TimerInv, TimerTypeOK
<1> QED BY <1>1, <1>2 DEF EnableTimer, Sleep, timerVars, irqState, clintVars, TimerInv, TimerTypeOK, DeadlineKept,
    HalfKept, TimerNotEarly, LoadKept, MtimeNeverBehind

-----------------------------------------------------------------------------
(* The theorems.                                                           *)

LEMMA TimerInvariant == TimerSpec => []TimerInv
<1>1. TimerInv /\ [TimerNext]_timerVars => TimerInv'
  BY CompareInv, ElapseInv, StoreInv, LoadInv, GuestInv DEF TimerNext
<1> QED BY InitInv, <1>1, PTL DEF TimerSpec

\* The words of the timer stay words, and the clock within its bound.
THEOREM TimerTypeCorrect == TimerSpec => []TimerTypeOK
BY TimerInvariant, PTL DEF TimerInv

\* Once both halves are stored the word holds the deadline the driver asked for.
THEOREM DeadlineIsKept == TimerSpec => []DeadlineKept
BY TimerInvariant, PTL DEF TimerInv

\* A pending timer interrupt is never early and never that of an older deadline.
THEOREM TimerIsNotEarly == TimerSpec => []TimerNotEarly
BY TimerInvariant, PTL DEF TimerInv

\* A load of mtime never returns a time before it began.
THEOREM MtimeIsNotBehind == TimerSpec => []MtimeNeverBehind
BY TimerInvariant, PTL DEF TimerInv
=============================================================================
