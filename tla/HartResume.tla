----------------------------- MODULE HartResume -----------------------------
(***************************************************************************)
(* What a trap promises to the code it interrupts: when the handler        *)
(* returns, the hart is as it was, unless the handler itself rewrote the   *)
(* saved state.  The promise spans many steps of machine_loop, and a       *)
(* handler of S mode may be interrupted any number of times by M mode in   *)
(* between.                                                                *)
(*                                                                         *)
(* Two history variables extend Hart.  mframe is the context that the last *)
(* trap to M interrupted, sframe the one that the last trap to S           *)
(* interrupted; each is None once software has rewritten the state it is   *)
(* kept in, or has returned through it.                                    *)
(***************************************************************************)
EXTENDS Hart

CONSTANT None

VARIABLES mframe, sframe

frames == <<mframe, sframe>>

\* The interrupted context, as it was before the trap.
Context == [priv |-> priv, pc |-> pc, enabled |-> priv \in ie, xlen |-> xlen]

\* The context an M handler must leave to an S handler it interrupted.
SupervisorFrame == <<spie, spp, sepc, PRIV_S \in ie>>

\* A trap to M may interrupt code of any level, and S state outlives it.
MContext == [priv |-> priv, pc |-> pc, enabled |-> priv \in ie, xlen |-> xlen,
             supervisor |-> SupervisorFrame]

RInit == Init /\ mframe = None /\ sframe = None

TrapWithFrame ==
    /\ Trap
    /\ IF priv' = PRIV_M
       THEN mframe' = MContext /\ UNCHANGED sframe
       ELSE sframe' = Context /\ UNCHANGED mframe

\* A handler that rewrites the saved state of a level gives up its frame.  The S
\* level state is also what an M handler must preserve, so an M handler that
\* writes it gives up both.
WriteSavedState ==
    /\ \/ \E v \in MstatusValues : WriteMstatus(v) \/ WriteSstatus(v)
       \/ \E a \in Addr : WriteSepc(a)
    /\ mframe' = None /\ sframe' = None

WriteSavedM ==
    /\ \/ \E a \in Addr : WriteMepc(a)
       \/ \E m \in 0 .. 3 : WriteMisa(m)
    /\ mframe' = None /\ UNCHANGED sframe

\* sret ends the S handler; executed by an M handler it also spoils the S state
\* that handler should have kept.
SretWithFrame ==
    /\ Sret
    /\ mframe' = None /\ sframe' = None

MretWithFrame ==
    /\ Mret
    /\ mframe' = None /\ UNCHANGED sframe

OtherWrite ==
    \/ \E bits \in SUBSET IrqBits :
          WriteMie(bits) \/ WriteSie(bits) \/ WriteMip(bits) \/ WriteSip(bits)
          \/ WriteMideleg(bits)
    \/ \E codes \in SUBSET ExcCodes : WriteMedeleg(codes)

RNext ==
    \/ TrapWithFrame
    \/ WriteSavedState
    \/ WriteSavedM
    \/ SretWithFrame
    \/ MretWithFrame
    \/ (SkipInterrupt \/ Compute \/ Wfi \/ OtherWrite \/ PeripheralStep) /\ UNCHANGED frames

rvars == <<vars, mframe, sframe>>

RSpec == RInit /\ [][RNext]_rvars

-----------------------------------------------------------------------------
\* An M handler that leaves mstatus, mepc, misa and the S state alone returns to
\* the instruction, privilege, interrupt enable and register width it
\* interrupted, and the S handler underneath finds its own saved state intact.
MretResumes ==
    [][ MretWithFrame /\ mframe # None =>
          /\ mframe = [priv |-> priv', pc |-> pc', enabled |-> priv' \in ie', xlen |-> xlen',
                       supervisor |-> mframe.supervisor]
          /\ SupervisorFrame' = mframe.supervisor ]_rvars

\* The same for an S handler, whatever traps to M were taken and returned from
\* while it ran.
SretResumes ==
    [][ SretWithFrame /\ sframe # None =>
          sframe = [priv |-> priv', pc |-> pc', enabled |-> priv' \in ie',
                    xlen |-> xlen'] ]_rvars
=============================================================================
