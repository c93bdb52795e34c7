------------------------------ MODULE Virtqueue ------------------------------
(***************************************************************************)
(* One virtqueue of src/virtio_interface.c: what the device keeps of it,   *)
(* the two rings in guest memory, and queue_notify, one iteration of its   *)
(* loop at a time.  Nothing else runs while it loops.                      *)
(***************************************************************************)
EXTENDS Integers

CONSTANTS
    Heads,            \* the indices of first descriptors the driver uses
    Stray,            \* an index that is not one of the driver's
    IndexSpan,        \* the number of values of a ring index, 2^16
    MAX_QUEUE_NUM,    \* the size of the rings after a reset
    UpperHalves       \* what the upper half of desc_idx may hold, see queue_notify

ASSUME RingAssumption ==
    /\ MAX_QUEUE_NUM \in Nat \ {0} /\ IndexSpan \in Nat /\ IndexSpan % MAX_QUEUE_NUM = 0
    /\ MAX_QUEUE_NUM < IndexSpan
    /\ Stray \notin Heads /\ UpperHalves \subseteq Nat

VARIABLES
    num, last_avail_idx,      \* queue_state_t
    avail_ring, avail_idx,    \* guest memory, written by the driver
    used_ring, used_idx,      \* guest memory, written by the device
    loop_avail,               \* the local avail_idx of queue_notify, or Idle
    upper,                    \* the upper half of its local desc_idx
    ring_irq                  \* bit 0 of int_status, and with it the line

ringVars == <<avail_ring, avail_idx, used_ring, used_idx>>
queueVars == <<num, last_avail_idx, ringVars, loop_avail, upper, ring_irq>>

Idle == -1
Slots == 0 .. MAX_QUEUE_NUM - 1
Indices == 0 .. IndexSpan - 1

\* Mutant: an index kept in a wider variable.
Step_Wide(i) == i + 1

\* uint16_t arithmetic.
Step(i) == (i + 1) % IndexSpan
Distance(from, to) == (to - from) % IndexSpan

QueueInit ==
    /\ num = MAX_QUEUE_NUM /\ last_avail_idx = 0
    /\ avail_ring \in [Slots -> {Stray}] /\ avail_idx = 0
    /\ used_ring = [s \in Slots |-> [id |-> Stray, len |-> 0]] /\ used_idx = 0
    /\ loop_avail = Idle /\ upper = 0 /\ ring_irq = FALSE

\* Mutant: a reset forgets the device's place in the ring.
virtual_io_reset_KeepsIndex ==
    /\ num' = MAX_QUEUE_NUM
    /\ ring_irq' = FALSE
    /\ UNCHANGED <<last_avail_idx, ringVars, loop_avail, upper>>

\* A write of 0 to STATUS.
virtual_io_reset ==
    /\ num' = MAX_QUEUE_NUM /\ last_avail_idx' = 0
    /\ ring_irq' = FALSE
    /\ UNCHANGED <<ringVars, loop_avail, upper>>

(***************************************************************************)
(* queue_notify.  The local desc_idx is an int of which a read of the      *)
(* available ring fills the lower half; nothing initialises the upper one. *)
(***************************************************************************)
BeginNotify ==
    /\ loop_avail = Idle
    /\ loop_avail' = avail_idx
    /\ upper' \in UpperHalves
    /\ UNCHANGED <<num, last_avail_idx, ringVars, ring_irq>>

NextHead == avail_ring[last_avail_idx % num]

MoreToServe == loop_avail # Idle /\ last_avail_idx # loop_avail

\* The request has been taken; it may or may not have been completed.
Advance ==
    /\ last_avail_idx' = Step(last_avail_idx)
    /\ UNCHANGED <<num, avail_ring, avail_idx, loop_avail, upper>>

\* Mutant: the interrupt is announced only for the first completion.
virtual_consume_desc_NoIrq(head, len) ==
    /\ used_idx' = Step(used_idx)
    /\ used_ring' = [used_ring EXCEPT ![used_idx % num] = [id |-> head, len |-> len]]
    /\ ring_irq' = (used_idx = 0)

virtual_consume_desc(head, len) ==
    /\ used_idx' = Step(used_idx)
    /\ used_ring' = [used_ring EXCEPT ![used_idx % num] = [id |-> head, len |-> len]]
    /\ ring_irq' = TRUE

\* A request that is skipped.
NoCompletion == UNCHANGED <<used_ring, used_idx, ring_irq>>

EndNotify ==
    /\ loop_avail # Idle /\ last_avail_idx = loop_avail
    /\ loop_avail' = Idle /\ upper' = 0
    /\ UNCHANGED <<num, last_avail_idx, ringVars, ring_irq>>

QueueTypeOK ==
    /\ num \in 1 .. MAX_QUEUE_NUM /\ last_avail_idx \in Indices
    /\ avail_ring \in [Slots -> Heads \union {Stray}] /\ avail_idx \in Indices
    /\ used_ring \in [Slots -> [id : Heads \union {Stray}, len : Nat]] /\ used_idx \in Indices
    /\ loop_avail \in Indices \union {Idle} /\ upper \in UpperHalves \union {0}
    /\ ring_irq \in BOOLEAN
=============================================================================
