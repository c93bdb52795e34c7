------------------------------ MODULE DescChain ------------------------------
(***************************************************************************)
(* The walks over a chain of virtio descriptors in                         *)
(* src/virtio_interface.c.  A chain is the sequence of descriptors that    *)
(* the NEXT flags link; `write` says that the device writes the buffer.    *)
(* The bytes of all the buffers, in the order of the chain, have the       *)
(* places 0, 1, 2, ...; a copy is described by the places it touches.      *)
(***************************************************************************)
EXTENDS Integers, Sequences, Functions

Descriptor(len, write) == [len |-> len, write |-> write]

\* The place of the first byte of descriptor i.
Start(chain, i) == SumFunctionOnSet([j \in DOMAIN chain |-> chain[j].len], 1 .. i - 1)

SameWay(chain, i, k) == \A j \in i .. k : chain[j].write = chain[i].write

\* The place behind the descriptors that follow i in i's direction.
RunEnd(chain, i) ==
    LET k == CHOOSE k \in i .. Len(chain) :
                /\ SameWay(chain, i, k)
                /\ k = Len(chain) \/ ~SameWay(chain, i, k + 1)
    IN Start(chain, k + 1)

(***************************************************************************)
(* virtual_memcpy_to_from_queue.  The first loop takes the device to its   *)
(* first writable descriptor; the second looks for the descriptor with the *)
(* offset, which becomes the length of each descriptor it passes; the      *)
(* third copies and stops, with what it has copied, where the direction    *)
(* changes or the chain ends.                                              *)
(***************************************************************************)
NoCopy == [ok |-> FALSE, place |-> 0, count |-> 0]

virtual_memcpy_to_from_queue(chain, offset, count, to_queue) ==
    LET heads == {i \in DOMAIN chain : to_queue => chain[i].write}
        first == CHOOSE i \in heads : \A j \in heads : i <= j
        from  == IF to_queue THEN first ELSE 1
        off(i) == IF i = from THEN offset ELSE chain[i - 1].len
        hits  == {i \in from .. Len(chain) :
                    /\ chain[from].write = to_queue /\ SameWay(chain, from, i)
                    /\ off(i) < chain[i].len}
        hit   == CHOOSE i \in hits : \A j \in hits : i <= j
        place == Start(chain, hit) + off(hit)
        room  == RunEnd(chain, hit) - place
    IN IF count = 0 THEN [ok |-> TRUE, place |-> 0, count |-> 0]
       ELSE IF heads = {} \/ hits = {} THEN NoCopy
       ELSE IF count <= room THEN [ok |-> TRUE, place |-> place, count |-> count]
       ELSE [ok |-> FALSE, place |-> place, count |-> room]

(***************************************************************************)
(* get_desc_rw_size.  A readable descriptor behind a writable one is an    *)
(* error.  The size of the readable part is that of its last descriptor.   *)
(***************************************************************************)
get_desc_rw_size(chain) ==
    LET writable == {i \in DOMAIN chain : chain[i].write}
        readable == DOMAIN chain \ writable
        last     == CHOOSE i \in readable : \A j \in readable : j <= i
    IN [ok    |-> \A i \in readable, j \in writable : i < j,
        read  |-> IF readable = {} THEN 0 ELSE chain[last].len,
        write |-> SumFunctionOnSet([j \in DOMAIN chain |-> chain[j].len], writable)]
=============================================================================
