----------------------------- MODULE BlockQueue ------------------------------
(***************************************************************************)
(* The block device behind its virtqueue: virtual_block_recv_request and   *)
(* virtual_block_req_end, with a driver that obeys the virtio rules.       *)
(***************************************************************************)
EXTENDS Virtqueue, BlockDevice, DescChain, FiniteSets

CONSTANTS
    HeaderLen,        \* sizeof(block_request_header_t)
    QueueNums,        \* the ring sizes the driver may choose
    Requests,         \* the requests the driver may make
    NoRequest

(***************************************************************************)
(* A request has a type, a first sector, a number of sectors, the value    *)
(* its data carries and a layout: header and data in one buffer (joined),  *)
(* in two (split), a chain that is out of order (mixed) or too short for   *)
(* its header (short).                                                     *)
(***************************************************************************)
ASSUME BlockAssumption ==
    /\ HeaderLen \in 1 .. SectorSize - 1
    /\ QueueNums \subseteq 1 .. MAX_QUEUE_NUM
    /\ \A n \in QueueNums : IndexSpan % n = 0
    /\ NoRequest \notin Requests
    /\ \A r \in Requests : r.type = "in" => r.sector + r.count <= NbSectors

\* A driver that moves data moves at least one sector.
ASSUME RequestAssumption ==
    \A r \in Requests :
        /\ r.type \in {"in", "out", "other"}
        /\ r.layout \in {"joined", "split", "mixed", "short"}
        /\ r.sector \in Nat /\ r.count \in Nat
        /\ r.type # "other" => r.count # 0

VARIABLES
    chains,           \* per head, the request in its chain, or NoRequest
    buffer,           \* per head, the bytes of the writable part of its chain
    qsize,            \* the ring size the driver has set up, 0 before
    seen,             \* the driver's place in the used ring
    in_handler,       \* the driver has acknowledged and is collecting
    clean             \* no notification has met a garbage upper half

driverVars == <<chains, buffer, qsize, seen, in_handler>>
vars == <<queueVars, sector_table, driverVars, clean>>

ChainOf(req) ==
    LET header == Descriptor(HeaderLen, FALSE)
        status == Descriptor(1, TRUE)
        size   == req.count * SectorSize
    IN CASE req.layout = "mixed" -> <<status, header>>
         [] req.layout = "short" -> <<Descriptor(HeaderLen - 1, FALSE), status>>
         [] req.type = "other"   -> <<header, status>>
         [] req.type = "in" /\ req.layout = "split" ->
                <<header, Descriptor(size, TRUE), status>>
         [] req.type = "in" /\ req.layout = "joined" ->
                <<header, Descriptor(size + 1, TRUE)>>
         [] req.type = "out" /\ req.layout = "split" ->
                <<header, Descriptor(size, FALSE), status>>
         [] req.type = "out" /\ req.layout = "joined" ->
                <<Descriptor(HeaderLen + size, FALSE), status>>

VIRTIO_BLK_S_OK == <<"ok", 0>>
VIRTIO_BLK_S_IOERR == <<"ioerr", 0>>
Untouched == <<"untouched", 0>>

\* The byte at a place of the readable part, behind the header.
DataByte(req, place) == <<req.value, place - HeaderLen>>

Fresh(req) == [k \in 1 .. get_desc_rw_size(ChainOf(req)).write |-> Untouched]

\* The writable part of a chain after virtual_memcpy_to_queue(..., 0, bytes, n).
Filled(old, chain, bytes) ==
    LET copy  == virtual_memcpy_to_from_queue(chain, 0, Len(bytes), TRUE)
        first == SumFunctionOnSet([j \in DOMAIN chain |-> chain[j].len],
                                  {j \in DOMAIN chain : ~chain[j].write})
    IN [k \in DOMAIN old |->
          IF first + k - 1 \in copy.place .. copy.place + copy.count - 1
          THEN bytes[first + k - copy.place] ELSE old[k]]

(***************************************************************************)
(* virtual_block_req_end: the status is the last byte for the guest.  The  *)
(* chain of a stray head is in memory the model does not have.             *)
(***************************************************************************)
virtual_block_req_end(head, chain, bytes) ==
    /\ buffer' = IF head = Stray THEN buffer
                 ELSE [buffer EXCEPT ![head] = Filled(@, chain, bytes)]
    /\ virtual_consume_desc(head, Len(bytes))

ReadRequest(head, req) ==
    LET chain == ChainOf(req)
        size  == (get_desc_rw_size(chain).write - 1) \div SectorSize
    IN /\ virtual_block_req_end(head, chain,
              Append(bf_read_async(req.sector, size), VIRTIO_BLK_S_OK))
       /\ UNCHANGED sector_table

WriteRequest(head, req) ==
    LET chain == ChainOf(req)
        len   == get_desc_rw_size(chain).read - HeaderLen
        copy  == virtual_memcpy_to_from_queue(chain, HeaderLen, len, FALSE)
        bytes == [k \in 1 .. copy.count |-> DataByte(req, copy.place + k - 1)]
        size  == len \div SectorSize
    IN /\ bf_write_async(req.sector, bytes, size)
       /\ virtual_block_req_end(head, chain,
              <<IF WriteFits(req.sector, size) THEN VIRTIO_BLK_S_OK ELSE VIRTIO_BLK_S_IOERR>>)

SkipRequest == NoCompletion /\ UNCHANGED <<sector_table, buffer>>

\* The chain is in order and its header can be read.
HasHeader(req) ==
    /\ get_desc_rw_size(ChainOf(req)).ok
    /\ virtual_memcpy_to_from_queue(ChainOf(req), 0, HeaderLen, FALSE).ok

virtual_block_recv_request(head, req) ==
    IF ~HasHeader(req) THEN SkipRequest
    ELSE CASE req.type = "in"  -> ReadRequest(head, req)
           [] req.type = "out" -> WriteRequest(head, req)
           [] OTHER            -> SkipRequest

-----------------------------------------------------------------------------
Init ==
    /\ QueueInit /\ block_device_init
    /\ chains = [h \in Heads |-> NoRequest] /\ buffer = [h \in Heads |-> <<>>]
    /\ qsize = 0 /\ seen = 0 /\ in_handler = FALSE /\ clean = TRUE

\* Mutant: a request that cannot be served stays in the ring.
Serve_Stuck ==
    /\ MoreToServe
    /\ upper = 0
    /\ virtual_block_recv_request(NextHead, chains[NextHead])
    /\ IF used_idx' = used_idx
       THEN UNCHANGED <<num, last_avail_idx, avail_ring, avail_idx, loop_avail, upper>>
       ELSE Advance
    /\ UNCHANGED <<chains, qsize, seen, in_handler, clean>>

\* The iteration of queue_notify.  With a garbage upper half the descriptor is
\* not the driver's: it may describe any request or none.
Serve ==
    /\ MoreToServe /\ Advance
    /\ \/ /\ upper = 0
          /\ virtual_block_recv_request(NextHead, chains[NextHead])
          /\ UNCHANGED clean
       \/ /\ upper # 0
          /\ clean' = FALSE
          /\ \/ SkipRequest
             \/ \E req \in Requests : virtual_block_recv_request(Stray, req)
    /\ UNCHANGED <<chains, qsize, seen, in_handler>>

ServeEnds == EndNotify /\ UNCHANGED <<sector_table, driverVars, clean>>

(***************************************************************************)
(* The driver.  Its steps are stores of the guest and are not taken while  *)
(* the device serves.                                                      *)
(***************************************************************************)
GuestRuns == clean /\ loop_avail = Idle

\* STATUS, QUEUE_NUM, the addresses and QUEUE_READY, with zeroed rings.
SetUp ==
    /\ GuestRuns /\ qsize = 0
    /\ \E n \in QueueNums : qsize' = n /\ num' = n
    /\ avail_idx' = 0 /\ used_idx' = 0 /\ seen' = 0
    /\ avail_ring' = [s \in Slots |-> Stray]
    /\ used_ring' = [s \in Slots |-> [id |-> Stray, len |-> 0]]
    /\ UNCHANGED <<last_avail_idx, loop_avail, upper, ring_irq,
                   sector_table, chains, buffer, in_handler, clean>>

Busy == {h \in Heads : chains[h] # NoRequest}

\* At most qsize chains are under way: no entry of a ring is overwritten.
Submit ==
    /\ GuestRuns /\ Cardinality(Busy) < qsize
    /\ \E h \in Heads \ Busy, req \in Requests :
          /\ chains' = [chains EXCEPT ![h] = req]
          /\ buffer' = [buffer EXCEPT ![h] = Fresh(req)]
          /\ avail_ring' = [avail_ring EXCEPT ![avail_idx % qsize] = h]
    /\ avail_idx' = Step(avail_idx)
    /\ UNCHANGED <<num, last_avail_idx, used_ring, used_idx, loop_avail, upper, ring_irq,
                   sector_table, qsize, seen, in_handler, clean>>

\* A write to QUEUE_NOTIFY; several requests may have been submitted.
Notify ==
    /\ GuestRuns /\ qsize # 0 /\ last_avail_idx # avail_idx
    /\ BeginNotify
    /\ UNCHANGED <<sector_table, driverVars, clean>>

\* The interrupt handler acknowledges first, so that a completion behind the
\* last entry it sees raises the line again.
Acknowledge ==
    /\ GuestRuns /\ ring_irq /\ ~in_handler
    /\ ring_irq' = FALSE /\ in_handler' = TRUE
    /\ UNCHANGED <<num, last_avail_idx, ringVars, loop_avail, upper,
                   sector_table, chains, buffer, qsize, seen, clean>>

Collect ==
    /\ GuestRuns /\ in_handler /\ seen # used_idx
    /\ LET h == used_ring[seen % qsize].id
       IN /\ chains' = [chains EXCEPT ![h] = NoRequest]
          /\ buffer' = [buffer EXCEPT ![h] = <<>>]
    /\ seen' = Step(seen)
    /\ UNCHANGED <<queueVars, sector_table, qsize, in_handler, clean>>

LeaveHandler ==
    /\ GuestRuns /\ in_handler /\ seen = used_idx
    /\ in_handler' = FALSE
    /\ UNCHANGED <<queueVars, sector_table, chains, buffer, qsize, seen, clean>>

\* The driver gives up what is under way and starts again.
Reset ==
    /\ GuestRuns /\ qsize # 0
    /\ virtual_io_reset
    /\ chains' = [h \in Heads |-> NoRequest] /\ buffer' = [h \in Heads |-> <<>>]
    /\ qsize' = 0 /\ seen' = used_idx /\ in_handler' = FALSE
    /\ UNCHANGED <<sector_table, clean>>

Undefined == ~clean /\ UNCHANGED vars

Next ==
    \/ Serve \/ ServeEnds
    \/ SetUp \/ Submit \/ Notify \/ Acknowledge \/ Collect \/ LeaveHandler \/ Reset
    \/ Undefined

Spec == Init /\ [][Next]_vars

\* The device serves within the store that notifies it; the driver notifies
\* what it has submitted and the interrupt is handled.
FairSpec ==
    Spec /\ WF_vars(Serve \/ ServeEnds) /\ WF_vars(Notify) /\ WF_vars(Acknowledge \/ Collect)

-----------------------------------------------------------------------------
TypeOK ==
    /\ QueueTypeOK
    /\ \A s \in SectorNumbers : Len(sector_table[s]) \in {0, SectorSize}
    /\ chains \in [Heads -> Requests \union {NoRequest}]
    /\ DOMAIN buffer = Heads
    /\ qsize \in QueueNums \union {0} /\ seen \in Indices
    /\ in_handler \in BOOLEAN /\ clean \in BOOLEAN

\* The heads in the rings, oldest first, by the driver's count.
WaitingHeads ==
    IF qsize = 0 THEN <<>>
    ELSE [k \in 1 .. Distance(last_avail_idx, avail_idx) |->
            avail_ring[(last_avail_idx + k - 1) % qsize]]

Unseen ==
    IF qsize = 0 THEN <<>>
    ELSE [k \in 1 .. Distance(seen, used_idx) |-> used_ring[(seen + k - 1) % qsize]]

AnsweredHeads == {Unseen[k].id : k \in DOMAIN Unseen}

\* A descriptor chain is owned by one side: it is in the available ring, or in
\* the used ring, or the device has dropped it, never in both or twice, and it
\* is one the driver has not taken back.  Rings wrap, indices wrap, and a
\* reset starts both at zero.
ChainOwnedOnce ==
    clean =>
        /\ IsInjective(WaitingHeads)
        /\ \A j, k \in DOMAIN Unseen : Unseen[j].id = Unseen[k].id => j = k
        /\ Range(WaitingHeads) \intersect AnsweredHeads = {}
        /\ Range(WaitingHeads) \union AnsweredHeads \subseteq Busy

\* A completion the driver has not seen is announced, unless the driver is in
\* its handler and about to look: acknowledging does not lose a completion.
CompletionAnnounced ==
    (clean /\ Unseen # <<>>) => (ring_irq \/ in_handler)

\* What the service knows of the rings, the buffers and the disk.  A reset leaves
\* used_idx behind, not an answer.
Waiting ==
    IF clean
    THEN [k \in DOMAIN WaitingHeads |->
            [head |-> WaitingHeads[k], req |-> chains[WaitingHeads[k]]]]
    ELSE <<>>

Answered ==
    IF clean
    THEN [k \in DOMAIN Unseen |->
            LET bytes == buffer[Unseen[k].id]
            IN [head |-> Unseen[k].id,
                ok   |-> bytes[Len(bytes)] = VIRTIO_BLK_S_OK,
                data |-> SubSeq(bytes, 1, Len(bytes) - 1),
                len  |-> Unseen[k].len]]
    ELSE <<>>

Service == INSTANCE BlockService WITH
    waiting  <- Waiting,
    answered <- Answered,
    sectors  <- [s \in SectorNumbers |-> Sector(s)],
    defined  <- clean

\* The queue implements the abstract service: no request is lost, served twice
\* or overtaken, a read returns what was last written, a write past the end
\* changes nothing.
ServiceImplemented == Service!ServiceSpec

\* A read or a write that has been submitted is answered, whatever is in the
\* ring before it, unless the driver gives it up.
RequestAnswered ==
    \A h \in Heads :
        (chains[h] # NoRequest /\ chains[h].type \in {"in", "out"}
            /\ chains[h].layout \in {"joined", "split"})
        ~> (chains[h] = NoRequest \/ h \in AnsweredHeads \/ ~clean)

\* A write that is answered with OK has stored its data, every byte of it in
\* its sectors: the disk that main offers is one the guest mounts "rw".
WritesStored ==
    [][\A h \in Heads :
         (chains[h] # NoRequest /\ chains[h].type = "out" /\ chains'[h] = chains[h]
            /\ buffer[h] = <<Untouched>> /\ buffer'[h] = <<VIRTIO_BLK_S_OK>>)
         => \A k \in 0 .. chains[h].count * SectorSize - 1 :
               Sector(chains[h].sector + k \div SectorSize)'[(k % SectorSize) + 1]
                   = <<chains[h].value, k>>]_vars
=============================================================================
