---------------------------- MODULE BlockService -----------------------------
(***************************************************************************)
(* What the block device promises its driver: requests are taken in the    *)
(* order in which they were made available and each is answered once; a    *)
(* read returns what the sectors hold, a write stores all of its sectors   *)
(* or none.  No rings, no descriptors, no table of written sectors.        *)
(* The promise is weaker for a write whose header and data are in separate *)
(* buffers: it changes no sector but its own.                              *)
(***************************************************************************)
EXTENDS Integers, Sequences

CONSTANTS Heads, Requests, NbSectors, SectorSize, FileValue

VARIABLES
    waiting,     \* the requests that have not been taken, with their heads
    answered,    \* the answers the driver has not collected
    sectors,     \* what each sector holds
    defined      \* FALSE once the behaviour is undefined

serviceVars == <<waiting, answered, sectors, defined>>

ServiceInit ==
    /\ waiting = <<>> /\ answered = <<>> /\ defined = TRUE
    /\ sectors = [s \in 0 .. NbSectors - 1 |->
                    [k \in 1 .. SectorSize |-> <<FileValue, s * SectorSize + k - 1>>]]

\* The sectors a request names, those past the end of the disk included.
Named(req) == req.sector .. req.sector + req.count - 1

Fits(req) == Named(req) \subseteq DOMAIN sectors

Data(req) == [k \in 1 .. req.count * SectorSize |->
                sectors[req.sector + (k - 1) \div SectorSize][((k - 1) % SectorSize) + 1]]

Reply(head, ok, data) == [head |-> head, ok |-> ok, data |-> data, len |-> Len(data) + 1]

Ask(head, req) ==
    /\ waiting' = Append(waiting, [head |-> head, req |-> req])
    /\ UNCHANGED <<answered, sectors, defined>>

\* What a well-formed write leaves in the sectors.
Stored(req) == [s \in DOMAIN sectors |->
                  IF s \in Named(req)
                  THEN [k \in 1 .. SectorSize |-> <<req.value, (s - req.sector) * SectorSize + k - 1>>]
                  ELSE sectors[s]]

AnswerRead(head, req) ==
    /\ req.type = "in"
    /\ answered' = Append(answered, Reply(head, TRUE, Data(req)))
    /\ UNCHANGED sectors

AnswerWrite(head, req) ==
    /\ req.type = "out" /\ req.layout = "joined"
    /\ answered' = Append(answered, Reply(head, Fits(req), <<>>))
    /\ sectors' = IF Fits(req) THEN Stored(req) ELSE sectors

AnswerSplitWrite(head, req) ==
    /\ req.type = "out" /\ req.layout = "split"
    /\ \E ok \in BOOLEAN : answered' = Append(answered, Reply(head, ok, <<>>))
    /\ DOMAIN sectors' = DOMAIN sectors
    /\ \A s \in DOMAIN sectors \ Named(req) : sectors'[s] = sectors[s]

\* Requests of other types and malformed ones get no answer.
Drop(req) ==
    /\ req.type \notin {"in", "out"} \/ req.layout \notin {"joined", "split"}
    /\ UNCHANGED <<answered, sectors>>

Serve ==
    /\ waiting # <<>>
    /\ LET head == Head(waiting).head
           req  == Head(waiting).req
       IN \/ AnswerRead(head, req) \/ AnswerWrite(head, req)
          \/ AnswerSplitWrite(head, req) \/ Drop(req)
    /\ waiting' = Tail(waiting)
    /\ UNCHANGED defined

Collect ==
    /\ answered # <<>> /\ answered' = Tail(answered)
    /\ UNCHANGED <<waiting, sectors, defined>>

\* The driver resets the device; what has been written stays.
Restart ==
    /\ waiting' = <<>> /\ answered' = <<>>
    /\ UNCHANGED <<sectors, defined>>

GoUndefined == defined' = FALSE

\* Nothing is promised from here on.
Anything == ~defined /\ ~defined'

ServiceNext ==
    \/ /\ defined
       /\ \/ \E head \in Heads, req \in Requests : Ask(head, req)
          \/ Serve \/ Collect \/ Restart \/ GoUndefined
    \/ Anything

ServiceSpec == ServiceInit /\ [][ServiceNext]_serviceVars
=============================================================================
