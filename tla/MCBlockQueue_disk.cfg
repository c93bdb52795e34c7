\* Contents: what reads return and writes store.
CONSTANTS
    Heads = {h1, h2}
    Stray = stray
    NoRequest = none
    IndexSpan = 4
    MAX_QUEUE_NUM = 2
    UpperHalves = {0}
    NbSectors = 2
    SectorSize = 2
    FileValue = "file"
    HeaderLen = 1
    QueueNums = {1, 2}
    Requests <- Mixture
SYMMETRY SymmetricHeads
SPECIFICATION Spec
INVARIANTS
    TypeOK
    ChainOwnedOnce
    CompletionAnnounced
PROPERTIES
    ServiceImplemented
