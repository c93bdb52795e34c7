\* Progress: no request holds up another.
CONSTANTS
    Heads = {h1, h2}
    Stray = stray
    NoRequest = none
    IndexSpan = 4
    MAX_QUEUE_NUM = 2
    UpperHalves = {0, 1}
    NbSectors = 1
    SectorSize = 2
    FileValue = "file"
    HeaderLen = 1
    QueueNums = {2}
    Requests <- Fates
SPECIFICATION FairSpec
PROPERTIES
    RequestAnswered
