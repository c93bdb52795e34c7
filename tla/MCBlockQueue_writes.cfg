\* Writes whose header and data are in separate buffers.
CONSTANTS
    Heads = {h1, h2}
    Stray = stray
    NoRequest = none
    IndexSpan = 4
    MAX_QUEUE_NUM = 2
    UpperHalves = {0}
    NbSectors = 2
    SectorSize = 2
    FileValue = "file"
    HeaderLen = 1
    QueueNums = {2}
    Requests <- Writes
SPECIFICATION Spec
PROPERTIES
    WritesStored
