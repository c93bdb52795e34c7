CONSTANTS
    NoChar = NoChar
    AddrBits = 5
    ADDRESS_ITEM_COUNT = 6
    Modules <- Board
    BootItem <- LowMemory
    RamStart = 4
    Images <- TestImages
    PageSize = 2
    Levels = 2
    PpnBits = 4
    Root = 4
    Cpus <- Settings
    VAddrs <- Addresses
    Values <- Stored
    MaxChanges = 2
SPECIFICATION Spec
CHECK_DEADLOCK FALSE
INVARIANTS
    OneItemAnswers
    TranslationAgrees
    WalkMarksLeaf
    StoreLands
    HtifAnswered
