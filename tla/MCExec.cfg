CONSTANTS
    XLEN = 4
    Words <- Guest
    LoadValues <- InMemory
    FValues <- Floats
    ReserveAt <- Reserved
    Starts <- Boots
    NoWord = NoWord
SPECIFICATION Spec
INVARIANTS
    AluAgrees
PROPERTIES
    PreciseException
    ControlFlow
    ScNeedsReservation
    FsTracksF
