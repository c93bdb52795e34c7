\* The external interrupts of both devices, with and without delegation.
CONSTANTS
    Addr <- OneAddr
    Plus4 <- StayPut
    MVec = 0
    SVec = 0
    ResetPc = 0
    ZeroPc = 0
    MstatusValues = {}
    IrqBits = {1, 9}
    ExcCodes = {2}
    GuestCsrs = {"mie", "mideleg", "sip"}
    Half = 2
    Deadlines = {0}
    MaxTime = 0
    UsedDevices = {"console", "block"}
    GuestSparesSEIP = TRUE
    Sources = {1, 2}
SPECIFICATION MachineSpec
INVARIANTS
    MachineTypeOK
    ExternalBitFollowsPlic
    SupervisorBitFollowsPlic
    LineFollowsStatus
    SleepsOnlyWhenQuiet
PROPERTIES
    HartSafety
