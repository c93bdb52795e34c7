\* The timer in the whole machine; the guest may overwrite SEIP through sip.
CONSTANTS
    Addr <- OneAddr
    Plus4 <- StayPut
    MVec = 0
    SVec = 0
    ResetPc = 0
    ZeroPc = 0
    MstatusValues = {}
    IrqBits = {7, 9}
    ExcCodes = {2}
    GuestCsrs = {"mie", "mideleg", "sip"}
    Half = 3
    Deadlines = {0, 4}
    MaxTime = 4
    UsedDevices = {"block"}
    GuestSparesSEIP = FALSE
    Sources = {1, 2}
SPECIFICATION MachineSpec
INVARIANTS
    ExternalBitFollowsPlic
PROPERTIES
    TimerWakesSleeper
