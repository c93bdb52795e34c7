\* Liveness of the timer interrupt, with delegated interrupts served first.
CONSTANTS
    Addr <- OneAddr
    Plus4 <- StayPut
    MVec = 0
    SVec = 0
    ResetPc = 0
    ZeroPc = 0
    MstatusValues <- LiveMstatus
    IrqBits = {1, 7}
    ExcCodes = {2}
    GuestCsrs = {"mstatus", "sstatus", "mie", "sip", "mideleg"}
SPECIFICATION Spec
PROPERTIES
    TimerInterruptTaken
