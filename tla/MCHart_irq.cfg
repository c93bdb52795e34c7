\* Interrupts: a software interrupt, the timer and the external pair.
CONSTANTS
    Addr <- OneAddr
    Plus4 <- StayPut
    MVec = 0
    SVec = 0
    ResetPc = 0
    ZeroPc = 0
    MstatusValues <- IrqMstatus
    IrqBits = {1, 7, 9}
    ExcCodes = {2}
    GuestCsrs = {"mstatus", "sstatus", "mie", "sip", "mideleg"}
SPECIFICATION Spec
INVARIANTS
    TypeOK
    SleepingHasNoWakeup
    ExecHasNoDueInterrupt
PROPERTIES
    PrivilegeConfined
    PrivilegeChangesSaved
    InterruptsReachOwner
