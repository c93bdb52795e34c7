\* Traps to S and M, nested, with their returns.
CONSTANTS
    Addr <- TwoAddrs
    Plus4 <- OtherAddr
    MVec = 0
    SVec = 0
    ResetPc = 0
    ZeroPc = 1
    MstatusValues <- ResumeMstatus
    IrqBits = {1}
    ExcCodes = {2, 8}
    GuestCsrs = {"mstatus", "mie", "mideleg", "medeleg", "mepc", "sepc", "sip"}
    None = None
SPECIFICATION RSpec
PROPERTIES
    MretResumes
    SretResumes
