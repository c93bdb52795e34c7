\* Register widths: every value of the width fields, every privilege with H.
CONSTANTS
    Addr <- OneAddr
    Plus4 <- StayPut
    MVec = 0
    SVec = 0
    ResetPc = 0
    ZeroPc = 0
    MstatusValues <- WidthMstatus
    IrqBits = {1}
    ExcCodes = {2, 9}
    GuestCsrs = {"misa", "mstatus", "sstatus", "medeleg", "sie", "mip", "mepc", "sepc"}
SPECIFICATION Spec
INVARIANTS
    XlenTracksPriv
PROPERTIES
    PrivilegeConfined
