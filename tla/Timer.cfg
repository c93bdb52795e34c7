\* Halves of eight values: deadlines with both halves, and the clock past them.
CONSTANTS
    Half = 8
    MaxTime = 31
    Deadlines = {0, 5, 8, 19, 31}
SPECIFICATION TimerSpec
INVARIANTS
    TimerTypeOK
    DeadlineKept
    TimerNotEarly
    MtimeNeverBehind
PROPERTIES
    TimerAnnounced
    SleeperWakes
