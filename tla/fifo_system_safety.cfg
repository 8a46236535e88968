SPECIFICATION SysSpec
CONSTANTS
    CpuNum = 3
    LordCpu = 1
    Tids = {1, 2, 3}
    LordPid = 3
    ErrLeavesInfo = FALSE
    Threads = {1, 2}
    PidMod = 4
    MqBound = 3
    MayLeave = TRUE
    MayRefuse = TRUE
    SeqBarrier = "thread"
INVARIANTS
    NeverStops
    ViewExact
PROPERTY
    ImplementsClass
