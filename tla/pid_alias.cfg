SPECIFICATION SysSpec
CONSTANTS
    CpuNum = 3
    LordCpu = 1
    Tids = {1, 2, 3}
    LordPid = 3
    ErrLeavesInfo = FALSE
    Threads = {1, 2, 5}
    PidMod = 4
    MqBound = 2
    MayLeave = FALSE
    MayRefuse = FALSE
    SeqBarrier = "thread"
INVARIANT
    NeverStops
