SPECIFICATION SysSpec
CONSTANTS
    CpuNum = 3
    LordCpu = 1
    Tids = {1, 2, 3}
    LordPid = 3
    ErrLeavesInfo = FALSE
    Threads = {1, 2}
    PidMod = 4
    MqBound = 2
    MayLeave = TRUE
    MayRefuse = FALSE
    SeqBarrier = "thread"
INVARIANT
    NoPhantomCos
