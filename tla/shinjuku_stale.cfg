SPECIFICATION SysSpec
CONSTANTS
    CpuNum = 2
    LordCpu = 0
    FirstCpu = 1
    Tids = {1, 2, 3}
    LordPid = 3
    ErrLeavesInfo = FALSE
    Threads = {1, 2}
    PidMod = 4
    MqBound = 2
    MayLeave = FALSE
    MayRefuse = FALSE
    SeqBarrier = "thread"
INVARIANT
    OnCpuMeansCos
