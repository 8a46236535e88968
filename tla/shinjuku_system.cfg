SPECIFICATION WorkSpec
CONSTANTS
    CpuNum = 2
    LordCpu = 1
    FirstCpu = 0
    Tids = {1, 2, 3, 4}
    LordPid = 3
    ErrLeavesInfo = FALSE
    Threads = {1, 2, 4}
    Workers = {1, 2, 4}
    PidMod = 8
    MqBound = 2
    MayLeave = TRUE
    MayRefuse = TRUE
    SeqBarrier = "thread"
INVARIANTS
    NeverStops
    ViewExact
PROPERTY
    MarkedRuns
