SPECIFICATION ProgSpec
CONSTANTS
    CpuNum = 2
    LordCpu = 1
    Tids = {1, 2, 3, 4}
    LordPid = 4
    ErrLeavesInfo = FALSE
    Threads = {1, 2, 3}
    PidMod = 8
    MqBound = 2
    MayLeave = FALSE
    MayRefuse = FALSE
    SeqBarrier = "thread"
PROPERTIES
    RunnableRuns
    ProgramEnds
