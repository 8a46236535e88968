SPECIFICATION KernelsSpec
CONSTANTS
    CpuNum = 4
    LordCpu = 2
    FirstCpu = 1
    Tids = {0, 1, 2, 3, 4}
    AnyTids = {0, 1, 2, 3}
    LordPid = 3
    ErrLeavesInfo = FALSE
    Threads = {1, 2, 4}
    PidMod = 8
    MqBound = 1
    MayLeave = FALSE
    MayRefuse = FALSE
    SeqBarrier = "thread"
INVARIANTS
    TypeOK
    RqExact
    PoolsDisjoint
    ShotsSound
    QueueNeverStops
PROPERTY
    ImplementsClass
\* The process exits when the kernel breaks its contract.
CHECK_DEADLOCK FALSE
