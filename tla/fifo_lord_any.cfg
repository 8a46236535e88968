SPECIFICATION Spec
CONSTANTS
    CpuNum = 3
    LordCpu = 1
    Tids = {0, 1, 2, 3}
    LordPid = 3
    ErrLeavesInfo = FALSE
INVARIANTS
    TypeOK
    RqExact
    OnCpuOwnsCos
    ShotsSound
    StopsOnlyOnKernelFault
PROPERTY
    NoOvertaking
\* The process exits when the kernel breaks its contract.
CHECK_DEADLOCK FALSE
