SPECIFICATION FairSpec
CONSTANTS
    NumWorkers = 2
    Batch = 2
    MaxRequests = 3
    Discard = 1
INVARIANTS
    TypeOK
    NoAssertFails
    BatchOwned
    InitBeforeUse
    EachOnce
    ResultsFinal
    FirstAddAlone
PROPERTIES
    BatchTaken
    Terminates
\* The workload ends.
CHECK_DEADLOCK FALSE
