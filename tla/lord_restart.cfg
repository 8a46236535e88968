SPECIFICATION RestartSpec
CONSTANTS
    NumWorkers = 1
    Batch = 1
    MaxRequests = 2
    Discard = 1
INVARIANT
    NoAssertFails
\* The process may end for other reasons.
CHECK_DEADLOCK FALSE
