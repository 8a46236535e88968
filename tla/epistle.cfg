SPECIFICATION FairSpec
CONSTANTS
    Procs = {p1, p2}
    Keys = {3, 4, 7}
    Values = {0, 1}
    Capacity = 4
INVARIANTS
    TypeOK
    ProbePaths
PROPERTY
    ImplementsMarks
