SPECIFICATION FairSpec
CONSTANTS
    Messages = {m1, m2}
    NoMessage = none
    Size = 5
    Mod = 18
INVARIANTS
    TypeOK
    CopyIsHead
    NoOverwrite
PROPERTY
    ImplementsChannel
