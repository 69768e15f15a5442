SPECIFICATION FairSpec
CONSTANTS
    Restarters = {r1}
    MaxProcs = 2
    r1 = r1
INVARIANTS
    TypeOK
    OneCore
PROPERTIES
    RestartIsNew
    CoreComesBack
    QuitEnds
CHECK_DEADLOCK FALSE
