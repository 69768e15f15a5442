SPECIFICATION FairSpec
CONSTANTS
    MaxVersion = 3
    Installers = {i1, i2}
    MaxProcs = 4
    MaxKills = 1
INVARIANTS
    TypeOK
    ExecutableKept
    NeverOlder
PROPERTIES
    
    ComesBackUpdated
CHECK_DEADLOCK FALSE
