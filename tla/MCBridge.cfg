SPECIFICATION FairSpec
CONSTANTS
    Callers = {k1, k2}
    Clients = {d1}
    MaxConns = 2
    MaxCommands = 2
    MaxLives = 2
    k1 = k1
    k2 = k2
    d1 = d1
INVARIANTS
    TypeOK
    TableIsExact
    DeliveryNeverBlocks
PROPERTIES
    CommandsEnd
    
CHECK_DEADLOCK FALSE
