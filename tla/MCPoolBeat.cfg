SPECIFICATION FairSpec
CONSTANTS
    Endpoints = {e1, e2}
    Dialers = {d1}
    Hearts = {h1}
    Recoverers = {}
    PoolSize = 1
    MinReserves = 0
    None = None
    e1 = e1
    e2 = e2
    d1 = d1
    h1 = h1
PROPERTIES
    CallsEnd
