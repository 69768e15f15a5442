SPECIFICATION Spec
CONSTANTS
    Endpoints = {e1, e2}
    Dialers = {d1, d2}
    Hearts = {}
    Recoverers = {r1}
    PoolSize = 2
    MinReserves = 1
    None = None
    e1 = e1
    e2 = e2
    d1 = d1
    d2 = d2
    r1 = r1
SYMMETRY Symmetry
INVARIANTS
    TypeOK
    OneFlight
    AttemptsCoverPool
PROPERTIES
    ReturnedIsPooled
