SPECIFICATION Spec
CONSTANTS
    Endpoints = {e1, e2}
    Clients = {c1}
    Hearts = {}
    PoolSize = 2
    None = None
    e1 = e1
    e2 = e2
    c1 = c1
PROPERTIES
    RecoverySwapsRoute
