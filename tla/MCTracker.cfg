SPECIFICATION FairSpec
CONSTANTS
    Endpoints = {e1, e2}
    Closers = {c1, c2}
    Recoverers = {r1}
    MaxTracks = 2
    e1 = e1
    e2 = e2
    c1 = c1
    c2 = c2
    r1 = r1
INVARIANTS
    TypeOK
    NoLostWakeup
    OldTunnelsGone
    ClosedOnce
PROPERTIES
    PromiseSpec
    CloseEnds
