SPECIFICATION Spec
CONSTANTS
    Dirs = {d1, d2}
    Archives = {a1, a2, a3}
    Unknown = {a3}
    NoArchive = none
    MaxEvents = 3
    d1 = d1
    d2 = d2
    a1 = a1
    a2 = a2
    a3 = a3
    none = none
SYMMETRY Symmetry
INVARIANTS
    TypeOK
    NothingLost
    StubLoads
    LoaderKept
    UninstallRestores
