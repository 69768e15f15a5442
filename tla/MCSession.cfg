SPECIFICATION SessionFairSpec
CONSTANTS
    Paths = {p1}
    Former = p0
    Entries = {e1}
    None = None
    MaxScars = 1
    Hosts <- MCHosts
    OwnHosts <- MCOwnHosts
INVARIANTS
    
    EntryKept
    LoginStarts
    UninstallUndoes
    GatewayServed

    
CHECK_DEADLOCK FALSE
