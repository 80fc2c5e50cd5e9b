CONSTANTS
    Services = 2
    Clients = {main, worker}
    Threads = {t1, t2}
    Hosts = {tower}
    Keys <- MCKeys
    None = None
    MaxCalls = 3
    MaxChanges = 1
CHECK_DEADLOCK FALSE
SPECIFICATION Spec
INVARIANTS
    SharedResolverIsOpen
    
PROPERTIES
    
    PendingIsResolved
