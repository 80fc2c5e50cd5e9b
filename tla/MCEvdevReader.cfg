CONSTANTS
    Devices = {mouse, keyboard}
    Suitable = {mouse, keyboard}
    Entries = {e1, e2, e3}
    None = None
    MaxRequests = 2
    MaxPlugs = 2
CHECK_DEADLOCK FALSE
SPECIFICATION Spec
INVARIANTS
    ListIsAllocated
    OnePollerPerDevice
PROPERTY
    PluggedIsPolled
