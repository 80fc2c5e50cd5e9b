CONSTANTS
    Sessions = {g1, g2}
    None = None
SPECIFICATION FairSpec
CHECK_DEADLOCK FALSE
INVARIANTS
    TypeOK
    OneConnection
    StopsOwnConnection
    BridgeFollowsConnection
    ConnectedIsStoppable
PROPERTIES
    EndedSessionIsStopped
    ImplementsSlot
