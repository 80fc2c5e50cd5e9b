CONSTANTS
    Units <- MCUnits
    FullLength <- MCFullLength
    InitialLength = 2
    None = None
    MaxSessions = 3
    MaxUnits = 4
CHECK_DEADLOCK FALSE
SPECIFICATION Spec
INVARIANTS
    ResourcesFollowRenderers
    EnvironmentsAreLive
PROPERTIES
    UnitArrives
    RenderersAreCalledInOrder
