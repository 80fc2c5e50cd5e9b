CONSTANTS
    Sessions = {g1, g2}
    None = None
SPECIFICATION FairSpec
CHECK_DEADLOCK FALSE
PROPERTY
    OrphanIsStopped
