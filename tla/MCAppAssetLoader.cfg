CONSTANTS
    Views = {v1, v2}
    Apps = {a, b}
    Tasks = {t1, t2, t3}
    Nothing = Nothing
    QueueLength = 1
    Workers = 1
    MaxPopulates = 3
    MaxPauses = 1
CHECK_DEADLOCK FALSE
SPECIFICATION LoaderSpec
INVARIANTS
    ViewsShowTheirArt
    TrustedLoadsAreReal
PROPERTY
    HiddenIsShown
