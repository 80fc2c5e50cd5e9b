CONSTANTS
    MaxFingers = 4
    MaxTasks = 2
SPECIFICATION Spec
INVARIANTS
    NoButtonWithoutFinger
    MoveOrDrag
    OneTapPerGesture
PROPERTIES
    CancelledFingersStayUp
