CONSTANTS
    d1 = d1
    d2 = d2
    d3 = d3
    Devices = {d1, d2, d3}
    Gamepads = {d1, d2, d3}
    KeysOf <- MCKeysOf
    KindsOf <- MCKindsOf
    MaxControllers = 2
SPECIFICATION Spec
INVARIANTS
    NumbersBalance
    MaskFollowsControllers
    NoStuckButtons
    HostPadReleased
