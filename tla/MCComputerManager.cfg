CONSTANTS
    Pollers = {p1, p2}
    Adders = {a1}
    Clients = {main, worker}
    Main = main
    Tuples = {k1, k2}
    OFFLINE_POLL_TRIES = 0
    INITIAL_POLL_TRIES = 0
    None = None
CHECK_DEADLOCK FALSE
SPECIFICATION Spec
SYMMETRY Symmetry
INVARIANTS
    TypeOK
    CountsMatch
    ThreadFollowsPolling
PROPERTIES
    InvalidateNotWiped
