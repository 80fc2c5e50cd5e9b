CONSTANTS
    Pollers = {p1, p2}
    Adders = {}
    Clients = {main, worker}
    Main = main
    Tuples = {k1}
    OFFLINE_POLL_TRIES = 1
    INITIAL_POLL_TRIES = 0
    None = None
CHECK_DEADLOCK FALSE
SPECIFICATION FairSpec
PROPERTIES
    ReplacedPollersEnd
    DestroyedCloses
