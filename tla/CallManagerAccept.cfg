SPECIFICATION CallsSpec
CONSTANTS
    conf1 = conf1
    conf2 = conf2
    Slow = {1, 2, 3}
    Calls = {1, 2, 3}
    Confs = {}
    Default = Default
    None = None
    Placed = {}
    Received = {1, 2, 3}
    Fragile = {}
    Lag = FALSE
    JoinsFailed = FALSE
PROPERTIES
    AcceptHoldsCurrent
CHECK_DEADLOCK FALSE
