SPECIFICATION Spec
CONSTANTS
    Calls = {1, 2}
    Confs = {f}
    Default = Default
    None = None
    Placed = {1, 2}
    Received = {2}
    Fragile = {1}
    Lag = TRUE
    JoinsFailed = TRUE
INVARIANTS
    WaitingCounted
CHECK_DEADLOCK FALSE
