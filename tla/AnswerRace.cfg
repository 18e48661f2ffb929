SPECIFICATION Spec
CONSTANTS
    Calls = {1, 2}
    Confs = {}
    Default = Default
    None = None
INVARIANTS
    WaitingSettled
    AccountsSettled
    AnsweredIsHeard
CHECK_DEADLOCK FALSE
