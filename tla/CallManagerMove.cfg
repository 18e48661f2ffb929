SPECIFICATION MoveSpec
ACTION_CONSTRAINT PromptPeers
CONSTANTS
    conf1 = conf1
    conf2 = conf2
    Slow = {}
    Calls = {1, 2, 3, 4}
    Confs <- TwoConferences
    Default = Default
    None = None
    Placed = {}
    Received = {}
    Fragile = {}
    Lag = FALSE
    JoinsFailed = FALSE
INVARIANTS
    ConferencesAreSeparate
    ParticipantsHearEachOther
PROPERTIES
    HangUpConferenceEndsAll
CHECK_DEADLOCK FALSE
