SPECIFICATION Spec
ACTION_CONSTRAINT PromptPeers
CONSTANTS
    conf1 = f
    conf2 = None
    Slow = {2}
    Calls = {1, 2, 3}
    Confs = {f}
    Default = Default
    None = None
    Placed = {1, 3}
    Received = {2}
    Fragile = {}
    Lag = FALSE
    JoinsFailed = FALSE
INVARIANTS
    TypeOK
    ParticipantsCounted
    Membership
    ConfIdNamesConference
    KnownCalls
    NoNullCall
PROPERTIES
    HeldStaysSilent
    StreamsEndWithCall
    OthersDoNotSilence
CHECK_DEADLOCK FALSE
