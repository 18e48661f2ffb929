SPECIFICATION FairSpec
CONSTANTS
    Addresses = {a1, a2}
    Codecs = {"ulaw", "alaw"}
    PeerMay = {"refuse", "lose", "mismatch", "challenge", "reinvite", "empty"}
    MaxCommands = 4
    MaxReinvites = 3
INVARIANT AcceptedAgrees
INVARIANT HeldIsStill
PROPERTY RequestsEnd
CHECK_DEADLOCK FALSE
