SPECIFICATION FairSpec
CONSTANTS
    Streams = {1, 2, 3}
    Kinds = {"call", "speaker", "recorder"}
    Frames = {2, 4}
    Resync = 2
    Buffer = 3
    Limit = 9
    Chunks = {1, 3}
    MaxBacklog = 8
INVARIANT AskedIsThere
PROPERTIES SpreadNeverGrows EveryStreamServed
