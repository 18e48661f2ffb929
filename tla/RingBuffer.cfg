SPECIFICATION Spec
CONSTANTS
    r1 = r1
    r2 = r2
    Ids <- TwoReaders
    Size = 5
    Serials = 6
    MaxChunk = 4
    MaxBacklog = 13
INVARIANT AvailableIsBacklog
PROPERTIES
    ReadersGetEverything
    NoClipWhileRoom
