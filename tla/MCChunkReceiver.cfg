SPECIFICATION Spec
CONSTANTS
    p1 = p1
    p2 = p2
    NoSize = None
    NoFile = NoFile
    OldFile = OldFile
    ChunkSize = 2
    MaxChunks = 3
    MaxMessageSize = 5
    Payload <- MCPayload
    Sizes <- MCSizes
    Leftovers <- MCLeftovers
INVARIANTS PartMatchesBookkeeping DestWhole
CHECK_DEADLOCK FALSE
