SPECIFICATION FairTransferSpec
CONSTANTS
    NoSize = NoSize
    NoFile = NoFile
    OldFile = OldFile
    Unstable = Unstable
    ChunkSize = 2
    MaxChunks = 3
    MaxMessageSize = 5
    Window = 2
    Payload <- MCOffsets
    Sizes <- MCFewSizes
    SourceSizes <- MCFewSources
    Leftovers <- MCLeftovers
    FaultSets <- MCLinkOnly
PROPERTIES SenderEnds
CHECK_DEADLOCK FALSE
