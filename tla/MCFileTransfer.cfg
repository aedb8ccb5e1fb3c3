SPECIFICATION FairTransferSpec
CONSTANTS
    NoSize = NoSize
    NoFile = NoFile
    OldFile = OldFile
    Unstable = Unstable
    ChunkSize = 2
    MaxChunks = 3
    MaxMessageSize = 5
    Window = 2
    Payload <- MCOffsets
    Sizes <- MCSizes
    SourceSizes <- MCSourceSizes
    Leftovers <- MCLeftovers
    FaultSets <- MCFaults
PROPERTIES KeepsPromise TransferEnds Delivered
CHECK_DEADLOCK FALSE
