SPECIFICATION SourceSpec
CONSTANTS
    ChunkSize = 2
    QueueCap = 2
    ArchiveSizes <- MCArchiveSizes
    Nodes <- MCNodes
    Parent <- MCParent
    Name <- MCName
    Unnameable = {10}
    Blank = {}
    Target = 1
    Size <- MCSize
    Cap = 3
    Selections <- MCSelections
    Disks <- MCDisks
    MaxChanges = 2
INVARIANTS PlanIsSelection StreamIsSource BoundedMemory
PROPERTIES SourceSettles
CHECK_DEADLOCK FALSE
