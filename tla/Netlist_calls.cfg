SPECIFICATION Spec
CHECK_DEADLOCK FALSE
CONSTANTS
    Devices <- MCDevices
    Start <- MCStart
    ChunkSize = 2
    SizeMod = 16
    MaxModels = 4
    MaxNodes = 3
    MaxCalls = 4
INVARIANTS WellFormed RolledBack FloatingExact
PROPERTIES PositionsStable CountsKept SourceKept
