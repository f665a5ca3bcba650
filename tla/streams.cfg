SPECIFICATION StreamsSpec
CONSTANTS
    NoCursor = NoCursor
    Nothing = Nothing
    MaxAttempts = 2
    Batch = 1
    MaxLog = 3
    MaxDrops = 2
    MaxWire = 3
    MaxTries = 2
    MaxText = 4
    MaxBatch = 1
INVARIANTS
    ShownWasTrue
    PreviewIsTrue
    RevokedLeavesNothing
PROPERTIES
    NoHole
    EveryPageIsTold
CHECK_DEADLOCK FALSE
