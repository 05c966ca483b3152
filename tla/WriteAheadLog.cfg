SPECIFICATION Spec

CONSTANTS
    SyncMode = "periodic"
    Sizes = {2}
    MaxSegmentSize = 4
    TornWrites = FALSE  AnyRotate = FALSE  AnyPrune = FALSE
    MaxSequence = 4  MaxCrashes = 2
INVARIANTS NextAboveLog SegmentOrder DurableKept LastCheckpointIsLast
