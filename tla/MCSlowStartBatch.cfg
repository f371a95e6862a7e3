SPECIFICATION FairSpec
CONSTANTS
    Count <- EightCalls
    InitialBatchSize = 1
INVARIANTS
    TypeOK
    ReturnIsTruthful
    SlowStart
PROPERTIES
    ImplementsBulkCall
    NoCallAfterFailedBatch
    EachIndexOnce
    Termination
CHECK_DEADLOCK FALSE
