SPECIFICATION Spec
CONSTANTS
    BlockOffset = 2
    RollUpMinTxn = 2
    MinTimeoutRollupTxn = 1
    RollUpMaxSize = 2
    MaxL2 = 2
    MaxReRollups = 3
    MaxTroubles = 1
INVARIANTS
    DataAvailable
    BatchesTile
    OnlyFailedSkipped
PROPERTIES
    
    LastEntryHandled
CHECK_DEADLOCK FALSE
