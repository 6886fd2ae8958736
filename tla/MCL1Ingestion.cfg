SPECIFICATION IngestionSpec
CONSTANTS
    Confirmations = 2
    LogsPerPollingInterval = 2
    MaxTip = 4
    MaxEvents = 3
    MaxTroubles = 1
INVARIANTS
    EntriesArePrefix
    
    BatchesCurrent
PROPERTY
    FollowedIsStored
CHECK_DEADLOCK FALSE
