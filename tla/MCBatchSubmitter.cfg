SPECIFICATION Spec
CONSTANTS
    MaxQueue = 1
    MaxResets = 1
    ResetForms <- Totals
    BlockOffset = 1
    MinRollupTxn = 1
    MaxRollupTxn = 2
    DaUpgradeBlock = 2
    Timestamps <- Two
    BlockNumbers <- One
    MaxL2 = 3
    MaxFaults = 1
    MaxReorgs = 1
    MaxTroubles = 2
INVARIANTS
    CanonicalIsPrefix
    QueueIndexesAgree
CHECK_DEADLOCK FALSE
PROPERTIES
    CatchesUp
