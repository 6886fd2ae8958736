SPECIFICATION Spec
CONSTANTS
    Bootstrapped = TRUE
    MaxL1 = 3
    MaxQueue = 3
    RollbackTargets <- FirstToThird
    Times <- Clock2
    Threshold = 1
    MaxRpc = 1
    MaxCrashes = 1
    MaxFails = 1
    MaxQueueFails = 1
    MaxCacheFails = 1
INVARIANTS
    ChainInOrder
    QueueInOrder
    QueueNeverRepeats
PROPERTIES
    RollbackKeepsUserTxs
    Restarts
    QueueIncluded
