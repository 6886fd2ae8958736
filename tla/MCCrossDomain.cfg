SPECIFICATION Spec
CONSTANTS
    rollup = rollup
    Senders <- MCSenders
    BVM_Proposer <- rollup
    BVM_FraudVerifier <- rollup
    Windows <- MCWindows
    SEQUENCER_PUBLISH_WINDOW = 1
    MaxBatchSize = 1
    MaxElements = 3
    MaxTime = 3
    MaxMessages = 2
    MaxExtras = 2
INVARIANTS
    
    BridgeBacked
CHECK_DEADLOCK FALSE
