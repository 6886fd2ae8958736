SPECIFICATION Spec
CONSTANTS
    rollup = rollup
    stranger = stranger
    r1 = r1
    r2 = r2
    Senders <- MCSenders
    BVM_Proposer <- rollup
    BVM_FraudVerifier <- rollup
    Roots <- MCRoots
    Windows <- MCWindows
    SEQUENCER_PUBLISH_WINDOW = 1
    MaxBatchSize = 2
    MaxElements = 4
    MaxTime = 4
INVARIANTS
    BatchesContiguous
PROPERTIES
    FinalBatchesSurvive
