SPECIFICATION Spec
CONSTANTS
    alice = alice
    bob = bob
    carol = carol
    sequencer = sequencer
    validator = validator
    watcher = watcher
    h0 = h0
    h1 = h1
    h2 = h2
    NoHash = NoHash
    NoAddr = NoAddr
    RollupAddress = RollupAddress
    Stakers <- Stakers2
    Operators <- Operators2
    VMHashes <- Hashes3
    InitialVMHash <- h0
    BVM_Rolluper <- sequencer
    PlainCreators <- None
    Delistable <- None
    FraudProofWindow = 1
    baseStakeAmount = 1
    minimumAssertionPeriod = 0
    MaxAssertions = 3
    MaxInboxSize = 3
    MaxBalance = 2
    MaxStakings = 2
    MaxBatchSize = 1
    MaxElements = 3
    MaxTime = 2
SYMMETRY Perms
INVARIANTS
    StakesOnLiveAssertions
    AssertionsFormTree
    ChildHashesExact
    BatchPerAssertion
CHECK_DEADLOCK FALSE
