SPECIFICATION Spec
CONSTANTS
    s = s
    e = e
    Defender = Defender
    Challenger = Challenger
    NoOne = NoOne
    ZeroHash = ZeroHash
    Hashes <- Hashes2
    StartStateHash <- s
    EndStateHash <- e
    TimeLimit = 2
    MaxStart = 1
    MaxSteps = 4
    MaxTime = 5
INVARIANTS
    ClocksAddUp
PROPERTIES
    ExpiryIsFinal
    EventuallyWinner
CHECK_DEADLOCK FALSE
