SPECIFICATION GameSpec
CONSTANTS
    Defender = Defender
    Challenger = Challenger
    NoOne = NoOne
    ZeroHash = ZeroHash
    Hashes <- GameHashes
    StartStateHash <- GameStart
    EndStateHash <- GameEnd
    MaxStart = 6
    TimeLimit = 1
    MaxSteps = 6
    Lengths = {3, 6}
    MaxTime = 3
    MaxEvents = 2
    MaxCrashes = 1
INVARIANTS
    StartAgreed
    SegmentInsideTrace

    
CHECK_DEADLOCK FALSE
