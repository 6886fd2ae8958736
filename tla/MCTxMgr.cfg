SPECIFICATION Spec
CONSTANTS
    s1 = s1
    s2 = s2
    s3 = s3
    Slots <- Slots3
    Underpriced <- Refused
    Foreign = Foreign
    NoTx = NoTx
    NumConfirmations = 2
    SafeAbortNonceTooLowCount = 2
    MaxHeight = 2
    MaxReorgs = 1
    MaxRpcErrors = 1
INVARIANTS
    ReceiptConfirmed
    AbortMeansSpent
PROPERTIES
    
    CanceledReturns
CHECK_DEADLOCK FALSE
