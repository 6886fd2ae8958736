SPECIFICATION WhitelistSpec
CONSTANTS
    a = a
    b = b
    c = c
    d = d
    Addresses <- Four
    OwnerChecks = TRUE
    MaxBatch = 3
    MaxLength = 4
PROPERTIES
    IsASet
