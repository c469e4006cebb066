CONSTANTS
    p1 = p1
    a = a
    r1 = r1
    d1 = d1
    Partition <- MCPartition
    Log <- MCLog
    UID <- MCUID
    UidOf <- MCUidOf
    Reader <- MCReader
    Deleter <- MCDeleter
    MaxRetries = 1
    MaxOutages = 0
    MaxRejoins = 0
    MaxItems = 1
    MaxLate = 0
SPECIFICATION SSpec
INVARIANT DeletedIsGone
