CONSTANTS
    p1 = p1
    a = a
    r1 = r1
    d1 = d1
    Partition <- MCPartition
    Log <- MCLog
    UID <- MCUID
    UidOf <- MCUidOf
    Reader <- MCReader
    Deleter <- MCDeleter
    MaxRetries = 2
    MaxOutages = 1
    MaxRejoins = 0
    MaxItems = 1
    MaxLate = 1
SPECIFICATION SSpec
INVARIANTS CachedWasStored CacheCoherent NewestStored
