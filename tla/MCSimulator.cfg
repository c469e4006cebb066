CONSTANTS
    w1 = w1
    w2 = w2
    a = a
    b = b
    c = c
    Worker <- MCWorker
    UID <- MCUID
    SeedCount = 1
    MaxOps = 3
SPECIFICATION FairSpec
CHECK_DEADLOCK FALSE
INVARIANTS OneOwner TrackedExists StoredIsTracked CountedOnce
PROPERTIES ShutdownCompletes
