CONSTANTS
    a = a
    b = b
    c = c
    UID <- MCUID
    Order <- MCOrder
    MaxItems = 2
    TTL = 1
    Batches <- MCBatches
    CounterSize = 3
SPECIFICATION FairSpec
INVARIANTS TypeOK ListMatchesMap Capacity RecencyOrder
PROPERTIES EvictsLeastRecentlyUsed DeparturesCounted IdleEntriesLeave RefinesBoundedMap
