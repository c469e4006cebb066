CONSTANTS
    a = a
    b = b
    c = c
    UID <- MCUID
    Order <- MCOrder
    MaxItems = 2
    TTL = 1
    Batches <- MCBatches
    CounterSize = 3
SPECIFICATION Spec
INVARIANT GaugeIsSize
