CONSTANTS
    p1 = p1
    p2 = p2
    Partition <- MCPartition
    Log <- MCValidLog
    MaxRetries = 2
    MaxOutages = 1
    MaxRejoins = 0
    MaxLate = 0
SPECIFICATION Spec
INVARIANT NothingLost
