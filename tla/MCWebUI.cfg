CONSTANTS
    p1 = p1
    p2 = p2
    Poll <- MCPoll
    Sizes <- MCSizes
    Present = 2
    MaxOrders = 2
    MaxChanges = 2
    MaxActs = 1
    MaxFailures = 1
SPECIFICATION FairSpec
INVARIANTS ShownAsSaid
PROPERTIES NeverOlder CatchesUp
