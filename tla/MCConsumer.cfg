CONSTANTS
    p1 = p1
    p2 = p2
    Partition <- MCPartition
    Log <- MCLog
    MaxRetries = 2
    MaxOutages = 1
    MaxRejoins = 1
    MaxLate = 1
SPECIFICATION FairSpec
INVARIANTS TypeOK CommittedAreSettled DeadLetterAfterAllRetries StatsBalance
PROPERTIES NoOvertaking RefinesDelivery EveryMessageSettled LagVanishes ShutdownCompletes
