CONSTANTS
    r1 = r1
    r2 = r2
    Request <- MCRequest
    MaxConns = 1
SPECIFICATION FairSpec
INVARIANTS PoolOutlivesUsers
PROPERTIES StopCompletes RefinesConsumerHost
