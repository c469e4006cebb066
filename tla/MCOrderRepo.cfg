CONSTANTS
    a = a
    v1 = v1
    v2 = v2
    s1 = s1
    s2 = s2
    r1 = r1
    NoVersion = NoVersion
    NoUid = NoUid
    Uid <- MCUid
    Version <- MCVersion
    Count <- MCCount
    Session <- MCSession
    Reader <- MCReader
    MaxConns = 2
    Limit = 0
SPECIFICATION FairSpec
INVARIANTS CommittedIsWhole ReadsAreWhole NoLateOverwrite
PROPERTIES RefinesOrderStore CallsReturn
