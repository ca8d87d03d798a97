SPECIFICATION FairSpec
CONSTANTS
    Threads = {t1, t2, t3}
    Sessions = {s1, s2, s3, s4}
    PoolSize = 2
    NullSession = NullSession
INVARIANTS
    TypeOK
    ExclusiveOwnership
    EverySessionAccounted
    NoStateLeakage
    NoLostWakeup
PROPERTIES
    BlockedMeansEmpty
