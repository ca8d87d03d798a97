SPECIFICATION Spec
CONSTANTS
    None = None
    KBs = {k1, k2}
    Sessions = {s1}
    Streams = {d1, d2}
    Records = {good, scalar, unfit}
    NotObjects = {scalar}
    Invalid = {unfit}
    MaxRecords = 2
    MaxBatches = 1
INVARIANTS
    TypeOK
    PointersLive
    
    StreamCommitsOnce
PROPERTIES
    IngestAtomic
SYMMETRY AddressSymmetry
