SPECIFICATION Spec
CONSTANTS
    a = a
    b = b
    Ids = {a, b}
    Times = {1, 2, 4}
    Marks = {2, 3, 5}
    MinTime = 0
    MaxTime = 9
    NoTime = NoTime
    Lateness = 1
    EventRetention = 3
    DedupRetention = 2
    Lead = 2
    MaxActive = 2
    MaxDedup = 2
    MaxBatches = 2
    MaxResults = 2
    MaxInput = 2
    MaxReplay = 2
    MaxRules = 1
    WindowSize = 1
SYMMETRY SwapIds
INVARIANTS
    ReplayRestores
