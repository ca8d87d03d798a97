SPECIFICATION AggSpec
CONSTANTS
    f1 = f1
    f2 = f2
    f3 = f3
    k1 = k1
    k2 = k2
    not = not
    exists = exists
    Nil = Nil
    Out = Out
    Facts = {f1, f2, f3}
    Keys = {k1, k2}
    Vals = {1, 2, 3}
    LeftVals = {1, 2}
    RightVals = {2, 3}
    Conds = {not, exists}
    NotNodes = {not}
    Indexed = {not}
    Inputs <- MCInputs
    MaxCalls = 5
    Length = 1
INVARIANT AlphaComplete
SYMMETRY KeySymmetry
