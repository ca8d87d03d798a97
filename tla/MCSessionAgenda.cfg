SPECIFICATION Spec
CONSTANTS
    f1 = f1
    f2 = f2
    f3 = f3
    v1 = v1
    v2 = v2
    bad = bad
    r1 = r1
    r2 = r2
    g = g
    other = other
    Main = Main
    NoGroup = NoGroup
    NoToken = NoToken
    NoVal = NoVal
    Facts = {f1, f2, f3}
    Vals = {v1, v2}
    Bad = {}
    Strict = TRUE
    Rules = {r1, r2}
    Pattern <- MCPattern
    Salience <- MCSalience
    AgendaGroup <- OneOther
    ActivationGroup <- OneGroup
    NoLoop = {}
    LockOnActive = {r1}
    AutoFocus = {r2}
    Timed = {r2}
    BatchSize = 2
    Limits <- NoneOrOne
    MaxCalls = 3
    MaxOps = 1
    MaxGen = 3
INVARIANTS
    EveryMatchAccounted
PROPERTIES
    SupportLostRetracts
SYMMETRY FactSymmetry
