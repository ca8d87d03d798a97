SPECIFICATION Spec
CONSTANTS
    f1 = f1
    f2 = f2
    f3 = f3
    v1 = v1
    v2 = v2
    bad = bad
    r1 = r1
    r2 = r2
    g = g
    other = other
    Main = Main
    NoGroup = NoGroup
    NoToken = NoToken
    NoVal = NoVal
    Facts = {f1}
    Vals = {v1, v2}
    Bad = {}
    Strict = TRUE
    Rules = {r1, r2}
    Pattern <- MCPattern
    Salience <- FlatSalience
    AgendaGroup <- AllMain
    ActivationGroup <- NoGroups
    NoLoop = {}
    LockOnActive = {}
    AutoFocus = {}
    Timed = {}
    BatchSize = 2
    Limits = {2}
    MaxCalls = 3
    MaxOps = 1
    MaxGen = 3
PROPERTIES
    FiresOnlyMatches
