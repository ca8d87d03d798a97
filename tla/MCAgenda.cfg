SPECIFICATION Spec
CONSTANTS
    a1 = a1
    a2 = a2
    a3 = a3
    r1 = r1
    r2 = r2
    r3 = r3
    f1 = f1
    f2 = f2
    g = g
    other = other
    Main = Main
    NoGroup = NoGroup
    Activations <- MCActivations
    Rules <- MCRules
    Facts <- MCFacts
    RuleOf <- MCRuleOf
    FactsOf <- MCFactsOf
    Salience <- MCSalience
    AgendaGroup <- MCAgendaGroup
    ActivationGroup <- MCActivationGroup
    LockOnActive <- MCLockOnActive
    Timed <- MCTimed
    StaleLimit = 1
    MaxItems = 2
    MaxFocus = 1
    MaxEntries = 2
    HashOf <- MCHashOf
INVARIANTS
    TypeOK
    BatchDetached
    NoLostActivation
PROPERTIES
    ImplementsAgendaSpec
