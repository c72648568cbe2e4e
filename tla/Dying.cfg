SPECIFICATION FairSpec
CONSTANTS
    g = g
    h = h
    Handlers <- MCHandlers
    HpMax = 3
    MaxDamage = 6
    MaxFaults = 2
INVARIANTS
    DyingInv
    WakesClean
PROPERTIES
    DyingEnds
    ImplementsDeathSaves
CHECK_DEADLOCK FALSE
