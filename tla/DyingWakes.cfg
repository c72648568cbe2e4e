SPECIFICATION SerialSpec
CONSTANTS
    g = g
    h = h
    Handlers <- MCHandlers
    HpMax = 3
    MaxDamage = 6
    MaxFaults = 0
INVARIANTS
    EveryHealWakes
CHECK_DEADLOCK FALSE
