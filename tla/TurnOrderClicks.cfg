SPECIFICATION ClickSpec
CONSTANTS
    fighter = fighter
    wizard = wizard
    ghoul = ghoul
    wolf = wolf
    Combatants <- MCCombatants
    Npcs <- MCNpcs
    Shared <- MCShared
    Seat <- MCSeat
    Nobody = Nobody
    Callers = {p, q}
    Fates <- MCFates
    Ambushed = {}
    LastRound = 3
    MaxTurns = 10
    MaxFaults = 0
INVARIANTS
    DoneEndsItsOwnTurn
CHECK_DEADLOCK FALSE
