SPECIFICATION FairSpec
CONSTANTS
    fighter = fighter
    wizard = wizard
    ghoul = ghoul
    wolf = wolf
    Combatants <- MCCombatants
    Npcs <- MCNpcs
    Shared <- MCShared
    Seat <- MCSeat
    Nobody = Nobody
    Callers = {p}
    Fates <- MCFates
    Ambushed = {wizard}
    LastRound = 3
    MaxTurns = 10
    MaxFaults = 1
INVARIANTS
    TurnLoopInv
    ActiveIsPointedAt
    OneRowPerRound
PROPERTIES
    SeatedInOrder
    RoundClosesFull
    NpcTurnNotDropped
    ImplementsRoundRobin
    EveryoneComesUp
CHECK_DEADLOCK FALSE
