SPECIFICATION FairSpec
CONSTANTS
    aria = aria
    ghoul = ghoul
    bran = bran
    keep = keep
    crypt = crypt
    Combatants = {aria, ghoul, bran}
    Npcs = {ghoul}
    Tables = {keep, crypt}
    Table <- MCTable
    Muted = {crypt}
    Nobody = Nobody
    LastTurn = 2
    Timeout = 1
    Hour = 1
    Horizon = 4
    MaxFaults = 1
INVARIANTS
    TimerInv
    ResolvedWasPrompted
    FullTime
PROPERTIES
    NoTimeoutMissed
    UndecidedTurnsEnd
CHECK_DEADLOCK FALSE
