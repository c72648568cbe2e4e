CONSTANTS
    hero = hero
    orc = orc
    jump = jump
    h1 = h1
    h2 = h2
    p1 = p1
    p2 = p2
    Out = Out
    None = None
    Combatants = {hero, orc}
    Npcs = {orc}
    HpMax = 1
    Places = {p1, p2}
    Ailments = {Out}
    Actions = {jump}
    Author <- MCAuthor
    Handlers = {h1, h2}
    LastTurn = 2
    MaxLog = 3
    MaxEffects = 1
    MaxCalls = 3
SPECIFICATION Spec
SYMMETRY Hands
INVARIANTS
    LogTellsTheRow
    UndoTakesBackOne
    AppliedOnce
CHECK_DEADLOCK FALSE
