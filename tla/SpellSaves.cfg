CONSTANTS
    hero = hero
    orc = orc
    fire = fire
    h1 = h1
    h2 = h2
    None = None
    Targets = {hero, orc}
    Monsters = {orc}
    Sparable = {hero}
    Spells = {fire}
    Levels = {3}
    Handlers = {h1, h2}
    MaxRows = 3
    MaxCasts = 2
    MaxFaults = 1
SPECIFICATION Spec
SYMMETRY Hands
CHECK_DEADLOCK FALSE
INVARIANTS
    NothingLeftHanging
    LandsTogether
