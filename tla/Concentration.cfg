CONSTANTS
    mage = mage
    bard = bard
    hold = hold
    pattern = pattern
    invisibility = invisibility
    fly = fly
    silence = silence
    None = None
    Held = Held
    Nobody = Nobody
    Combatants = {mage, bard}
    Casters = {mage, bard}
    Spells = {hold, pattern, invisibility, fly, silence}
    Areas = {pattern, silence}
    Lone = {hold}
    Marking = {fly, invisibility}
    Veils = {invisibility}
    Holding = {hold, pattern}
    Binding = {hold, pattern}
    Zoned = {silence}
    Hush = {silence}
    MaxCasts = 2
    MaxUpsets = 1
SPECIFICATION Spec
SYMMETRY Everyone
CHECK_DEADLOCK FALSE
INVARIANTS
    NoOrphans
    QuietInSilence
    IncapacitatedLetGo
PROPERTY
    KeepsThePromise
