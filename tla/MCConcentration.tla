--------------------------- MODULE MCConcentration ---------------------------
EXTENDS Concentration, TLC
CONSTANTS mage, bard, hold, pattern, invisibility, fly, silence

Everyone == Permutations({mage, bard})
=============================================================================
