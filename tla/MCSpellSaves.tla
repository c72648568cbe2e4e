----------------------------- MODULE MCSpellSaves -----------------------------
EXTENDS SpellSaves, TLC
CONSTANTS hero, orc, fire, h1, h2

Hands == Permutations({h1, h2})
=============================================================================
