---------------------------- MODULE MCTurnOrder ----------------------------
(* A party against one creature, with a summon that has no seat.            *)
EXTENDS TurnOrder, TLC

CONSTANTS fighter, wizard, ghoul, wolf

MCCombatants == {fighter, wizard, ghoul, wolf}
MCNpcs == {ghoul, wolf}
MCShared == {wolf}
MCSeat == (fighter :> 1) @@ (ghoul :> 2) @@ (wizard :> 3) @@ (wolf :> 0)
MCFates == (fighter :> {}) @@ (ghoul :> {"dead"}) @@ (wizard :> {"held"}) @@ (wolf :> {})
=============================================================================
