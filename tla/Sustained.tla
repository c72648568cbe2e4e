------------------------------ MODULE Sustained ------------------------------
(***************************************************************************)
(* What concentration promises (docs/dnd-async-discord-spec.md,            *)
(* "Concentration"): a caster sustains one spell at a time; what the spell *)
(* does appears while it is sustained and is gone before the caster        *)
(* sustains another spell, or none.  A caster may become lost: nothing is  *)
(* promised of it any more.                                                *)
(***************************************************************************)
CONSTANTS Combatants, Spells, Places, None, Lost

VARIABLES
    sustaining, \* by caster: a spell, None or Lost
    works       \* by caster: pairs of a spell and a place where it is at work

promise == <<sustaining, works>>

Init ==
    /\ sustaining = [c \in Combatants |-> None]
    /\ works = [c \in Combatants |-> {}]

\* The spell sustained is at work in one more place.
Works(c, place) ==
    /\ sustaining[c] \in Spells
    /\ works' = [works EXCEPT ![c] = @ \cup {<<sustaining[c], place>>}]
    /\ UNCHANGED sustaining

\* Works end: by time, by a save, by the end of concentration; of one caster or
\* of several.
Fades ==
    /\ \A c \in Combatants : works'[c] \subseteq works[c]
    /\ works' = [c \in Combatants |-> works'[c]]
    /\ UNCHANGED sustaining

\* A caster that has nothing at work begins a spell or ends it.
Turns(c, s) ==
    /\ sustaining[c] # Lost
    /\ works[c] = {}
    /\ sustaining' = [sustaining EXCEPT ![c] = s]
    /\ UNCHANGED works

\* Nothing is known of some casters' works any more; others' may fade.
AreLost(who) ==
    /\ sustaining' = [c \in Combatants |-> IF c \in who THEN Lost ELSE sustaining[c]]
    /\ \A c \in Combatants : works'[c] \subseteq works[c]
    /\ works' = [c \in Combatants |-> IF c \in who THEN {} ELSE works'[c]]

Next ==
    \/ \E c \in Combatants, place \in Places : Works(c, place)
    \/ Fades
    \/ \E c \in Combatants, s \in Spells \cup {None} : Turns(c, s)
    \/ \E who \in SUBSET Combatants : AreLost(who)

Spec == Init /\ [][Next]_promise
=============================================================================
