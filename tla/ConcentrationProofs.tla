------------------------- MODULE ConcentrationProofs -------------------------
(***************************************************************************)
(* That concentration keeps its promise whatever fails, for any number of  *)
(* combatants and spells.                                                  *)
(***************************************************************************)
EXTENDS Concentration, TLAPS

(***************************************************************************)
(* The inductive invariant.  While a break runs, the caster still          *)
(* concentrates, whoever still bears one of its conditions is on the list, *)
(* and the zones are gone before the columns are.  While a cast runs, the  *)
(* caster is not silenced; once the columns are written they hold the      *)
(* spell until the handler is done with it.                                *)
(***************************************************************************)
CastSteps == {"ask", "change", "set", "touch", "unveil", "zone"}

BreakOK ==
    /\ brk.step = "none" => brk = NoBreak
    /\ brk.step # "none" =>
         /\ brk.who \in Combatants
         /\ conc[brk.who] = brk.spell
         /\ task.step \in {"rest", "set", "hush", "land", "apply"}
         /\ task.step = "set" => task.prev /\ task.c = brk.who
         /\ brk.who \notin adrift =>
              \A x \in Combatants : \A t \in column[x] : t.by = brk.who => x \in brk.todo
    /\ brk.step = "clear" =>
         brk.todo = {} /\ (brk.who \notin adrift => zones[brk.who] = {})

TaskOK ==
    /\ task.step \in CastSteps => task.c \in Combatants /\ task.spell \in Spells
    /\ task.step \in {"declare", "lapse"} => task.c \in Combatants
    /\ task.step = "ask" => task.spell \in Areas
    /\ task.step = "land" => task.spell \in Spells
    /\ task.step = "set" /\ task.prev /\ brk.step = "none" => conc[task.c] = None
    /\ task.step \in {"touch", "unveil", "zone"} => conc[task.c] = task.spell
    /\ task.step \in {"change", "set", "touch"} /\ task.spell \notin Areas =>
         \E x \in Combatants : task.todo = {x}

SilenceOK ==
    /\ task.step \in {"ask", "change", "set"} => ~Silenced(task.c)
    /\ \A x \in Combatants \ unheard :
         Silenced(x) /\ conc[x] \in Spells =>
             (task.step = "hush" /\ x \in task.todo) \/ brk.who = x

LetGoOK ==
    \A x \in Combatants \ unbroken :
        Incapacitated(x) /\ conc[x] \in Spells => brk.who = x

IInv == TypeOK /\ NoOrphans /\ BreakOK /\ TaskOK /\ SilenceOK /\ LetGoOK

(***************************************************************************)
(* Lemmas about types.                                                     *)
(***************************************************************************)
TaskType == [step : Steps, c : Combatants \cup {Nobody}, spell : Spells \cup {None},
             todo : SUBSET Combatants, prev : BOOLEAN, copy : SUBSET Tags]
BreakType == [step : {"none", "strip", "clear"}, who : Combatants \cup {Nobody},
              spell : Spells \cup {None, Held}, todo : SUBSET Combatants]

LEMMA RestTyped == Rest \in TaskType /\ NoBreak \in BreakType
  BY DEF Rest, TaskType, Steps, NoBreak, BreakType

\* A handler that begins with these locals is typed.
LEMMA TaskTyped ==
    ASSUME NEW step \in Steps, NEW c \in Combatants \cup {Nobody},
           NEW s \in Spells \cup {None}, NEW todo \in SUBSET Combatants,
           NEW prev \in BOOLEAN
    PROVE  /\ [Rest EXCEPT !.step = step, !.c = c] \in TaskType
           /\ [Rest EXCEPT !.step = step, !.todo = todo] \in TaskType
           /\ [Rest EXCEPT !.step = step, !.c = c, !.spell = s, !.todo = todo] \in TaskType
           /\ [Rest EXCEPT !.step = step, !.c = c, !.spell = s, !.todo = todo,
                           !.prev = prev] \in TaskType
  BY DEF Rest, TaskType

LEMMA BreakOfTyped ==
    ASSUME TypeOK, NEW c \in Combatants, NEW col
    PROVE  BreakOf(c, col) \in BreakType
  BY DEF BreakOf, BreakType, TypeOK

(***************************************************************************)
(* The invariant, conjunct by conjunct and action by action.               *)
(***************************************************************************)
LEMMA TypeStep ==
    ASSUME IInv, [Next]_vars
    PROVE  TypeOK'
  <1> USE ConcentrationAssumption DEF IInv, At, AtRest, Upset, history, effects, bounds
  <1>1. ASSUME NEW c \in Casters, NEW s \in Spells,
         NEW targets \in SUBSET Combatants, Cast(c, s, targets)
        PROVE  TypeOK'
    <2>1. column[c] \in SUBSET Tags /\ c \in Combatants
      BY DEF TypeOK
    <2>2. task' \in TaskType
      <3>1. PICK prev \in {conc[c] # None, FALSE} :
              task' = [step |-> IF s \in Areas THEN "ask" ELSE "change", c |-> c,
                     spell |-> s,
                       todo |-> targets, prev |-> prev,
                       copy |-> IF s \in Areas THEN {} ELSE column[c]]
        BY <1>1 DEF Cast
      <3>2. prev \in BOOLEAN /\ (IF s \in Areas THEN {} ELSE column[c]) \in SUBSET Tags
        BY <2>1
      <3>3. (IF s \in Areas THEN "ask" ELSE "change") \in Steps
        BY DEF Steps
      <3> QED BY <2>1, <3>1, <3>2, <3>3 DEF TaskType
    <2>3. casts' \in 0..MaxCasts /\ upsets' \in 0..MaxUpsets
      BY <1>1 DEF Cast, TypeOK
    <2> QED BY <1>1, <2>2, <2>3 DEF Cast, TypeOK, TaskType
  <1>2. ASSUME NEW x \in Combatants, Ask(x)
        PROVE  TypeOK'
    BY <1>2 DEF Ask, TypeOK, Tags, Tag, Stunned, Rows, Steps, NoBreak, BreakOK,
           TaskOK, CastSteps
  <1>3. ASSUME NEW x \in Combatants, CheckSilence(x)
        PROVE  TypeOK'
    BY <1>3 DEF CheckSilence, TypeOK, Tags, Tag, Stunned, Rows, Steps, Rest, NoBreak,
           BreakOf, BreakStored
  <1>4. ASSUME Change
        PROVE  TypeOK'
    BY <1>4 DEF Change, TypeOK, Tags, Tag, Stunned, Rows, Steps, NoBreak, BreakOf,
           BreakOK, TaskOK, CastSteps
  <1>4a. ASSUME ChangeUnread
        PROVE  TypeOK'
    <2>1. task.c \in Combatants
      BY <1>4a DEF ChangeUnread, TaskOK, CastSteps
    <2>2. brk' \in BreakType
      BY <1>4a, <2>1 DEF ChangeUnread, BreakOf, BreakType, TypeOK
    <2>3. upsets' \in 0..MaxUpsets
      BY <1>4a DEF ChangeUnread, TypeOK
    <2>4. task' \in TaskType
      BY <1>4a DEF ChangeUnread, TypeOK, TaskType, Steps
    <2> QED BY <1>4a, <2>1, <2>2, <2>3, <2>4 DEF ChangeUnread, TypeOK, TaskType, BreakType
  <1>5. ASSUME SetSpell
        PROVE  TypeOK'
    BY <1>5 DEF SetSpell, TypeOK, Tags, Tag, Stunned, Rows, Steps, NoBreak,
           Overwrite, BreakOK, TaskOK, CastSteps
  <1>6. ASSUME Touch
        PROVE  TypeOK'
    BY <1>6 DEF Touch, TypeOK, Tags, Tag, Stunned, Rows, Steps
  <1>7. ASSUME Unveil
        PROVE  TypeOK'
    BY <1>7 DEF Unveil, TypeOK, Tags, Tag, Stunned, Rows, Steps, NoBreak, BreakOK,
           TaskOK, CastSteps
  <1>8. ASSUME CreateZone
        PROVE  TypeOK'
    <2>1. task' \in TaskType
      BY <1>8, RestTyped, TaskTyped DEF CreateZone, Steps
    <2>2. zones' \in [Combatants -> SUBSET Spells]
      BY ZenonT(40), <1>8 DEF CreateZone, TypeOK
    <2> QED BY <1>8, <2>1, <2>2 DEF CreateZone, TypeOK, TaskType
  <1>9. ASSUME NEW c \in Casters, NEW x \in Combatants, MoveMark(c, x)
        PROVE  TypeOK'
    <2>1. task' \in TaskType
      <3>1. conc[c] \in Spells /\ c \in Combatants /\ {x} \in SUBSET Combatants
        BY <1>9 DEF MoveMark
      <3>2. task' = [Rest EXCEPT !.step = "touch", !.c = c, !.spell = conc[c],
             !.todo = {x}]
        BY <1>9 DEF MoveMark
      <3> QED BY <3>1, <3>2, TaskTyped DEF Steps
    <2>2. column' \in [Combatants -> SUBSET Tags]
      BY <1>9 DEF MoveMark, TypeOK
    <2> QED BY <1>9, <2>1, <2>2 DEF MoveMark, TypeOK, TaskType
  <1>10. ASSUME NEW x \in Combatants, Strip(x)
        PROVE  TypeOK'
    BY <1>10 DEF Strip, TypeOK, Tags, Tag, Stunned, Rows, Steps
  <1>11. ASSUME DeleteZones
        PROVE  TypeOK'
    BY <1>11 DEF DeleteZones, TypeOK, Tags, Tag, Stunned, Rows, Steps
  <1>12. ASSUME Clear
        PROVE  TypeOK'
    BY <1>12 DEF Clear, TypeOK, Tags, Tag, Stunned, Rows, Steps, NoBreak
  <1>13. ASSUME NEW x \in Combatants, NEW s \in Spells, NEW outcome \in {"saved",
         "failed"}, Roll(x, s, outcome)
        PROVE  TypeOK'
    BY <1>13 DEF Roll, TypeOK, Tags, Tag, Stunned, Rows, Steps
  <1>14. ASSUME NEW x \in Combatants, NEW row \in saves[x], Forfeit(x, row)
        PROVE  TypeOK'
    BY <1>14 DEF Forfeit, TypeOK, Tags, Tag, Stunned, Rows, Steps
  <1>15. ASSUME NEW s \in Spells, Drive(s)
        PROVE  TypeOK'
    <2>1. task' \in TaskType
      <3> DEFINE todo == IF s \in Holding THEN With(s, "failed") ELSE {}
                 saved == s \in Lone /\ With(s, "failed") = {}
      <3>1. PICK c \in IF Concentrating(s) = {} THEN {Nobody} ELSE Concentrating(s) :
              task' = [Rest EXCEPT !.step = "land", !.c = c, !.spell = s,
                         !.todo = todo, !.prev = saved]
        BY <1>15 DEF Drive
      <3>2. c \in Combatants \cup {Nobody}
        BY DEF Concentrating
      <3>3. todo \in SUBSET Combatants
        BY DEF With
      <3>4. saved \in BOOLEAN
        OBVIOUS
      <3>5. "land" \in Steps /\ s \in Spells \cup {None}
        BY DEF Steps
      <3> HIDE DEF todo, saved
      <3> QED BY <3>1, <3>2, <3>3, <3>4, <3>5, TaskTyped
    <2> QED BY <1>15, <2>1 DEF Drive, TypeOK, TaskType
  <1>16. ASSUME NEW x \in Combatants, Land(x)
        PROVE  TypeOK'
    BY <1>16 DEF Land, TypeOK, Tags, Tag, Stunned, Rows, Steps, NoBreak, BreakOf,
           BreakStored, BreakOK, TaskOK, CastSteps
  <1>17. ASSUME AllSaved
        PROVE  TypeOK'
    <2>1. task' \in TaskType
      BY <1>17 DEF AllSaved, TypeOK, TaskType, Steps
    <2>2. brk' \in BreakType
      BY <1>17, BreakOfTyped DEF AllSaved, BreakStored, Concentrating, TypeOK, BreakType
    <2> QED BY <1>17, <2>1, <2>2 DEF AllSaved, TypeOK, TaskType, BreakType
  <1>18. ASSUME Apply
        PROVE  TypeOK'
    <2>1. task' \in TaskType
      BY <1>18, RestTyped DEF Apply, TypeOK, TaskType
    <2>2. saves' \in [Combatants -> SUBSET Rows]
      BY <1>18 DEF Apply, TypeOK, With
    <2> QED BY <1>18, <2>1, <2>2 DEF Apply, TypeOK, TaskType
  <1>19. ASSUME NEW x \in Combatants, NEW t \in column[x], SaveEnds(x, t)
        PROVE  TypeOK'
    <2>1. column' \in [Combatants -> SUBSET Tags]
      BY <1>19 DEF SaveEnds, TypeOK
    <2>2. t.by \in Combatants \cup {Nobody}
      BY DEF TypeOK, Tags
    <2>3. brk' \in BreakType
      BY <1>19, <2>2, BreakOfTyped DEF SaveEnds, BreakStored, TypeOK, BreakType
    <2> QED BY <1>19, <2>1, <2>3 DEF SaveEnds, TypeOK, BreakType
  <1>20. ASSUME NEW c \in Combatants, Lose(c)
        PROVE  TypeOK'
    BY <1>20 DEF Lose, TypeOK, Tags, Tag, Stunned, Rows, Steps, BreakOf
  <1>21. ASSUME NEW c \in Combatants, Incapacitate(c)
        PROVE  TypeOK'
    BY <1>21 DEF Incapacitate, TypeOK, Tags, Tag, Stunned, Rows, Steps, BreakOf,
           BreakStored
  <1>22. ASSUME NEW c \in Combatants, Override(c)
        PROVE  TypeOK'
    BY <1>22 DEF Override, TypeOK, Tags, Tag, Stunned, Rows, Steps
  <1>23. ASSUME NEW c \in Combatants, Move(c)
        PROVE  TypeOK'
    BY <1>23 DEF Move, TypeOK, Tags, Tag, Stunned, Rows, Steps, Rest, NoBreak
  <1>24. ASSUME NEW c \in Combatants, Drag(c)
        PROVE  TypeOK'
    BY <1>24 DEF Drag, TypeOK, Tags, Tag, Stunned, Rows, Steps
  <1>25. ASSUME NEW x \in Combatants, NEW t \in column[x], Recover(x, t)
        PROVE  TypeOK'
    BY <1>25 DEF Recover, TypeOK, Tags, Tag, Stunned, Rows, Steps
  <1>26. ASSUME NEW c \in Combatants, NEW s \in zones[c], ZoneEnds(c, s)
        PROVE  TypeOK'
    BY <1>26 DEF ZoneEnds, TypeOK, Tags, Tag, Stunned, Rows, Steps
  <1>27. ASSUME NEW c \in Casters, Ready(c)
        PROVE  TypeOK'
    <2>1. task' \in TaskType
      BY <1>27, TaskTyped DEF Ready, Steps
    <2> QED BY <1>27, <2>1 DEF Ready, Overwrite, TypeOK, TaskType
  <1>28. ASSUME NEW c \in Casters, Unready(c)
        PROVE  TypeOK'
    BY <1>28 DEF Unready, TypeOK, Tags, Tag, Stunned, Rows, Steps
  <1>29. ASSUME NEW c \in Casters, Expire(c)
        PROVE  TypeOK'
    BY <1>29 DEF Expire, TypeOK, Tags, Tag, Stunned, Rows, Steps, Rest, NoBreak
  <1>30. ASSUME Declare
        PROVE  TypeOK'
    BY <1>30 DEF Declare, TypeOK, Tags, Tag, Stunned, Rows, Steps, Rest, NoBreak,
           BreakOK, TaskOK, CastSteps
  <1>31. ASSUME Lapse
        PROVE  TypeOK'
    BY <1>31 DEF Lapse, TypeOK, Tags, Tag, Stunned, Rows, Steps, Rest, NoBreak,
           Overwrite, BreakOK, TaskOK, CastSteps
  <1>32. ASSUME Fail
        PROVE  TypeOK'
    BY <1>32 DEF Fail, TypeOK, Tags, Tag, Stunned, Rows, Steps, Rest, NoBreak
  <1>33. CASE UNCHANGED vars
    BY <1>33 DEF vars, TypeOK, Tags, Tag, Stunned, Rows, Steps, Rest, NoBreak,
           BreakOf, BreakStored, Overwrite, With, Concentrating, BreakOK, TaskOK,
           CastSteps
  <1> QED
    BY <1>1, <1>2, <1>3, <1>4, <1>4a, <1>5, <1>6, <1>7, <1>8, <1>9, <1>10, <1>11, <1>12,
           <1>13, <1>14, <1>15, <1>16, <1>17, <1>18, <1>19, <1>20, <1>21, <1>22,
           <1>23, <1>24, <1>25, <1>26, <1>27, <1>28, <1>29, <1>30, <1>31, <1>32, <1>33
    DEF Next, Casting, Breaking, Saving, Happening, Readying


(***************************************************************************)
(* Conditions and zones: none without the spell.                           *)
(***************************************************************************)
LEMMA OrphansStep ==
    ASSUME IInv, [Next]_vars
    PROVE  NoOrphans'
  <1> USE ConcentrationAssumption DEF IInv, At, AtRest, Upset, history, effects, bounds
  <1>1. ASSUME NEW c \in Casters, NEW s \in Spells,
         NEW targets \in SUBSET Combatants, Cast(c, s, targets)
        PROVE  NoOrphans'
    BY <1>1 DEF Cast, NoOrphans, TypeOK
  <1>2. ASSUME NEW x \in Combatants, Ask(x)
        PROVE  NoOrphans'
    BY <1>2 DEF Ask, NoOrphans, TypeOK
  <1>3. ASSUME NEW x \in Combatants, CheckSilence(x)
        PROVE  NoOrphans'
    BY <1>3 DEF CheckSilence, NoOrphans, TypeOK, Tag, Stunned, BreakOf, BreakStored
  <1>4. ASSUME Change
        PROVE  NoOrphans'
    BY <1>4 DEF Change, NoOrphans, TypeOK, Tag, Stunned, BreakOf
  <1>4a. ASSUME ChangeUnread
        PROVE  NoOrphans'
    BY <1>4a DEF ChangeUnread, NoOrphans, TypeOK
  <1>5. ASSUME SetSpell
        PROVE  NoOrphans'
    <2>1. CASE task.prev
      BY <1>5, <2>1 DEF SetSpell, NoOrphans, TypeOK, Tags, TaskOK, CastSteps
    <2>2. CASE ~task.prev
      BY <1>5, <2>2 DEF SetSpell, NoOrphans, TypeOK, Tags, TaskOK, CastSteps, Overwrite,
                       Leftover
    <2> QED BY <2>1, <2>2
  <1>6. ASSUME Touch
        PROVE  NoOrphans'
    BY <1>6 DEF Touch, NoOrphans, TypeOK, Tags, Tag, Stunned, NoBreak, BreakOK,
           TaskOK, CastSteps
  <1>7. ASSUME Unveil
        PROVE  NoOrphans'
    BY <1>7 DEF Unveil, NoOrphans, TypeOK
  <1>8. ASSUME CreateZone
        PROVE  NoOrphans'
    BY <1>8 DEF CreateZone, NoOrphans, TypeOK, Tags, Tag, Stunned, NoBreak, BreakOK,
           TaskOK, CastSteps
  <1>9. ASSUME NEW c \in Casters, NEW x \in Combatants, MoveMark(c, x)
        PROVE  NoOrphans'
    BY <1>9 DEF MoveMark, NoOrphans, TypeOK, Tag, Stunned
  <1>10. ASSUME NEW x \in Combatants, Strip(x)
        PROVE  NoOrphans'
    BY <1>10 DEF Strip, NoOrphans, TypeOK, Tag, Stunned
  <1>11. ASSUME DeleteZones
        PROVE  NoOrphans'
    BY <1>11 DEF DeleteZones, NoOrphans, TypeOK
  <1>12. ASSUME Clear
        PROVE  NoOrphans'
    BY <1>12 DEF Clear, NoOrphans, TypeOK, Tags, Tag, Stunned, NoBreak, BreakOK,
           TaskOK, CastSteps
  <1>13. ASSUME NEW x \in Combatants, NEW s \in Spells, NEW outcome \in {"saved",
         "failed"}, Roll(x, s, outcome)
        PROVE  NoOrphans'
    BY <1>13 DEF Roll, NoOrphans, TypeOK
  <1>14. ASSUME NEW x \in Combatants, NEW row \in saves[x], Forfeit(x, row)
        PROVE  NoOrphans'
    BY <1>14 DEF Forfeit, NoOrphans, TypeOK
  <1>15. ASSUME NEW s \in Spells, Drive(s)
        PROVE  NoOrphans'
    BY <1>15 DEF Drive, NoOrphans, TypeOK
  <1>16. ASSUME NEW x \in Combatants, Land(x)
        PROVE  NoOrphans'
    BY <1>16 DEF Land, NoOrphans, TypeOK, Tag, Stunned, BreakOf, BreakStored
  <1>17. ASSUME AllSaved
        PROVE  NoOrphans'
    BY <1>17 DEF AllSaved, NoOrphans, TypeOK, Tag, Stunned, BreakOf, BreakStored
  <1>18. ASSUME Apply
        PROVE  NoOrphans'
    BY <1>18 DEF Apply, NoOrphans, TypeOK
  <1>19. ASSUME NEW x \in Combatants, NEW t \in column[x], SaveEnds(x, t)
        PROVE  NoOrphans'
    BY <1>19 DEF SaveEnds, NoOrphans, TypeOK, Tag, Stunned, BreakOf, BreakStored
  <1>20. ASSUME NEW c \in Combatants, Lose(c)
        PROVE  NoOrphans'
    BY <1>20 DEF Lose, NoOrphans, TypeOK, Tag, Stunned, BreakOf
  <1>21. ASSUME NEW c \in Combatants, Incapacitate(c)
        PROVE  NoOrphans'
    BY <1>21 DEF Incapacitate, NoOrphans, TypeOK, Tag, Stunned, BreakOf, BreakStored
  <1>22. ASSUME NEW c \in Combatants, Override(c)
        PROVE  NoOrphans'
    BY <1>22 DEF Override, NoOrphans, TypeOK, Tag, Stunned
  <1>23. ASSUME NEW c \in Combatants, Move(c)
        PROVE  NoOrphans'
    BY <1>23 DEF Move, NoOrphans, TypeOK
  <1>24. ASSUME NEW c \in Combatants, Drag(c)
        PROVE  NoOrphans'
    BY <1>24 DEF Drag, NoOrphans, TypeOK
  <1>25. ASSUME NEW x \in Combatants, NEW t \in column[x], Recover(x, t)
        PROVE  NoOrphans'
    BY <1>25 DEF Recover, NoOrphans, TypeOK
  <1>26. ASSUME NEW c \in Combatants, NEW s \in zones[c], ZoneEnds(c, s)
        PROVE  NoOrphans'
    BY <1>26 DEF ZoneEnds, NoOrphans, TypeOK
  <1>27. ASSUME NEW c \in Casters, Ready(c)
        PROVE  NoOrphans'
    BY <1>27 DEF Ready, NoOrphans, TypeOK, Overwrite, Leftover
  <1>28. ASSUME NEW c \in Casters, Unready(c)
        PROVE  NoOrphans'
    BY <1>28 DEF Unready, NoOrphans, TypeOK
  <1>29. ASSUME NEW c \in Casters, Expire(c)
        PROVE  NoOrphans'
    BY <1>29 DEF Expire, NoOrphans, TypeOK
  <1>30. ASSUME Declare
        PROVE  NoOrphans'
    BY <1>30 DEF Declare, NoOrphans, TypeOK
  <1>31. ASSUME Lapse
        PROVE  NoOrphans'
    BY <1>31 DEF Lapse, NoOrphans, TypeOK, Overwrite, Leftover
  <1>32. ASSUME Fail
        PROVE  NoOrphans'
    BY <1>32 DEF Fail, NoOrphans, TypeOK, NoBreak
  <1>33. CASE UNCHANGED vars
    BY <1>33 DEF vars, NoOrphans, TypeOK, Tags, Tag, Stunned, NoBreak, BreakOf,
           BreakStored, Overwrite, Leftover, BreakOK, TaskOK, CastSteps
  <1> QED
    BY <1>1, <1>2, <1>3, <1>4, <1>4a, <1>5, <1>6, <1>7, <1>8, <1>9, <1>10, <1>11, <1>12,
           <1>13, <1>14, <1>15, <1>16, <1>17, <1>18, <1>19, <1>20, <1>21, <1>22,
           <1>23, <1>24, <1>25, <1>26, <1>27, <1>28, <1>29, <1>30, <1>31, <1>32, <1>33
    DEF Next, Casting, Breaking, Saving, Happening, Readying


(***************************************************************************)
(* The break that runs.                                                    *)
(***************************************************************************)
LEMMA BreakStep ==
    ASSUME IInv, [Next]_vars
    PROVE  BreakOK'
  <1> USE ConcentrationAssumption DEF IInv, At, AtRest, Upset, history, effects, bounds
  <1>1. ASSUME NEW c \in Casters, NEW s \in Spells,
         NEW targets \in SUBSET Combatants, Cast(c, s, targets)
        PROVE  BreakOK'
    BY <1>1 DEF Cast, BreakOK, TypeOK, NoBreak
  <1>2. ASSUME NEW x \in Combatants, Ask(x)
        PROVE  BreakOK'
    BY <1>2 DEF Ask, BreakOK, TypeOK, NoBreak
  <1>3. ASSUME NEW x \in Combatants, CheckSilence(x)
        PROVE  BreakOK'
    BY <1>3 DEF CheckSilence, BreakOK, TypeOK, NoOrphans, Tags, Tag, Stunned, Rest,
           NoBreak, BreakOf, BreakStored, TaskOK, CastSteps
  <1>4. ASSUME Change
        PROVE  BreakOK'
    BY <1>4 DEF Change, BreakOK, TypeOK, NoOrphans, Tags, Tag, Stunned, NoBreak,
           BreakOf, TaskOK, CastSteps
  <1>4a. ASSUME ChangeUnread
        PROVE  BreakOK'
    <2>1. task.c \in Combatants /\ task.step \in CastSteps /\ brk.step = "none"
      BY <1>4a DEF ChangeUnread, TaskOK, CastSteps
    <2>2. /\ brk' = [step |-> "strip", who |-> task.c, spell |-> conc[task.c], todo |-> {}]
          /\ conc' = conc /\ column' = column /\ task' = [task EXCEPT !.step = "set"]
          /\ task.prev
      BY <1>4a DEF ChangeUnread, BreakOf
    <2>3. task.c \notin adrift' => task.c \notin adrift
      BY <1>4a DEF ChangeUnread
    <2>4. ASSUME task.c \notin adrift', NEW x \in Combatants, NEW t \in column[x],
                 t.by = task.c
          PROVE  FALSE
      <3>1. BreakOf(task.c, column).todo = {}
        BY <1>4a, <2>4 DEF ChangeUnread
      <3>2. t \in Tags /\ t.spell = conc[task.c]
        BY <2>1, <2>3, <2>4 DEF NoOrphans, TypeOK
      <3>3. t = Tag(task.c, conc[task.c])
        BY <2>1, <2>4, <3>2 DEF Tags, Tag
      <3> QED BY <2>4, <3>1, <3>3 DEF BreakOf
    <2> QED BY <2>1, <2>2, <2>4 DEF BreakOK, TypeOK
  <1>5. ASSUME SetSpell
        PROVE  BreakOK'
    BY <1>5 DEF SetSpell, BreakOK, TypeOK, NoBreak, Overwrite
  <1>6. ASSUME Touch
        PROVE  BreakOK'
    BY <1>6 DEF Touch, BreakOK, TypeOK, Tag, Stunned, NoBreak
  <1>7. ASSUME Unveil
        PROVE  BreakOK'
    BY <1>7 DEF Unveil, BreakOK, TypeOK, NoBreak
  <1>8. ASSUME CreateZone
        PROVE  BreakOK'
    BY <1>8 DEF CreateZone, BreakOK, TypeOK, Rest, NoBreak
  <1>9. ASSUME NEW c \in Casters, NEW x \in Combatants, MoveMark(c, x)
        PROVE  BreakOK'
    BY <1>9 DEF MoveMark, BreakOK, TypeOK, Tag, Stunned, Rest, NoBreak
  <1>10. ASSUME NEW x \in Combatants, Strip(x)
        PROVE  BreakOK'
    BY <1>10 DEF Strip, BreakOK, TypeOK, NoOrphans, Tags, Tag, Stunned, NoBreak,
           TaskOK, CastSteps
  <1>11. ASSUME DeleteZones
        PROVE  BreakOK'
    BY <1>11 DEF DeleteZones, BreakOK, TypeOK, NoBreak
  <1>12. ASSUME Clear
        PROVE  BreakOK'
    BY <1>12 DEF Clear, BreakOK, TypeOK, NoBreak
  <1>13. ASSUME NEW x \in Combatants, NEW s \in Spells, NEW outcome \in {"saved",
         "failed"}, Roll(x, s, outcome)
        PROVE  BreakOK'
    BY <1>13 DEF Roll, BreakOK, TypeOK, NoBreak
  <1>14. ASSUME NEW x \in Combatants, NEW row \in saves[x], Forfeit(x, row)
        PROVE  BreakOK'
    BY <1>14 DEF Forfeit, BreakOK, TypeOK, NoBreak
  <1>15. ASSUME NEW s \in Spells, Drive(s)
        PROVE  BreakOK'
    BY <1>15 DEF Drive, BreakOK, TypeOK, Rest, NoBreak
  <1>16. ASSUME NEW x \in Combatants, Land(x)
        PROVE  BreakOK'
    BY <1>16 DEF Land, BreakOK, TypeOK, NoOrphans, Tags, Tag, Stunned, NoBreak,
           BreakOf, BreakStored, TaskOK, CastSteps
  <1>17. ASSUME AllSaved
        PROVE  BreakOK'
    <2>1. CASE UNCHANGED brk
      BY <1>17, <2>1 DEF AllSaved, BreakOK, TypeOK, NoOrphans, Tags, Tag, Stunned,
             Rest, NoBreak, BreakOf, BreakStored, Overwrite, TaskOK, CastSteps
    <2>2. CASE \E c \in Concentrating(task.spell) : BreakStored(c, column)
      BY <1>17, <2>2 DEF AllSaved, Concentrating, BreakOK, TypeOK, NoOrphans, Tags,
             Tag, Stunned, Rest, NoBreak, BreakOf, BreakStored, Overwrite, TaskOK,
             CastSteps
    <2> QED BY <1>17, <2>1, <2>2 DEF AllSaved
  <1>18. ASSUME Apply
        PROVE  BreakOK'
    BY <1>18 DEF Apply, BreakOK, TypeOK, Rest, NoBreak
  <1>19. ASSUME NEW x \in Combatants, NEW t \in column[x], SaveEnds(x, t)
        PROVE  BreakOK'
    BY <1>19 DEF SaveEnds, BreakOK, TypeOK, NoOrphans, Tags, Tag, Stunned, NoBreak,
           BreakOf, BreakStored, TaskOK, CastSteps
  <1>20. ASSUME NEW c \in Combatants, Lose(c)
        PROVE  BreakOK'
    BY <1>20 DEF Lose, BreakOK, TypeOK, NoOrphans, Tags, Tag, Stunned, NoBreak,
           BreakOf, TaskOK, CastSteps
  <1>21. ASSUME NEW c \in Combatants, Incapacitate(c)
        PROVE  BreakOK'
    BY <1>21 DEF Incapacitate, BreakOK, TypeOK, NoOrphans, Tags, Tag, Stunned,
           NoBreak, BreakOf, BreakStored, TaskOK, CastSteps
  <1>22. ASSUME NEW c \in Combatants, Override(c)
        PROVE  BreakOK'
    BY <1>22 DEF Override, BreakOK, TypeOK, Tag, Stunned, NoBreak
  <1>23. ASSUME NEW c \in Combatants, Move(c)
        PROVE  BreakOK'
    BY <1>23 DEF Move, BreakOK, TypeOK, Rest, NoBreak
  <1>24. ASSUME NEW c \in Combatants, Drag(c)
        PROVE  BreakOK'
    BY <1>24 DEF Drag, BreakOK, TypeOK, NoBreak
  <1>25. ASSUME NEW x \in Combatants, NEW t \in column[x], Recover(x, t)
        PROVE  BreakOK'
    BY <1>25 DEF Recover, BreakOK, TypeOK, NoBreak
  <1>26. ASSUME NEW c \in Combatants, NEW s \in zones[c], ZoneEnds(c, s)
        PROVE  BreakOK'
    BY <1>26 DEF ZoneEnds, BreakOK, TypeOK, NoBreak
  <1>27. ASSUME NEW c \in Casters, Ready(c)
        PROVE  BreakOK'
    BY <1>27 DEF Ready, BreakOK, TypeOK, Rest, NoBreak, Overwrite
  <1>28. ASSUME NEW c \in Casters, Unready(c)
        PROVE  BreakOK'
    BY <1>28 DEF Unready, BreakOK, TypeOK, NoBreak
  <1>29. ASSUME NEW c \in Casters, Expire(c)
        PROVE  BreakOK'
    BY <1>29 DEF Expire, BreakOK, TypeOK, Rest, NoBreak
  <1>30. ASSUME Declare
        PROVE  BreakOK'
    BY <1>30 DEF Declare, BreakOK, TypeOK, Rest, NoBreak
  <1>31. ASSUME Lapse
        PROVE  BreakOK'
    BY <1>31 DEF Lapse, BreakOK, TypeOK, Rest, NoBreak, Overwrite
  <1>32. ASSUME Fail
        PROVE  BreakOK'
    BY <1>32 DEF Fail, BreakOK, TypeOK, Rest, NoBreak
  <1>33. CASE UNCHANGED vars
    BY <1>33 DEF vars, BreakOK, TypeOK, NoOrphans, Tags, Tag, Stunned, Rest, NoBreak,
           BreakOf, BreakStored, Overwrite, TaskOK, CastSteps
  <1> QED
    BY <1>1, <1>2, <1>3, <1>4, <1>4a, <1>5, <1>6, <1>7, <1>8, <1>9, <1>10, <1>11, <1>12,
           <1>13, <1>14, <1>15, <1>16, <1>17, <1>18, <1>19, <1>20, <1>21, <1>22,
           <1>23, <1>24, <1>25, <1>26, <1>27, <1>28, <1>29, <1>30, <1>31, <1>32, <1>33
    DEF Next, Casting, Breaking, Saving, Happening, Readying


(***************************************************************************)
(* The handler that runs.                                                  *)
(***************************************************************************)
LEMMA TaskStep ==
    ASSUME IInv, [Next]_vars
    PROVE  TaskOK'
  <1> USE ConcentrationAssumption DEF IInv, At, AtRest, Upset, history, effects, bounds
  <1>1. ASSUME NEW c \in Casters, NEW s \in Spells,
         NEW targets \in SUBSET Combatants, Cast(c, s, targets)
        PROVE  TaskOK'
    BY <1>1 DEF Cast, TaskOK, TypeOK, CastSteps
  <1>2. ASSUME NEW x \in Combatants, Ask(x)
        PROVE  TaskOK'
    BY <1>2 DEF Ask, TaskOK, TypeOK, CastSteps
  <1>3. ASSUME NEW x \in Combatants, CheckSilence(x)
        PROVE  TaskOK'
    BY <1>3 DEF CheckSilence, TaskOK, TypeOK, Rest, NoBreak, BreakOf, BreakStored,
           CastSteps
  <1>4. ASSUME Change
        PROVE  TaskOK'
    <2>1. task.step \in CastSteps /\ brk.step = "none"
      BY <1>4 DEF Change, CastSteps
    <2>2. task.prev => brk'.step = "strip"
      BY <1>4 DEF Change, BreakOf
    <2>3. ~task.prev => brk' = brk
      BY <1>4 DEF Change
    <2>4. task' = [task EXCEPT !.step = "set"] /\ conc' = conc
      BY <1>4 DEF Change
    <2>5. task.step = "ask" => task.spell \in Areas
      BY DEF TaskOK
    <2> QED BY <1>4, <2>1, <2>2, <2>3, <2>4, <2>5 DEF Change, TaskOK, TypeOK, CastSteps
  <1>4a. ASSUME ChangeUnread
        PROVE  TaskOK'
    <2>1. task.step \in CastSteps /\ brk'.step = "strip"
      BY <1>4a DEF ChangeUnread, CastSteps, BreakOf
    <2>2. task' = [task EXCEPT !.step = "set"] /\ conc' = conc
      BY <1>4a DEF ChangeUnread
    <2>3. task.step = "ask" => task.spell \in Areas
      BY DEF TaskOK
    <2> QED BY <1>4a, <2>1, <2>2, <2>3 DEF ChangeUnread, TaskOK, TypeOK, CastSteps
  <1>5. ASSUME SetSpell
        PROVE  TaskOK'
    BY <1>5 DEF SetSpell, TaskOK, TypeOK, Overwrite, CastSteps
  <1>6. ASSUME Touch
        PROVE  TaskOK'
    BY <1>6 DEF Touch, TaskOK, TypeOK, CastSteps
  <1>7. ASSUME Unveil
        PROVE  TaskOK'
    BY <1>7 DEF Unveil, TaskOK, TypeOK, CastSteps
  <1>8. ASSUME CreateZone
        PROVE  TaskOK'
    BY <1>8 DEF CreateZone, TaskOK, TypeOK, Rest, NoBreak, CastSteps
  <1>9. ASSUME NEW c \in Casters, NEW x \in Combatants, MoveMark(c, x)
        PROVE  TaskOK'
    BY <1>9 DEF MoveMark, TaskOK, TypeOK, Rest, NoBreak, CastSteps
  <1>10. ASSUME NEW x \in Combatants, Strip(x)
        PROVE  TaskOK'
    BY <1>10 DEF Strip, TaskOK, TypeOK, CastSteps
  <1>11. ASSUME DeleteZones
        PROVE  TaskOK'
    BY <1>11 DEF DeleteZones, TaskOK, TypeOK, CastSteps
  <1>12. ASSUME Clear
        PROVE  TaskOK'
    BY <1>12 DEF Clear, TaskOK, TypeOK, NoBreak, BreakOK, CastSteps
  <1>13. ASSUME NEW x \in Combatants, NEW s \in Spells, NEW outcome \in {"saved",
         "failed"}, Roll(x, s, outcome)
        PROVE  TaskOK'
    BY <1>13 DEF Roll, TaskOK, TypeOK, CastSteps
  <1>14. ASSUME NEW x \in Combatants, NEW row \in saves[x], Forfeit(x, row)
        PROVE  TaskOK'
    BY <1>14 DEF Forfeit, TaskOK, TypeOK, CastSteps
  <1>15. ASSUME NEW s \in Spells, Drive(s)
        PROVE  TaskOK'
    BY <1>15 DEF Drive, TaskOK, TypeOK, Rest, NoBreak, CastSteps
  <1>16. ASSUME NEW x \in Combatants, Land(x)
        PROVE  TaskOK'
    BY <1>16 DEF Land, TaskOK, TypeOK, BreakOf, BreakStored, CastSteps
  <1>17. ASSUME AllSaved
        PROVE  TaskOK'
    BY <1>17 DEF AllSaved, TaskOK, TypeOK, BreakOf, BreakStored, CastSteps
  <1>18. ASSUME Apply
        PROVE  TaskOK'
    BY <1>18 DEF Apply, TaskOK, TypeOK, Rest, NoBreak, CastSteps
  <1>19. ASSUME NEW x \in Combatants, NEW t \in column[x], SaveEnds(x, t)
        PROVE  TaskOK'
    BY <1>19 DEF SaveEnds, TaskOK, TypeOK, BreakOf, BreakStored, CastSteps
  <1>20. ASSUME NEW c \in Combatants, Lose(c)
        PROVE  TaskOK'
    BY <1>20 DEF Lose, TaskOK, TypeOK, BreakOf, CastSteps
  <1>21. ASSUME NEW c \in Combatants, Incapacitate(c)
        PROVE  TaskOK'
    BY <1>21 DEF Incapacitate, TaskOK, TypeOK, BreakOf, BreakStored, CastSteps
  <1>22. ASSUME NEW c \in Combatants, Override(c)
        PROVE  TaskOK'
    BY <1>22 DEF Override, TaskOK, TypeOK, CastSteps
  <1>23. ASSUME NEW c \in Combatants, Move(c)
        PROVE  TaskOK'
    BY <1>23 DEF Move, TaskOK, TypeOK, Rest, NoBreak, CastSteps
  <1>24. ASSUME NEW c \in Combatants, Drag(c)
        PROVE  TaskOK'
    BY <1>24 DEF Drag, TaskOK, TypeOK, CastSteps
  <1>25. ASSUME NEW x \in Combatants, NEW t \in column[x], Recover(x, t)
        PROVE  TaskOK'
    BY <1>25 DEF Recover, TaskOK, TypeOK, CastSteps
  <1>26. ASSUME NEW c \in Combatants, NEW s \in zones[c], ZoneEnds(c, s)
        PROVE  TaskOK'
    BY <1>26 DEF ZoneEnds, TaskOK, TypeOK, CastSteps
  <1>27. ASSUME NEW c \in Casters, Ready(c)
        PROVE  TaskOK'
    BY <1>27 DEF Ready, TaskOK, TypeOK, Rest, NoBreak, Overwrite, CastSteps
  <1>28. ASSUME NEW c \in Casters, Unready(c)
        PROVE  TaskOK'
    BY <1>28 DEF Unready, TaskOK, TypeOK, CastSteps
  <1>29. ASSUME NEW c \in Casters, Expire(c)
        PROVE  TaskOK'
    BY <1>29 DEF Expire, TaskOK, TypeOK, Rest, NoBreak, CastSteps
  <1>30. ASSUME Declare
        PROVE  TaskOK'
    BY <1>30 DEF Declare, TaskOK, TypeOK, Rest, NoBreak, CastSteps
  <1>31. ASSUME Lapse
        PROVE  TaskOK'
    BY <1>31 DEF Lapse, TaskOK, TypeOK, Rest, NoBreak, Overwrite, CastSteps
  <1>32. ASSUME Fail
        PROVE  TaskOK'
    BY <1>32 DEF Fail, TaskOK, TypeOK, Rest, NoBreak, CastSteps
  <1>33. CASE UNCHANGED vars
    BY <1>33 DEF vars, TaskOK, TypeOK, Rest, NoBreak, BreakOf, BreakStored,
           Overwrite, BreakOK, CastSteps
  <1> QED
    BY <1>1, <1>2, <1>3, <1>4, <1>4a, <1>5, <1>6, <1>7, <1>8, <1>9, <1>10, <1>11, <1>12,
           <1>13, <1>14, <1>15, <1>16, <1>17, <1>18, <1>19, <1>20, <1>21, <1>22,
           <1>23, <1>24, <1>25, <1>26, <1>27, <1>28, <1>29, <1>30, <1>31, <1>32, <1>33
    DEF Next, Casting, Breaking, Saving, Happening, Readying


(***************************************************************************)
(* Whoever is silenced is about to be checked.                             *)
(***************************************************************************)
LEMMA SilenceStep ==
    ASSUME IInv, [Next]_vars
    PROVE  SilenceOK'
  <1> USE ConcentrationAssumption DEF IInv, At, AtRest, Upset, history, effects, bounds
  <1>1. ASSUME NEW c \in Casters, NEW s \in Spells,
         NEW targets \in SUBSET Combatants, Cast(c, s, targets)
        PROVE  SilenceOK'
    BY <1>1 DEF Cast, SilenceOK, Silenced, TypeOK
  <1>2. ASSUME NEW x \in Combatants, Ask(x)
        PROVE  SilenceOK'
    BY <1>2 DEF Ask, SilenceOK, Silenced, TypeOK
  <1>3. ASSUME NEW x \in Combatants, CheckSilence(x)
        PROVE  SilenceOK'
    BY <1>3 DEF CheckSilence, SilenceOK, Silenced, TypeOK, Tags, NoBreak, BreakOf,
           BreakStored, BreakOK, TaskOK, CastSteps, Rest
  <1>4. ASSUME Change
        PROVE  SilenceOK'
    BY <1>4 DEF Change, SilenceOK, Silenced, TypeOK, Tags, NoBreak, BreakOf, BreakOK,
           TaskOK, CastSteps
  <1>4a. ASSUME ChangeUnread
        PROVE  SilenceOK'
    BY <1>4a DEF ChangeUnread, SilenceOK, Silenced, TypeOK, Tags, NoBreak, BreakOf, BreakOK,
           TaskOK, CastSteps
  <1>5. ASSUME SetSpell
        PROVE  SilenceOK'
    BY <1>5 DEF SetSpell, SilenceOK, Silenced, TypeOK, Overwrite
  <1>6. ASSUME Touch
        PROVE  SilenceOK'
    BY <1>6 DEF Touch, SilenceOK, Silenced, TypeOK
  <1>7. ASSUME Unveil
        PROVE  SilenceOK'
    BY <1>7 DEF Unveil, SilenceOK, Silenced, TypeOK
  <1>8. ASSUME CreateZone
        PROVE  SilenceOK'
    BY <1>8 DEF CreateZone, SilenceOK, Silenced, TypeOK, NoBreak, Rest
  <1>9. ASSUME NEW c \in Casters, NEW x \in Combatants, MoveMark(c, x)
        PROVE  SilenceOK'
    BY <1>9 DEF MoveMark, SilenceOK, Silenced, TypeOK, NoBreak, Rest
  <1>10. ASSUME NEW x \in Combatants, Strip(x)
        PROVE  SilenceOK'
    BY <1>10 DEF Strip, SilenceOK, Silenced, TypeOK
  <1>11. ASSUME DeleteZones
        PROVE  SilenceOK'
    BY <1>11 DEF DeleteZones, SilenceOK, Silenced, TypeOK
  <1>12. ASSUME Clear
        PROVE  SilenceOK'
    BY <1>12 DEF Clear, SilenceOK, Silenced, TypeOK, NoBreak
  <1>13. ASSUME NEW x \in Combatants, NEW s \in Spells, NEW outcome \in {"saved",
         "failed"}, Roll(x, s, outcome)
        PROVE  SilenceOK'
    BY <1>13 DEF Roll, SilenceOK, Silenced, TypeOK
  <1>14. ASSUME NEW x \in Combatants, NEW row \in saves[x], Forfeit(x, row)
        PROVE  SilenceOK'
    BY <1>14 DEF Forfeit, SilenceOK, Silenced, TypeOK
  <1>15. ASSUME NEW s \in Spells, Drive(s)
        PROVE  SilenceOK'
    BY <1>15 DEF Drive, SilenceOK, Silenced, TypeOK, NoBreak, Rest
  <1>16. ASSUME NEW x \in Combatants, Land(x)
        PROVE  SilenceOK'
    BY <1>16 DEF Land, SilenceOK, Silenced, TypeOK, Tags, NoBreak, BreakOf,
           BreakStored, BreakOK, TaskOK, CastSteps
  <1>17. ASSUME AllSaved
        PROVE  SilenceOK'
    BY <1>17 DEF AllSaved, SilenceOK, Silenced, TypeOK, Tags, NoBreak, BreakOf,
           BreakStored, BreakOK, TaskOK, CastSteps
  <1>18. ASSUME Apply
        PROVE  SilenceOK'
    BY <1>18 DEF Apply, SilenceOK, Silenced, TypeOK, NoBreak, Rest
  <1>19. ASSUME NEW x \in Combatants, NEW t \in column[x], SaveEnds(x, t)
        PROVE  SilenceOK'
    BY <1>19 DEF SaveEnds, SilenceOK, Silenced, TypeOK, Tags, NoBreak, BreakOf,
           BreakStored, BreakOK, TaskOK, CastSteps
  <1>20. ASSUME NEW c \in Combatants, Lose(c)
        PROVE  SilenceOK'
    BY <1>20 DEF Lose, SilenceOK, Silenced, TypeOK, Tags, NoBreak, BreakOf, BreakOK,
           TaskOK, CastSteps
  <1>21. ASSUME NEW c \in Combatants, Incapacitate(c)
        PROVE  SilenceOK'
    BY <1>21 DEF Incapacitate, SilenceOK, Silenced, TypeOK, Tags, NoBreak, BreakOf,
           BreakStored, BreakOK, TaskOK, CastSteps
  <1>22. ASSUME NEW c \in Combatants, Override(c)
        PROVE  SilenceOK'
    BY <1>22 DEF Override, SilenceOK, Silenced, TypeOK
  <1>23. ASSUME NEW c \in Combatants, Move(c)
        PROVE  SilenceOK'
    BY <1>23 DEF Move, SilenceOK, Silenced, TypeOK, NoBreak, Rest
  <1>24. ASSUME NEW c \in Combatants, Drag(c)
        PROVE  SilenceOK'
    BY <1>24 DEF Drag, SilenceOK, Silenced, TypeOK
  <1>25. ASSUME NEW x \in Combatants, NEW t \in column[x], Recover(x, t)
        PROVE  SilenceOK'
    BY <1>25 DEF Recover, SilenceOK, Silenced, TypeOK
  <1>26. ASSUME NEW c \in Combatants, NEW s \in zones[c], ZoneEnds(c, s)
        PROVE  SilenceOK'
    BY <1>26 DEF ZoneEnds, SilenceOK, Silenced, TypeOK
  <1>27. ASSUME NEW c \in Casters, Ready(c)
        PROVE  SilenceOK'
    BY <1>27 DEF Ready, SilenceOK, Silenced, TypeOK, NoBreak, Overwrite, Rest
  <1>28. ASSUME NEW c \in Casters, Unready(c)
        PROVE  SilenceOK'
    BY <1>28 DEF Unready, SilenceOK, Silenced, TypeOK
  <1>29. ASSUME NEW c \in Casters, Expire(c)
        PROVE  SilenceOK'
    BY <1>29 DEF Expire, SilenceOK, Silenced, TypeOK, NoBreak, Rest
  <1>30. ASSUME Declare
        PROVE  SilenceOK'
    BY <1>30 DEF Declare, SilenceOK, Silenced, TypeOK, NoBreak, Rest
  <1>31. ASSUME Lapse
        PROVE  SilenceOK'
    BY <1>31 DEF Lapse, SilenceOK, Silenced, TypeOK, NoBreak, Overwrite, Rest
  <1>32. ASSUME Fail
        PROVE  SilenceOK'
    BY <1>32 DEF Fail, SilenceOK, Silenced, TypeOK, NoBreak, Rest
  <1>33. CASE UNCHANGED vars
    BY <1>33 DEF vars, SilenceOK, Silenced, TypeOK, Tags, NoBreak, BreakOf,
           BreakStored, Overwrite, BreakOK, TaskOK, CastSteps, Rest
  <1> QED
    BY <1>1, <1>2, <1>3, <1>4, <1>4a, <1>5, <1>6, <1>7, <1>8, <1>9, <1>10, <1>11, <1>12,
           <1>13, <1>14, <1>15, <1>16, <1>17, <1>18, <1>19, <1>20, <1>21, <1>22,
           <1>23, <1>24, <1>25, <1>26, <1>27, <1>28, <1>29, <1>30, <1>31, <1>32, <1>33
    DEF Next, Casting, Breaking, Saving, Happening, Readying


(***************************************************************************)
(* Whoever is incapacitated is letting go.                                 *)
(***************************************************************************)
LEMMA LetGoStep ==
    ASSUME IInv, [Next]_vars
    PROVE  LetGoOK'
  <1> USE ConcentrationAssumption DEF IInv, At, AtRest, Upset, history, effects, bounds
  <1>1. ASSUME NEW c \in Casters, NEW s \in Spells,
         NEW targets \in SUBSET Combatants, Cast(c, s, targets)
        PROVE  LetGoOK'
    BY <1>1 DEF Cast, LetGoOK, Incapacitated, TypeOK, Tag, Stunned
  <1>2. ASSUME NEW x \in Combatants, Ask(x)
        PROVE  LetGoOK'
    BY <1>2 DEF Ask, LetGoOK, Incapacitated, TypeOK, Tag, Stunned
  <1>3. ASSUME NEW x \in Combatants, CheckSilence(x)
        PROVE  LetGoOK'
    BY <1>3 DEF CheckSilence, LetGoOK, Incapacitated, TypeOK, Tags, Tag, Stunned,
           NoBreak, BreakOf, BreakStored, BreakOK, TaskOK, CastSteps
  <1>4. ASSUME Change
        PROVE  LetGoOK'
    BY <1>4 DEF Change, LetGoOK, Incapacitated, TypeOK, Tags, Tag, Stunned, NoBreak,
           BreakOf, BreakOK, TaskOK, CastSteps
  <1>4a. ASSUME ChangeUnread
        PROVE  LetGoOK'
    BY <1>4a DEF ChangeUnread, LetGoOK, Incapacitated, TypeOK, NoBreak, BreakOf, BreakOK,
           TaskOK, CastSteps
  <1>5. ASSUME SetSpell
        PROVE  LetGoOK'
    BY <1>5 DEF SetSpell, LetGoOK, Incapacitated, TypeOK, Tag, Stunned, Overwrite
  <1>6. ASSUME Touch
        PROVE  LetGoOK'
    BY <1>6 DEF Touch, LetGoOK, Incapacitated, TypeOK, Tag, Stunned
  <1>7. ASSUME Unveil
        PROVE  LetGoOK'
    BY <1>7 DEF Unveil, LetGoOK, Incapacitated, TypeOK, Tag, Stunned
  <1>8. ASSUME CreateZone
        PROVE  LetGoOK'
    BY <1>8 DEF CreateZone, LetGoOK, Incapacitated, TypeOK, Tag, Stunned
  <1>9. ASSUME NEW c \in Casters, NEW x \in Combatants, MoveMark(c, x)
        PROVE  LetGoOK'
    BY <1>9 DEF MoveMark, LetGoOK, Incapacitated, TypeOK, Tag, Stunned
  <1>10. ASSUME NEW x \in Combatants, Strip(x)
        PROVE  LetGoOK'
    BY <1>10 DEF Strip, LetGoOK, Incapacitated, TypeOK, Tag, Stunned
  <1>11. ASSUME DeleteZones
        PROVE  LetGoOK'
    BY <1>11 DEF DeleteZones, LetGoOK, Incapacitated, TypeOK, Tag, Stunned
  <1>12. ASSUME Clear
        PROVE  LetGoOK'
    BY <1>12 DEF Clear, LetGoOK, Incapacitated, TypeOK, Tag, Stunned, NoBreak
  <1>13. ASSUME NEW x \in Combatants, NEW s \in Spells, NEW outcome \in {"saved",
         "failed"}, Roll(x, s, outcome)
        PROVE  LetGoOK'
    BY <1>13 DEF Roll, LetGoOK, Incapacitated, TypeOK, Tag, Stunned
  <1>14. ASSUME NEW x \in Combatants, NEW row \in saves[x], Forfeit(x, row)
        PROVE  LetGoOK'
    BY <1>14 DEF Forfeit, LetGoOK, Incapacitated, TypeOK, Tag, Stunned
  <1>15. ASSUME NEW s \in Spells, Drive(s)
        PROVE  LetGoOK'
    BY <1>15 DEF Drive, LetGoOK, Incapacitated, TypeOK, Tag, Stunned
  <1>16. ASSUME NEW x \in Combatants, Land(x)
        PROVE  LetGoOK'
    BY <1>16 DEF Land, LetGoOK, Incapacitated, TypeOK, Tags, Tag, Stunned, NoBreak,
           BreakOf, BreakStored, BreakOK, TaskOK, CastSteps
  <1>17. ASSUME AllSaved
        PROVE  LetGoOK'
    BY <1>17 DEF AllSaved, LetGoOK, Incapacitated, TypeOK, Tags, Tag, Stunned,
           NoBreak, BreakOf, BreakStored, BreakOK, TaskOK, CastSteps
  <1>18. ASSUME Apply
        PROVE  LetGoOK'
    BY <1>18 DEF Apply, LetGoOK, Incapacitated, TypeOK, Tag, Stunned
  <1>19. ASSUME NEW x \in Combatants, NEW t \in column[x], SaveEnds(x, t)
        PROVE  LetGoOK'
    BY <1>19 DEF SaveEnds, LetGoOK, Incapacitated, TypeOK, Tags, Tag, Stunned,
           NoBreak, BreakOf, BreakStored, BreakOK, TaskOK, CastSteps
  <1>20. ASSUME NEW c \in Combatants, Lose(c)
        PROVE  LetGoOK'
    BY <1>20 DEF Lose, LetGoOK, Incapacitated, TypeOK, Tags, Tag, Stunned, NoBreak,
           BreakOf, BreakOK, TaskOK, CastSteps
  <1>21. ASSUME NEW c \in Combatants, Incapacitate(c)
        PROVE  LetGoOK'
    BY <1>21 DEF Incapacitate, LetGoOK, Incapacitated, TypeOK, Tags, Tag, Stunned,
           NoBreak, BreakOf, BreakStored, BreakOK, TaskOK, CastSteps
  <1>22. ASSUME NEW c \in Combatants, Override(c)
        PROVE  LetGoOK'
    BY <1>22 DEF Override, LetGoOK, Incapacitated, TypeOK, Tag, Stunned
  <1>23. ASSUME NEW c \in Combatants, Move(c)
        PROVE  LetGoOK'
    BY <1>23 DEF Move, LetGoOK, Incapacitated, TypeOK, Tag, Stunned
  <1>24. ASSUME NEW c \in Combatants, Drag(c)
        PROVE  LetGoOK'
    BY <1>24 DEF Drag, LetGoOK, Incapacitated, TypeOK, Tag, Stunned
  <1>25. ASSUME NEW x \in Combatants, NEW t \in column[x], Recover(x, t)
        PROVE  LetGoOK'
    BY <1>25 DEF Recover, LetGoOK, Incapacitated, TypeOK, Tag, Stunned
  <1>26. ASSUME NEW c \in Combatants, NEW s \in zones[c], ZoneEnds(c, s)
        PROVE  LetGoOK'
    BY <1>26 DEF ZoneEnds, LetGoOK, Incapacitated, TypeOK, Tag, Stunned
  <1>27. ASSUME NEW c \in Casters, Ready(c)
        PROVE  LetGoOK'
    BY <1>27 DEF Ready, LetGoOK, Incapacitated, TypeOK, Tag, Stunned, Overwrite
  <1>28. ASSUME NEW c \in Casters, Unready(c)
        PROVE  LetGoOK'
    BY <1>28 DEF Unready, LetGoOK, Incapacitated, TypeOK, Tag, Stunned
  <1>29. ASSUME NEW c \in Casters, Expire(c)
        PROVE  LetGoOK'
    BY <1>29 DEF Expire, LetGoOK, Incapacitated, TypeOK, Tag, Stunned
  <1>30. ASSUME Declare
        PROVE  LetGoOK'
    BY <1>30 DEF Declare, LetGoOK, Incapacitated, TypeOK, Tag, Stunned
  <1>31. ASSUME Lapse
        PROVE  LetGoOK'
    BY <1>31 DEF Lapse, LetGoOK, Incapacitated, TypeOK, Tag, Stunned, Overwrite
  <1>32. ASSUME Fail
        PROVE  LetGoOK'
    BY <1>32 DEF Fail, LetGoOK, Incapacitated, TypeOK, Tag, Stunned, NoBreak
  <1>33. CASE UNCHANGED vars
    BY <1>33 DEF vars, LetGoOK, Incapacitated, TypeOK, Tags, Tag, Stunned, NoBreak,
           BreakOf, BreakStored, Overwrite, BreakOK, TaskOK, CastSteps
  <1> QED
    BY <1>1, <1>2, <1>3, <1>4, <1>4a, <1>5, <1>6, <1>7, <1>8, <1>9, <1>10, <1>11, <1>12,
           <1>13, <1>14, <1>15, <1>16, <1>17, <1>18, <1>19, <1>20, <1>21, <1>22,
           <1>23, <1>24, <1>25, <1>26, <1>27, <1>28, <1>29, <1>30, <1>31, <1>32, <1>33
    DEF Next, Casting, Breaking, Saving, Happening, Readying


(***************************************************************************)
(* The theorems.                                                           *)
(***************************************************************************)
LEMMA InitIInv == Init => IInv
  BY ConcentrationAssumption
  DEF Init, IInv, TypeOK, NoOrphans, BreakOK, TaskOK, SilenceOK, LetGoOK, Rest, NoBreak,
      Steps, CastSteps, Silenced, Incapacitated

\* What holds in every state of every execution, type correctness included.
THEOREM ConcentrationHolds == Spec => []IInv
  <1>1. Init => IInv
    BY InitIInv
  <1>2. IInv /\ [Next]_vars => IInv'
    BY TypeStep, OrphansStep, BreakStep, TaskStep, SilenceStep, LetGoStep DEF IInv
  <1> QED BY <1>1, <1>2, PTL DEF Spec

\* Every column, row and local stays within its type: the handlers of
\* concentration.go, spellcasting.go, aoe.go and zone.go write nothing else.
THEOREM ColumnsTyped == Spec => []TypeOK
  BY ConcentrationHolds, PTL DEF IInv

\* No condition and no zone outlives the concentration it depends on, whatever
\* statement of whatever handler fails, unless the columns or the conditions were
\* overwritten blindly (concentration.go, spellcasting.go, aoe.go, zone.go).
THEOREM NothingOrphaned == Spec => []NoOrphans
  BY ConcentrationHolds, PTL DEF IInv

\* Nobody concentrates in Silence once the handler that put it there is done,
\* unless the check was bypassed or cut short.
THEOREM SilenceIsHeard == Spec => []QuietInSilence
  <1>1. IInv => QuietInSilence
    BY ConcentrationAssumption
    DEF IInv, QuietInSilence, SilenceOK, BreakOK, NoBreak, AtRest, TypeOK
  <1> QED BY <1>1, ConcentrationHolds, PTL

\* Whoever is incapacitated has let go once the handler is done, unless it cast in
\* that state or the hook was bypassed or cut short.
THEOREM IncapacityBreaks == Spec => []IncapacitatedLetGo
  <1>1. IInv => IncapacitatedLetGo
    BY ConcentrationAssumption
    DEF IInv, IncapacitatedLetGo, LetGoOK, BreakOK, NoBreak, AtRest
  <1> QED BY <1>1, ConcentrationHolds, PTL

(***************************************************************************)
(* Every step is a step of the promise.  Statements come in three kinds:   *)
(* those that put nothing to work (LosesOnly), those that write the        *)
(* columns (Overwrites), those that put a spell to work (PutsToWork).      *)
(***************************************************************************)
Shown == <<[c \in Combatants |-> Sustaining(c)], [c \in Combatants |-> Works(c)]>>

LEMMA LosesOnly ==
    ASSUME conc' = conc, adrift \subseteq adrift', adrift' \in SUBSET Combatants,
           \A c \in Combatants \ adrift' : Works(c)' \subseteq Works(c)
    PROVE  Promise!AreLost(adrift')
  <1>1. \A c \in Combatants : Sustaining(c)' = IF c \in adrift' THEN "lost" ELSE Sustaining(c)
    BY DEF Sustaining
  <1>2. \A c \in Combatants : c \in adrift' => Works(c)' = {}
    BY DEF Works
  <1> QED BY <1>1, <1>2 DEF Promise!AreLost

\* Nothing is put to work when no column gains a condition with a source and no
\* zone is added.
LEMMA NothingPutToWork ==
    ASSUME \A x \in Combatants : \A t \in column'[x] : t \in column[x] \/ t.by \notin Combatants,
           \A c \in Combatants : zones'[c] \subseteq zones[c], adrift \subseteq adrift'
    PROVE  \A c \in Combatants \ adrift' : Works(c)' \subseteq Works(c)
  <1> SUFFICES ASSUME NEW c \in Combatants \ adrift', NEW w \in Works(c)'
               PROVE  w \in Works(c)
    OBVIOUS
  <1>1. w \in Spells \X Places /\ c \notin adrift
    BY DEF Works
  <1>2. CASE w[2] = Nobody
    BY <1>1, <1>2 DEF Works
  <1>3. CASE w[2] # Nobody
    <2>1. w[2] \in Combatants /\ Tag(c, w[1]) \in column'[w[2]]
      BY <1>1, <1>3 DEF Works, Places
    <2>2. Tag(c, w[1]).by \in Combatants
      BY DEF Tag
    <2>3. Tag(c, w[1]) \in column[w[2]]
      BY <2>1, <2>2
    <2> QED BY <1>1, <1>3, <2>3 DEF Works
  <1> QED BY <1>2, <1>3

LEMMA SameWorks ==
    ASSUME NEW c \in Combatants, UNCHANGED effects, c \in adrift' <=> c \in adrift
    PROVE  Works(c)' = Works(c)
  BY DEF Works, effects

\* A caster whose leftovers are none has nothing at work but the spell itself.
LEMMA NothingAtWork ==
    ASSUME IInv, NEW c \in Combatants \ adrift, NEW v, ~Leftover(c, v), conc[c] # v
    PROVE  Works(c) = {}
  <1> SUFFICES ASSUME NEW w \in Works(c) PROVE FALSE
    OBVIOUS
  <1>1. w \in Spells \X Places /\ w[1] \in Spells
    BY DEF Works
  <1>2. CASE w[2] = Nobody
    BY <1>1, <1>2 DEF Works, Leftover, IInv, NoOrphans
  <1>3. CASE w[2] # Nobody
    <2>1. w[2] \in Combatants /\ Tag(c, w[1]) \in column[w[2]]
      BY <1>1, <1>3 DEF Works, Places
    <2>2. Tag(c, w[1]).by = c /\ Tag(c, w[1]).spell = w[1]
      BY DEF Tag
    <2>3. w[1] = conc[c]
      BY <2>1, <2>2 DEF IInv, NoOrphans
    <2>4. w[1] = v
      BY <2>1, <2>2 DEF Leftover
    <2> QED BY <2>3, <2>4
  <1> QED BY <1>2, <1>3

LEMMA Overwrites ==
    ASSUME IInv, NEW c \in Combatants, NEW v \in Spells \cup {None, Held},
           Overwrite(c, v), UNCHANGED effects
    PROVE  Promise!Next \/ UNCHANGED Shown
  <1> DEFINE s == IF v \in Spells THEN v ELSE None
  <1>1. \A d \in Combatants \ {c} : Sustaining(d)' = Sustaining(d) /\ Works(d)' = Works(d)
    BY SameWorks DEF Overwrite, Sustaining, IInv, TypeOK
  <1>2. conc'[c] = v
    BY DEF Overwrite, IInv, TypeOK
  <1>3. CASE c \in adrift
    <2>1. adrift' = adrift
      BY <1>3 DEF Overwrite
    <2>2. Sustaining(c)' = Sustaining(c) /\ Works(c)' = Works(c)
      BY <1>3, <2>1 DEF Sustaining, Works
    <2> QED BY <1>1, <2>2 DEF Shown
  <1>4. CASE c \notin adrift /\ Leftover(c, v)
    <2>1. adrift' = adrift \cup {c}
      BY <1>4 DEF Overwrite
    <2>2. Sustaining(c)' = "lost" /\ Works(c)' = {}
      BY <2>1 DEF Sustaining, Works
    <2>3. Promise!AreLost({c})
      BY <1>1, <2>2 DEF Promise!AreLost
    <2> QED BY <2>3 DEF Promise!Next
  <1>5. CASE c \notin adrift /\ ~Leftover(c, v)
    <2>1. adrift' = adrift
      BY <1>5 DEF Overwrite
    <2>2. Works(c)' = Works(c)
      BY <2>1, SameWorks
    <2>3. Sustaining(c)' = s
      BY <1>2, <1>5, <2>1 DEF Sustaining
    <2>4. CASE conc[c] = v
      <3>1. Sustaining(c)' = Sustaining(c)
        BY <1>2, <2>1, <2>4 DEF Sustaining
      <3> QED BY <1>1, <2>2, <3>1 DEF Shown
    <2>5. CASE conc[c] # v
      <3>1. Works(c) = {}
        BY <1>5, <2>5, NothingAtWork
      <3>2. Sustaining(c) # "lost"
        BY <1>5, ConcentrationAssumption DEF Sustaining
      <3>3. Promise!Turns(c, s)
        BY <1>1, <2>2, <2>3, <3>1, <3>2 DEF Promise!Turns
      <3>4. s \in Spells \cup {None}
        OBVIOUS
      <3> QED BY <3>3, <3>4 DEF Promise!Next
    <2> QED BY <2>4, <2>5
  <1> QED BY <1>3, <1>4, <1>5

LEMMA PutsToWork ==
    ASSUME IInv, NEW c \in Combatants, NEW place \in Places, conc[c] \in Spells,
           UNCHANGED <<conc, adrift>>,
           \A d \in Combatants \ adrift :
               Works(d)' = IF d = c THEN Works(d) \cup {<<conc[c], place>>} ELSE Works(d)
    PROVE  Promise!Next \/ UNCHANGED Shown
  <1>1. \A d \in Combatants : Sustaining(d)' = Sustaining(d)
    BY DEF Sustaining
  <1>2. \A d \in adrift : Works(d)' = {} /\ Works(d) = {}
    BY DEF Works
  <1>3. CASE c \in adrift
    <2>1. \A d \in Combatants : Works(d)' = Works(d)
      BY <1>2, <1>3
    <2> QED BY <1>1, <2>1 DEF Shown
  <1>4. CASE c \notin adrift
    <2>1. Sustaining(c) = conc[c]
      BY <1>4 DEF Sustaining
    <2>2. \A d \in Combatants :
            Works(d)' = IF d = c THEN Works(d) \cup {<<conc[c], place>>} ELSE Works(d)
      BY <1>2, <1>4
    <2>3. Promise!Works(c, place)
      BY <1>1, <2>1, <2>2 DEF Promise!Works
    <2> QED BY <2>3 DEF Promise!Next
  <1> QED BY <1>3, <1>4

\* A condition with its source lands on some combatant.
LEMMA TagPutsToWork ==
    ASSUME IInv, NEW c \in Combatants, NEW x \in Combatants, conc[c] \in Spells,
           UNCHANGED <<conc, adrift, zones>>,
           column' = [column EXCEPT ![x] = @ \cup {Tag(c, conc[c])}]
    PROVE  Promise!Next \/ UNCHANGED Shown
  <1>1. ASSUME NEW d \in Combatants \ adrift
        PROVE  Works(d)' = IF d = c THEN Works(d) \cup {<<conc[c], x>>} ELSE Works(d)
    <2>1. \A s \in Spells, y \in Combatants :
            Tag(d, s) \in column'[y]
              <=> Tag(d, s) \in column[y] \/ (d = c /\ s = conc[c] /\ y = x)
      BY DEF IInv, TypeOK, Tag
    <2>2. x # Nobody /\ x \in Places
      BY ConcentrationAssumption DEF Places
    <2> QED BY <2>1, <2>2 DEF Works, Places
  <1>2. x \in Places
    BY DEF Places
  <1> QED BY <1>1, <1>2, PutsToWork

LEMMA ZonePutsToWork ==
    ASSUME IInv, NEW c \in Combatants, conc[c] \in Spells,
           UNCHANGED <<conc, adrift, column>>,
           zones' = [zones EXCEPT ![c] = @ \cup {conc[c]}]
    PROVE  Promise!Next \/ UNCHANGED Shown
  <1>1. ASSUME NEW d \in Combatants \ adrift
        PROVE  Works(d)' = IF d = c THEN Works(d) \cup {<<conc[c], Nobody>>} ELSE Works(d)
    <2>1. \A s \in Spells : s \in zones'[d] <=> s \in zones[d] \/ (d = c /\ s = conc[c])
      BY DEF IInv, TypeOK
    <2> QED BY <2>1 DEF Works, Places
  <1>2. Nobody \in Places
    BY DEF Places
  <1> QED BY <1>1, <1>2, PutsToWork

LEMMA Fades ==
    ASSUME conc' = conc, adrift \subseteq adrift', adrift' \in SUBSET Combatants,
           \A x \in Combatants : \A t \in column'[x] : t \in column[x] \/ t.by \notin Combatants,
           \A c \in Combatants : zones'[c] \subseteq zones[c]
    PROVE  Promise!Next
  <1>1. Promise!AreLost(adrift')
    BY LosesOnly, NothingPutToWork
  <1> QED BY <1>1 DEF Promise!Next

LEMMA Silent ==
    ASSUME IInv, UNCHANGED <<conc, effects, adrift>>
    PROVE  Promise!Next
  BY Fades DEF effects, IInv, TypeOK

\* The promise, action by action.
LEMMA PromiseStep ==
    ASSUME IInv, [Next]_vars
    PROVE  Promise!Next \/ UNCHANGED Shown
  <1> USE ConcentrationAssumption DEF history, effects
  <1>1. ASSUME NEW c \in Casters, NEW s \in Spells, NEW targets \in SUBSET Combatants,
         Cast(c, s, targets)
        PROVE  Promise!Next \/ UNCHANGED Shown
    <2>1. UNCHANGED <<conc, effects, adrift>>
      BY <1>1 DEF Cast
    <2> QED BY <2>1, Silent
  <1>2. ASSUME NEW x \in Combatants, Ask(x)
        PROVE  Promise!Next \/ UNCHANGED Shown
    <2>1. UNCHANGED <<conc, effects, adrift>>
      BY <1>2 DEF Ask
    <2> QED BY <2>1, Silent
  <1>3. ASSUME NEW x \in Combatants, CheckSilence(x)
        PROVE  Promise!Next \/ UNCHANGED Shown
    <2>1. UNCHANGED <<conc, effects, adrift>>
      BY <1>3 DEF CheckSilence
    <2> QED BY <2>1, Silent
  <1>4. ASSUME Change
        PROVE  Promise!Next \/ UNCHANGED Shown
    <2>1. UNCHANGED <<conc, effects, adrift>>
      BY <1>4 DEF Change
    <2> QED BY <2>1, Silent
  <1>4a. ASSUME ChangeUnread
        PROVE  Promise!Next \/ UNCHANGED Shown
    <2>1. /\ conc' = conc /\ UNCHANGED effects /\ adrift \subseteq adrift'
          /\ adrift' \in SUBSET Combatants
      BY <1>4a DEF ChangeUnread, At, IInv, TypeOK, TaskOK, CastSteps
    <2> QED BY <2>1, Fades DEF IInv, TypeOK
  <1>5. ASSUME SetSpell
        PROVE  Promise!Next \/ UNCHANGED Shown
    <2>1. /\ At("set") /\ task.c \in Combatants /\ task.spell \in Spells
          /\ UNCHANGED effects
      BY <1>5 DEF SetSpell, At, IInv, TaskOK, CastSteps
    <2>2. CASE ~task.prev
      <3>1. Overwrite(task.c, task.spell)
        BY <1>5, <2>2 DEF SetSpell
      <3> QED BY <2>1, <3>1, Overwrites
    <2>3. CASE task.prev
      <3>1. conc[task.c] = None
        BY <2>1, <2>3 DEF At, IInv, TaskOK
      <3>2. task.c \notin adrift => ~Leftover(task.c, task.spell)
        <4>1. \A x \in Combatants : \A t \in column[x] : t.by \in Combatants => t.spell # None
          BY DEF IInv, TypeOK, Tags
        <4> QED BY <2>1, <3>1, <4>1 DEF Leftover, IInv, NoOrphans, TypeOK
      <3>3. Overwrite(task.c, task.spell)
        BY <1>5, <2>3, <3>2 DEF SetSpell, Overwrite, IInv, TypeOK
      <3> QED BY <2>1, <3>3, Overwrites
    <2> QED BY <2>2, <2>3
  <1>6. ASSUME Touch
        PROVE  Promise!Next \/ UNCHANGED Shown
    <2>1. At("touch") /\ task.c \in Combatants /\ task.spell \in Spells /\ conc[task.c] = task.spell
      BY <1>6 DEF Touch, At, IInv, TaskOK, CastSteps
    <2>2. CASE task.spell \notin Marking
      <3>1. UNCHANGED <<conc, effects, adrift>>
        BY <1>6, <2>2 DEF Touch, IInv, TypeOK
      <3> QED BY <3>1, Silent
    <2>3. CASE task.spell \in Marking
      <3>1. PICK x \in Combatants : task.todo = {x}
        BY <2>1, <2>3 DEF At, IInv, TaskOK
      <3>2. /\ column' = [column EXCEPT ![x] = @ \cup {Tag(task.c, conc[task.c])}]
            /\ UNCHANGED <<conc, adrift, zones>>
        BY ZenonT(40), <1>6, <2>1, <2>3, <3>1 DEF Touch, IInv, TypeOK
      <3> QED BY <2>1, <3>2, TagPutsToWork
    <2> QED BY <2>2, <2>3
  <1>7. ASSUME Unveil
        PROVE  Promise!Next \/ UNCHANGED Shown
    <2>1. task.c \in Combatants /\ conc' = conc /\ zones' = zones /\ adrift \subseteq adrift'
      BY <1>7 DEF Unveil, At, IInv, TaskOK, CastSteps
    <2> DEFINE kept == {t \in task.copy : t.spell \notin Veils}
    <2>2. /\ column' = [column EXCEPT ![task.c] = kept]
          /\ adrift' = adrift \cup ({t.by : t \in kept \ column[task.c]} \ {Nobody})
      BY <1>7 DEF Unveil
    <2>3. \A t \in kept : t.by \in Combatants \cup {Nobody}
      BY DEF IInv, TypeOK, Tags
    <2>4. adrift' \in SUBSET Combatants
      BY <2>2, <2>3 DEF IInv, TypeOK
    <2>5. \A c \in Combatants \ adrift' : Works(c)' \subseteq Works(c)
      <3> SUFFICES ASSUME NEW c \in Combatants \ adrift', NEW w \in Works(c)'
                   PROVE  w \in Works(c)
        OBVIOUS
      <3>1. w \in Spells \X Places /\ c \notin adrift
        BY <2>1 DEF Works
      <3>2. CASE w[2] = Nobody
        BY <2>1, <3>1, <3>2 DEF Works
      <3>3. CASE w[2] # Nobody
        <4>1. w[2] \in Combatants /\ Tag(c, w[1]) \in column'[w[2]]
          BY <3>1, <3>3 DEF Works, Places
        <4>2. Tag(c, w[1]).by = c
          BY DEF Tag
        <4>3. Tag(c, w[1]) \in column[w[2]]
          BY <2>1, <2>2, <4>1, <4>2 DEF IInv, TypeOK
        <4> QED BY <3>1, <3>3, <4>3 DEF Works
      <3> QED BY <3>2, <3>3
    <2>6. Promise!AreLost(adrift')
      BY <2>1, <2>4, <2>5, LosesOnly
    <2> QED BY <2>4, <2>6 DEF Promise!Next
  <1>8. ASSUME CreateZone
        PROVE  Promise!Next \/ UNCHANGED Shown
    <2>1. At("zone") /\ task.c \in Combatants /\ task.spell \in Spells /\ conc[task.c] = task.spell
      BY <1>8 DEF CreateZone, At, IInv, TaskOK, CastSteps
    <2>2. CASE task.spell \in Zoned
      BY <1>8, <2>1, <2>2, ZonePutsToWork DEF CreateZone
    <2>3. CASE task.spell \notin Zoned
      <3>1. UNCHANGED <<conc, effects, adrift>>
        BY <1>8, <2>3 DEF CreateZone, IInv, TypeOK
      <3> QED BY <3>1, Silent
    <2> QED BY <2>2, <2>3
  <1>9. ASSUME NEW c \in Casters, NEW x \in Combatants, MoveMark(c, x)
        PROVE  Promise!Next \/ UNCHANGED Shown
    <2>1. /\ UNCHANGED <<conc, adrift>>
          /\ \A y \in Combatants : \A u \in column'[y] : u \in column[y] \/ u.by \notin Combatants
          /\ \A d \in Combatants : zones'[d] \subseteq zones[d]
      BY <1>9 DEF MoveMark, IInv, TypeOK
    <2>2. Promise!Next
      BY <2>1, Fades DEF IInv, TypeOK
    <2> QED BY <2>2
  <1>10. ASSUME NEW x \in Combatants, Strip(x)
        PROVE  Promise!Next \/ UNCHANGED Shown
    <2>1. /\ UNCHANGED <<conc, adrift>>
          /\ \A y \in Combatants : \A u \in column'[y] : u \in column[y] \/ u.by \notin Combatants
          /\ \A d \in Combatants : zones'[d] \subseteq zones[d]
      BY <1>10 DEF Strip, IInv, TypeOK
    <2>2. Promise!Next
      BY <2>1, Fades DEF IInv, TypeOK
    <2> QED BY <2>2
  <1>11. ASSUME DeleteZones
        PROVE  Promise!Next \/ UNCHANGED Shown
    <2>1. /\ UNCHANGED <<conc, adrift>>
          /\ \A y \in Combatants : \A u \in column'[y] : u \in column[y] \/ u.by \notin Combatants
          /\ \A d \in Combatants : zones'[d] \subseteq zones[d]
      BY <1>11 DEF DeleteZones, IInv, TypeOK
    <2>2. Promise!Next
      BY <2>1, Fades DEF IInv, TypeOK
    <2> QED BY <2>2
  <1>12. ASSUME Clear
        PROVE  Promise!Next \/ UNCHANGED Shown
    <2>1. /\ brk.step = "clear" /\ brk.who \in Combatants /\ brk.todo = {}
          /\ brk.who \notin adrift => zones[brk.who] = {}
          /\ conc' = [conc EXCEPT ![brk.who] = None] /\ UNCHANGED <<effects, adrift>>
      BY <1>12 DEF Clear, IInv, BreakOK
    <2>2. brk.who \notin adrift => ~Leftover(brk.who, None)
      BY <2>1 DEF Leftover, IInv, BreakOK
    <2>3. Overwrite(brk.who, None)
      BY <2>1, <2>2 DEF Overwrite, IInv, TypeOK
    <2> QED BY <2>1, <2>3, Overwrites
  <1>13. ASSUME NEW x \in Combatants, NEW s \in Spells, NEW outcome \in {"saved",
         "failed"}, Roll(x, s, outcome)
        PROVE  Promise!Next \/ UNCHANGED Shown
    <2>1. UNCHANGED <<conc, effects, adrift>>
      BY <1>13 DEF Roll
    <2> QED BY <2>1, Silent
  <1>14. ASSUME NEW x \in Combatants, NEW row \in saves[x], Forfeit(x, row)
        PROVE  Promise!Next \/ UNCHANGED Shown
    <2>1. UNCHANGED <<conc, effects, adrift>>
      BY <1>14 DEF Forfeit
    <2> QED BY <2>1, Silent
  <1>15. ASSUME NEW s \in Spells, Drive(s)
        PROVE  Promise!Next \/ UNCHANGED Shown
    <2>1. UNCHANGED <<conc, effects, adrift>>
      BY <1>15 DEF Drive
    <2> QED BY <2>1, Silent
  <1>16. ASSUME NEW x \in Combatants, Land(x)
        PROVE  Promise!Next \/ UNCHANGED Shown
    <2>1. /\ At("land") /\ task.spell \in Spells /\ task.c \in Combatants \cup {Nobody}
          /\ column' = [column EXCEPT ![x] = @ \cup {Tag(task.c, task.spell)}]
          /\ UNCHANGED <<conc, zones>>
      BY <1>16 DEF Land, At, IInv, TaskOK, TypeOK
    <2>2. CASE task.c = Nobody
      <3>1. Tag(task.c, task.spell).by \notin Combatants
        BY <2>2 DEF Tag
      <3>2. \A y \in Combatants : \A t \in column'[y] : t \in column[y] \/ t.by \notin Combatants
        BY <2>1, <3>1 DEF IInv, TypeOK
      <3>3. adrift' = adrift
        BY <1>16, <2>2 DEF Land
      <3>4. Promise!Next
        BY <2>1, <3>2, <3>3, Fades DEF IInv, TypeOK
      <3> QED BY <3>4
    <2>3. CASE task.c # Nobody /\ conc[task.c] = task.spell
      <3>1. adrift' = adrift
        BY <1>16, <2>3 DEF Land
      <3> QED BY <2>1, <2>3, <3>1, TagPutsToWork
    <2>4. CASE task.c # Nobody /\ conc[task.c] # task.spell
      <3>1. adrift' = adrift \cup {task.c} /\ task.c \in Combatants
        BY <1>16, <2>1, <2>4 DEF Land
      <3>2. \A c \in Combatants \ adrift' : Works(c)' \subseteq Works(c)
        <4> SUFFICES ASSUME NEW c \in Combatants \ adrift', NEW w \in Works(c)'
                     PROVE  w \in Works(c)
          OBVIOUS
        <4>1. w \in Spells \X Places /\ c \notin adrift /\ c # task.c
          BY <3>1 DEF Works
        <4>2. CASE w[2] = Nobody
          BY <2>1, <4>1, <4>2 DEF Works
        <4>3. CASE w[2] # Nobody
          <5>1. w[2] \in Combatants /\ Tag(c, w[1]) \in column'[w[2]]
            BY <4>1, <4>3 DEF Works, Places
          <5>2. Tag(c, w[1]) # Tag(task.c, task.spell)
            BY <4>1 DEF Tag
          <5>3. Tag(c, w[1]) \in column[w[2]]
            BY <2>1, <5>1, <5>2 DEF IInv, TypeOK
          <5> QED BY <4>1, <4>3, <5>3 DEF Works
        <4> QED BY <4>2, <4>3
      <3>3. adrift' \in SUBSET Combatants
        BY <3>1 DEF IInv, TypeOK
      <3>4. Promise!AreLost(adrift')
        BY <2>1, <3>1, <3>2, <3>3, LosesOnly
      <3> QED BY <3>3, <3>4 DEF Promise!Next
    <2> QED BY <2>1, <2>2, <2>3, <2>4
  <1>17. ASSUME AllSaved
        PROVE  Promise!Next \/ UNCHANGED Shown
    <2>1. UNCHANGED <<conc, effects, adrift>>
      BY <1>17 DEF AllSaved
    <2> QED BY <2>1, Silent
  <1>18. ASSUME Apply
        PROVE  Promise!Next \/ UNCHANGED Shown
    <2>1. UNCHANGED <<conc, effects, adrift>>
      BY <1>18 DEF Apply
    <2> QED BY <2>1, Silent
  <1>19. ASSUME NEW x \in Combatants, NEW t \in column[x], SaveEnds(x, t)
        PROVE  Promise!Next \/ UNCHANGED Shown
    <2>1. /\ UNCHANGED <<conc, adrift>>
          /\ \A y \in Combatants : \A u \in column'[y] : u \in column[y] \/ u.by \notin Combatants
          /\ \A d \in Combatants : zones'[d] \subseteq zones[d]
      BY <1>19 DEF SaveEnds, IInv, TypeOK
    <2>2. Promise!Next
      BY <2>1, Fades DEF IInv, TypeOK
    <2> QED BY <2>2
  <1>20. ASSUME NEW c \in Combatants, Lose(c)
        PROVE  Promise!Next \/ UNCHANGED Shown
    <2>1. UNCHANGED <<conc, effects, adrift>>
      BY <1>20 DEF Lose
    <2> QED BY <2>1, Silent
  <1>21. ASSUME NEW c \in Combatants, Incapacitate(c)
        PROVE  Promise!Next \/ UNCHANGED Shown
    <2>1. /\ UNCHANGED <<conc, adrift>>
          /\ \A y \in Combatants : \A u \in column'[y] : u \in column[y] \/ u.by \notin Combatants
          /\ \A d \in Combatants : zones'[d] \subseteq zones[d]
      BY <1>21 DEF Incapacitate, IInv, TypeOK, Stunned, Tag
    <2>2. Promise!Next
      BY <2>1, Fades DEF IInv, TypeOK
    <2> QED BY <2>2
  <1>22. ASSUME NEW c \in Combatants, Override(c)
        PROVE  Promise!Next \/ UNCHANGED Shown
    <2>1. /\ UNCHANGED <<conc, adrift>>
          /\ \A y \in Combatants : \A u \in column'[y] : u \in column[y] \/ u.by \notin Combatants
          /\ \A d \in Combatants : zones'[d] \subseteq zones[d]
      BY <1>22 DEF Override, IInv, TypeOK, Stunned, Tag
    <2>2. Promise!Next
      BY <2>1, Fades DEF IInv, TypeOK
    <2> QED BY <2>2
  <1>23. ASSUME NEW c \in Combatants, Move(c)
        PROVE  Promise!Next \/ UNCHANGED Shown
    <2>1. UNCHANGED <<conc, effects, adrift>>
      BY <1>23 DEF Move
    <2> QED BY <2>1, Silent
  <1>24. ASSUME NEW c \in Combatants, Drag(c)
        PROVE  Promise!Next \/ UNCHANGED Shown
    <2>1. UNCHANGED <<conc, effects, adrift>>
      BY <1>24 DEF Drag
    <2> QED BY <2>1, Silent
  <1>25. ASSUME NEW x \in Combatants, NEW t \in column[x], Recover(x, t)
        PROVE  Promise!Next \/ UNCHANGED Shown
    <2>1. /\ UNCHANGED <<conc, adrift>>
          /\ \A y \in Combatants : \A u \in column'[y] : u \in column[y] \/ u.by \notin Combatants
          /\ \A d \in Combatants : zones'[d] \subseteq zones[d]
      BY <1>25 DEF Recover, IInv, TypeOK
    <2>2. Promise!Next
      BY <2>1, Fades DEF IInv, TypeOK
    <2> QED BY <2>2
  <1>26. ASSUME NEW c \in Combatants, NEW s \in zones[c], ZoneEnds(c, s)
        PROVE  Promise!Next \/ UNCHANGED Shown
    <2>1. /\ UNCHANGED <<conc, adrift>>
          /\ \A y \in Combatants : \A u \in column'[y] : u \in column[y] \/ u.by \notin Combatants
          /\ \A d \in Combatants : zones'[d] \subseteq zones[d]
      BY <1>26 DEF ZoneEnds, IInv, TypeOK
    <2>2. Promise!Next
      BY <2>1, Fades DEF IInv, TypeOK
    <2> QED BY <2>2
  <1>27. ASSUME NEW c \in Casters, Ready(c)
        PROVE  Promise!Next \/ UNCHANGED Shown
    <2>1. Overwrite(c, Held) /\ UNCHANGED effects /\ c \in Combatants
      BY <1>27 DEF Ready
    <2> QED BY <2>1, Overwrites
  <1>28. ASSUME NEW c \in Casters, Unready(c)
        PROVE  Promise!Next \/ UNCHANGED Shown
    <2>1. UNCHANGED <<conc, effects, adrift>>
      BY <1>28 DEF Unready
    <2> QED BY <2>1, Silent
  <1>29. ASSUME NEW c \in Casters, Expire(c)
        PROVE  Promise!Next \/ UNCHANGED Shown
    <2>1. UNCHANGED <<conc, effects, adrift>>
      BY <1>29 DEF Expire
    <2> QED BY <2>1, Silent
  <1>30. ASSUME Declare
        PROVE  Promise!Next \/ UNCHANGED Shown
    <2>1. UNCHANGED <<conc, effects, adrift>>
      BY <1>30 DEF Declare
    <2> QED BY <2>1, Silent
  <1>31. ASSUME Lapse
        PROVE  Promise!Next \/ UNCHANGED Shown
    <2>1. Overwrite(task.c, None) /\ UNCHANGED effects /\ task.c \in Combatants
      BY <1>31 DEF Lapse, At, IInv, TaskOK
    <2> QED BY <2>1, Overwrites
  <1>32. ASSUME Fail
        PROVE  Promise!Next \/ UNCHANGED Shown
    <2>1. UNCHANGED <<conc, effects, adrift>>
      BY <1>32 DEF Fail
    <2> QED BY <2>1, Silent
  <1>33. CASE UNCHANGED vars
    <2>1. UNCHANGED <<conc, effects, adrift>>
      BY <1>33 DEF vars
    <2> QED BY <2>1, Silent
  <1> QED
    BY <1>1, <1>2, <1>3, <1>4, <1>4a, <1>5, <1>6, <1>7, <1>8, <1>9, <1>10, <1>11, <1>12,
           <1>13, <1>14, <1>15, <1>16, <1>17, <1>18, <1>19, <1>20, <1>21, <1>22, <1>23,
           <1>24, <1>25, <1>26, <1>27, <1>28, <1>29, <1>30, <1>31, <1>32, <1>33
    DEF Next, Casting, Breaking, Saving, Happening, Readying

\* Every execution, seen through what each caster sustains and where it is at
\* work, is one the promise allows.
THEOREM ConcentrationKeepsItsPromise == Spec => KeepsThePromise
  <1>1. Init => Promise!Init
    BY ConcentrationAssumption
    DEF Init, Promise!Init, Sustaining, Works, Places
  <1>2. IInv /\ [Next]_vars => [Promise!Next]_(Promise!promise)
    <2> SUFFICES ASSUME IInv, [Next]_vars PROVE [Promise!Next]_(Promise!promise)
      OBVIOUS
    <2>1. Promise!Next \/ UNCHANGED Shown
      BY PromiseStep
    <2> QED BY <2>1 DEF Shown, Promise!promise
  <1> QED BY <1>1, <1>2, ConcentrationHolds, PTL DEF Spec, Promise!Spec, KeepsThePromise

=============================================================================
