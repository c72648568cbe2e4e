---------------------------- MODULE Concentration ----------------------------
(***************************************************************************)
(* Concentration (internal/combat/concentration.go and its callers): the   *)
(* concentration columns of a combatant, the conditions and zones a spell  *)
(* leaves behind, and every trigger that ends them: a new cast, a failed   *)
(* Constitution save, incapacitation, Silence, a target that saves, a      *)
(* voluntary drop; readied spells; and the saves of area and single-target *)
(* spells that land their conditions later.                                *)
(*                                                                         *)
(* Handlers run one at a time here (what overlaps is TurnGate's and        *)
(* SpellSaves' subject), but they are sequences of statements, any of      *)
(* which may fail: the handler then ends where it is.  A handler may start *)
(* the break of a concentration and go on when it is over.                 *)
(*                                                                         *)
(* Every spell here is a concentration spell with a verbal or somatic      *)
(* component.  Damage, slots, altitude and summoned creatures are left     *)
(* out; all zones cover the same patch of the map.                         *)
(***************************************************************************)
EXTENDS Integers

CONSTANTS
    Combatants,
    Casters,  \* those /cast and /action ready accept: player characters
    Spells,
    Areas,    \* spells CastAoE handles; Cast handles the others
    Lone,     \* single-target spells with a saving throw
    Marking,  \* spells that put a condition on their target when cast
    Veils,    \* Invisibility: ends when its bearer casts
    Holding,  \* spells with conditions for a failed save
    Binding,  \*   which incapacitate
    Zoned,    \* spells with a zone definition
    Hush,     \*   of type "silence"
    MaxCasts, \* bound: spells cast or readied
    MaxUpsets,\* bound: failed statements, forced moves, incapacitations from elsewhere
    None,     \* concentration columns are NULL; no spell
    Held,     \* only the name is set: a readied spell
    Nobody    \* no combatant; a condition without a source

ASSUME ConcentrationAssumption ==
    /\ Casters \subseteq Combatants
    /\ Areas \cup Lone \cup Marking \cup Zoned \subseteq Spells
    /\ Areas \cap (Lone \cup Marking) = {} /\ Marking \cap (Lone \cup Zoned) = {}
    /\ Veils \subseteq Marking /\ Hush \subseteq Zoned
    /\ Holding \subseteq Areas \cup Lone /\ Binding \subseteq Holding
    /\ MaxCasts \in Nat /\ MaxUpsets \in Nat
    /\ "lost" \notin Spells \cup {None}
    /\ None \notin Spells /\ Held \notin Spells /\ None # Held
    /\ Nobody \notin Combatants

VARIABLES
    conc,     \* the concentration columns
    column,   \* the conditions that matter here, by source
    zones,    \* the encounter's concentration zones, by source
    saves,    \* pending_saves rows of spells: pending, or rolled and not applied
    inside,   \* who stands on the patch the zones cover
    readied,  \* who has an active readied-action declaration with a spell
    task,     \* the handler that runs and its locals
    brk,      \* BreakConcentrationFully, when it runs
    casts,
    upsets,
    adrift,   \* history: casters whose columns were overwritten, or whose
              \*   conditions were written, regardless of what else was there
    unheard,  \* history: who was moved, or silenced, and not checked
    unbroken  \* history: who was incapacitated, or cast although
              \*   incapacitated, or got the condition back, and was not
              \*   made to let go

effects == <<column, zones>>
bounds == <<casts, upsets>>
history == <<adrift, unheard, unbroken>>
vars == <<conc, column, zones, saves, inside, readied, task, brk, bounds, history>>

(***************************************************************************)
(* A condition carries the combatant and the spell it comes from.          *)
(***************************************************************************)
Tags == [by : Combatants \cup {Nobody}, spell : Spells] \cup [by : {Nobody}, spell : {None}]
Tag(c, s) == [by |-> c, spell |-> s]
Stunned == Tag(Nobody, None)  \* incapacitated by anything but these spells

Rows == Spells \X {"pending", "saved", "failed"}

Steps == {"rest", "ask", "change", "set", "touch", "unveil", "zone", "hush",
          "land", "apply", "declare", "lapse"}

Rest == [step |-> "rest", c |-> Nobody, spell |-> None, todo |-> {},
         prev |-> FALSE, copy |-> {}]
NoBreak == [step |-> "none", who |-> Nobody, spell |-> None, todo |-> {}]

TypeOK ==
    /\ conc \in [Combatants -> Spells \cup {None, Held}]
    /\ column \in [Combatants -> SUBSET Tags]
    /\ zones \in [Combatants -> SUBSET Spells]
    /\ saves \in [Combatants -> SUBSET Rows]
    /\ inside \in [Combatants -> BOOLEAN]
    /\ readied \subseteq Combatants
    /\ task \in [step : Steps, c : Combatants \cup {Nobody}, spell : Spells \cup {None},
                 todo : SUBSET Combatants, prev : BOOLEAN, copy : SUBSET Tags]
    /\ brk \in [step : {"none", "strip", "clear"}, who : Combatants \cup {Nobody},
                spell : Spells \cup {None, Held}, todo : SUBSET Combatants]
    /\ casts \in 0..MaxCasts /\ upsets \in 0..MaxUpsets
    /\ adrift \subseteq Combatants /\ unheard \subseteq Combatants
    /\ unbroken \subseteq Combatants

Init ==
    /\ conc = [c \in Combatants |-> None]
    /\ column = [x \in Combatants |-> {}]
    /\ zones = [c \in Combatants |-> {}]
    /\ saves = [x \in Combatants |-> {}]
    /\ inside \in [Combatants -> BOOLEAN]
    /\ readied = {}
    /\ task = Rest
    /\ brk = NoBreak
    /\ casts = 0 /\ upsets = 0
    /\ adrift = {} /\ unheard = {} /\ unbroken = {}

AtRest == task.step = "rest" /\ brk.step = "none"
At(step) == task.step = step /\ brk.step = "none"

Upset == upsets < MaxUpsets /\ upsets' = upsets + 1

Incapacitated(x) == \E t \in column[x] : t = Stunned \/ t.spell \in Binding

Silenced(x) == inside[x] /\ \E c \in Combatants : zones[c] \cap Hush # {}

\* What c's spells other than s have left behind.
Leftover(c, s) ==
    \/ \E x \in Combatants : \E t \in column[x] : t.by = c /\ t.spell # s
    \/ zones[c] \ {s} # {}

\* Columns written without tearing down what c concentrates on.
Overwrite(c, v) ==
    /\ conc' = [conc EXCEPT ![c] = v]
    /\ adrift' = IF Leftover(c, v) THEN adrift \cup {c} ELSE adrift

(***************************************************************************)
(* BreakConcentrationFully: strip the spell's conditions from one          *)
(* combatant after the other, delete the caster's concentration zones,     *)
(* dismiss its summoned creatures, clear the columns.  col are the         *)
(* conditions when it starts.  A readied spell has no id: nothing is       *)
(* stripped.                                                               *)
(***************************************************************************)
\* Variant: whoever loses concentration keeps what the spell does to itself.
BreakOfOthers(c, col) ==
    [step |-> "strip", who |-> c, spell |-> conc[c],
     todo |-> {x \in Combatants \ {c} : Tag(c, conc[c]) \in col[x]}]

BreakOf(c, col) ==
    [step |-> "strip", who |-> c, spell |-> conc[c],
     todo |-> {x \in Combatants : Tag(c, conc[c]) \in col[x]}]

\* breakStoredConcentration, maybeAutoBreakConcentration
BreakStored(c, col) == brk' = IF conc[c] \in Spells THEN BreakOf(c, col) ELSE brk

Strip(x) ==
    /\ brk.step = "strip" /\ x \in brk.todo
    /\ column' = [column EXCEPT ![x] = @ \ {Tag(brk.who, brk.spell)}]
    /\ brk' = [brk EXCEPT !.todo = @ \ {x}]
    /\ UNCHANGED <<conc, zones, saves, inside, readied, task, bounds, history>>

DeleteZones ==
    /\ brk.step = "strip" /\ brk.todo = {}
    /\ zones' = [zones EXCEPT ![brk.who] = {}]
    /\ brk' = [brk EXCEPT !.step = "clear"]
    /\ UNCHANGED <<conc, column, saves, inside, readied, task, bounds, history>>

Clear ==
    /\ brk.step = "clear"
    /\ conc' = [conc EXCEPT ![brk.who] = None]
    /\ brk' = NoBreak
    /\ unheard' = unheard \ {brk.who} /\ unbroken' = unbroken \ {brk.who}
    /\ UNCHANGED <<effects, saves, inside, readied, task, bounds, adrift>>

(***************************************************************************)
(* Casting.  The name of the previous spell is read by the handler; a read *)
(* that fails counts as none.  Nothing asks whether the caster is          *)
(* incapacitated.                                                          *)
(***************************************************************************)
Cast(c, s, targets) ==
    /\ AtRest /\ casts < MaxCasts
    /\ ~Silenced(c)
    /\ s \notin Areas => \E t \in Combatants : targets = {t}
    /\ s \in Areas \ Holding => targets = {}
    /\ \E prev \in {conc[c] # None, FALSE} :
         /\ IF prev = (conc[c] # None) THEN UNCHANGED upsets ELSE Upset
         /\ task' = [step |-> IF s \in Areas THEN "ask" ELSE "change",
                     c |-> c, spell |-> s, todo |-> targets, prev |-> prev,
                     copy |-> IF s \in Areas THEN {} ELSE column[c]]
    /\ casts' = casts + 1
    /\ UNCHANGED <<conc, effects, saves, inside, readied, brk, history>>

\* CastAoE asks for the saves before it touches the concentration.
Ask(x) ==
    /\ At("ask") /\ x \in task.todo
    /\ saves' = [saves EXCEPT ![x] = @ \cup {<<task.spell, "pending">>}]
    /\ task' = [task EXCEPT !.todo = @ \ {x}]
    /\ UNCHANGED <<conc, effects, inside, readied, brk, bounds, history>>

\* Variant: the previous spell is replaced, not ended.
ChangeReplaces ==
    /\ At("change") \/ (At("ask") /\ task.todo = {})
    /\ task' = [task EXCEPT !.step = "set"]
    /\ UNCHANGED <<conc, effects, saves, inside, readied, brk, bounds, history>>

\* applyConcentrationOnCast: end the previous spell,
Change ==
    /\ At("change") \/ (At("ask") /\ task.todo = {})
    /\ task' = [task EXCEPT !.step = "set"]
    /\ brk' = IF task.prev THEN BreakOf(task.c, column) ELSE brk
    /\ UNCHANGED <<conc, effects, saves, inside, readied, bounds, history>>

\* The id of the previous spell cannot be read (lookupCasterConcentrationID): nothing
\* is stripped for it, the rest of the break follows.
ChangeUnread ==
    /\ At("change") \/ (At("ask") /\ task.todo = {})
    /\ task.prev /\ Upset
    /\ task' = [task EXCEPT !.step = "set"]
    /\ brk' = [BreakOf(task.c, column) EXCEPT !.todo = {}]
    /\ adrift' = IF BreakOf(task.c, column).todo = {} THEN adrift ELSE adrift \cup {task.c}
    /\ UNCHANGED <<conc, effects, saves, inside, readied, casts, unheard, unbroken>>

\* then write the new one into the columns.
SetSpell ==
    /\ At("set")
    /\ IF task.prev
         THEN conc' = [conc EXCEPT ![task.c] = task.spell] /\ UNCHANGED adrift
         ELSE Overwrite(task.c, task.spell)
    /\ unbroken' = IF Incapacitated(task.c) THEN unbroken \cup {task.c} ELSE unbroken
    /\ task' = [task EXCEPT !.step = IF task.spell \in Areas THEN "zone" ELSE "touch"]
    /\ UNCHANGED <<effects, saves, inside, readied, brk, bounds, unheard>>

\* Ask the target's save, or put the mark on it.
Touch ==
    /\ At("touch")
    /\ saves' = [x \in Combatants |->
                   IF x \in task.todo /\ task.spell \in Lone
                     THEN saves[x] \cup {<<task.spell, "pending">>} ELSE saves[x]]
    /\ column' = [x \in Combatants |->
                    IF x \in task.todo /\ task.spell \in Marking
                      THEN column[x] \cup {Tag(task.c, task.spell)} ELSE column[x]]
    /\ task' = [task EXCEPT !.step =
                  IF \E t \in task.copy : t.spell \in Veils THEN "unveil" ELSE "zone"]
    /\ UNCHANGED <<conc, zones, inside, readied, brk, bounds, history>>

\* breakInvisibilityAndPersist writes the caster's conditions as they were when
\* the cast began, without the invisibility.
Unveil ==
    /\ At("unveil")
    /\ LET kept == {t \in task.copy : t.spell \notin Veils}
       IN /\ column' = [column EXCEPT ![task.c] = kept]
          /\ adrift' = adrift \cup ({t.by : t \in kept \ column[task.c]} \ {Nobody})
          /\ unbroken' = IF kept \subseteq column[task.c] THEN unbroken
                         ELSE unbroken \cup {task.c}
    /\ task' = [task EXCEPT !.step = "zone"]
    /\ UNCHANGED <<conc, zones, saves, inside, readied, brk, bounds, unheard>>

\* Variant: only those who walk into a Silence zone are checked.
CreateZoneUnheard ==
    /\ At("zone")
    /\ zones' = [zones EXCEPT ![task.c] =
                   IF task.spell \in Zoned THEN @ \cup {task.spell} ELSE @]
    /\ task' = Rest
    /\ UNCHANGED <<conc, column, saves, inside, readied, brk, bounds, history>>

\* CreateZone; a Silence zone is followed by a check of every combatant.
CreateZone ==
    /\ At("zone")
    /\ zones' = [zones EXCEPT ![task.c] =
                   IF task.spell \in Zoned THEN @ \cup {task.spell} ELSE @]
    /\ task' = IF task.spell \in Hush
                 THEN [Rest EXCEPT !.step = "hush", !.todo = Combatants] ELSE Rest
    /\ UNCHANGED <<conc, column, saves, inside, readied, brk, bounds, history>>

\* CheckSilenceBreaksConcentration
CheckSilence(x) ==
    /\ At("hush") /\ x \in task.todo
    /\ IF Silenced(x) THEN BreakStored(x, column) ELSE UNCHANGED brk
    /\ unheard' = unheard \ {x}
    /\ task' = IF task.todo = {x} THEN Rest ELSE [task EXCEPT !.todo = @ \ {x}]
    /\ UNCHANGED <<conc, effects, saves, inside, readied, bounds, adrift, unbroken>>

\* MoveHex, MoveHuntersMark: the mark leaves its old bearer, if there is one,
\* and then lands on x.
MoveMark(c, x) ==
    LET mark == Tag(c, conc[c])
        bearers == {y \in Combatants : mark \in column[y]}
    IN /\ AtRest
       /\ conc[c] \in Marking \ Veils
       /\ x \notin bearers
       /\ \E old \in (IF bearers = {} THEN {Nobody} ELSE bearers) :
            column' = [y \in Combatants |->
                         IF y = old THEN column[y] \ {mark} ELSE column[y]]
       /\ task' = [Rest EXCEPT !.step = "touch", !.c = c, !.spell = conc[c], !.todo = {x}]
       /\ UNCHANGED <<conc, zones, saves, inside, readied, brk, bounds, history>>

(***************************************************************************)
(* Saves of spells.  A roll is recorded by /save, by the DM or by the turn *)
(* timer; the first two then call ResolveAoEPendingSaves, which waits for  *)
(* the last pending row.                                                   *)
(***************************************************************************)
Roll(x, s, outcome) ==
    /\ AtRest
    /\ <<s, "pending">> \in saves[x]
    /\ saves' = [saves EXCEPT ![x] = (@ \ {<<s, "pending">>}) \cup {<<s, outcome>>}]
    /\ UNCHANGED <<conc, effects, inside, readied, task, brk, bounds, history>>

\* The DM cancels the save.
Forfeit(x, row) ==
    /\ AtRest
    /\ row \in saves[x]
    /\ saves' = [saves EXCEPT ![x] = @ \ {row}]
    /\ UNCHANGED <<conc, effects, inside, readied, task, brk, bounds, history>>

With(s, outcome) == {x \in Combatants : <<s, outcome>> \in saves[x]}
Concentrating(s) == {c \in Combatants : conc[c] = s}

\* The source of the conditions is looked up once, among those who concentrate
\* on the spell now.  Single-target spells end when nobody failed.
Drive(s) ==
    /\ AtRest
    /\ With(s, "pending") = {}
    /\ With(s, "saved") \cup With(s, "failed") # {}
    /\ \E c \in (IF Concentrating(s) = {} THEN {Nobody} ELSE Concentrating(s)) :
         task' = [Rest EXCEPT !.step = "land", !.c = c, !.spell = s,
                    !.todo = IF s \in Holding THEN With(s, "failed") ELSE {},
                    !.prev = s \in Lone /\ With(s, "failed") = {}]
    /\ UNCHANGED <<conc, effects, saves, inside, readied, brk, bounds, history>>

\* Variant: the condition is written without the hook.
LandUnhooked(x) ==
    /\ At("land") /\ x \in task.todo
    /\ column' = [column EXCEPT ![x] = @ \cup {Tag(task.c, task.spell)}]
    /\ adrift' = IF task.c # Nobody /\ conc[task.c] # task.spell
                   THEN adrift \cup {task.c} ELSE adrift
    /\ task' = [task EXCEPT !.todo = @ \ {x}]
    /\ UNCHANGED <<conc, zones, saves, inside, readied, brk, bounds, unheard, unbroken>>

\* ApplyCondition on one target; if that incapacitates it, it lets go.
Land(x) ==
    /\ At("land") /\ x \in task.todo
    /\ column' = [column EXCEPT ![x] = @ \cup {Tag(task.c, task.spell)}]
    /\ IF task.spell \in Binding THEN BreakStored(x, column') ELSE UNCHANGED brk
    /\ adrift' = IF task.c # Nobody /\ conc[task.c] # task.spell
                   THEN adrift \cup {task.c} ELSE adrift
    /\ task' = [task EXCEPT !.todo = @ \ {x}]
    /\ UNCHANGED <<conc, zones, saves, inside, readied, bounds, unheard, unbroken>>

\* dropConcentrationIfAllSaved looks at applied rows, too, which are not kept
\* here: whether an older cast of the spell holds it back is left open.
AllSaved ==
    /\ At("land") /\ task.todo = {}
    /\ \/ UNCHANGED brk
       \/ task.prev /\ \E c \in Concentrating(task.spell) : BreakStored(c, column)
    /\ task' = [task EXCEPT !.step = "apply"]
    /\ UNCHANGED <<conc, effects, saves, inside, readied, bounds, history>>

\* markSavesApplied, row by row
Apply ==
    /\ At("apply")
    /\ LET rolled == With(task.spell, "saved") \cup With(task.spell, "failed")
       IN IF rolled = {}
            THEN task' = Rest /\ UNCHANGED saves
            ELSE /\ \E x \in rolled :
                      saves' = [saves EXCEPT ![x] = @ \ ({task.spell} \X {"saved", "failed"})]
                 /\ UNCHANGED task
    /\ UNCHANGED <<conc, effects, inside, readied, brk, bounds, history>>

\* A held target saves at the end of its turn: every condition of that name goes,
\* and if nobody else bears one of the same cast, its caster lets go of whatever it
\* concentrates on.
SaveEnds(x, t) ==
    /\ AtRest
    /\ t \in column[x] /\ t.spell \in Holding
    /\ column' = [column EXCEPT ![x] = {u \in @ : u.spell # t.spell}]
    /\ IF t.by # Nobody /\ \A y \in Combatants \ {x} : t \notin column[y]
         THEN BreakStored(t.by, column') ELSE UNCHANGED brk
    /\ UNCHANGED <<conc, zones, saves, inside, readied, task, bounds, history>>

(***************************************************************************)
(* Everything else that happens to a combatant.                            *)
(***************************************************************************)
\* A failed Constitution save rolled by the timer, the DM's drop, rage, the end
\* of combat.
Lose(c) ==
    /\ AtRest /\ conc[c] \in Spells
    /\ brk' = BreakOf(c, column)
    /\ UNCHANGED <<conc, effects, saves, inside, readied, task, bounds, history>>

\* ApplyCondition with an incapacitating condition; falling to 0 hit points.
Incapacitate(x) ==
    /\ AtRest /\ Upset
    /\ column' = [column EXCEPT ![x] = @ \cup {Stunned}]
    /\ BreakStored(x, column')
    /\ UNCHANGED <<conc, zones, saves, inside, readied, task, casts, history>>

\* The DM writes the condition directly.
Override(x) ==
    /\ AtRest /\ Upset
    /\ column' = [column EXCEPT ![x] = @ \cup {Stunned}]
    /\ unbroken' = unbroken \cup {x}
    /\ UNCHANGED <<conc, zones, saves, inside, readied, task, brk, casts, adrift, unheard>>

\* A condition expires or is taken away.
Recover(x, t) ==
    /\ AtRest
    /\ t \in column[x]
    /\ column' = [column EXCEPT ![x] = @ \ {t}]
    /\ UNCHANGED <<conc, zones, saves, inside, readied, task, brk, bounds, history>>

\* Service.UpdateCombatantPosition: write the position, then check.
Move(x) ==
    /\ AtRest
    /\ inside' = [inside EXCEPT ![x] = ~@]
    /\ task' = [Rest EXCEPT !.step = "hush", !.todo = {x}]
    /\ UNCHANGED <<conc, effects, saves, readied, brk, bounds, history>>

\* A push, a teleport or an undo writes the position and checks nothing.
Drag(x) ==
    /\ AtRest /\ Upset
    /\ inside' = [inside EXCEPT ![x] = ~@]
    /\ unheard' = unheard \cup {x}
    /\ UNCHANGED <<conc, effects, saves, readied, task, brk, casts, adrift, unbroken>>

\* A zone's time is up, or the DM deletes it.
ZoneEnds(c, s) ==
    /\ AtRest /\ s \in zones[c]
    /\ zones' = [zones EXCEPT ![c] = @ \ {s}]
    /\ UNCHANGED <<conc, column, saves, inside, readied, task, brk, bounds, history>>

(***************************************************************************)
(* A readied spell takes over the columns, until its declaration expires   *)
(* at the start of the caster's next turn; a trigger or a cancellation     *)
(* ends the declaration alone.                                             *)
(***************************************************************************)
Ready(c) ==
    /\ AtRest /\ casts < MaxCasts
    /\ ~Incapacitated(c)
    /\ Overwrite(c, Held)
    /\ casts' = casts + 1
    /\ task' = [Rest EXCEPT !.step = "declare", !.c = c]
    /\ UNCHANGED <<effects, saves, inside, readied, brk, upsets, unheard, unbroken>>

Declare ==
    /\ At("declare")
    /\ readied' = readied \cup {task.c}
    /\ task' = Rest
    /\ UNCHANGED <<conc, effects, saves, inside, brk, bounds, history>>

Unready(c) ==
    /\ AtRest /\ c \in readied
    /\ readied' = readied \ {c}
    /\ UNCHANGED <<conc, effects, saves, inside, task, brk, bounds, history>>

Expire(c) ==
    /\ AtRest /\ c \in readied
    /\ readied' = readied \ {c}
    /\ task' = [Rest EXCEPT !.step = "lapse", !.c = c]
    /\ UNCHANGED <<conc, effects, saves, inside, brk, bounds, history>>

Lapse ==
    /\ At("lapse")
    /\ Overwrite(task.c, None)
    /\ task' = Rest
    /\ UNCHANGED <<effects, saves, inside, readied, brk, bounds, unheard, unbroken>>

\* A statement fails: the handler, with the break it waits for, ends.
Fail ==
    /\ ~AtRest /\ Upset
    /\ task' = Rest /\ brk' = NoBreak
    /\ unheard' = unheard \cup (IF task.step = "hush" THEN task.todo ELSE {})
                          \cup ({brk.who} \ {Nobody})
    /\ unbroken' = unbroken \cup ({brk.who} \ {Nobody})
    /\ UNCHANGED <<conc, effects, saves, inside, readied, casts, adrift>>

Casting ==
    \/ \E c \in Casters, s \in Spells, targets \in SUBSET Combatants : Cast(c, s, targets)
    \/ \E x \in Combatants : Ask(x) \/ CheckSilence(x)
    \/ Change \/ ChangeUnread \/ SetSpell \/ Touch \/ Unveil \/ CreateZone
    \/ \E c \in Casters, x \in Combatants : MoveMark(c, x)

Breaking == (\E x \in Combatants : Strip(x)) \/ DeleteZones \/ Clear

Saving ==
    \/ \E x \in Combatants, s \in Spells :
         \E outcome \in {"saved", "failed"} : Roll(x, s, outcome)
    \/ \E x \in Combatants : \E row \in saves[x] : Forfeit(x, row)
    \/ \E s \in Spells : Drive(s)
    \/ \E x \in Combatants : Land(x)
    \/ AllSaved \/ Apply
    \/ \E x \in Combatants : \E t \in column[x] : SaveEnds(x, t)

Happening ==
    \/ \E c \in Combatants : Lose(c) \/ Incapacitate(c) \/ Override(c) \/ Move(c) \/ Drag(c)
    \/ \E x \in Combatants : \E t \in column[x] : Recover(x, t)
    \/ \E c \in Combatants : \E s \in zones[c] : ZoneEnds(c, s)

Readying ==
    \/ \E c \in Casters : Ready(c) \/ Unready(c) \/ Expire(c)
    \/ Declare \/ Lapse

Next == Casting \/ Breaking \/ Saving \/ Happening \/ Readying \/ Fail

Spec == Init /\ [][Next]_vars

(***************************************************************************)
(* What must hold.                                                         *)
(***************************************************************************)
\* Whatever fails and wherever, a condition or a zone that names a caster comes
\* from the spell that caster concentrates on now, unless its columns were
\* overwritten, or conditions written, without a look at what else was there.
NoOrphans ==
    \A c \in Combatants \ adrift :
        /\ \A x \in Combatants : \A t \in column[x] : t.by = c => t.spell = conc[c]
        /\ zones[c] \subseteq {conc[c]}

\* Between handlers, nobody who stands in Silence concentrates on a spell, unless
\* it was moved there by force or the check was cut short.
QuietInSilence ==
    AtRest => \A x \in Combatants \ unheard : Silenced(x) => conc[x] \notin Spells

\* Between handlers, nobody incapacitated concentrates on a spell, unless it cast
\* the spell in that state, the DM wrote the condition or the break was cut short.
IncapacitatedLetGo ==
    AtRest => \A x \in Combatants \ unbroken : Incapacitated(x) => conc[x] \notin Spells

(***************************************************************************)
(* What a caster sustains: Sustained.  A caster that is adrift counts as   *)
(* lost.                                                                   *)
(***************************************************************************)
Places == Combatants \cup {Nobody}  \* Nobody: on the map

Works(c) ==
    IF c \in adrift THEN {}
    ELSE {w \in Spells \X Places :
            IF w[2] = Nobody THEN w[1] \in zones[c] ELSE Tag(c, w[1]) \in column[w[2]]}

Sustaining(c) == IF c \in adrift THEN "lost" ELSE IF conc[c] \in Spells THEN conc[c] ELSE None

Promise == INSTANCE Sustained
             WITH Lost <- "lost",
                  sustaining <- [c \in Combatants |-> Sustaining(c)],
                  works <- [c \in Combatants |-> Works(c)]

\* Each statement of each handler either changes nothing a caster sustains, or is
\* one step of the promise: works appear under the spell sustained, the spell
\* changes when no work is left.
KeepsThePromise == Promise!Spec

=============================================================================
