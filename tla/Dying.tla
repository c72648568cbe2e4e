------------------------------- MODULE Dying -------------------------------
(***************************************************************************)
(* Damage, healing and death saves of one player character.                *)
(*                                                                         *)
(* The row of a combatant has three groups of columns that this concerns,  *)
(* each written by a statement of its own: the vitals (hp_current,         *)
(* is_alive), the tallies (death_saves), and whether "unconscious" is      *)
(* among the conditions.  A handler reads the row once, computes what it   *)
(* will write, and then issues one to three statements, none of which      *)
(* looks at the row again.  No transaction spans them, and /deathsave,     *)
(* enemy turns, the dashboard and the timer take no lock.  Any statement   *)
(* may fail, which ends its handler; which one is settled when it begins.  *)
(*                                                                         *)
(* Spec lets handlers overlap, SerialSpec runs them one at a time; both    *)
(* have every handler, and let it take every target, the dead among them.  *)
(***************************************************************************)
EXTENDS Integers

CONSTANTS
    Handlers,    \* goroutines that serve commands, HTTP requests, the timer
    HpMax,       \* combatants.hp_max
    MaxDamage,   \* bound: damage of one hit
    MaxFaults    \* bound: handlers that stop half-way

ASSUME DyingAssumption ==
    /\ HpMax \in Nat \ {0}
    /\ MaxDamage \in Nat /\ MaxFaults \in Nat

VARIABLES
    row,     \* the combatant's row
    call,    \* for every handler what it will still write
    loose,   \* history: what handlers left loose since the last whole waking
    faults   \* bound: handlers that stopped half-way so far

vars == <<row, call, loose, faults>>

Beyond == 4   \* bound: more than three failures are all alike

Groups == {"vitals", "tallies", "asleep"}
Row == [hp : 0..HpMax, alive : BOOLEAN, successes : 0..3, failures : 0..Beyond,
        asleep : BOOLEAN]
Call == [owes : SUBSET Groups, first : Groups, plan : Row]

TypeOK ==
    /\ row \in Row /\ call \in [Handlers -> Call]
    /\ loose \in BOOLEAN /\ faults \in 0..MaxFaults

Healthy == [hp |-> HpMax, alive |-> TRUE, successes |-> 0, failures |-> 0, asleep |-> FALSE]

Free == [owes |-> {}, first |-> "vitals", plan |-> Healthy]

Init ==
    /\ row = Healthy
    /\ call = [h \in Handlers |-> Free]
    /\ loose = FALSE /\ faults = 0

(***************************************************************************)
(* The rules, on a copy r of the row: deathsave.go and damage.go.          *)
(***************************************************************************)
IsDying(r) == r.alive /\ r.hp = 0 /\ r.successes < 3

CheckInstantDeath(overflow) == overflow >= HpMax

Lower(a, b) == IF a < b THEN a ELSE b

\* What UpdateCombatantHP is given: hit points and is_alive.
Vitals(r, n, alive) ==
    [hp |-> n, alive |-> alive, successes |-> r.successes, failures |-> r.failures,
     asleep |-> r.asleep]

Slain(r) == Vitals(r, 0, FALSE)
Healed(r, n) == Vitals(r, Lower(r.hp + n, HpMax), TRUE)

\* applyDamageHP: unconscious is added when the copy was up and is now down.
Felled(r) == [hp |-> 0, alive |-> TRUE, successes |-> r.successes,
              failures |-> r.failures, asleep |-> TRUE]

\* Mutant: failures accumulate and nobody looks whether there are three.
TalliedOnly(r, s, f) == [hp |-> 0, alive |-> TRUE, successes |-> s, failures |-> f,
                         asleep |-> r.asleep]

\* buildDeathSaveOutcome, ApplyDamageAtZeroHP: three failures are death.
Tallied(r, s, f) == [hp |-> 0, alive |-> f < 3, successes |-> s, failures |-> f,
                     asleep |-> r.asleep]

\* Mutant: the hook looks at the hit points after the heal.
LiftedFromAnywhere(r) == FALSE

\* MaybeResetDeathSavesOnHeal is asked with the copy from before the heal.
LiftedFromZero(r) == r.hp = 0

\* resetDyingState after the heal.
Awake(r, n) == [hp |-> Lower(r.hp + n, HpMax), alive |-> TRUE, successes |-> 0,
                failures |-> 0, asleep |-> FALSE]

(***************************************************************************)
(* Handlers.  Each computes its plan from the row it finds.                *)
(***************************************************************************)
Resting(h) == call[h].owes = {}

\* The statements that come through: conditions are written last.
CutOff(groups, first) ==
    {done \in SUBSET groups : first \in done /\ ("asleep" \in done => done = groups)}

\* A handler that writes less than it should, because a statement fails or it
\* never meant to, or that works on the dead, leaves something loose; a waking
\* that is written whole clears it.
Attempts(h, should, groups, first, plan) ==
    /\ Resting(h)
    /\ \E done \in CutOff(groups, first) :
        /\ done # groups => faults < MaxFaults
        /\ faults' = IF done = groups THEN faults ELSE faults + 1
        /\ loose' = (done # Groups /\ (loose \/ ~row.alive \/ done # should))
        /\ call' = [call EXCEPT ![h] = [owes |-> done, first |-> first, plan |-> plan]]
    /\ UNCHANGED row

Undertakes(h, groups, first, plan) == Attempts(h, groups, groups, first, plan)

\* ApplyDamage of a hit that leaves hit points, or of none at all; a player
\* character is then written alive, whatever it was.
Wound(h) ==
    \E d \in 0..MaxDamage :
        /\ d < row.hp \/ d = 0
        /\ Undertakes(h, {"vitals"}, "vitals", Vitals(row, row.hp - d, TRUE))

\* ApplyDamage of a hit that takes the last hit point.
Drop(h) ==
    \E d \in 0..MaxDamage :
        /\ row.hp > 0 /\ d >= row.hp
        /\ IF CheckInstantDeath(d - row.hp)
           THEN Undertakes(h, {"vitals"}, "vitals", Slain(row))
           ELSE Undertakes(h, {"vitals", "asleep"}, "vitals", Felled(row))

\* ApplyDamage at zero: massive damage kills, else failures are tallied
\* first and hit points written after.
Strike(h) ==
    \E d \in 1..MaxDamage, n \in {1, 2} :
        /\ row.hp = 0
        /\ IF CheckInstantDeath(d)
           THEN Undertakes(h, {"vitals"}, "vitals", Slain(row))
           ELSE Undertakes(h, {"tallies", "vitals"}, "tallies",
                    Tallied(row, row.successes, Lower(row.failures + n, Beyond)))

\* The sixth level of exhaustion kills whoever takes damage.
Exhaust(h) == Undertakes(h, {"vitals"}, "vitals", Slain(row))

\* Lay on Hands, Second Wind, Preserve Life: hit points, then the hook.
Heal(h) ==
    \E n \in 1..HpMax :
        IF LiftedFromZero(row)
        THEN Undertakes(h, Groups, "vitals", Awake(row, n))
        ELSE Undertakes(h, {"vitals"}, "vitals", Healed(row, n))

\* A healing spell writes hit points and does not call the hook.
CastHeal(h) ==
    \E n \in 1..HpMax :
        Attempts(h, IF row.hp = 0 THEN Groups ELSE {"vitals"}, {"vitals"}, "vitals", Healed(row, n))

\* /use: only who is alive and not incapacitated may drink.
Drink(h) ==
    /\ row.alive /\ ~row.asleep
    /\ \E n \in 1..HpMax : Undertakes(h, {"vitals"}, "vitals", Healed(row, n))

\* RollDeathSave, for /deathsave and for the timer: three failures write the
\* vitals as well.
Rolled(h, s, f) ==
    Undertakes(h, {"tallies"} \cup (IF f >= 3 THEN {"vitals"} ELSE {}), "tallies",
               Tallied(row, s, f))

\* Mutant: a roll that does not count a success.
RallyForgotten(h) == IsDying(row) /\ Rolled(h, row.successes, row.failures)

Rally(h) == IsDying(row) /\ Rolled(h, row.successes + 1, row.failures)

\* A natural 1 counts two.
Fail(h) ==
    /\ IsDying(row)
    /\ \E n \in {1, 2} : Rolled(h, row.successes, Lower(row.failures + n, Beyond))

\* A natural 20 rolled by the timer wakes like a heal.
TimerTwenty(h) ==
    /\ IsDying(row)
    /\ Undertakes(h, Groups, "vitals", Awake(row, 1))

\* A natural 20 of /deathsave resets the tallies and writes hit points; the
\* condition stays.
PlayerTwenty(h) ==
    /\ IsDying(row)
    /\ Attempts(h, Groups, {"tallies", "vitals"}, "tallies", Awake(row, 1))

\* Mutant: StabilizeTarget starts from empty tallies.
StabilizeAfresh(h) ==
    /\ IsDying(row)
    /\ Undertakes(h, {"tallies"}, "tallies", Tallied(row, 3, 0))

\* Spare the Dying, /action stabilize, a Medicine check.
Stabilize(h) ==
    /\ IsDying(row)
    /\ Undertakes(h, {"tallies"}, "tallies", Tallied(row, 3, row.failures))

(***************************************************************************)
(* Statements: UpdateCombatantHP, UpdateCombatantDeathSaves and            *)
(* UpdateCombatantConditions, conditions last.                             *)
(***************************************************************************)
Written(r, plan, groups) ==
    [hp |-> IF "vitals" \in groups THEN plan.hp ELSE r.hp,
     alive |-> IF "vitals" \in groups THEN plan.alive ELSE r.alive,
     successes |-> IF "tallies" \in groups THEN plan.successes ELSE r.successes,
     failures |-> IF "tallies" \in groups THEN plan.failures ELSE r.failures,
     asleep |-> IF "asleep" \in groups THEN plan.asleep ELSE r.asleep]

Write(h) ==
    /\ ~Resting(h)
    /\ LET c == call[h] IN
       \E g \in c.owes :
        /\ g = c.first \/ (c.first \notin c.owes /\ (g = "asleep" => c.owes = {"asleep"}))
        /\ row' = Written(row, c.plan, {g})
        /\ call' = [call EXCEPT ![h] =
                      IF c.owes = {g} THEN Free
                      ELSE [owes |-> c.owes \ {g}, first |-> c.first, plan |-> c.plan]]
    /\ UNCHANGED <<loose, faults>>

(***************************************************************************)
(* Specifications.                                                         *)
(***************************************************************************)
Damage(h) == Wound(h) \/ Drop(h) \/ Strike(h) \/ Exhaust(h)
Roll(h) == Rally(h) \/ Fail(h) \/ TimerTwenty(h) \/ PlayerTwenty(h)
Mend(h) == Heal(h) \/ CastHeal(h) \/ Drink(h) \/ Stabilize(h)
Begin(h) == Damage(h) \/ Roll(h) \/ Mend(h)

Next == \E h \in Handlers : Write(h) \/ Begin(h)
Spec == Init /\ [][Next]_vars

Quiet == \A h \in Handlers : Resting(h)
SerialNext == \E h \in Handlers : Write(h) \/ (Quiet /\ Begin(h))
SerialSpec == Init /\ [][SerialNext]_vars

\* Every statement returns, and a dying character's turns keep coming up:
\* AdvanceTurn gives it one in each round, and the player or the timer rolls.
RollComesUp == \E h \in Handlers : Quiet /\ Roll(h)

FairSpec ==
    /\ SerialSpec
    /\ \A h \in Handlers : WF_vars(Write(h))
    /\ SF_vars(RollComesUp)

(***************************************************************************)
(* Properties.                                                             *)
(***************************************************************************)
\* The row once the handler in flight has written what it owes.
Will ==
    IF Quiet THEN row
    ELSE LET c == call[CHOOSE h \in Handlers : ~Resting(h)]
         IN Written(row, c.plan, c.owes)

Alone == \A g, h \in Handlers : Resting(g) \/ Resting(h) \/ g = h

\* What the columns of a row may say together.
Coherent(r) ==
    /\ r.hp > 0 => r.alive /\ ~r.asleep /\ r.successes = 0 /\ r.failures = 0
    /\ r.hp = 0 /\ r.alive => r.asleep /\ r.failures < 3

\* The inductive invariant: one handler at a time; the dead have no hit points;
\* and unless something was left loose the columns agree once it is through.
DyingInv ==
    /\ TypeOK
    /\ Alone
    /\ ~Will.alive => Will.hp = 0
    /\ ~loose => Coherent(Will)

\* Every heal of a player character funnels through the hook of deathsave.go,
\* so that whoever is above zero is conscious and starts the next fall with
\* empty tallies (deathsave.go MaybeResetDeathSavesOnHeal).
EveryHealWakes ==
    Quiet /\ row.hp > 0 => ~row.asleep /\ row.successes = 0 /\ row.failures = 0

\* ... which holds of every row as soon as the hook was written whole, until the
\* next healing spell from zero, natural 20 of /deathsave, handler that works on
\* the dead or handler that stops half-way.
WakesClean == ~loose => EveryHealWakes

\* A dying character whose turns keep coming up does not dangle: it wakes,
\* is stable or dead in the end.
DyingEnds == Quiet /\ IsDying(row) ~> Quiet /\ ~IsDying(row)

GetTokenState(r) ==
    IF ~r.alive THEN "dead"
    ELSE IF r.hp > 0 THEN "alive"
    ELSE IF r.successes >= 3 THEN "stable" ELSE "dying"

DS == INSTANCE DeathSaves WITH
    token <- GetTokenState(Will),
    hp <- Will.hp,
    successes <- Will.successes,
    failures <- Will.failures

\* The statements of the handlers, each begun on the row it found, do what the
\* death-save rules say and the six deviations DeathSaves names, and nothing else.
ImplementsDeathSaves == DS!DSSpec
=============================================================================
