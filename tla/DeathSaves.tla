---------------------------- MODULE DeathSaves ----------------------------
(***************************************************************************)
(* The life of one player character, without rows, copies or handlers:     *)
(* the rules deathsave.go promises, and next to them everything else that  *)
(* happens to it, because a handler leaves out the hook, because damage    *)
(* and heals reach the dead, or because a handler stops half-way.  The     *)
(* token is alive, dying, stable or dead.                                  *)
(***************************************************************************)
EXTENDS Integers

CONSTANT HpMax

VARIABLES
    token,       \* alive, dying, stable, dead
    hp,
    successes,
    failures

dsVars == <<token, hp, successes, failures>>

DSInit == token = "alive" /\ hp = HpMax /\ successes = 0 /\ failures = 0

\* Who is down and not dead.
Below(s) == IF s >= 3 THEN "stable" ELSE "dying"
Down == token \in {"dying", "stable"}

\* Bound: more than three failures are all alike.
Counted(n) == IF failures + n > 4 THEN 4 ELSE failures + n

(***************************************************************************)
(* The rules.                                                              *)
(***************************************************************************)
\* Damage that leaves hit points.
Hurt ==
    /\ token = "alive"
    /\ hp' \in 1..hp
    /\ UNCHANGED <<token, successes, failures>>

\* Healing of somebody who is up.
Mend ==
    /\ token = "alive"
    /\ hp' \in hp..HpMax
    /\ UNCHANGED <<token, successes, failures>>

Fall ==
    /\ token = "alive"
    /\ token' = Below(successes)
    /\ hp' = 0
    /\ UNCHANGED <<successes, failures>>

\* Massive damage, or a sixth level of exhaustion.
Perish ==
    /\ token # "dead"
    /\ token' = "dead"
    /\ hp' = 0
    /\ UNCHANGED <<successes, failures>>

\* A failed roll, a hit while down; a natural 1 or a critical hit counts two.
Worsen(n) ==
    /\ Down
    /\ failures' = Counted(n)
    /\ token' = IF failures' >= 3 THEN "dead" ELSE token
    /\ UNCHANGED <<hp, successes>>

Rally ==
    /\ token = "dying"
    /\ successes' = successes + 1
    /\ token' = Below(successes')
    /\ UNCHANGED <<hp, failures>>

Stabilize ==
    /\ token = "dying"
    /\ token' = "stable"
    /\ successes' = 3
    /\ UNCHANGED <<hp, failures>>

\* Healing from zero, or a natural 20.
Wake ==
    /\ Down
    /\ token' = "alive"
    /\ hp' \in 1..HpMax
    /\ successes' = 0 /\ failures' = 0

Rules == Hurt \/ Mend \/ Fall \/ Perish \/ (\E n \in {1, 2} : Worsen(n)) \/ Rally \/ Stabilize \/ Wake

(***************************************************************************)
(* What happens besides.                                                   *)
(***************************************************************************)
\* A healing spell, or a hook that stops short: the next fall starts with the
\* old tallies.
WakeWithTallies ==
    /\ Down
    /\ token' = "alive"
    /\ hp' \in 1..HpMax
    /\ UNCHANGED <<successes, failures>>

\* A heal does not ask whether its target is dead.
Raise ==
    /\ token = "dead"
    /\ token' = "alive"
    /\ hp' \in 1..HpMax
    /\ \/ successes' = 0 /\ failures' = 0
       \/ UNCHANGED <<successes, failures>>

\* A hit on the dead tallies like one on the dying, and brings back whoever has
\* fewer than three failures; one that does no damage brings back anybody.
HitTheDead(n) ==
    /\ token = "dead"
    /\ failures' = Counted(n)
    /\ token' = "dead" \/ (token' = Below(successes) /\ (n = 0 \/ failures' < 3))
    /\ UNCHANGED <<hp, successes>>

\* The third failure is tallied and the statement that writes is_alive fails.
DieUnrecorded(n) ==
    /\ Down
    /\ failures' = Counted(n) /\ failures' >= 3
    /\ UNCHANGED <<token, hp, successes>>

\* ... the next roll notices, even if it is a success.
DieLate ==
    /\ token = "dying" /\ failures >= 3
    /\ token' = "dead"
    /\ successes' = successes + 1
    /\ UNCHANGED <<hp, failures>>

\* A natural 20 of /deathsave that stops before the hit points.
Forgive ==
    /\ token = "dying"
    /\ successes' = 0 /\ failures' = 0
    /\ UNCHANGED <<token, hp>>

Deviations ==
    \/ WakeWithTallies \/ Raise \/ (\E n \in 0..2 : HitTheDead(n))
    \/ (\E n \in {1, 2} : DieUnrecorded(n)) \/ DieLate \/ Forgive

DSNext == Rules \/ Deviations
DSSpec == DSInit /\ [][DSNext]_dsVars
=============================================================================
