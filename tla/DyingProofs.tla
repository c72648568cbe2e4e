---------------------------- MODULE DyingProofs ----------------------------
(* What Dying promises for any number of handlers and hit points.           *)
EXTENDS Dying, TLAPS

(***************************************************************************)
(* The rules on a copy.                                                    *)
(***************************************************************************)
LEMMA RulesAreTyped ==
    ASSUME NEW r \in Row
    PROVE /\ \A n \in 0..HpMax, alive \in BOOLEAN : Vitals(r, n, alive) \in Row
          /\ Slain(r) \in Row
          /\ Felled(r) \in Row
          /\ \A s \in 0..3, f \in 0..Beyond : Tallied(r, s, f) \in Row
          /\ \A n \in 1..HpMax : Healed(r, n) \in Row /\ Awake(r, n) \in Row
          /\ \A plan \in Row : \A groups : Written(r, plan, groups) \in Row
<1>1. HpMax \in Nat \ {0}
    BY DyingAssumption
<1>2. \A n \in 0..HpMax, alive \in BOOLEAN : Vitals(r, n, alive) \in Row
    BY DEF Vitals, Row
<1>3. Slain(r) \in Row
    <2>1. 0 \in 0..HpMax
        BY <1>1
    <2> QED BY <1>2, <2>1, Zenon DEF Slain
<1>4. Felled(r) \in Row
    BY <1>1 DEF Felled, Row
<1>5. \A s \in 0..3, f \in 0..Beyond : Tallied(r, s, f) \in Row
    BY <1>1 DEF Tallied, Row, Beyond
<1>6. \A n \in 1..HpMax : Lower(r.hp + n, HpMax) \in 0..HpMax
    BY <1>1 DEF Lower, Row
<1>7. \A n \in 1..HpMax : Healed(r, n) \in Row /\ Awake(r, n) \in Row
    <2>1. \A n \in 1..HpMax : Healed(r, n) \in Row
        BY <1>2, <1>6, Zenon DEF Healed
    <2>2. \A n \in 1..HpMax : Awake(r, n) \in Row
        BY <1>6 DEF Awake, Row, Beyond
    <2> QED BY <2>1, <2>2
<1>8. \A plan \in Row : \A groups : Written(r, plan, groups) \in Row
    BY <1>1 DEF Written, Row
<1> QED BY <1>2, <1>3, <1>4, <1>5, <1>7, <1>8

LEMMA FreeIsACall == Free \in Call
<1>1. Healthy \in Row
    BY DyingAssumption DEF Healthy, Row, Beyond
<1> QED BY <1>1 DEF Free, Call, Groups

\* A handler that begins puts well-formed locals in its slot.
LEMMA UndertakingIsTyped ==
    ASSUME TypeOK, NEW h \in Handlers, NEW groups \in SUBSET Groups,
           NEW first \in Groups, NEW plan \in Row, NEW should,
           Attempts(h, should, groups, first, plan)
    PROVE TypeOK'
<1>1. PICK done \in CutOff(groups, first) :
        /\ done # groups => faults < MaxFaults
        /\ faults' = IF done = groups THEN faults ELSE faults + 1
        /\ loose' = (done # Groups /\ (loose \/ ~row.alive \/ done # should))
        /\ call' = [call EXCEPT ![h] = [owes |-> done, first |-> first, plan |-> plan]]
    BY DEF Attempts
<1>2. [owes |-> done, first |-> first, plan |-> plan] \in Call
    BY DEF Call, CutOff
<1>3. faults' \in 0..MaxFaults
    BY <1>1, DyingAssumption DEF TypeOK
<1>4. loose' \in BOOLEAN
    BY <1>1
<1>5. row' = row
    BY DEF Attempts
<1> QED BY <1>1, <1>2, <1>3, <1>4, <1>5 DEF TypeOK

\* One statement writes one group of columns from the copy.
LEMMA WritingIsTyped ==
    ASSUME TypeOK, NEW h \in Handlers, Write(h)
    PROVE TypeOK'
<1>1. call[h] \in Call
    BY DEF TypeOK
<1>2. PICK g \in call[h].owes :
        /\ row' = Written(row, call[h].plan, {g})
        /\ call' = [call EXCEPT ![h] =
                          IF call[h].owes = {g} THEN Free
                          ELSE [owes |-> call[h].owes \ {g}, first |-> call[h].first,
                                plan |-> call[h].plan]]
    BY DEF Write
<1>3. row' \in Row
    BY <1>1, <1>2, RulesAreTyped DEF TypeOK, Call
<1>4. [owes |-> call[h].owes \ {g}, first |-> call[h].first,
       plan |-> call[h].plan] \in Call
    BY <1>1 DEF Call
<1>5. loose' = loose /\ faults' = faults
    BY DEF Write
<1> QED BY <1>2, <1>3, <1>4, <1>5, FreeIsACall DEF TypeOK

\* A tally that has grown is a tally.
LEMMA TalliesGrow ==
    ASSUME NEW f \in 0..Beyond, NEW n \in {1, 2}
    PROVE Lower(f + n, Beyond) \in 1..Beyond
BY DEF Lower, Beyond

LEMMA HandlersAreTyped ==
    ASSUME TypeOK, NEW h \in Handlers, Begin(h)
    PROVE TypeOK'
<1> DEFINE V == {"vitals"}
           T == {"tallies"}
<1>1. row \in Row /\ HpMax \in Nat \ {0} /\ MaxDamage \in Nat
    BY DyingAssumption DEF TypeOK
<1>2. /\ V \in SUBSET Groups /\ T \in SUBSET Groups /\ Groups \in SUBSET Groups
      /\ {"vitals", "asleep"} \in SUBSET Groups
      /\ {"tallies", "vitals"} \in SUBSET Groups
      /\ "vitals" \in Groups /\ "tallies" \in Groups
    BY DEF Groups
<1>3. CASE Wound(h)
    <2>1. PICK d \in 0..MaxDamage :
            /\ d < row.hp \/ d = 0
            /\ Undertakes(h, V, "vitals", Vitals(row, row.hp - d, TRUE))
        BY <1>3 DEF Wound
    <2>2. row.hp - d \in 0..HpMax
        BY <1>1, <2>1 DEF Row
    <2>3. Vitals(row, row.hp - d, TRUE) \in Row
        BY <1>1, <2>2, RulesAreTyped
    <2> QED BY <1>2, <2>1, <2>3, UndertakingIsTyped DEF Undertakes
<1>4. CASE Drop(h)
    BY <1>1, <1>2, <1>4, RulesAreTyped, UndertakingIsTyped DEF Drop, Undertakes
<1>5. CASE Strike(h)
    <2>1. PICK d \in 1..MaxDamage, n \in {1, 2} :
            \/ Undertakes(h, V, "vitals", Slain(row))
            \/ Undertakes(h, {"tallies", "vitals"}, "tallies",
                    Tallied(row, row.successes, Lower(row.failures + n, Beyond)))
        BY <1>5 DEF Strike
    <2>2. Lower(row.failures + n, Beyond) \in 0..Beyond /\ row.successes \in 0..3
        BY <1>1, TalliesGrow DEF Row, Beyond
    <2> QED BY <1>1, <1>2, <2>1, <2>2, RulesAreTyped, UndertakingIsTyped DEF Undertakes
<1>6. CASE Exhaust(h)
    BY <1>1, <1>2, <1>6, RulesAreTyped, UndertakingIsTyped DEF Exhaust, Undertakes
<1>7. CASE Heal(h) \/ CastHeal(h) \/ Drink(h)
    <2>1. PICK n \in 1..HpMax :
            \/ Undertakes(h, Groups, "vitals", Awake(row, n))
            \/ \E should : Attempts(h, should, V, "vitals", Healed(row, n))
        BY <1>7 DEF Heal, CastHeal, Drink, Undertakes
    <2> QED BY <1>1, <1>2, <2>1, RulesAreTyped, UndertakingIsTyped DEF Undertakes
<1>8. CASE Stabilize(h)
    <2>1. row.failures \in 0..Beyond /\ 3 \in 0..3
        BY <1>1 DEF Row
    <2>2. Tallied(row, 3, row.failures) \in Row
        BY <1>1, <2>1, RulesAreTyped
    <2> QED BY <1>2, <1>8, <2>2, UndertakingIsTyped DEF Stabilize, Undertakes
<1>9. CASE Rally(h) \/ Fail(h)
    <2>1. PICK s \in 0..3, f \in 0..Beyond : Rolled(h, s, f)
        <3>1. CASE Rally(h)
            BY <1>1, <3>1 DEF Rally, IsDying, Row
        <3>2. CASE Fail(h)
            <4>1. PICK n \in {1, 2} : Rolled(h, row.successes, Lower(row.failures + n, Beyond))
                BY <3>2 DEF Fail
            <4>2. Lower(row.failures + n, Beyond) \in 0..Beyond /\ row.successes \in 0..3
                BY <1>1, TalliesGrow DEF Row, Beyond
            <4> QED BY <4>1, <4>2
        <3> QED BY <1>9, <3>1, <3>2
    <2>2. T \cup (IF f >= 3 THEN V ELSE {}) \in SUBSET Groups
        BY DEF Groups
    <2> QED BY <1>1, <1>2, <2>1, <2>2, RulesAreTyped, UndertakingIsTyped DEF Rolled, Undertakes
<1>10. CASE TimerTwenty(h) \/ PlayerTwenty(h)
    <2>1. Awake(row, 1) \in Row
        BY <1>1, RulesAreTyped
    <2> QED BY <1>2, <1>10, <2>1, UndertakingIsTyped DEF TimerTwenty, PlayerTwenty, Undertakes
<1> QED BY <1>3, <1>4, <1>5, <1>6, <1>7, <1>8, <1>9, <1>10
        DEF Begin, Damage, Roll, Mend

LEMMA TypedInitially == Init => TypeOK
<1>1. Healthy \in Row
    BY DyingAssumption DEF Healthy, Row, Beyond
<1>2. MaxFaults \in Nat
    BY DyingAssumption
<1>3. 0 \in 0..MaxFaults
    BY <1>2
<1> QED BY <1>1, <1>3, FreeIsACall DEF Init, TypeOK

\* Whatever overlaps, a row stays a row: hit points within the maximum,
\* tallies within theirs (UpdateCombatantHP, UpdateCombatantDeathSaves).
THEOREM RowsStayRows == Spec => []TypeOK
<1>1. TypeOK /\ [Next]_vars => TypeOK'
    <2> SUFFICES ASSUME TypeOK, [Next]_vars PROVE TypeOK'
        OBVIOUS
    <2>1. CASE Next
        BY <2>1, WritingIsTyped, HandlersAreTyped DEF Next
    <2>2. CASE UNCHANGED vars
        BY <2>2 DEF TypeOK, vars
    <2> QED BY <2>1, <2>2
<1> QED BY <1>1, TypedInitially, PTL DEF Spec

(***************************************************************************)
(* The row once the handler in flight is through.                          *)
(***************************************************************************)
\* A handler that begins while all is quiet decides the row to come.
LEMMA BeginningDecides ==
    ASSUME TypeOK, Quiet, NEW h \in Handlers, NEW groups, NEW first,
           NEW plan, NEW should, Attempts(h, should, groups, first, plan)
    PROVE \E done \in CutOff(groups, first) :
            /\ Alone' /\ row' = row /\ Will = row /\ Will' = Written(row, plan, done)
            /\ loose' = (done # Groups /\ (loose \/ ~row.alive \/ done # should))
<1>1. Will = row /\ row' = row
    BY DEF Will, Attempts
<1>2. PICK done \in CutOff(groups, first) :
        /\ loose' = (done # Groups /\ (loose \/ ~row.alive \/ done # should))
        /\ call' = [call EXCEPT ![h] = [owes |-> done, first |-> first, plan |-> plan]]
    BY DEF Attempts
<1>3. call'[h].owes = done /\ call'[h].plan = plan /\ done # {}
    BY <1>2 DEF TypeOK, CutOff
<1>4. \A g \in Handlers \ {h} : call'[g].owes = {}
    BY <1>2 DEF TypeOK, Quiet, Resting
<1>5. Alone' /\ ~Quiet'
    BY <1>3, <1>4 DEF Alone, Quiet, Resting
<1>6. (CHOOSE g \in Handlers : ~Resting(g))' = h
    BY <1>3, <1>4 DEF Resting
<1> QED BY <1>1, <1>2, <1>3, <1>5, <1>6 DEF Will

\* A statement changes the row as was decided.
LEMMA WritingKeepsWill ==
    ASSUME TypeOK, Alone, NEW h \in Handlers, Write(h)
    PROVE Alone' /\ Will' = Will /\ loose' = loose
<1> DEFINE c == call[h]
<1>1. c \in Call /\ c.owes # {} /\ row \in Row
    BY DEF TypeOK, Write, Resting
<1>2. PICK g \in c.owes :
        /\ row' = Written(row, c.plan, {g})
        /\ call' = [call EXCEPT ![h] =
                          IF c.owes = {g} THEN Free
                          ELSE [owes |-> c.owes \ {g}, first |-> c.first, plan |-> c.plan]]
    BY DEF Write
<1>3. \A k \in Handlers \ {h} : call[k].owes = {} /\ call'[k].owes = {}
    BY <1>1, <1>2 DEF TypeOK, Alone, Resting
<1>4. /\ call'[h].owes = c.owes \ {g}
      /\ c.owes # {g} => call'[h].plan = c.plan
    BY <1>1, <1>2 DEF TypeOK, Free, Call
<1>5. Alone'
    BY <1>3 DEF Alone, Resting
<1>6. Will = Written(row, c.plan, c.owes)
    <2>1. (CHOOSE k \in Handlers : ~Resting(k)) = h
        BY <1>1, <1>3 DEF Resting
    <2> QED BY <1>1, <2>1 DEF Will, Quiet, Resting
<1>7. Written(row', c.plan, c.owes \ {g}) = Written(row, c.plan, c.owes)
    BY <1>2 DEF Written
<1>8. loose' = loose
    BY DEF Write
<1>9. CASE c.owes = {g}
    <2>1. Quiet'
        BY <1>3, <1>4, <1>9 DEF Quiet, Resting
    <2>2. Will' = row'
        BY <2>1 DEF Will
    <2> QED BY <1>2, <1>5, <1>6, <1>8, <1>9, <2>2
<1>10. CASE c.owes # {g}
    <2>1. c.owes \ {g} # {}
        BY <1>1, <1>10
    <2>2. (CHOOSE k \in Handlers : ~Resting(k))' = h /\ ~Quiet'
        BY <1>3, <1>4, <2>1 DEF Resting, Quiet
    <2>3. Will' = Written(row', c.plan, c.owes \ {g})
        BY <1>4, <1>10, <2>2 DEF Will
    <2> QED BY <1>5, <1>6, <1>7, <1>8, <2>3
<1> QED BY <1>9, <1>10

(***************************************************************************)
(* What each handler decides, begun while all is quiet: a row that is      *)
(* coherent unless something is loose, by a step of DeathSaves.            *)
(***************************************************************************)
Lawful ==
    /\ (~Will.alive => Will.hp = 0)'
    /\ (~loose => Coherent(Will))'
    /\ DS!DSNext \/ UNCHANGED DS!dsVars

LEMMA QuietRow ==
    ASSUME DyingInv, Quiet
    PROVE /\ TypeOK /\ Will = row
          /\ ~row.alive => row.hp = 0
          /\ ~loose => Coherent(row)
          /\ row.hp \in 0..HpMax /\ row.alive \in BOOLEAN /\ row.asleep \in BOOLEAN
          /\ row.successes \in 0..3 /\ row.failures \in 0..4
          /\ HpMax \in Nat \ {0} /\ MaxDamage \in Nat
BY DyingAssumption DEF DyingInv, TypeOK, Will, Row, Beyond

\* The columns of the row to come.
LEMMA RowToCome ==
    ASSUME DyingInv, Quiet, NEW h \in Handlers, NEW groups, NEW first, NEW plan, NEW should,
           Attempts(h, should, groups, first, plan)
    PROVE Alone' /\ row' = row /\
          \E done \in CutOff(groups, first) :
            /\ Will'.hp = (IF "vitals" \in done THEN plan.hp ELSE row.hp)
            /\ Will'.alive = (IF "vitals" \in done THEN plan.alive ELSE row.alive)
            /\ Will'.successes = (IF "tallies" \in done THEN plan.successes ELSE row.successes)
            /\ Will'.failures = (IF "tallies" \in done THEN plan.failures ELSE row.failures)
            /\ Will'.asleep = (IF "asleep" \in done THEN plan.asleep ELSE row.asleep)
            /\ loose' <=> (done # Groups /\ (loose \/ ~row.alive \/ done # should))
<1>1. TypeOK
    BY QuietRow
<1>2. PICK done \in CutOff(groups, first) :
        /\ Alone' /\ row' = row /\ Will' = Written(row, plan, done)
        /\ loose' = (done # Groups /\ (loose \/ ~row.alive \/ done # should))
    BY <1>1, BeginningDecides
<1>3. Alone' /\ row' = row
    BY <1>2
<1> QED BY <1>2, <1>3 DEF Written

\* A handler that writes one group of columns.
LEMMA OneGroup ==
    ASSUME DyingInv, Quiet, NEW h \in Handlers, NEW first \in {"vitals", "tallies"},
           NEW plan, NEW should, Attempts(h, should, {first}, first, plan)
    PROVE /\ Will'.hp = (IF first = "vitals" THEN plan.hp ELSE row.hp)
          /\ Will'.alive = (IF first = "vitals" THEN plan.alive ELSE row.alive)
          /\ Will'.successes = (IF first = "tallies" THEN plan.successes ELSE row.successes)
          /\ Will'.failures = (IF first = "tallies" THEN plan.failures ELSE row.failures)
          /\ Will'.asleep = row.asleep
          /\ loose' <=> (loose \/ ~row.alive \/ should # {first})
<1>1. \A done \in CutOff({first}, first) : done = {first}
    BY DEF CutOff
<1>2. /\ "asleep" \notin {first} /\ {first} # Groups
      /\ "vitals" \in {first} <=> first = "vitals"
      /\ "tallies" \in {first} <=> first = "tallies"
    BY DEF Groups
<1> QED BY <1>1, <1>2, RowToCome

\* A fall: hit points, then the condition.
LEMMA FallingWrites ==
    ASSUME DyingInv, Quiet, NEW h \in Handlers, NEW plan,
           Undertakes(h, {"vitals", "asleep"}, "vitals", plan)
    PROVE /\ Will'.hp = plan.hp /\ Will'.alive = plan.alive
          /\ Will'.successes = row.successes /\ Will'.failures = row.failures
          /\ ~loose' => ~loose /\ Will'.asleep = plan.asleep
<1>1. \A done \in CutOff({"vitals", "asleep"}, "vitals") :
          /\ "vitals" \in done /\ "tallies" \notin done
          /\ done = {"vitals", "asleep"} => "asleep" \in done
    BY DEF CutOff
<1>2. \A done : "tallies" \notin done => done # Groups
    BY DEF Groups
<1> QED BY <1>1, <1>2, RowToCome DEF Undertakes

\* Tallies, then hit points.
LEMMA TalliesFirst ==
    ASSUME DyingInv, Quiet, NEW h \in Handlers, NEW plan,
           NEW should \in {Groups, {"tallies", "vitals"}},
           Attempts(h, should, {"tallies", "vitals"}, "tallies", plan)
    PROVE /\ Will'.successes = plan.successes /\ Will'.failures = plan.failures
          /\ Will'.asleep = row.asleep
          /\ \/ Will'.hp = plan.hp /\ Will'.alive = plan.alive
             \/ Will'.hp = row.hp /\ Will'.alive = row.alive /\ loose'
          /\ loose \/ ~row.alive \/ should = Groups => loose'
<1>1. \A done \in CutOff({"tallies", "vitals"}, "tallies") :
          /\ "tallies" \in done /\ "asleep" \notin done
          /\ done = {"tallies", "vitals"} => "vitals" \in done
    BY DEF CutOff
<1>2. \A done : "asleep" \notin done => done # Groups
    BY DEF Groups
<1> QED BY <1>1, <1>2, RowToCome

\* Hit points, then the hook.
LEMMA HookWrites ==
    ASSUME DyingInv, Quiet, NEW h \in Handlers, NEW plan,
           Undertakes(h, Groups, "vitals", plan)
    PROVE /\ Will'.hp = plan.hp /\ Will'.alive = plan.alive
          /\ \/ Will'.successes = plan.successes /\ Will'.failures = plan.failures
             \/ Will'.successes = row.successes /\ Will'.failures = row.failures
          /\ ~loose' => /\ Will'.successes = plan.successes /\ Will'.failures = plan.failures
                        /\ Will'.asleep = plan.asleep
<1>1. \A done \in CutOff(Groups, "vitals") : "vitals" \in done
    BY DEF CutOff
<1>2. "asleep" \in Groups /\ "tallies" \in Groups
    BY DEF Groups
<1>3. PICK done \in CutOff(Groups, "vitals") :
            /\ Will'.hp = (IF "vitals" \in done THEN plan.hp ELSE row.hp)
            /\ Will'.alive = (IF "vitals" \in done THEN plan.alive ELSE row.alive)
            /\ Will'.successes = (IF "tallies" \in done THEN plan.successes ELSE row.successes)
            /\ Will'.failures = (IF "tallies" \in done THEN plan.failures ELSE row.failures)
            /\ Will'.asleep = (IF "asleep" \in done THEN plan.asleep ELSE row.asleep)
            /\ ~loose' => done = Groups
    BY RowToCome DEF Undertakes
<1> QED BY <1>1, <1>2, <1>3

\* Killed outright: massive damage, exhaustion.
LEMMA PerishingIsLawful ==
    ASSUME DyingInv, Quiet, NEW h \in Handlers,
           Undertakes(h, {"vitals"}, "vitals", Slain(row))
    PROVE Lawful
<1>1. /\ Will'.hp = 0 /\ Will'.alive = FALSE
      /\ Will'.successes = row.successes /\ Will'.failures = row.failures
    BY OneGroup DEF Slain, Vitals, Undertakes
<1>2. (~loose => Coherent(Will))'
    BY <1>1 DEF Coherent
<1>3. CASE row.alive
    <2>1. DS!Perish
        BY <1>1, <1>3, QuietRow DEF DS!Perish, GetTokenState
    <2> QED BY <1>1, <1>2, <2>1 DEF Lawful, DS!DSNext, DS!Rules
<1>4. CASE ~row.alive
    <2>1. UNCHANGED DS!dsVars
        BY <1>1, <1>4, QuietRow DEF DS!dsVars, GetTokenState
    <2> QED BY <1>1, <1>2, <2>1 DEF Lawful
<1> QED BY <1>3, <1>4

LEMMA WoundingIsLawful ==
    ASSUME DyingInv, Quiet, NEW h \in Handlers, Wound(h)
    PROVE Lawful
<1>1. PICK d \in 0..MaxDamage :
        /\ d < row.hp \/ d = 0
        /\ Undertakes(h, {"vitals"}, "vitals", Vitals(row, row.hp - d, TRUE))
    BY DEF Wound
<1>2. /\ Will'.hp = row.hp - d /\ Will'.alive = TRUE /\ Will'.asleep = row.asleep
      /\ Will'.successes = row.successes /\ Will'.failures = row.failures
      /\ loose' <=> (loose \/ ~row.alive)
    BY <1>1, OneGroup DEF Vitals, Undertakes
<1>3. d \in Nat /\ row.hp \in Nat /\ (row.hp = 0 => d = 0)
    BY <1>1, QuietRow
<1>4. (~loose => Coherent(Will))'
    BY <1>1, <1>2, <1>3, QuietRow DEF Coherent
<1>5. CASE row.hp > 0
    <2>1. DS!Hurt
        BY <1>1, <1>2, <1>3, <1>5, QuietRow DEF DS!Hurt, GetTokenState
    <2> QED BY <1>2, <1>4, <2>1 DEF Lawful, DS!DSNext, DS!Rules
<1>6. CASE row.hp = 0 /\ row.alive
    <2>1. Will'.hp = 0
        <3>1. d = 0
            BY <1>3, <1>6
        <3>2. row.hp - d = 0
            BY <1>6, <3>1
        <3> QED BY <1>2, <3>2
    <2>2. UNCHANGED DS!dsVars
        BY <1>2, <1>6, <2>1, QuietRow DEF DS!dsVars, GetTokenState
    <2> QED BY <1>2, <1>4, <2>2 DEF Lawful
<1>7. CASE row.hp = 0 /\ ~row.alive
    <2>1. Will'.hp = 0
        <3>1. d = 0
            BY <1>3, <1>7
        <3>2. row.hp - d = 0
            BY <1>7, <3>1
        <3> QED BY <1>2, <3>2
    <2>2. DS!HitTheDead(0)
        <3>1. DS!Counted(0) = row.failures
            BY QuietRow DEF DS!Counted
        <3>2. GetTokenState(Will) = "dead"
            BY <1>7, QuietRow DEF GetTokenState
        <3>3. GetTokenState(Will)' = DS!Below(row.successes)
            BY <1>2, <2>1, QuietRow DEF DS!Below, GetTokenState
        <3>4. /\ Will'.failures = Will.failures /\ Will'.hp = Will.hp
              /\ Will'.successes = Will.successes /\ Will = row
            BY <1>2, <1>7, <2>1, QuietRow
        <3> QED BY <3>1, <3>2, <3>3, <3>4 DEF DS!HitTheDead
    <2>3. 0 \in 0..2
        OBVIOUS
    <2> QED BY <1>2, <1>4, <2>2, <2>3 DEF Lawful, DS!DSNext, DS!Deviations
<1> QED BY <1>3, <1>5, <1>6, <1>7

LEMMA DroppingIsLawful ==
    ASSUME DyingInv, Quiet, NEW h \in Handlers, Drop(h)
    PROVE Lawful
<1>1. /\ row.hp > 0
      /\ \/ Undertakes(h, {"vitals"}, "vitals", Slain(row))
         \/ Undertakes(h, {"vitals", "asleep"}, "vitals", Felled(row))
    BY DEF Drop
<1>2. CASE Undertakes(h, {"vitals"}, "vitals", Slain(row))
    BY <1>2, PerishingIsLawful
<1>3. CASE Undertakes(h, {"vitals", "asleep"}, "vitals", Felled(row))
    <2>1. /\ Will'.hp = 0 /\ Will'.alive = TRUE
          /\ Will'.successes = row.successes /\ Will'.failures = row.failures
          /\ ~loose' => ~loose /\ Will'.asleep = TRUE
        BY <1>3, FallingWrites DEF Felled, Undertakes
    <2>2. (~loose => Coherent(Will))'
        BY <1>1, <2>1, QuietRow DEF Coherent
    <2>3. DS!Fall
        BY <1>1, <2>1, QuietRow DEF DS!Fall, DS!Below, GetTokenState
    <2> QED BY <2>1, <2>2, <2>3 DEF Lawful, DS!DSNext, DS!Rules
<1> QED BY <1>1, <1>2, <1>3

\* A tally that has grown is counted as in the rules.
LEMMA CountedIsLower ==
    ASSUME DyingInv, Quiet, NEW n \in {1, 2}
    PROVE Lower(row.failures + n, Beyond) = DS!Counted(n)
BY QuietRow DEF Lower, Beyond, DS!Counted

\* Failures tallied, by a roll or by a hit while down.
LEMMA WorseningIsLawful ==
    ASSUME DyingInv, Quiet, row.hp = 0, row.alive, NEW n \in {1, 2},
           Will'.hp = 0, Will'.asleep = row.asleep, Will'.successes = row.successes,
           Will'.failures = DS!Counted(n),
           (Will'.alive <=> Will'.failures < 3) \/ (Will'.alive /\ loose'),
           ~loose' => ~loose
    PROVE Lawful
<1>1. Will'.failures \in 1..4
    BY QuietRow DEF DS!Counted
<1>2. (~loose => Coherent(Will))'
    BY <1>1, QuietRow DEF Coherent
<1>3. GetTokenState(Will) = DS!Below(row.successes)
    BY QuietRow DEF GetTokenState, DS!Below
<1>4. GetTokenState(Will)' = IF Will'.alive THEN DS!Below(row.successes) ELSE "dead"
    BY <1>1, QuietRow DEF GetTokenState, DS!Below
<1>5. CASE Will'.alive <=> Will'.failures < 3
    <2>1. DS!Worsen(n)
        BY <1>1, <1>3, <1>4, <1>5, QuietRow DEF DS!Worsen, DS!Down, DS!Below
    <2> QED BY <1>2, <2>1 DEF Lawful, DS!DSNext, DS!Rules
<1>6. CASE ~(Will'.alive <=> Will'.failures < 3)
    <2>1. DS!DieUnrecorded(n)
        BY <1>1, <1>3, <1>4, <1>6, QuietRow DEF DS!DieUnrecorded, DS!Down, DS!Below
    <2> QED BY <1>2, <2>1 DEF Lawful, DS!DSNext, DS!Deviations
<1> QED BY <1>5, <1>6

LEMMA StrikingIsLawful ==
    ASSUME DyingInv, Quiet, NEW h \in Handlers, Strike(h)
    PROVE Lawful
<1>1. PICK d \in 1..MaxDamage, n \in {1, 2} :
        /\ row.hp = 0
        /\ \/ Undertakes(h, {"vitals"}, "vitals", Slain(row))
           \/ Undertakes(h, {"tallies", "vitals"}, "tallies",
                  Tallied(row, row.successes, Lower(row.failures + n, Beyond)))
    BY DEF Strike
<1>2. CASE Undertakes(h, {"vitals"}, "vitals", Slain(row))
    BY <1>2, PerishingIsLawful
<1>3. CASE Undertakes(h, {"tallies", "vitals"}, "tallies",
               Tallied(row, row.successes, Lower(row.failures + n, Beyond)))
    <2> DEFINE f == Lower(row.failures + n, Beyond)
    <2>1. f = DS!Counted(n) /\ f \in 1..4
        BY CountedIsLower, QuietRow DEF DS!Counted
    <2> HIDE DEF f
    <2>2. /\ Will'.hp = 0 /\ Will'.asleep = row.asleep
          /\ Will'.successes = row.successes /\ Will'.failures = f
          /\ (Will'.alive <=> f < 3) \/ ((Will'.alive <=> row.alive) /\ loose')
          /\ ~loose' => ~loose
          /\ ~row.alive => loose'
        <3>1. Attempts(h, {"tallies", "vitals"}, {"tallies", "vitals"}, "tallies",
                       Tallied(row, row.successes, f))
            BY <1>3 DEF Undertakes, f
        <3> DEFINE p == Tallied(row, row.successes, f)
        <3>2. p.hp = 0 /\ (p.alive <=> f < 3) /\ p.successes = row.successes
              /\ p.failures = f
            BY DEF Tallied
        <3> HIDE DEF p
        <3> QED BY <1>1, <3>1, <3>2, TalliesFirst DEF p
    <2>3. CASE row.alive
        <3>1. (Will'.alive <=> Will'.failures < 3) \/ (Will'.alive /\ loose')
            BY <2>2, <2>3
        <3> QED BY <1>1, <2>1, <2>2, <2>3, <3>1, WorseningIsLawful
    <2>4. CASE ~row.alive
        <3>1. Will'.alive => f < 3
            BY <2>2, <2>4
        <3>2. DS!HitTheDead(n)
            BY <1>1, <2>1, <2>2, <2>4, <3>1, QuietRow
            DEF DS!HitTheDead, DS!Below, GetTokenState
        <3>3. n \in 0..2
            OBVIOUS
        <3> QED BY <2>2, <2>4, <3>2, <3>3 DEF Lawful, DS!DSNext, DS!Deviations
    <2> QED BY <2>3, <2>4
<1> QED BY <1>1, <1>2, <1>3

\* The columns after a roll that is no natural 20.
LEMMA RollingWrites ==
    ASSUME DyingInv, Quiet, IsDying(row), NEW h \in Handlers,
           NEW s \in 0..3, NEW f \in 0..4, Rolled(h, s, f)
    PROVE /\ Will'.hp = 0 /\ Will'.asleep = row.asleep
          /\ Will'.successes = s /\ Will'.failures = f
          /\ (Will'.alive <=> f < 3) \/ (f >= 3 /\ Will'.alive /\ loose')
          /\ ~loose' => ~loose
<1>1. row.hp = 0 /\ row.alive = TRUE
    BY QuietRow DEF IsDying
<1>2. CASE f >= 3
    <2>1. Undertakes(h, {"tallies", "vitals"}, "tallies", Tallied(row, s, f))
        <3>1. {"tallies"} \cup {"vitals"} = {"tallies", "vitals"}
            OBVIOUS
        <3> QED BY <1>2, <3>1 DEF Rolled
    <2>2. Attempts(h, {"tallies", "vitals"}, {"tallies", "vitals"}, "tallies",
                   Tallied(row, s, f))
        BY <2>1 DEF Undertakes
    <2> DEFINE p == Tallied(row, s, f)
    <2>3. p.hp = 0 /\ (p.alive <=> f < 3) /\ p.successes = s /\ p.failures = f
        BY DEF Tallied
    <2> HIDE DEF p
    <2> QED BY <1>1, <1>2, <2>2, <2>3, TalliesFirst DEF p
<1>3. CASE ~(f >= 3)
    <2>1. Undertakes(h, {"tallies"}, "tallies", Tallied(row, s, f))
        <3>1. {"tallies"} \cup {} = {"tallies"}
            OBVIOUS
        <3> QED BY <1>3, <3>1 DEF Rolled
    <2>2. Attempts(h, {"tallies"}, {"tallies"}, "tallies", Tallied(row, s, f))
        BY <2>1 DEF Undertakes
    <2>3. /\ Will'.hp = row.hp /\ Will'.alive = row.alive
          /\ Will'.successes = Tallied(row, s, f).successes
          /\ Will'.failures = Tallied(row, s, f).failures
          /\ Will'.asleep = row.asleep
          /\ loose' <=> (loose \/ ~row.alive)
        BY <2>2, OneGroup
    <2> QED BY <1>1, <1>3, <2>3 DEF Tallied
<1> QED BY <1>2, <1>3

LEMMA FailingIsLawful ==
    ASSUME DyingInv, Quiet, NEW h \in Handlers, Fail(h)
    PROVE Lawful
<1>1. IsDying(row) /\ row.hp = 0 /\ row.alive
    BY DEF Fail, IsDying
<1>2. PICK n \in {1, 2} : Rolled(h, row.successes, Lower(row.failures + n, Beyond))
    BY DEF Fail
<1> DEFINE f == Lower(row.failures + n, Beyond)
<1>3. f = DS!Counted(n) /\ f \in 0..4 /\ row.successes \in 0..3
    BY CountedIsLower, QuietRow DEF DS!Counted
<1> HIDE DEF f
<1>4. Rolled(h, row.successes, f)
    BY <1>2 DEF f
<1>5. /\ Will'.hp = 0 /\ Will'.asleep = row.asleep
      /\ Will'.successes = row.successes /\ Will'.failures = f
      /\ (Will'.alive <=> f < 3) \/ (f >= 3 /\ Will'.alive /\ loose')
      /\ ~loose' => ~loose
    BY <1>1, <1>3, <1>4, RollingWrites
<1>6. (Will'.alive <=> Will'.failures < 3) \/ (Will'.alive /\ loose')
    BY <1>5
<1> QED BY <1>1, <1>3, <1>5, <1>6, WorseningIsLawful

\* A success: usually a rally; after a third failure nobody recorded, death.
LEMMA RallyingIsLawful ==
    ASSUME DyingInv, Quiet, NEW h \in Handlers, Rally(h)
    PROVE Lawful
<1>1. /\ IsDying(row) /\ row.hp = 0 /\ row.alive
      /\ row.successes \in 0..2 /\ row.failures \in 0..4
    BY QuietRow DEF Rally, IsDying
<1>2. /\ Will'.hp = 0 /\ Will'.asleep = row.asleep
      /\ Will'.successes = row.successes + 1 /\ Will'.failures = row.failures
      /\ \/ Will'.alive <=> row.failures < 3
         \/ row.failures >= 3 /\ Will'.alive /\ loose'
      /\ ~loose' => ~loose
    <2>1. row.successes + 1 \in 0..3
        BY <1>1
    <2> QED BY <1>1, <2>1, RollingWrites DEF Rally
<1>3. (~loose => Coherent(Will))'
    BY <1>1, <1>2, QuietRow DEF Coherent
<1>4. GetTokenState(Will) = "dying"
    BY <1>1, QuietRow DEF GetTokenState
<1>5. CASE Will'.alive
    <2>1. DS!Rally
        BY <1>1, <1>2, <1>4, <1>5, QuietRow DEF DS!Rally, DS!Below, GetTokenState
    <2> QED BY <1>3, <1>5, <2>1 DEF Lawful, DS!DSNext, DS!Rules
<1>6. CASE ~Will'.alive
    <2>1. row.failures >= 3
        BY <1>1, <1>2, <1>6
    <2>2. DS!DieLate
        BY <1>1, <1>2, <1>4, <1>6, <2>1, QuietRow DEF DS!DieLate, GetTokenState
    <2> QED BY <1>2, <1>3, <2>2 DEF Lawful, DS!DSNext, DS!Deviations
<1> QED BY <1>5, <1>6

LEMMA StabilizingIsLawful ==
    ASSUME DyingInv, Quiet, NEW h \in Handlers, Stabilize(h)
    PROVE Lawful
<1>1. row.hp = 0 /\ row.alive /\ row.successes \in 0..2
    BY QuietRow DEF Stabilize, IsDying
<1>2. /\ Will'.hp = 0 /\ Will'.asleep = row.asleep /\ Will'.alive
      /\ Will'.successes = 3 /\ Will'.failures = row.failures
      /\ ~loose' => ~loose
    <2>1. Attempts(h, {"tallies"}, {"tallies"}, "tallies", Tallied(row, 3, row.failures))
        BY DEF Stabilize, Undertakes
    <2>2. /\ Will'.hp = row.hp /\ Will'.alive = row.alive
          /\ Will'.successes = Tallied(row, 3, row.failures).successes
          /\ Will'.failures = Tallied(row, 3, row.failures).failures
          /\ Will'.asleep = row.asleep
          /\ loose' <=> (loose \/ ~row.alive)
        BY <2>1, OneGroup
    <2> QED BY <1>1, <2>2 DEF Tallied
<1>3. (~loose => Coherent(Will))'
    BY <1>1, <1>2, QuietRow DEF Coherent
<1>4. DS!Stabilize
    BY <1>1, <1>2, QuietRow DEF DS!Stabilize, GetTokenState
<1> QED BY <1>2, <1>3, <1>4 DEF Lawful, DS!DSNext, DS!Rules

\* A heal from zero: whole, or stopped short, of the dying or of the dead.
LEMMA HookedIsLawful ==
    ASSUME DyingInv, Quiet, NEW h \in Handlers, NEW n \in 1..HpMax, row.hp = 0,
           Undertakes(h, Groups, "vitals", Awake(row, n))
    PROVE Lawful
<1> DEFINE m == Lower(row.hp + n, HpMax)
<1>1. m \in 1..HpMax
    BY QuietRow DEF Lower
<1> HIDE DEF m
<1>2. /\ Will'.hp = m /\ Will'.alive = TRUE
      /\ \/ Will'.successes = 0 /\ Will'.failures = 0
         \/ Will'.successes = row.successes /\ Will'.failures = row.failures
      /\ ~loose' => Will'.successes = 0 /\ Will'.failures = 0 /\ Will'.asleep = FALSE
    BY HookWrites DEF Awake, m, Undertakes
<1>3. (~loose => Coherent(Will))'
    BY <1>1, <1>2 DEF Coherent
<1>4. GetTokenState(Will)' = "alive"
    BY <1>1, <1>2 DEF GetTokenState
<1>5. CASE row.alive
    <2>1. GetTokenState(Will) \in {"dying", "stable"}
        BY <1>5, QuietRow DEF GetTokenState
    <2>2. DS!Wake \/ DS!WakeWithTallies
        BY <1>1, <1>2, <1>4, <2>1, QuietRow DEF DS!Wake, DS!WakeWithTallies, DS!Down
    <2> QED BY <1>2, <1>3, <2>2 DEF Lawful, DS!DSNext, DS!Rules, DS!Deviations
<1>6. CASE ~row.alive
    <2>1. GetTokenState(Will) = "dead"
        BY <1>6, QuietRow DEF GetTokenState
    <2>2. DS!Raise
        BY <1>1, <1>2, <1>4, <2>1, QuietRow DEF DS!Raise
    <2> QED BY <1>2, <1>3, <2>2 DEF Lawful, DS!DSNext, DS!Deviations
<1> QED BY <1>5, <1>6

\* A heal that writes hit points only.
LEMMA UnhookedIsLawful ==
    ASSUME DyingInv, Quiet, NEW h \in Handlers, NEW n \in 1..HpMax,
           NEW should \in {Groups, {"vitals"}},
           row.hp = 0 /\ row.alive => should = Groups \/ ~row.asleep,
           Attempts(h, should, {"vitals"}, "vitals", Healed(row, n))
    PROVE Lawful
<1> DEFINE m == Lower(row.hp + n, HpMax)
<1>1. m \in 1..HpMax /\ m >= row.hp
    BY QuietRow DEF Lower
<1> HIDE DEF m
<1>2. /\ Will'.hp = m /\ Will'.alive = TRUE /\ Will'.asleep = row.asleep
      /\ Will'.successes = row.successes /\ Will'.failures = row.failures
      /\ loose' <=> (loose \/ ~row.alive \/ should # {"vitals"})
    BY OneGroup DEF Healed, Vitals, m, Undertakes
<1>3. (~loose => Coherent(Will))'
    <2>1. {"vitals"} # Groups
        BY DEF Groups
    <2> QED BY <1>1, <1>2, <2>1, QuietRow DEF Coherent
<1>4. GetTokenState(Will)' = "alive"
    BY <1>1, <1>2 DEF GetTokenState
<1>5. CASE row.hp > 0
    <2>1. GetTokenState(Will) = "alive"
        BY <1>5, QuietRow DEF GetTokenState
    <2>2. DS!Mend
        BY <1>1, <1>2, <1>4, <1>5, <2>1, QuietRow DEF DS!Mend
    <2> QED BY <1>2, <1>3, <2>2 DEF Lawful, DS!DSNext, DS!Rules
<1>6. CASE row.hp = 0 /\ row.alive
    <2>1. GetTokenState(Will) \in {"dying", "stable"}
        BY <1>6, QuietRow DEF GetTokenState
    <2>2. DS!WakeWithTallies
        BY <1>1, <1>2, <1>4, <2>1, QuietRow DEF DS!WakeWithTallies, DS!Down
    <2> QED BY <1>2, <1>3, <2>2 DEF Lawful, DS!DSNext, DS!Deviations
<1>7. CASE row.hp = 0 /\ ~row.alive
    <2>1. GetTokenState(Will) = "dead"
        BY <1>7, QuietRow DEF GetTokenState
    <2>2. DS!Raise
        BY <1>1, <1>2, <1>4, <2>1, QuietRow DEF DS!Raise
    <2> QED BY <1>2, <1>3, <2>2 DEF Lawful, DS!DSNext, DS!Deviations
<1>8. row.hp > 0 \/ row.hp = 0
    BY QuietRow
<1> QED BY <1>5, <1>6, <1>7, <1>8

\* The natural 20 of /deathsave.
LEMMA TwentyIsLawful ==
    ASSUME DyingInv, Quiet, NEW h \in Handlers, PlayerTwenty(h)
    PROVE Lawful
<1>1. row.hp = 0 /\ row.alive = TRUE /\ GetTokenState(Will) = "dying"
    BY QuietRow DEF PlayerTwenty, IsDying, GetTokenState
<1> DEFINE m == Lower(row.hp + 1, HpMax)
<1>2. m \in 1..HpMax
    BY QuietRow DEF Lower
<1> HIDE DEF m
<1>3. /\ Will'.successes = 0 /\ Will'.failures = 0 /\ Will'.alive = TRUE
      /\ Will'.hp = m \/ Will'.hp = 0
      /\ loose'
    BY <1>1, TalliesFirst DEF PlayerTwenty, Awake, m
<1>4. CASE Will'.hp = m
    <2>1. DS!Wake
        BY <1>1, <1>2, <1>3, <1>4, QuietRow DEF DS!Wake, DS!Down, GetTokenState
    <2> QED BY <1>3, <2>1 DEF Lawful, DS!DSNext, DS!Rules
<1>5. CASE Will'.hp = 0
    <2>1. DS!Forgive
        BY <1>1, <1>3, <1>5, QuietRow DEF DS!Forgive, GetTokenState
    <2> QED BY <1>3, <2>1 DEF Lawful, DS!DSNext, DS!Deviations
<1> QED BY <1>3, <1>4, <1>5

(***************************************************************************)
(* The theorems.                                                           *)
(***************************************************************************)
LEMMA BeginningIsLawful ==
    ASSUME DyingInv, NEW h \in Handlers, Quiet, Begin(h)
    PROVE Lawful /\ Alone'
<1>1. Exhaust(h) => Lawful
    BY PerishingIsLawful DEF Exhaust
<1>2. Heal(h) => Lawful
    <2> SUFFICES ASSUME Heal(h) PROVE Lawful
        OBVIOUS
    <2>1. PICK n \in 1..HpMax :
            \/ row.hp = 0 /\ Undertakes(h, Groups, "vitals", Awake(row, n))
            \/ row.hp # 0 /\ Undertakes(h, {"vitals"}, "vitals", Healed(row, n))
        BY DEF Heal, LiftedFromZero
    <2> QED BY <2>1, HookedIsLawful, UnhookedIsLawful DEF Undertakes
<1>3. CastHeal(h) => Lawful
    <2> SUFFICES ASSUME CastHeal(h) PROVE Lawful
        OBVIOUS
    <2>1. PICK n \in 1..HpMax :
            Attempts(h, IF row.hp = 0 THEN Groups ELSE {"vitals"}, {"vitals"}, "vitals",
                     Healed(row, n))
        BY DEF CastHeal
    <2>2. CASE row.hp = 0
        BY <2>1, <2>2, UnhookedIsLawful
    <2>3. CASE row.hp # 0
        BY <2>1, <2>3, UnhookedIsLawful
    <2> QED BY <2>2, <2>3
<1>4. Drink(h) => Lawful
    <2> SUFFICES ASSUME Drink(h) PROVE Lawful
        OBVIOUS
    <2>1. ~row.asleep
        BY DEF Drink
    <2>2. PICK n \in 1..HpMax : Attempts(h, {"vitals"}, {"vitals"}, "vitals", Healed(row, n))
        BY DEF Drink, Undertakes
    <2> QED BY <2>1, <2>2, UnhookedIsLawful
<1>5. TimerTwenty(h) => Lawful
    <2>1. 1 \in 1..HpMax
        BY QuietRow
    <2> QED BY <2>1, HookedIsLawful DEF TimerTwenty, IsDying
<1>6. Alone'
    <2>1. \E should, groups, first, plan : Attempts(h, should, groups, first, plan)
        <3>1. Damage(h) => \E groups, first, plan : Undertakes(h, groups, first, plan)
            BY DEF Damage, Wound, Drop, Strike, Exhaust
        <3>2. Roll(h) => \E should, groups, first, plan : Attempts(h, should, groups, first, plan)
            BY DEF Roll, Rally, Fail, Rolled, TimerTwenty, PlayerTwenty, Undertakes
        <3>3. Mend(h) => \E should, groups, first, plan : Attempts(h, should, groups, first, plan)
            BY DEF Mend, Heal, CastHeal, Drink, Stabilize, Undertakes
        <3> QED BY <3>1, <3>2, <3>3 DEF Begin, Undertakes
    <2> QED BY <2>1, RowToCome
<1> QED BY <1>1, <1>2, <1>3, <1>4, <1>5, <1>6, WoundingIsLawful, DroppingIsLawful,
           StrikingIsLawful, FailingIsLawful, RallyingIsLawful, StabilizingIsLawful,
           TwentyIsLawful
        DEF Begin, Damage, Roll, Mend

\* What a step of the serialised system does to the row to come.
LEMMA StepsAreLawful ==
    ASSUME DyingInv, [SerialNext]_vars
    PROVE DyingInv' /\ (DS!DSNext \/ UNCHANGED DS!dsVars)
<1>1. CASE UNCHANGED vars
    <2>1. row' = row /\ call' = call /\ loose' = loose /\ faults' = faults
        BY <1>1 DEF vars
    <2>2. Will' = Will
        BY <2>1 DEF Will, Quiet, Resting
    <2>3. DyingInv'
        BY <2>1, <2>2 DEF DyingInv, TypeOK, Alone, Coherent, Resting
    <2>4. UNCHANGED DS!dsVars
        BY <2>2 DEF DS!dsVars, GetTokenState
    <2> QED BY <2>3, <2>4
<1>2. CASE \E h \in Handlers : Write(h)
    <2>1. PICK h \in Handlers : Write(h)
        BY <1>2
    <2>2. TypeOK' /\ Alone' /\ Will' = Will /\ loose' = loose
        BY <2>1, WritingIsTyped, WritingKeepsWill DEF DyingInv
    <2>3. DyingInv'
        BY <2>2 DEF DyingInv, Coherent
    <2>4. UNCHANGED DS!dsVars
        BY <2>2 DEF DS!dsVars, GetTokenState
    <2> QED BY <2>3, <2>4
<1>3. CASE \E h \in Handlers : Quiet /\ Begin(h)
    <2>1. PICK h \in Handlers : Quiet /\ Begin(h)
        BY <1>3
    <2>2. Lawful /\ Alone'
        BY <2>1, BeginningIsLawful
    <2>3. TypeOK'
        BY <2>1, HandlersAreTyped DEF DyingInv
    <2> QED BY <2>2, <2>3 DEF DyingInv, Lawful
<1> QED BY <1>1, <1>2, <1>3 DEF SerialNext

LEMMA StartsHealthy == Init => DyingInv /\ DS!DSInit
<1> SUFFICES ASSUME Init PROVE DyingInv /\ DS!DSInit
    OBVIOUS
<1>1. TypeOK
    BY TypedInitially
<1>2. Quiet /\ Will = row /\ row = Healthy
    BY DEF Init, Quiet, Resting, Will, Free
<1>3. Alone
    BY <1>2 DEF Quiet, Alone
<1>4. Coherent(Healthy) /\ Healthy.alive /\ GetTokenState(Healthy) = "alive"
    BY DyingAssumption DEF Coherent, Healthy, GetTokenState
<1> QED BY <1>1, <1>2, <1>3, <1>4 DEF DyingInv, DS!DSInit, Healthy

\* The inductive invariant of handlers that run one at a time, each of which
\* may stop half-way: the dead have no hit points, and unless something was
\* left loose the columns agree once the handler is through.
THEOREM DyingInvariant == SerialSpec => []DyingInv
<1>1. DyingInv /\ [SerialNext]_vars => DyingInv'
    BY StepsAreLawful
<1> QED BY <1>1, StartsHealthy, PTL DEF SerialSpec

\* From a hook that was written whole to the next healing spell from zero,
\* natural 20 of /deathsave, handler on the dead or failure, whoever is above
\* zero is conscious and has empty tallies (MaybeResetDeathSavesOnHeal).
THEOREM TheHealedAreAwake == SerialSpec => []WakesClean
<1>1. DyingInv => WakesClean
    BY DEF DyingInv, WakesClean, EveryHealWakes, Will, Coherent
<1> QED BY <1>1, DyingInvariant, PTL

\* The handlers' statements implement the rules and the named deviations.
THEOREM HandlersFollowTheRules == SerialSpec => ImplementsDeathSaves
<1>1. DyingInv /\ [SerialNext]_vars => [DS!DSNext]_(DS!dsVars)
    BY StepsAreLawful
<1> QED BY <1>1, StartsHealthy, DyingInvariant, PTL DEF SerialSpec, ImplementsDeathSaves,
           DS!DSSpec
=============================================================================
