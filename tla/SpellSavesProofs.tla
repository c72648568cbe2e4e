--------------------------- MODULE SpellSavesProofs ---------------------------
(***************************************************************************)
(* That spells land together and in the end, for any number of targets,    *)
(* spells, handlers, rows, casts and faults.                               *)
(***************************************************************************)
EXTENDS SpellSaves, TLAPS

(***************************************************************************)
(* The inductive invariant.  What is on a drive's list was rolled and is   *)
(* on no other list, unless it is contested; a row hit is applied or on a  *)
(* list.  A roll waits for a pending row of its spell, a handler about to  *)
(* drive the spell, or a drive that has it on its list.  Nothing of a cast *)
(* is on a list while its rows are pending or being inserted.              *)
(***************************************************************************)
Casts(h) == task[h].step \in {"insert", "spare"}

TasksOK ==
    /\ \A r \in Rows : rows[r].spell \in Spells /\ rows[r].cast \in 1..casts
    /\ \A h \in Handlers :
         /\ Casts(h) => /\ task[h].spell \in Spells /\ task[h].level \in Levels
                        /\ task[h].cast \in 1..casts
         /\ task[h].step \in {"list", "land"} => task[h].spell \in Spells
         /\ task[h].step \in {"record", "spare"} => task[h].row \in Rows
         /\ At(h, "spare") => rows[task[h].row].spell = task[h].spell
         /\ task[h].step \in {"roll", "void"} => task[h].todo \subseteq Rows

CastsOK ==
    /\ \A q, r \in Rows : rows[q].cast = rows[r].cast => rows[q].spell = rows[r].spell
    /\ \A h \in Handlers : Casts(h) =>
         \A r \in Rows : rows[r].cast = task[h].cast => rows[r].spell = task[h].spell
    /\ \A g, h \in Handlers : Casts(g) /\ Casts(h) /\ task[g].cast = task[h].cast => g = h

ListsOK ==
    /\ \A h \in Handlers : At(h, "land") =>
         /\ task[h].todo \cap task[h].done = {}
         /\ \A r \in OnList(h) : /\ rows[r].spell = task[h].spell
                                 /\ rows[r].status \notin {"none", "pending"}
    /\ \A g, h \in Handlers : g # h => OnList(g) \cap OnList(h) \subseteq contested
    /\ \A h \in Handlers : \A r \in OnList(h) \ contested :
         /\ rows[r].status = "rolled"
         /\ hits[r] = IF r \in task[h].todo THEN 0 ELSE 1

HitsOK ==
    /\ \A r \in Ids : rows[r].status = "none" => hits[r] = 0
    /\ \A r \in Ids \ contested :
         /\ rows[r].status = "applied" => hits[r] = 1
         /\ rows[r].status \notin {"rolled", "applied"} => hits[r] = 0
         /\ rows[r].status = "rolled" /\ ~Listed(r) => hits[r] = 0

DrivenOK ==
    \A r \in Rows : rows[r].status = "rolled" /\ rows[r].spell \notin left =>
        \/ \E q \in Rows : rows[q].spell = rows[r].spell /\ rows[q].status = "pending"
        \/ \E h \in Handlers : At(h, "list") /\ task[h].spell = rows[r].spell
        \/ Listed(r)

TogetherOK ==
    \A r \in Ids : (hits[r] > 0 \/ Listed(r)) /\ rows[r].cast \notin early =>
        /\ ~Inserting(rows[r].cast)
        /\ \A q \in Ids : rows[q].cast = rows[r].cast => rows[q].status # "pending"

IInv == TypeOK /\ TasksOK /\ CastsOK /\ ListsOK /\ HitsOK /\ DrivenOK /\ TogetherOK

(***************************************************************************)
(* What a handler's step makes of the tasks.                               *)
(***************************************************************************)
\* The locals a handler begins with are typed, and so is what it makes of them.
LEMMA FreshTyped ==
    /\ Rest \in TaskType
    /\ \A step \in Steps, r \in Ids : [Rest EXCEPT !.step = step, !.row = r] \in TaskType
    /\ \A s \in Spells, l \in Levels, k \in 0..MaxCasts, targets, spared \in SUBSET Targets :
         [Rest EXCEPT !.step = "insert", !.spell = s, !.level = l, !.cast = k,
                      !.targets = targets, !.spared = spared] \in TaskType
    /\ \A step \in Steps, todo \in SUBSET Ids :
         [Rest EXCEPT !.step = step, !.todo = todo] \in TaskType
    /\ \A step \in Steps, x \in Targets \cup {None} :
         [Rest EXCEPT !.step = step, !.target = x] \in TaskType
    /\ \A step \in Steps, s \in Spells \cup {None} :
         [Rest EXCEPT !.step = step, !.spell = s] \in TaskType
    /\ \A step \in Steps, s \in Spells \cup {None}, l \in Levels \cup {None} :
         [Rest EXCEPT !.step = step, !.spell = s, !.level = l] \in TaskType
    /\ \A step \in Steps, s \in Spells \cup {None}, todo \in SUBSET Ids :
         [Rest EXCEPT !.step = step, !.spell = s, !.todo = todo] \in TaskType
  <1> "rest" \in Steps
    BY DEF Steps
  <1>1. Rest \in TaskType
    BY SavesAssumption DEF Rest, TaskType
  <1> "insert" \in Steps
    BY DEF Steps
  <1> QED BY ZenonT(40), <1>1 DEF TaskType

LEMMA NextTyped ==
    ASSUME NEW t \in TaskType
    PROVE  /\ \A step \in Steps : [t EXCEPT !.step = step] \in TaskType
           /\ \A targets \in SUBSET Targets : [t EXCEPT !.targets = targets] \in TaskType
           /\ \A step \in Steps, r \in Ids, targets \in SUBSET Targets :
                [t EXCEPT !.step = step, !.row = r, !.targets = targets] \in TaskType
           /\ \A todo \in SUBSET Ids : [t EXCEPT !.todo = todo] \in TaskType
           /\ \A done \in SUBSET Ids : [t EXCEPT !.done = done] \in TaskType
           /\ \A todo, done \in SUBSET Ids :
                [t EXCEPT !.todo = todo, !.done = done] \in TaskType
  BY DEF TaskType

\* Only the task of the handler that steps changes.
LEMMA Going ==
    ASSUME TypeOK, NEW h \in Handlers, NEW t \in TaskType, Goes(h, t)
    PROVE  /\ task' \in [Handlers -> TaskType]
           /\ task'[h] = t
           /\ \A g \in Handlers \ {h} : task'[g] = task[g]
  BY DEF TypeOK, Goes

\* And only one row, by its status.
LEMMA Writing ==
    ASSUME TypeOK, NEW r \in Ids, NEW status \in Status, Write(r, status)
    PROVE  /\ rows' \in [Ids -> RowType]
           /\ rows'[r].status = status
           /\ \A q \in Ids : /\ rows'[q].spell = rows[q].spell
                             /\ rows'[q].level = rows[q].level
                             /\ rows'[q].cast = rows[q].cast
                             /\ rows'[q].target = rows[q].target
           /\ \A q \in Ids \ {r} : rows'[q] = rows[q]
  BY DEF TypeOK, Write, RowType


(***************************************************************************)
(* The invariant, conjunct by conjunct and action by action.               *)
(***************************************************************************)

LEMMA TypeStep ==
    ASSUME IInv, [Next]_vars
    PROVE  TypeOK'
  <1> USE SavesAssumption DEF IInv, At, history
  <1>1. ASSUME NEW h \in Handlers, NEW s \in Spells, NEW l \in Levels, NEW targets \in SUBSET Targets,
           NEW spared \in SUBSET Sparable,
           BeginCast(h, s, l, targets, spared)
         PROVE  TypeOK'
    <2>1. casts' \in 0..MaxCasts
      BY <1>1 DEF BeginCast, TypeOK
    <2>2. [Rest EXCEPT !.step = "insert", !.spell = s, !.level = l, !.cast = casts',
                      !.targets = targets, !.spared = spared] \in TaskType
      BY <2>1, FreshTyped
    <2>3. task' \in [Handlers -> TaskType]
      BY <1>1, <2>2, Going DEF BeginCast
    <2> QED BY <1>1, <2>1, <2>3 DEF BeginCast, TypeOK
  <1>2. ASSUME NEW h \in Handlers, NEW x \in Targets, NEW r \in Ids,
           InsertRow(h, x, r)
         PROVE  TypeOK'
    <2>1. task[h] \in TaskType /\ task[h].spell \in Spells /\ task[h].level \in Levels
      BY <1>2 DEF InsertRow, TypeOK, TasksOK, Casts
    <2>2. rows' \in [Ids -> RowType]
      BY <1>2, <2>1 DEF InsertRow, TypeOK, RowType, Status, TaskType
    <2>3. task[h].targets \ {x} \in SUBSET Targets
      BY <2>1 DEF TaskType
    <2>4. /\ [task[h] EXCEPT !.step = "spare", !.row = r, !.targets = @ \ {x}] \in TaskType
          /\ [task[h] EXCEPT !.targets = @ \ {x}] \in TaskType
          /\ Rest \in TaskType
      BY <2>1, <2>3, NextTyped, FreshTyped DEF Steps
    <2>5. task' \in [Handlers -> TaskType]
      BY <1>2, <2>4, Going DEF InsertRow
    <2> QED BY <1>2, <2>2, <2>5 DEF InsertRow, TypeOK
  <1>3. ASSUME NEW h \in Handlers, Spare(h)
         PROVE  TypeOK'
    <2>1. task[h] \in TaskType /\ task[h].spell \in Spells /\ task[h].row \in Ids
      BY <1>3 DEF Spare, TypeOK, TasksOK, Casts, Rows
    <2>2. [task[h] EXCEPT !.step = "insert"] \in TaskType /\ Rest \in TaskType
      BY <2>1, NextTyped, FreshTyped DEF Steps
    <2>3. task' \in [Handlers -> TaskType]
      BY <1>3, <2>2, Going DEF Spare
    <2>4. rows' \in [Ids -> RowType]
      BY <1>3, <2>1, Writing DEF Spare, Roll, Status
    <2> QED BY <1>3, <2>1, <2>3, <2>4 DEF Spare, Roll, TypeOK
  <1>4. ASSUME NEW h \in Handlers, NEW x \in Targets, NEW r \in Ids,
           Save(h, x, r)
         PROVE  TypeOK'
    <2>1. [Rest EXCEPT !.step = "record", !.row = r] \in TaskType
      BY FreshTyped DEF Steps
    <2>2. task' \in [Handlers -> TaskType]
      BY <1>4, <2>1, Going DEF Save
    <2> QED BY <1>4, <2>2 DEF Save, TypeOK
  <1>5. ASSUME NEW h \in Handlers, NEW x \in Targets,
           TimeOut(h, x)
         PROVE  TypeOK'
    <2>1. PendingOf(x) \in SUBSET Ids
      BY DEF PendingOf
    <2>2. [Rest EXCEPT !.step = "roll", !.todo = PendingOf(x)] \in TaskType
      BY <2>1, FreshTyped DEF Steps
    <2>3. task' \in [Handlers -> TaskType]
      BY <1>5, <2>2, Going DEF TimeOut
    <2> QED BY <1>5, <2>3 DEF TimeOut, TypeOK
  <1>6. ASSUME NEW h \in Handlers, NEW r \in Ids,
           Click(h, r)
         PROVE  TypeOK'
    <2>1. rows[r] \in RowType
      BY DEF TypeOK
    <2>2. /\ [Rest EXCEPT !.step = "look", !.target = rows[r].target] \in TaskType
          /\ [Rest EXCEPT !.step = "list", !.spell = rows[r].spell] \in TaskType
      BY <2>1, FreshTyped DEF Steps, RowType
    <2>3. task' \in [Handlers -> TaskType]
      BY <1>6, <2>2, Going DEF Click
    <2> QED BY <1>6, <2>3 DEF Click, TypeOK
  <1>7. ASSUME NEW h \in Handlers, NEW r \in Ids,
           TimerRoll(h, r)
         PROVE  TypeOK'
    <2>1. task[h] \in TaskType /\ rows[r].spell \in Spells
      BY <1>7 DEF TimerRoll, IsOldest, TypeOK, TasksOK
    <2>2. task[h].todo \ {r} \in SUBSET Ids
      BY <2>1 DEF TaskType
    <2>3. [task[h] EXCEPT !.todo = @ \ {r}] \in TaskType /\ Rest \in TaskType
      BY <2>1, <2>2, NextTyped, FreshTyped DEF Steps
    <2>4. task' \in [Handlers -> TaskType]
      BY <1>7, <2>3, Going DEF TimerRoll
    <2>5. rows' \in [Ids -> RowType]
      BY <1>7, Writing DEF TimerRoll, Roll, Status
    <2> QED BY <1>7, <2>1, <2>4, <2>5 DEF TimerRoll, Roll, TypeOK
  <1>8. ASSUME NEW h \in Handlers, Look(h)
         PROVE  TypeOK'
    <2>1. \A r \in Ids : [Rest EXCEPT !.step = "record", !.row = r] \in TaskType
      BY FreshTyped DEF Steps
    <2>2. Rest \in TaskType
      BY FreshTyped DEF Steps
    <2>3. task' \in [Handlers -> TaskType]
      BY <1>8, <2>1, <2>2, Going DEF Look
    <2> QED BY <1>8, <2>3 DEF Look, TypeOK
  <1>9. ASSUME NEW h \in Handlers, Record(h)
         PROVE  TypeOK'
    <2>1. task[h].row \in Ids /\ rows[task[h].row].spell \in Spells
      BY <1>9 DEF Record, TasksOK, Rows
    <2>2. [Rest EXCEPT !.step = "list", !.spell = rows[task[h].row].spell] \in TaskType
      BY <2>1, FreshTyped DEF Steps
    <2>3. task' \in [Handlers -> TaskType]
      BY <1>9, <2>2, Going DEF Record
    <2>4. rows' \in [Ids -> RowType]
      BY <1>9, <2>1, Writing DEF Record, Roll, Status
    <2> QED BY <1>9, <2>1, <2>3, <2>4 DEF Record, Roll, TypeOK
  <1>10. ASSUME NEW h \in Handlers, List(h)
         PROVE  TypeOK'
    <2> DEFINE s == task[h].spell
    <2>1. s \in Spells /\ Landable(s) \in SUBSET Ids
      BY <1>10 DEF List, TasksOK, Landable, Of, Rows
    <2>2. /\ [Rest EXCEPT !.step = "land", !.spell = s, !.todo = Landable(s)] \in TaskType
          /\ Rest \in TaskType
      BY <2>1, FreshTyped DEF Steps
    <2>3. task' \in [Handlers -> TaskType]
      BY <1>10, <2>2, Going DEF List
    <2>4. UNCHANGED <<rows, hits, casts, faults>>
      BY <1>10 DEF List
    <2>5. contested' \subseteq Ids /\ early' \subseteq 1..MaxCasts /\ left' \subseteq Spells
      BY <1>10, <2>1 DEF List, TypeOK
    <2> QED BY <2>3, <2>4, <2>5 DEF TypeOK
  <1>11. ASSUME NEW h \in Handlers, NEW r \in Ids,
           Hit(h, r)
         PROVE  TypeOK'
    <2>1. task[h] \in TaskType
      BY DEF TypeOK
    <2>2. task[h].todo \ {r} \in SUBSET Ids /\ task[h].done \cup {r} \in SUBSET Ids
      BY <2>1 DEF TaskType
    <2>3. [task[h] EXCEPT !.todo = @ \ {r}, !.done = @ \cup {r}] \in TaskType
      BY <2>1, <2>2, NextTyped DEF TaskType
    <2>4. task' \in [Handlers -> TaskType]
      BY <1>11, <2>3, Going DEF Hit
    <2>5. hits' \in [Ids -> 0..2]
      BY <1>11 DEF Hit, TypeOK
    <2> QED BY <1>11, <2>4, <2>5 DEF Hit, TypeOK
  <1>12. ASSUME NEW h \in Handlers, NEW r \in Ids,
           Mark(h, r)
         PROVE  TypeOK'
    <2>1. task[h] \in TaskType
      BY DEF TypeOK
    <2>2. task[h].done \ {r} \in SUBSET Ids
      BY <2>1 DEF TaskType
    <2>3. [task[h] EXCEPT !.done = @ \ {r}] \in TaskType /\ Rest \in TaskType
      BY <2>1, <2>2, NextTyped, FreshTyped DEF Steps
    <2>4. task' \in [Handlers -> TaskType]
      BY <1>12, <2>3, Going DEF Mark, Unlist
    <2>5. rows' \in [Ids -> RowType]
      BY <1>12, Writing DEF Mark, Status
    <2> QED BY <1>12, <2>4, <2>5 DEF Mark, TypeOK
  <1>13. ASSUME NEW h \in Handlers, Survey(h)
         PROVE  TypeOK'
    <2> DEFINE tagged == {r \in Of(task[h].spell) :
                           /\ rows[r].level = task[h].level
                           /\ rows[r].status \in {"pending", "rolled"}}
    <2>1. tagged \in SUBSET Ids
      BY DEF Of, Rows
    <2>2. [Rest EXCEPT !.step = "void", !.todo = tagged] \in TaskType /\ Rest \in TaskType
      BY <2>1, FreshTyped DEF Steps
    <2>3. task' \in [Handlers -> TaskType]
      BY <1>13, <2>2, Going DEF Survey
    <2> QED BY <1>13, <2>3 DEF Survey, TypeOK
  <1>14. ASSUME NEW h \in Handlers, NEW r \in Ids,
           Cancel(h, r)
         PROVE  TypeOK'
    <2>1. rows[r] \in RowType
      BY DEF TypeOK
    <2>2. [Rest EXCEPT !.step = "survey", !.spell = rows[r].spell,
                      !.level = rows[r].level] \in TaskType
      BY <2>1, FreshTyped DEF Steps, RowType
    <2>3. task' \in [Handlers -> TaskType]
      BY <1>14, <2>2, Going DEF Cancel
    <2> QED BY <1>14, <2>3 DEF Cancel, TypeOK
  <1>15. ASSUME NEW h \in Handlers, NEW r \in Ids,
           Void(h, r)
         PROVE  TypeOK'
    <2>1. task[h] \in TaskType /\ rows[r].spell \in Spells
      BY <1>15 DEF Void, IsOldest, TypeOK, TasksOK
    <2>2. task[h].todo \ {r} \in SUBSET Ids
      BY <2>1 DEF TaskType
    <2>3. [task[h] EXCEPT !.todo = @ \ {r}] \in TaskType /\ Rest \in TaskType
      BY <2>1, <2>2, NextTyped, FreshTyped DEF Steps
    <2>4. task' \in [Handlers -> TaskType]
      BY <1>15, <2>3, Going DEF Void
    <2>5. rows' \in [Ids -> RowType]
      BY <1>15, Writing DEF Void, Status
    <2> QED BY <1>15, <2>1, <2>4, <2>5 DEF Void, TypeOK
  <1>16. ASSUME NEW h \in Handlers, Fail(h)
         PROVE  TypeOK'
    <2>1. Rest \in TaskType
      BY FreshTyped DEF Steps
    <2>2. task' \in [Handlers -> TaskType]
      BY <1>16, <2>1, Going DEF Fail
    <2>3. task[h].done \subseteq Ids
      BY DEF TypeOK, TaskType
    <2>4. left' \subseteq Spells
      BY <1>16 DEF Fail, TypeOK, TasksOK
    <2>5. faults' \in 0..MaxFaults
      BY <1>16 DEF Fail, TypeOK
    <2> QED BY <1>16, <2>2, <2>3, <2>4, <2>5 DEF Fail, TypeOK
  <1>17. CASE UNCHANGED vars
    BY <1>17 DEF vars, history, TypeOK
  <1> QED
    BY <1>1, <1>2, <1>3, <1>4, <1>5, <1>6, <1>7, <1>8,
       <1>9, <1>10, <1>11, <1>12, <1>13, <1>14, <1>15, <1>16, <1>17
       DEF Next, Casting, Rolling, Landing, Cancelling

\* The DM's button goes on to record the oldest row, or ends.
LEMMA Looks ==
    ASSUME TypeOK, NEW h \in Handlers, Look(h)
    PROVE  /\ \A g \in Handlers \ {h} : task'[g] = task[g]
           /\ \/ task'[h].step = "rest"
              \/ task'[h].step = "record" /\ task'[h].row \in Rows
  <1>1. \A r \in Ids : LET t == [Rest EXCEPT !.step = "record", !.row = r]
                      IN  t.step = "record" /\ t.row = r
    BY DEF Rest
  <1>2. Rest.step = "rest"
    BY DEF Rest
  <1>3. /\ \A g \in Handlers \ {h} : task'[g] = task[g]
        /\ \/ task'[h] = Rest
           \/ \E r \in Ids : /\ IsOldest(r, PendingOf(task[h].target))
                            /\ task'[h] = [Rest EXCEPT !.step = "record", !.row = r]
    BY DEF Look, Goes, TypeOK
  <1>4. \A x : \A r \in Ids : IsOldest(r, PendingOf(x)) => r \in Rows
    BY DEF IsOldest, PendingOf, Rows
  <1>5. CASE task'[h] = Rest
    BY <1>2, <1>3, <1>5
  <1>6. ASSUME NEW r \in Ids, IsOldest(r, PendingOf(task[h].target)),
               task'[h] = [Rest EXCEPT !.step = "record", !.row = r]
        PROVE  task'[h].step = "record" /\ task'[h].row \in Rows
    BY <1>1, <1>4, <1>6
  <1> QED BY <1>3, <1>5, <1>6


\* What a drive has on its list when it has listed the rows.
LEMMA Drives ==
    ASSUME TypeOK, NEW h \in Handlers, List(h)
    PROVE  /\ \A g \in Handlers \ {h} : task'[g] = task[g]
           /\ \/ /\ Waiting(task[h].spell) \/ Landable(task[h].spell) = {}
                 /\ task'[h].step = "rest"
              \/ /\ ~Waiting(task[h].spell)
                 /\ task'[h].step = "land"
                 /\ task'[h].spell = task[h].spell
                 /\ task'[h].todo = Landable(task[h].spell)
                 /\ task'[h].done = {}
  <1> DEFINE s == task[h].spell
             t == [Rest EXCEPT !.step = "land", !.spell = s, !.todo = Landable(s)]
  <1>1. t.step = "land" /\ t.spell = s /\ t.todo = Landable(s) /\ t.done = {}
    BY DEF Rest
  <1>2. Rest.step = "rest"
    BY DEF Rest
  <1>3. /\ \A g \in Handlers \ {h} : task'[g] = task[g]
        /\ \/ (Waiting(s) \/ Landable(s) = {}) /\ task'[h] = Rest
           \/ ~Waiting(s) /\ task'[h] = t
    BY DEF List, Goes, TypeOK
  <1> QED BY <1>1, <1>2, <1>3


LEMMA TasksStep ==
    ASSUME IInv, [Next]_vars
    PROVE  TasksOK'
  <1> USE SavesAssumption DEF IInv, At, Goes, history
  <1>1. ASSUME NEW h \in Handlers, NEW s \in Spells, NEW l \in Levels, NEW targets \in SUBSET Targets,
           NEW spared \in SUBSET Sparable,
           BeginCast(h, s, l, targets, spared)
         PROVE  TasksOK'
    BY <1>1 DEF BeginCast, TypeOK, TasksOK, Casts, Rest, Rows, Roll, Write, Unlist,
       PendingOf, Of, Landable, IsOldest
  <1>2. ASSUME NEW h \in Handlers, NEW x \in Targets, NEW r \in Ids,
           InsertRow(h, x, r)
         PROVE  TasksOK'
    BY <1>2 DEF InsertRow, TypeOK, TasksOK, Casts, Rest, Rows, Roll, Write, Unlist,
       PendingOf, Of, Landable, IsOldest
  <1>3. ASSUME NEW h \in Handlers, Spare(h)
         PROVE  TasksOK'
    BY <1>3 DEF Spare, TypeOK, TasksOK, Casts, Rest, Rows, Roll, Write, Unlist, PendingOf,
       Of, Landable, IsOldest
  <1>4. ASSUME NEW h \in Handlers, NEW x \in Targets, NEW r \in Ids,
           Save(h, x, r)
         PROVE  TasksOK'
    BY <1>4 DEF Save, TypeOK, TasksOK, Casts, Rest, Rows, Roll, Write, Unlist, PendingOf,
       Of, Landable, IsOldest
  <1>5. ASSUME NEW h \in Handlers, NEW x \in Targets,
           TimeOut(h, x)
         PROVE  TasksOK'
    BY <1>5 DEF TimeOut, TypeOK, TasksOK, Casts, Rest, Rows, Roll, Write, Unlist,
       PendingOf, Of, Landable, IsOldest
  <1>6. ASSUME NEW h \in Handlers, NEW r \in Ids,
           Click(h, r)
         PROVE  TasksOK'
    <2>1. UNCHANGED <<rows, casts>>
      BY <1>6 DEF Click
    <2>2. \A g \in Handlers \ {h} : task'[g] = task[g]
      BY <1>6 DEF Click, TypeOK
    <2>3. CASE task'[h] = [Rest EXCEPT !.step = "look", !.target = rows[r].target]
      <3>1. task'[h].step = "look"
        BY <2>3 DEF Rest
      <3>2. ~Casts(h)' /\ \A g \in Handlers \ {h} : Casts(g)' <=> Casts(g)
        BY <2>2, <3>1 DEF Casts
      <3>3. Rows' = Rows /\ casts' = casts /\ rows' = rows
        BY <2>1 DEF Rows
      <3> QED
        BY <2>2, <3>1, <3>2, <3>3 DEF TasksOK
    <2>4. CASE rows[r].status = "rolled" /\ task'[h] = [Rest EXCEPT !.step = "list", !.spell = rows[r].spell]
      <3>1. rows[r].spell \in Spells
        BY <2>4 DEF TasksOK, Rows
      <3>2. task'[h].step = "list" /\ task'[h].spell = rows[r].spell
        BY <2>4 DEF Rest
      <3> QED BY <2>1, <2>2, <3>1, <3>2 DEF TasksOK, Casts, Rows
    <2> QED BY <1>6, <2>3, <2>4 DEF Click, TypeOK
  <1>7. ASSUME NEW h \in Handlers, NEW r \in Ids,
           TimerRoll(h, r)
         PROVE  TasksOK'
    BY <1>7 DEF TimerRoll, TypeOK, TasksOK, Casts, Rest, Rows, Roll, Write, Unlist,
       PendingOf, Of, Landable, IsOldest
  <1>8. ASSUME NEW h \in Handlers, Look(h)
         PROVE  TasksOK'
    <2>1. UNCHANGED <<rows, casts>>
      BY <1>8 DEF Look
    <2> QED BY <1>8, <2>1, Looks DEF TasksOK, Casts, Rows
  <1>9. ASSUME NEW h \in Handlers, Record(h)
         PROVE  TasksOK'
    BY <1>9 DEF Record, TypeOK, TasksOK, Casts, Rest, Rows, Roll, Write, Unlist, PendingOf,
       Of, Landable, IsOldest
  <1>10. ASSUME NEW h \in Handlers, List(h)
         PROVE  TasksOK'
    <2>1. UNCHANGED <<rows, casts>> /\ task[h].spell \in Spells
      BY <1>10 DEF List, TasksOK
    <2> QED BY <1>10, <2>1, Drives DEF TasksOK, Casts, Rows
  <1>11. ASSUME NEW h \in Handlers, NEW r \in Ids,
           Hit(h, r)
         PROVE  TasksOK'
    BY <1>11 DEF Hit, TypeOK, TasksOK, Casts, Rest, Rows, Roll, Write, Unlist, PendingOf,
       Of, Landable, IsOldest
  <1>12. ASSUME NEW h \in Handlers, NEW r \in Ids,
           Mark(h, r)
         PROVE  TasksOK'
    <2>1. UNCHANGED casts /\ \A g \in Handlers \ {h} : task'[g] = task[g]
      BY <1>12 DEF Mark, Unlist, TypeOK
    <2>2. task'[h].step \in {"rest", "land"} /\ (task'[h].step = "land" => task'[h].spell \in Spells)
      BY <1>12 DEF Mark, Unlist, TypeOK, TasksOK, Rest
    <2>3. \A q \in Ids : rows'[q].spell = rows[q].spell /\ rows'[q].cast = rows[q].cast
      BY <1>12, Writing DEF Mark, Status
    <2>4. Rows' = Rows
      <3>1. r \in Rows
        BY <1>12 DEF Mark, ListsOK, OnList, Rows
      <3>2. rows'[r].status = "applied" /\ \A q \in Ids \ {r} : rows'[q] = rows[q]
        BY <1>12, Writing DEF Mark, Status
      <3> QED BY <3>1, <3>2 DEF Rows
    <2> QED BY <2>1, <2>2, <2>3, <2>4 DEF TasksOK, Casts, Rows
  <1>13. ASSUME NEW h \in Handlers, Survey(h)
         PROVE  TasksOK'
    BY <1>13 DEF Survey, TypeOK, TasksOK, Casts, Rest, Rows, Roll, Write, Unlist,
       PendingOf, Of, Landable, IsOldest
  <1>14. ASSUME NEW h \in Handlers, NEW r \in Ids,
           Cancel(h, r)
         PROVE  TasksOK'
    BY <1>14 DEF Cancel, TypeOK, TasksOK, Casts, Rest, Rows, Roll, Write, Unlist,
       PendingOf, Of, Landable, IsOldest
  <1>15. ASSUME NEW h \in Handlers, NEW r \in Ids,
           Void(h, r)
         PROVE  TasksOK'
    BY <1>15 DEF Void, TypeOK, TasksOK, Casts, Rest, Rows, Roll, Write, Unlist, PendingOf,
       Of, Landable, IsOldest
  <1>16. ASSUME NEW h \in Handlers, Fail(h)
         PROVE  TasksOK'
    BY <1>16 DEF Fail, TypeOK, TasksOK, Casts, Rest, Rows, Roll, Write, Unlist, PendingOf,
       Of, Landable, IsOldest
  <1>17. CASE UNCHANGED vars
    BY <1>17 DEF vars, history, TypeOK, TasksOK, Casts, Rest, Rows, Roll, Write, Unlist,
       PendingOf, Of, Landable, IsOldest
  <1> QED
    BY <1>1, <1>2, <1>3, <1>4, <1>5, <1>6, <1>7, <1>8,
       <1>9, <1>10, <1>11, <1>12, <1>13, <1>14, <1>15, <1>16, <1>17
       DEF Next, Casting, Rolling, Landing, Cancelling

LEMMA CastsStep ==
    ASSUME IInv, [Next]_vars
    PROVE  CastsOK'
  <1> USE SavesAssumption DEF IInv, At, Goes, history
  <1>1. ASSUME NEW h \in Handlers, NEW s \in Spells, NEW l \in Levels, NEW targets \in SUBSET Targets,
           NEW spared \in SUBSET Sparable,
           BeginCast(h, s, l, targets, spared)
         PROVE  CastsOK'
    BY <1>1 DEF BeginCast, TypeOK, TasksOK, CastsOK, Casts, Rest, Rows, Roll, Write,
       Unlist, IsOldest
  <1>2. ASSUME NEW h \in Handlers, NEW x \in Targets, NEW r \in Ids,
           InsertRow(h, x, r)
         PROVE  CastsOK'
    BY <1>2 DEF InsertRow, TypeOK, TasksOK, CastsOK, Casts, Rest, Rows, Roll, Write,
       Unlist, IsOldest
  <1>3. ASSUME NEW h \in Handlers, Spare(h)
         PROVE  CastsOK'
    BY <1>3 DEF Spare, TypeOK, TasksOK, CastsOK, Casts, Rest, Rows, Roll, Write, Unlist,
       IsOldest
  <1>4. ASSUME NEW h \in Handlers, NEW x \in Targets, NEW r \in Ids,
           Save(h, x, r)
         PROVE  CastsOK'
    BY <1>4 DEF Save, TypeOK, TasksOK, CastsOK, Casts, Rest, Rows, Roll, Write, Unlist,
       IsOldest
  <1>5. ASSUME NEW h \in Handlers, NEW x \in Targets,
           TimeOut(h, x)
         PROVE  CastsOK'
    BY <1>5 DEF TimeOut, TypeOK, TasksOK, CastsOK, Casts, Rest, Rows, Roll, Write, Unlist,
       IsOldest
  <1>6. ASSUME NEW h \in Handlers, NEW r \in Ids,
           Click(h, r)
         PROVE  CastsOK'
    <2>1. \A q \in Ids : rows'[q].cast = rows[q].cast /\ rows'[q].spell = rows[q].spell
      BY <1>6 DEF Click
    <2>2. Rows' = Rows
      BY <1>6 DEF Click, Rows
    <2>3. ~Casts(h)' /\ \A g \in Handlers \ {h} : task'[g] = task[g]
      BY ZenonT(40), <1>6 DEF Click, TypeOK, Casts, Rest, Unlist
    <2> QED BY <2>1, <2>2, <2>3 DEF CastsOK, Casts, Rows
  <1>7. ASSUME NEW h \in Handlers, NEW r \in Ids,
           TimerRoll(h, r)
         PROVE  CastsOK'
    BY <1>7 DEF TimerRoll, TypeOK, TasksOK, CastsOK, Casts, Rest, Rows, Roll, Write,
       Unlist, IsOldest
  <1>8. ASSUME NEW h \in Handlers, Look(h)
         PROVE  CastsOK'
    <2>1. \A r \in Ids : rows'[r].cast = rows[r].cast /\ rows'[r].spell = rows[r].spell
      BY <1>8 DEF Look
    <2>2. Rows' = Rows
      BY <1>8 DEF Look, Rows
    <2>3. ~Casts(h)' /\ \A g \in Handlers \ {h} : task'[g] = task[g]
      BY <1>8, Looks DEF Casts
    <2> QED BY <2>1, <2>2, <2>3 DEF CastsOK, Casts, Rows
  <1>9. ASSUME NEW h \in Handlers, Record(h)
         PROVE  CastsOK'
    BY <1>9 DEF Record, TypeOK, TasksOK, CastsOK, Casts, Rest, Rows, Roll, Write, Unlist,
       IsOldest
  <1>10. ASSUME NEW h \in Handlers, List(h)
         PROVE  CastsOK'
    <2>1. \A r \in Ids : rows'[r].cast = rows[r].cast /\ rows'[r].spell = rows[r].spell
      BY <1>10 DEF List
    <2>2. Rows' = Rows
      BY <1>10 DEF List, Rows
    <2>3. ~Casts(h)' /\ \A g \in Handlers \ {h} : task'[g] = task[g]
      BY <1>10, Drives DEF Casts
    <2> QED BY <2>1, <2>2, <2>3 DEF CastsOK, Casts, Rows
  <1>11. ASSUME NEW h \in Handlers, NEW r \in Ids,
           Hit(h, r)
         PROVE  CastsOK'
    BY <1>11 DEF Hit, TypeOK, TasksOK, CastsOK, Casts, Rest, Rows, Roll, Write, Unlist,
       IsOldest
  <1>12. ASSUME NEW h \in Handlers, NEW r \in Ids,
           Mark(h, r)
         PROVE  CastsOK'
    <2>1. \A q \in Ids : rows'[q].cast = rows[q].cast /\ rows'[q].spell = rows[q].spell
      BY <1>12, Writing DEF Mark, Status
    <2>2. Rows' = Rows
      <3>1. r \in Rows
        BY <1>12 DEF Mark, ListsOK, OnList, Rows
      <3>2. rows'[r].status = "applied" /\ \A q \in Ids \ {r} : rows'[q] = rows[q]
        BY <1>12, Writing DEF Mark, Status
      <3> QED BY <3>1, <3>2 DEF Rows
    <2>3. ~Casts(h)' /\ \A g \in Handlers \ {h} : task'[g] = task[g]
      BY <1>12 DEF Mark, TypeOK, Casts, Rest, Unlist
    <2> QED BY <2>1, <2>2, <2>3 DEF CastsOK, Casts, Rows
  <1>13. ASSUME NEW h \in Handlers, Survey(h)
         PROVE  CastsOK'
    BY <1>13 DEF Survey, TypeOK, TasksOK, CastsOK, Casts, Rest, Rows, Roll, Write, Unlist,
       IsOldest
  <1>14. ASSUME NEW h \in Handlers, NEW r \in Ids,
           Cancel(h, r)
         PROVE  CastsOK'
    BY <1>14 DEF Cancel, TypeOK, TasksOK, CastsOK, Casts, Rest, Rows, Roll, Write, Unlist,
       IsOldest
  <1>15. ASSUME NEW h \in Handlers, NEW r \in Ids,
           Void(h, r)
         PROVE  CastsOK'
    BY <1>15 DEF Void, TypeOK, TasksOK, CastsOK, Casts, Rest, Rows, Roll, Write, Unlist,
       IsOldest
  <1>16. ASSUME NEW h \in Handlers, Fail(h)
         PROVE  CastsOK'
    BY <1>16 DEF Fail, TypeOK, TasksOK, CastsOK, Casts, Rest, Rows, Roll, Write, Unlist,
       IsOldest
  <1>17. CASE UNCHANGED vars
    BY <1>17 DEF vars, history, TypeOK, TasksOK, CastsOK, Casts, Rest, Rows, Roll, Write,
       Unlist, IsOldest
  <1> QED
    BY <1>1, <1>2, <1>3, <1>4, <1>5, <1>6, <1>7, <1>8,
       <1>9, <1>10, <1>11, <1>12, <1>13, <1>14, <1>15, <1>16, <1>17
       DEF Next, Casting, Rolling, Landing, Cancelling

LEMMA ListsStep ==
    ASSUME IInv, [Next]_vars
    PROVE  ListsOK'
  <1> USE SavesAssumption DEF IInv, At, Goes, history
  <1>1. ASSUME NEW h \in Handlers, NEW s \in Spells, NEW l \in Levels, NEW targets \in SUBSET Targets,
           NEW spared \in SUBSET Sparable,
           BeginCast(h, s, l, targets, spared)
         PROVE  ListsOK'
    BY <1>1 DEF BeginCast, TypeOK, TasksOK, ListsOK, OnList, Rest, Rows, Roll, Write,
       Unlist, IsOldest
  <1>2. ASSUME NEW h \in Handlers, NEW x \in Targets, NEW r \in Ids,
           InsertRow(h, x, r)
         PROVE  ListsOK'
    BY <1>2 DEF InsertRow, TypeOK, TasksOK, ListsOK, OnList, Rest, Rows, Roll, Write,
       Unlist, IsOldest
  <1>3. ASSUME NEW h \in Handlers, Spare(h)
         PROVE  ListsOK'
    BY <1>3 DEF Spare, TypeOK, TasksOK, ListsOK, OnList, Rest, Rows, Roll, Write, Unlist,
       IsOldest
  <1>4. ASSUME NEW h \in Handlers, NEW x \in Targets, NEW r \in Ids,
           Save(h, x, r)
         PROVE  ListsOK'
    BY <1>4 DEF Save, TypeOK, TasksOK, ListsOK, OnList, Rest, Rows, Roll, Write, Unlist,
       IsOldest
  <1>5. ASSUME NEW h \in Handlers, NEW x \in Targets,
           TimeOut(h, x)
         PROVE  ListsOK'
    BY <1>5 DEF TimeOut, TypeOK, TasksOK, ListsOK, OnList, Rest, Rows, Roll, Write, Unlist,
       IsOldest
  <1>6. ASSUME NEW h \in Handlers, NEW r \in Ids,
           Click(h, r)
         PROVE  ListsOK'
    <2>1. UNCHANGED <<rows, hits, contested>>
      BY <1>6 DEF Click
    <2>2. task'[h].step # "land" /\ \A g \in Handlers \ {h} : task'[g] = task[g]
      BY <1>6 DEF Click, TypeOK, Rest
    <2>3. OnList(h)' = {} /\ \A g \in Handlers \ {h} : OnList(g)' = OnList(g)
      BY <2>2 DEF OnList
    <2> QED BY <2>1, <2>2, <2>3 DEF ListsOK
  <1>7. ASSUME NEW h \in Handlers, NEW r \in Ids,
           TimerRoll(h, r)
         PROVE  ListsOK'
    BY <1>7 DEF TimerRoll, TypeOK, TasksOK, ListsOK, OnList, Rest, Rows, Roll, Write,
       Unlist, IsOldest
  <1>8. ASSUME NEW h \in Handlers, Look(h)
         PROVE  ListsOK'
    <2>1. UNCHANGED <<rows, hits, contested>>
      BY <1>8 DEF Look
    <2>2. task'[h].step # "land" /\ \A g \in Handlers \ {h} : task'[g] = task[g]
      BY <1>8, Looks
    <2>3. OnList(h)' = {} /\ \A g \in Handlers \ {h} : OnList(g)' = OnList(g)
      BY <2>2 DEF OnList
    <2> QED BY <2>1, <2>2, <2>3 DEF ListsOK
  <1>9. ASSUME NEW h \in Handlers, Record(h)
         PROVE  ListsOK'
    BY <1>9 DEF Record, TypeOK, TasksOK, ListsOK, OnList, Rest, Rows, Roll, Write, Unlist,
       IsOldest
  <1>10. ASSUME NEW h \in Handlers, List(h)
         PROVE  ListsOK'
    <2> DEFINE s == task[h].spell
    <2>1. UNCHANGED <<rows, hits>> /\ contested \subseteq contested'
      BY <1>10 DEF List
    <2>2. \A g \in Handlers \ {h} : task'[g] = task[g] /\ OnList(g)' = OnList(g)
      BY <1>10, Drives DEF OnList
    <2>3. CASE task'[h].step = "rest"
      <3>1. OnList(h)' = {}
        BY <2>3 DEF OnList
      <3> QED BY <2>1, <2>2, <2>3, <3>1 DEF ListsOK
    <2>4. CASE /\ ~Waiting(s)
               /\ task'[h].step = "land" /\ task'[h].spell = s
               /\ task'[h].todo = Landable(s) /\ task'[h].done = {}
      <3>1. OnList(h)' = Landable(s)
        BY <2>4 DEF OnList
      <3>2. \A r \in Landable(s) : /\ rows[r].spell = s /\ rows[r].status = "rolled"
                                  /\ r \in Ids
        BY DEF Landable, Of, Rows
      <3>3. \A r \in Landable(s) : Listed(r) => r \in contested'
        BY <1>10, <2>4 DEF List
      <3>4. \A r \in Landable(s) \ contested' : hits[r] = 0
        BY <2>1, <3>2, <3>3 DEF HitsOK
      <3>5. \A g \in Handlers \ {h} : OnList(g) \cap OnList(h)' \subseteq contested'
        BY <3>1, <3>3 DEF Listed
      <3> QED BY <2>1, <2>2, <2>4, <3>1, <3>2, <3>4, <3>5 DEF ListsOK
    <2> QED BY <1>10, <2>3, <2>4, Drives
  <1>11. ASSUME NEW h \in Handlers, NEW r \in Ids,
           Hit(h, r)
         PROVE  ListsOK'
    BY <1>11 DEF Hit, TypeOK, TasksOK, ListsOK, OnList, Rest, Rows, Roll, Write, Unlist,
       IsOldest
  <1>12. ASSUME NEW h \in Handlers, NEW r \in Ids,
           Mark(h, r)
         PROVE  ListsOK'
    BY <1>12 DEF Mark, TypeOK, TasksOK, ListsOK, OnList, Rest, Rows, Roll, Write, Unlist,
       IsOldest
  <1>13. ASSUME NEW h \in Handlers, Survey(h)
         PROVE  ListsOK'
    BY <1>13 DEF Survey, TypeOK, TasksOK, ListsOK, OnList, Rest, Rows, Roll, Write, Unlist,
       IsOldest
  <1>14. ASSUME NEW h \in Handlers, NEW r \in Ids,
           Cancel(h, r)
         PROVE  ListsOK'
    BY <1>14 DEF Cancel, TypeOK, TasksOK, ListsOK, OnList, Rest, Rows, Roll, Write, Unlist,
       IsOldest
  <1>15. ASSUME NEW h \in Handlers, NEW r \in Ids,
           Void(h, r)
         PROVE  ListsOK'
    <2>1. UNCHANGED hits /\ contested \subseteq contested' /\ (Listed(r) => r \in contested')
      BY <1>15 DEF Void
    <2>2. task'[h].step # "land" /\ \A g \in Handlers \ {h} : task'[g] = task[g]
      BY <1>15 DEF Void, TypeOK, Rest
    <2>3. OnList(h)' = {} /\ \A g \in Handlers \ {h} : OnList(g)' = OnList(g)
      BY <2>2 DEF OnList
    <2>4. /\ rows'[r].status = "forfeited" /\ rows'[r].spell = rows[r].spell
          /\ \A q \in Ids \ {r} : rows'[q] = rows[q]
      BY <1>15, Writing DEF Void, Status
    <2>5. \A g \in Handlers : OnList(g) \subseteq Ids
      BY DEF OnList, TypeOK, TaskType
    <2> QED BY <2>1, <2>2, <2>3, <2>4, <2>5 DEF ListsOK, Listed
  <1>16. ASSUME NEW h \in Handlers, Fail(h)
         PROVE  ListsOK'
    BY <1>16 DEF Fail, TypeOK, TasksOK, ListsOK, OnList, Rest, Rows, Roll, Write, Unlist,
       IsOldest
  <1>17. CASE UNCHANGED vars
    BY <1>17 DEF vars, history, TypeOK, TasksOK, ListsOK, OnList, Rest, Rows, Roll, Write,
       Unlist, IsOldest
  <1> QED
    BY <1>1, <1>2, <1>3, <1>4, <1>5, <1>6, <1>7, <1>8,
       <1>9, <1>10, <1>11, <1>12, <1>13, <1>14, <1>15, <1>16, <1>17
       DEF Next, Casting, Rolling, Landing, Cancelling

LEMMA HitsStep ==
    ASSUME IInv, [Next]_vars
    PROVE  HitsOK'
  <1> USE SavesAssumption DEF IInv, At, Goes, history
  <1>1. ASSUME NEW h \in Handlers, NEW s \in Spells, NEW l \in Levels, NEW targets \in SUBSET Targets,
           NEW spared \in SUBSET Sparable,
           BeginCast(h, s, l, targets, spared)
         PROVE  HitsOK'
    BY <1>1 DEF BeginCast, TypeOK, TasksOK, ListsOK, HitsOK, Listed, OnList, Rest, Rows,
       Roll, Write, Unlist, IsOldest
  <1>2. ASSUME NEW h \in Handlers, NEW x \in Targets, NEW r \in Ids,
           InsertRow(h, x, r)
         PROVE  HitsOK'
    BY <1>2 DEF InsertRow, TypeOK, TasksOK, ListsOK, HitsOK, Listed, OnList, Rest, Rows,
       Roll, Write, Unlist, IsOldest
  <1>3. ASSUME NEW h \in Handlers, Spare(h)
         PROVE  HitsOK'
    BY <1>3 DEF Spare, TypeOK, TasksOK, ListsOK, HitsOK, Listed, OnList, Rest, Rows, Roll,
       Write, Unlist, IsOldest
  <1>4. ASSUME NEW h \in Handlers, NEW x \in Targets, NEW r \in Ids,
           Save(h, x, r)
         PROVE  HitsOK'
    BY <1>4 DEF Save, TypeOK, TasksOK, ListsOK, HitsOK, Listed, OnList, Rest, Rows, Roll,
       Write, Unlist, IsOldest
  <1>5. ASSUME NEW h \in Handlers, NEW x \in Targets,
           TimeOut(h, x)
         PROVE  HitsOK'
    BY <1>5 DEF TimeOut, TypeOK, TasksOK, ListsOK, HitsOK, Listed, OnList, Rest, Rows,
       Roll, Write, Unlist, IsOldest
  <1>6. ASSUME NEW h \in Handlers, NEW r \in Ids,
           Click(h, r)
         PROVE  HitsOK'
    BY <1>6 DEF Click, TypeOK, TasksOK, ListsOK, HitsOK, Listed, OnList, Rest, Rows, Roll,
       Write, Unlist, IsOldest
  <1>7. ASSUME NEW h \in Handlers, NEW r \in Ids,
           TimerRoll(h, r)
         PROVE  HitsOK'
    BY <1>7 DEF TimerRoll, TypeOK, TasksOK, ListsOK, HitsOK, Listed, OnList, Rest, Rows,
       Roll, Write, Unlist, IsOldest
  <1>8. ASSUME NEW h \in Handlers, Look(h)
         PROVE  HitsOK'
    <2>1. UNCHANGED <<rows, hits, contested>>
      BY <1>8 DEF Look
    <2>2. \A g \in Handlers : OnList(g)' = OnList(g)
      BY <1>8, Looks DEF Look, OnList
    <2> QED BY <2>1, <2>2 DEF HitsOK, Listed
  <1>9. ASSUME NEW h \in Handlers, Record(h)
         PROVE  HitsOK'
    BY <1>9 DEF Record, TypeOK, TasksOK, ListsOK, HitsOK, Listed, OnList, Rest, Rows, Roll,
       Write, Unlist, IsOldest
  <1>10. ASSUME NEW h \in Handlers, List(h)
         PROVE  HitsOK'
    BY <1>10 DEF List, TypeOK, TasksOK, ListsOK, HitsOK, Listed, OnList, Rest, Rows, Roll,
       Write, Unlist, IsOldest
  <1>11. ASSUME NEW h \in Handlers, NEW r \in Ids,
           Hit(h, r)
         PROVE  HitsOK'
    BY <1>11 DEF Hit, TypeOK, TasksOK, ListsOK, HitsOK, Listed, OnList, Rest, Rows, Roll,
       Write, Unlist, IsOldest
  <1>12. ASSUME NEW h \in Handlers, NEW r \in Ids,
           Mark(h, r)
         PROVE  HitsOK'
    BY <1>12 DEF Mark, TypeOK, TasksOK, ListsOK, HitsOK, Listed, OnList, Rest, Rows, Roll,
       Write, Unlist, IsOldest
  <1>13. ASSUME NEW h \in Handlers, Survey(h)
         PROVE  HitsOK'
    BY <1>13 DEF Survey, TypeOK, TasksOK, ListsOK, HitsOK, Listed, OnList, Rest, Rows,
       Roll, Write, Unlist, IsOldest
  <1>14. ASSUME NEW h \in Handlers, NEW r \in Ids,
           Cancel(h, r)
         PROVE  HitsOK'
    BY <1>14 DEF Cancel, TypeOK, TasksOK, ListsOK, HitsOK, Listed, OnList, Rest, Rows,
       Roll, Write, Unlist, IsOldest
  <1>15. ASSUME NEW h \in Handlers, NEW r \in Ids,
           Void(h, r)
         PROVE  HitsOK'
    BY <1>15 DEF Void, TypeOK, TasksOK, ListsOK, HitsOK, Listed, OnList, Rest, Rows, Roll,
       Write, Unlist, IsOldest
  <1>16. ASSUME NEW h \in Handlers, Fail(h)
         PROVE  HitsOK'
    BY <1>16 DEF Fail, TypeOK, TasksOK, ListsOK, HitsOK, Listed, OnList, Rest, Rows, Roll,
       Write, Unlist, IsOldest
  <1>17. CASE UNCHANGED vars
    BY <1>17 DEF vars, history, TypeOK, TasksOK, ListsOK, HitsOK, Listed, OnList, Rest,
       Rows, Roll, Write, Unlist, IsOldest
  <1> QED
    BY <1>1, <1>2, <1>3, <1>4, <1>5, <1>6, <1>7, <1>8,
       <1>9, <1>10, <1>11, <1>12, <1>13, <1>14, <1>15, <1>16, <1>17
       DEF Next, Casting, Rolling, Landing, Cancelling

LEMMA DrivenStep ==
    ASSUME IInv, [Next]_vars
    PROVE  DrivenOK'
  <1> USE SavesAssumption DEF IInv, At, Goes, history
  <1>1. ASSUME NEW h \in Handlers, NEW s \in Spells, NEW l \in Levels, NEW targets \in SUBSET Targets,
           NEW spared \in SUBSET Sparable,
           BeginCast(h, s, l, targets, spared)
         PROVE  DrivenOK'
    BY <1>1 DEF BeginCast, TypeOK, TasksOK, ListsOK, DrivenOK, Listed, OnList, Rest, Rows,
       Roll, Write, Unlist, IsOldest
  <1>2. ASSUME NEW h \in Handlers, NEW x \in Targets, NEW r \in Ids,
           InsertRow(h, x, r)
         PROVE  DrivenOK'
    BY SMTT(30), <1>2 DEF InsertRow, TypeOK, TasksOK, ListsOK, DrivenOK, Listed, OnList, Rest, Rows,
       Roll, Write, Unlist, IsOldest
  <1>3. ASSUME NEW h \in Handlers, Spare(h)
         PROVE  DrivenOK'
    BY <1>3 DEF Spare, TypeOK, TasksOK, ListsOK, DrivenOK, Listed, OnList, Rest, Rows,
       Roll, Write, Unlist, IsOldest
  <1>4. ASSUME NEW h \in Handlers, NEW x \in Targets, NEW r \in Ids,
           Save(h, x, r)
         PROVE  DrivenOK'
    BY <1>4 DEF Save, TypeOK, TasksOK, ListsOK, DrivenOK, Listed, OnList, Rest, Rows, Roll,
       Write, Unlist, IsOldest
  <1>5. ASSUME NEW h \in Handlers, NEW x \in Targets,
           TimeOut(h, x)
         PROVE  DrivenOK'
    BY <1>5 DEF TimeOut, TypeOK, TasksOK, ListsOK, DrivenOK, Listed, OnList, Rest, Rows,
       Roll, Write, Unlist, IsOldest
  <1>6. ASSUME NEW h \in Handlers, NEW r \in Ids,
           Click(h, r)
         PROVE  DrivenOK'
    BY <1>6 DEF Click, TypeOK, TasksOK, ListsOK, DrivenOK, Listed, OnList, Rest, Rows,
       Roll, Write, Unlist, IsOldest
  <1>7. ASSUME NEW h \in Handlers, NEW r \in Ids,
           TimerRoll(h, r)
         PROVE  DrivenOK'
    BY <1>7 DEF TimerRoll, TypeOK, TasksOK, ListsOK, DrivenOK, Listed, OnList, Rest, Rows,
       Roll, Write, Unlist, IsOldest
  <1>8. ASSUME NEW h \in Handlers, Look(h)
         PROVE  DrivenOK'
    <2>1. UNCHANGED <<rows, left>>
      BY <1>8 DEF Look
    <2>2. \A g \in Handlers : OnList(g)' = OnList(g)
      BY <1>8, Looks DEF Look, OnList
    <2>3. ~At(h, "list") /\ \A g \in Handlers \ {h} : task'[g] = task[g]
      BY <1>8, Looks DEF Look
    <2> QED BY <2>1, <2>2, <2>3 DEF DrivenOK, Listed, Rows
  <1>9. ASSUME NEW h \in Handlers, Record(h)
         PROVE  DrivenOK'
    BY <1>9 DEF Record, TypeOK, TasksOK, ListsOK, DrivenOK, Listed, OnList, Rest, Rows,
       Roll, Write, Unlist, IsOldest
  <1>10. ASSUME NEW h \in Handlers, List(h)
         PROVE  DrivenOK'
    <2> DEFINE s == task[h].spell
    <2>1. UNCHANGED rows /\ left \subseteq left' \cup {s} /\ (Waiting(s) => UNCHANGED left)
      BY <1>10 DEF List
    <2>2. \A g \in Handlers \ {h} : task'[g] = task[g] /\ OnList(g)' = OnList(g)
      BY <1>10, Drives DEF OnList
    <2>3. SUFFICES ASSUME NEW r \in Rows, rows[r].status = "rolled", rows[r].spell \notin left'
                   PROVE  \/ \E q \in Rows : /\ rows[q].spell = rows[r].spell
                                           /\ rows[q].status = "pending"
                          \/ \E g \in Handlers : (At(g, "list") /\ task[g].spell = rows[r].spell)'
                          \/ Listed(r)'
      BY <2>1 DEF DrivenOK, Rows
    <2>4. CASE rows[r].spell = s
      <3>1. CASE Waiting(s)
        BY <2>4, <3>1 DEF Waiting, Of
      <3>2. CASE ~Waiting(s)
        <4>1. r \in Landable(s)
          BY <2>3, <2>4 DEF Landable, Of
        <4>2. r \in OnList(h)'
          BY <1>10, <3>2, <4>1, Drives DEF OnList
        <4> QED BY <4>2 DEF Listed
      <3> QED BY <3>1, <3>2
    <2>5. CASE rows[r].spell # s
      <3>1. \/ \E q \in Rows : rows[q].spell = rows[r].spell /\ rows[q].status = "pending"
            \/ \E g \in Handlers : At(g, "list") /\ task[g].spell = rows[r].spell
            \/ Listed(r)
        BY <2>1, <2>3, <2>5 DEF DrivenOK
      <3>2. OnList(h) = {}
        BY <1>10 DEF List, OnList
      <3>3. CASE \E g \in Handlers : At(g, "list") /\ task[g].spell = rows[r].spell
        <4>1. PICK g \in Handlers : At(g, "list") /\ task[g].spell = rows[r].spell
          BY <3>3
        <4>2. g # h
          BY <2>5, <4>1
        <4> QED BY <2>1, <2>2, <4>1, <4>2
      <3>4. Listed(r) => Listed(r)'
        BY <2>2, <3>2 DEF Listed
      <3> QED BY <3>1, <3>3, <3>4
    <2> QED BY <2>4, <2>5
  <1>11. ASSUME NEW h \in Handlers, NEW r \in Ids,
           Hit(h, r)
         PROVE  DrivenOK'
    BY <1>11 DEF Hit, TypeOK, TasksOK, ListsOK, DrivenOK, Listed, OnList, Rest, Rows, Roll,
       Write, Unlist, IsOldest
  <1>12. ASSUME NEW h \in Handlers, NEW r \in Ids,
           Mark(h, r)
         PROVE  DrivenOK'
    BY <1>12 DEF Mark, TypeOK, TasksOK, ListsOK, DrivenOK, Listed, OnList, Rest, Rows,
       Roll, Write, Unlist, IsOldest
  <1>13. ASSUME NEW h \in Handlers, Survey(h)
         PROVE  DrivenOK'
    BY <1>13 DEF Survey, TypeOK, TasksOK, ListsOK, DrivenOK, Listed, OnList, Rest, Rows,
       Roll, Write, Unlist, IsOldest
  <1>14. ASSUME NEW h \in Handlers, NEW r \in Ids,
           Cancel(h, r)
         PROVE  DrivenOK'
    BY <1>14 DEF Cancel, TypeOK, TasksOK, ListsOK, DrivenOK, Listed, OnList, Rest, Rows,
       Roll, Write, Unlist, IsOldest
  <1>15. ASSUME NEW h \in Handlers, NEW r \in Ids,
           Void(h, r)
         PROVE  DrivenOK'
    BY <1>15 DEF Void, TypeOK, TasksOK, ListsOK, DrivenOK, Listed, OnList, Rest, Rows,
       Roll, Write, Unlist, IsOldest
  <1>16. ASSUME NEW h \in Handlers, Fail(h)
         PROVE  DrivenOK'
    BY <1>16 DEF Fail, TypeOK, TasksOK, ListsOK, DrivenOK, Listed, OnList, Rest, Rows,
       Roll, Write, Unlist, IsOldest
  <1>17. CASE UNCHANGED vars
    BY <1>17 DEF vars, history, TypeOK, TasksOK, ListsOK, DrivenOK, Listed, OnList, Rest,
       Rows, Roll, Write, Unlist, IsOldest
  <1> QED
    BY <1>1, <1>2, <1>3, <1>4, <1>5, <1>6, <1>7, <1>8,
       <1>9, <1>10, <1>11, <1>12, <1>13, <1>14, <1>15, <1>16, <1>17
       DEF Next, Casting, Rolling, Landing, Cancelling

LEMMA TogetherStep ==
    ASSUME IInv, [Next]_vars
    PROVE  TogetherOK'
  <1> USE SavesAssumption DEF IInv, At, Goes, history
  <1>1. ASSUME NEW h \in Handlers, NEW s \in Spells, NEW l \in Levels, NEW targets \in SUBSET Targets,
           NEW spared \in SUBSET Sparable,
           BeginCast(h, s, l, targets, spared)
         PROVE  TogetherOK'
    BY <1>1 DEF BeginCast, TypeOK, TasksOK, CastsOK, Casts, ListsOK, HitsOK, TogetherOK,
       Inserting, Listed, OnList, Rest, Rows, Roll, Write, Unlist, IsOldest
  <1>2. ASSUME NEW h \in Handlers, NEW x \in Targets, NEW r \in Ids,
           InsertRow(h, x, r)
         PROVE  TogetherOK'
    BY <1>2 DEF InsertRow, TypeOK, TasksOK, CastsOK, Casts, ListsOK, HitsOK, TogetherOK,
       Inserting, Listed, OnList, Rest, Rows, Roll, Write, Unlist, IsOldest
  <1>3. ASSUME NEW h \in Handlers, Spare(h)
         PROVE  TogetherOK'
    BY <1>3 DEF Spare, TypeOK, TasksOK, CastsOK, Casts, ListsOK, HitsOK, TogetherOK,
       Inserting, Listed, OnList, Rest, Rows, Roll, Write, Unlist, IsOldest
  <1>4. ASSUME NEW h \in Handlers, NEW x \in Targets, NEW r \in Ids,
           Save(h, x, r)
         PROVE  TogetherOK'
    BY <1>4 DEF Save, TypeOK, TasksOK, CastsOK, Casts, ListsOK, HitsOK, TogetherOK,
       Inserting, Listed, OnList, Rest, Rows, Roll, Write, Unlist, IsOldest
  <1>5. ASSUME NEW h \in Handlers, NEW x \in Targets,
           TimeOut(h, x)
         PROVE  TogetherOK'
    BY <1>5 DEF TimeOut, TypeOK, TasksOK, CastsOK, Casts, ListsOK, HitsOK, TogetherOK,
       Inserting, Listed, OnList, Rest, Rows, Roll, Write, Unlist, IsOldest
  <1>6. ASSUME NEW h \in Handlers, NEW r \in Ids,
           Click(h, r)
         PROVE  TogetherOK'
    <2>1. UNCHANGED <<rows, hits, early>>
      BY <1>6 DEF Click
    <2>2. task'[h].step \in {"look", "list"} /\ \A g \in Handlers \ {h} : task'[g] = task[g]
      BY ZenonT(40), <1>6 DEF Click, TypeOK, Rest
    <2>3. \A g \in Handlers : OnList(g)' = OnList(g)
      BY <1>6, <2>2 DEF Click, OnList
    <2>4. \A k : Inserting(k)' => Inserting(k)
      BY <2>2 DEF Inserting
    <2> QED BY <2>1, <2>3, <2>4 DEF TogetherOK, Listed
  <1>7. ASSUME NEW h \in Handlers, NEW r \in Ids,
           TimerRoll(h, r)
         PROVE  TogetherOK'
    BY <1>7 DEF TimerRoll, TypeOK, TasksOK, CastsOK, Casts, ListsOK, HitsOK, TogetherOK,
       Inserting, Listed, OnList, Rest, Rows, Roll, Write, Unlist, IsOldest
  <1>8. ASSUME NEW h \in Handlers, Look(h)
         PROVE  TogetherOK'
    <2>1. UNCHANGED <<rows, hits, early>>
      BY <1>8 DEF Look
    <2>2. task'[h].step \in {"rest", "record"} /\ \A g \in Handlers \ {h} : task'[g] = task[g]
      BY <1>8, Looks
    <2>3. \A g \in Handlers : OnList(g)' = OnList(g)
      BY <1>8, <2>2 DEF Look, OnList
    <2>4. \A k : Inserting(k)' => Inserting(k)
      BY <2>2 DEF Inserting
    <2> QED BY <2>1, <2>3, <2>4 DEF TogetherOK, Listed
  <1>9. ASSUME NEW h \in Handlers, Record(h)
         PROVE  TogetherOK'
    BY <1>9 DEF Record, TypeOK, TasksOK, CastsOK, Casts, ListsOK, HitsOK, TogetherOK,
       Inserting, Listed, OnList, Rest, Rows, Roll, Write, Unlist, IsOldest
  <1>10. ASSUME NEW h \in Handlers, List(h)
         PROVE  TogetherOK'
    <2> DEFINE s == task[h].spell
    <2>1. UNCHANGED <<rows, hits>> /\ early \subseteq early'
      BY <1>10 DEF List
    <2>2. \A g \in Handlers \ {h} : task'[g] = task[g] /\ OnList(g)' = OnList(g)
      BY <1>10, Drives DEF OnList
    <2>3. \A k : Inserting(k)' => Inserting(k)
      BY <1>10, <2>2, Drives DEF Inserting
    <2>4. SUFFICES ASSUME NEW r \in Ids, hits[r] > 0 \/ Listed(r)', rows[r].cast \notin early'
                   PROVE  /\ ~Inserting(rows[r].cast)
                          /\ \A q \in Ids : rows[q].cast = rows[r].cast =>
                                                  rows[q].status # "pending"
      BY <2>1, <2>3 DEF TogetherOK
    <2>5. CASE hits[r] > 0 \/ Listed(r)
      BY <2>1, <2>4, <2>5 DEF TogetherOK
    <2>6. CASE r \in Landable(s) /\ ~Waiting(s)
      <3>1. r \in Rows /\ rows[r].spell = s
        BY <2>6 DEF Landable, Of, Rows
      <3>2. rows[r].cast \in 1..MaxCasts
        BY <3>1 DEF TasksOK, TypeOK
      <3>3. ~Inserting(rows[r].cast)
        BY <1>10, <2>4, <2>6, <3>2 DEF List
      <3>4. ASSUME NEW q \in Ids, rows[q].cast = rows[r].cast, rows[q].status = "pending"
            PROVE  FALSE
        <4>1. q \in Rows
          BY <3>4 DEF Rows
        <4>2. rows[q].spell = s
          BY <3>1, <3>4, <4>1 DEF CastsOK
        <4> QED BY <2>6, <3>4, <4>1, <4>2 DEF Waiting, Of
      <3> QED BY <3>3, <3>4
    <2>7. Listed(r)' => Listed(r) \/ (r \in Landable(s) /\ ~Waiting(s))
      BY <1>10, <2>2, Drives DEF Listed, OnList
    <2> QED BY <2>4, <2>5, <2>6, <2>7
  <1>11. ASSUME NEW h \in Handlers, NEW r \in Ids,
           Hit(h, r)
         PROVE  TogetherOK'
    BY <1>11 DEF Hit, TypeOK, TasksOK, CastsOK, Casts, ListsOK, HitsOK, TogetherOK,
       Inserting, Listed, OnList, Rest, Rows, Roll, Write, Unlist, IsOldest
  <1>12. ASSUME NEW h \in Handlers, NEW r \in Ids,
           Mark(h, r)
         PROVE  TogetherOK'
    BY <1>12 DEF Mark, TypeOK, TasksOK, CastsOK, Casts, ListsOK, HitsOK, TogetherOK,
       Inserting, Listed, OnList, Rest, Rows, Roll, Write, Unlist, IsOldest
  <1>13. ASSUME NEW h \in Handlers, Survey(h)
         PROVE  TogetherOK'
    BY <1>13 DEF Survey, TypeOK, TasksOK, CastsOK, Casts, ListsOK, HitsOK, TogetherOK,
       Inserting, Listed, OnList, Rest, Rows, Roll, Write, Unlist, IsOldest
  <1>14. ASSUME NEW h \in Handlers, NEW r \in Ids,
           Cancel(h, r)
         PROVE  TogetherOK'
    BY <1>14 DEF Cancel, TypeOK, TasksOK, CastsOK, Casts, ListsOK, HitsOK, TogetherOK,
       Inserting, Listed, OnList, Rest, Rows, Roll, Write, Unlist, IsOldest
  <1>15. ASSUME NEW h \in Handlers, NEW r \in Ids,
           Void(h, r)
         PROVE  TogetherOK'
    BY <1>15 DEF Void, TypeOK, TasksOK, CastsOK, Casts, ListsOK, HitsOK, TogetherOK,
       Inserting, Listed, OnList, Rest, Rows, Roll, Write, Unlist, IsOldest
  <1>16. ASSUME NEW h \in Handlers, Fail(h)
         PROVE  TogetherOK'
    BY <1>16 DEF Fail, TypeOK, TasksOK, CastsOK, Casts, ListsOK, HitsOK, TogetherOK,
       Inserting, Listed, OnList, Rest, Rows, Roll, Write, Unlist, IsOldest
  <1>17. CASE UNCHANGED vars
    BY <1>17 DEF vars, history, TypeOK, TasksOK, CastsOK, Casts, ListsOK, HitsOK,
       TogetherOK, Inserting, Listed, OnList, Rest, Rows, Roll, Write, Unlist, IsOldest
  <1> QED
    BY <1>1, <1>2, <1>3, <1>4, <1>5, <1>6, <1>7, <1>8,
       <1>9, <1>10, <1>11, <1>12, <1>13, <1>14, <1>15, <1>16, <1>17
       DEF Next, Casting, Rolling, Landing, Cancelling

(***************************************************************************)
(* The theorems.                                                           *)
(***************************************************************************)
LEMMA InitHolds == Init => IInv
  <1> SUFFICES ASSUME Init PROVE IInv
    OBVIOUS
  <1> USE SavesAssumption DEF Init
  <1>1. NoRow \in RowType
    BY DEF NoRow, RowType, Status
  <1>2. TypeOK
    <2>1. Rest \in TaskType
      BY FreshTyped
    <2>2. casts \in 0..MaxCasts /\ faults \in 0..MaxFaults
      OBVIOUS
    <2> QED BY <1>1, <2>1, <2>2 DEF TypeOK
  <1>3. Rows = {} /\ \A h \in Handlers : OnList(h) = {}
    BY DEF Rows, NoRow, OnList, At, Rest
  <1>4. TasksOK /\ CastsOK /\ DrivenOK
    BY <1>3 DEF TasksOK, CastsOK, DrivenOK, Casts, At, Rest
  <1>5. ListsOK /\ HitsOK /\ TogetherOK
    BY <1>3 DEF ListsOK, HitsOK, TogetherOK, Listed, At, Rest, NoRow
  <1> QED BY <1>2, <1>4, <1>5 DEF IInv

\* The inductive invariant holds of every behaviour, however handlers overlap and fail.
THEOREM SavesHold == Spec => []IInv
  <1>1. IInv /\ [Next]_vars => IInv'
    BY TypeStep, TasksStep, CastsStep, ListsStep, HitsStep, DrivenStep,
       TogetherStep DEF IInv
  <1> QED BY <1>1, InitHolds, PTL DEF Spec

\* Rows, tasks and histories stay what the schema and the handlers make them.
THEOREM RowsTyped == Spec => []TypeOK
  BY SavesHold, PTL DEF IInv

\* Whoever records the last roll drives the spell: between handlers no roll waits for
\* nothing, apart from the spells that were left.
THEOREM RollsAreDriven == Spec => []NothingLeftHanging
  <1>1. IInv => NothingLeftHanging
    BY DEF IInv, DrivenOK, NothingLeftHanging, AtRest, Listed, OnList, At
  <1> QED BY <1>1, SavesHold, PTL

\* A cast that was not driven while it was being inserted lands on everybody after the
\* last save.
THEOREM CastsLandTogether == Spec => []LandsTogether
  <1>1. IInv => LandsTogether
    BY DEF IInv, TogetherOK, LandsTogether
  <1> QED BY <1>1, SavesHold, PTL

=============================================================================
