------------------------------ MODULE SpellSaves ------------------------------
(***************************************************************************)
(* Saving throws of spells (pending_saves): a cast asks one save of every  *)
(* target, row by row; players roll with /save, the DM rolls for monsters, *)
(* the turn timer rolls for players who are late, the DM cancels a cast;   *)
(* whoever records a roll then drives ResolveAoEPendingSaves, which lets   *)
(* the spell land on everybody when the last save is in.                   *)
(*                                                                         *)
(* No handler takes a lock: up to all of Handlers overlap, statement by    *)
(* statement, and any of them may fail or crash between two statements.    *)
(*                                                                         *)
(* All spells ask for the same ability.  What a spell does to a target,    *)
(* damage or conditions, is one hit; how strong it is depends on the       *)
(* result of the save, which is left out, and so is what ends a            *)
(* concentration on the way (Concentration).                               *)
(***************************************************************************)
EXTENDS Integers, FiniteSets

CONSTANTS
    Targets,
    Monsters,   \* the targets the DM rolls for; players roll for the others
    Sparable,   \* the targets a Careful Spell may spare
    Spells,
    Levels,     \* of slots: the cast's tag is the spell and the level
    Handlers,   \* handlers in flight at most
    MaxRows,    \* bound: rows
    MaxCasts,   \* bound: casts
    MaxFaults,  \* bound: failed statements
    None

ASSUME SavesAssumption ==
    /\ Monsters \subseteq Targets /\ Sparable \subseteq Targets
    /\ MaxRows \in Nat /\ MaxCasts \in Nat /\ MaxFaults \in Nat
    /\ None \notin Targets \cup Spells \cup Levels

VARIABLES
    rows,      \* pending_saves, by order of creation
    hits,      \* how often the spell landed by that row: 0, 1, or 2 for more
    task,      \* the handlers and their locals
    casts,
    faults,
    contested, \* history: rows that two handlers wrote or listed over one
               \*   another, or that were hit by a drive that then failed
    early,     \* history: casts whose rows were listed to land while others
               \*   were still being inserted
    left       \* history: spells on which the last word was not a drive's:
               \*   rolled by the timer, spared, cancelled, or a drive failed

history == <<contested, early, left>>
vars == <<rows, hits, task, casts, faults, history>>

Ids == 1..MaxRows

Status == {"none", "pending", "rolled", "applied", "forfeited"}
RowType == [status : Status, spell : Spells \cup {None}, level : Levels \cup {None},
            cast : 0..MaxCasts, target : Targets \cup {None}]
NoRow == [status |-> "none", spell |-> None, level |-> None, cast |-> 0, target |-> None]

Steps == {"rest", "insert", "spare", "look", "record", "list", "land", "roll", "survey", "void"}
TaskType == [step : Steps, spell : Spells \cup {None}, level : Levels \cup {None},
             cast : 0..MaxCasts, target : Targets \cup {None},
             targets : SUBSET Targets, spared : SUBSET Targets, row : Ids \cup {0},
             todo : SUBSET Ids, done : SUBSET Ids]
Rest == [step |-> "rest", spell |-> None, level |-> None, cast |-> 0, target |-> None,
         targets |-> {}, spared |-> {}, row |-> 0, todo |-> {}, done |-> {}]

TypeOK ==
    /\ rows \in [Ids -> RowType]
    /\ hits \in [Ids -> 0..2]
    /\ task \in [Handlers -> TaskType]
    /\ casts \in 0..MaxCasts /\ faults \in 0..MaxFaults
    /\ contested \subseteq Ids /\ early \subseteq 1..MaxCasts /\ left \subseteq Spells

Init ==
    /\ rows = [r \in Ids |-> NoRow]
    /\ hits = [r \in Ids |-> 0]
    /\ task = [h \in Handlers |-> Rest]
    /\ casts = 0 /\ faults = 0
    /\ contested = {} /\ early = {} /\ left = {}

At(h, step) == task[h].step = step
Goes(h, t) == task' = [task EXCEPT ![h] = t]

\* UPDATE pending_saves SET status ... WHERE id: whatever the status was.
Write(r, status) == rows' = [rows EXCEPT ![r].status = status]

\* On the list of a drive: to be hit, or hit and not yet marked.
OnList(h) == IF At(h, "land") THEN task[h].todo \cup task[h].done ELSE {}
Listed(r) == \E h \in Handlers : r \in OnList(h)

Rows == {r \in Ids : rows[r].status # "none"}
Of(s) == {r \in Rows : rows[r].spell = s}
Waiting(s) == \E r \in Of(s) : rows[r].status = "pending"
PendingOf(x) == {r \in Ids : rows[r].status = "pending" /\ rows[r].target = x}
IsOldest(r, set) == r \in set /\ \A q \in set : r <= q

(***************************************************************************)
(* Casting.                                                                *)
(***************************************************************************)
Owed == UNION {{g} \X task[g].targets : g \in Handlers}
Room(targets) == Cardinality(Rows) + Cardinality(Owed) + Cardinality(targets) <= MaxRows

BeginCast(h, s, l, targets, spared) ==
    /\ At(h, "rest") /\ casts < MaxCasts /\ Room(targets)
    /\ targets # {} /\ spared \subseteq targets
    /\ casts' = casts + 1
    /\ Goes(h, [Rest EXCEPT !.step = "insert", !.spell = s, !.level = l,
                            !.cast = casts', !.targets = targets, !.spared = spared])
    /\ UNCHANGED <<rows, hits, faults, history>>

\* One row; a spared target's row is then written as a save that was made.
InsertRow(h, x, r) ==
    /\ At(h, "insert") /\ x \in task[h].targets
    /\ IsOldest(r, Ids \ Rows)
    /\ rows' = [rows EXCEPT ![r] =
                  [status |-> "pending", spell |-> task[h].spell, level |-> task[h].level,
                   cast |-> task[h].cast, target |-> x]]
    /\ Goes(h, IF x \in task[h].spared
                 THEN [task[h] EXCEPT !.step = "spare", !.row = r, !.targets = @ \ {x}]
                 ELSE IF task[h].targets = {x} THEN Rest
                 ELSE [task[h] EXCEPT !.targets = @ \ {x}])
    /\ UNCHANGED <<hits, casts, faults, history>>

\* A roll is written; the row should still be pending.
Roll(r) ==
    /\ Write(r, "rolled")
    /\ contested' = IF rows[r].status = "pending" THEN contested ELSE contested \cup {r}

Spare(h) ==
    /\ At(h, "spare")
    /\ Roll(task[h].row)
    /\ Goes(h, IF task[h].targets = {} THEN Rest ELSE [task[h] EXCEPT !.step = "insert"])
    /\ left' = left \cup {task[h].spell}
    /\ UNCHANGED <<hits, casts, faults, early>>

(***************************************************************************)
(* Rolling.  RecordAoEPendingSaveRoll takes the oldest pending row of the  *)
(* combatant, not the one the DM clicked.                                  *)
(***************************************************************************)
Save(h, x, r) ==
    /\ At(h, "rest")
    /\ IsOldest(r, PendingOf(x))
    /\ Goes(h, [Rest EXCEPT !.step = "record", !.row = r])
    /\ UNCHANGED <<rows, hits, casts, faults, history>>

\* The DM's button: a row that was rolled and has not landed is driven again.
Click(h, r) ==
    /\ At(h, "rest")
    /\ \/ /\ rows[r].status = "pending"
          /\ Goes(h, [Rest EXCEPT !.step = "look", !.target = rows[r].target])
       \/ /\ rows[r].status = "rolled"
          /\ Goes(h, [Rest EXCEPT !.step = "list", !.spell = rows[r].spell])
    /\ UNCHANGED <<rows, hits, casts, faults, history>>

Look(h) ==
    /\ At(h, "look")
    /\ \/ \E r \in Ids : /\ IsOldest(r, PendingOf(task[h].target))
                         /\ Goes(h, [Rest EXCEPT !.step = "record", !.row = r])
       \/ PendingOf(task[h].target) = {} /\ Goes(h, Rest)
    /\ UNCHANGED <<rows, hits, casts, faults, history>>

Record(h) ==
    /\ At(h, "record")
    /\ Roll(task[h].row)
    /\ Goes(h, [Rest EXCEPT !.step = "list", !.spell = rows[task[h].row].spell])
    /\ UNCHANGED <<hits, casts, faults, early, left>>

\* AutoResolveTurn rolls whatever its player still owes, and drives nothing.
TimeOut(h, x) ==
    /\ At(h, "rest")
    /\ PendingOf(x) # {}
    /\ Goes(h, [Rest EXCEPT !.step = "roll", !.todo = PendingOf(x)])
    /\ UNCHANGED <<rows, hits, casts, faults, history>>

TimerRoll(h, r) ==
    /\ At(h, "roll") /\ IsOldest(r, task[h].todo)
    /\ Roll(r)
    /\ Goes(h, IF task[h].todo = {r} THEN Rest ELSE [task[h] EXCEPT !.todo = @ \ {r}])
    /\ left' = left \cup {rows[r].spell}
    /\ UNCHANGED <<hits, casts, faults, early>>

(***************************************************************************)
(* Landing: ResolveAoEPendingSaves.                                        *)
(***************************************************************************)
\* Variant: only the pending rows are listed (ISSUE-044).
LandablePending(s) == {r \in Of(s) : rows[r].status = "pending"}
Landable(s) == {r \in Of(s) : rows[r].status = "rolled"}

Inserting(k) == \E g \in Handlers : task[g].step \in {"insert", "spare"} /\ task[g].cast = k

\* Variant: the drive does not wait for the last save.
ListAtOnce(h) ==
    /\ At(h, "list")
    /\ LET s == task[h].spell
       IN /\ Goes(h, IF Landable(s) = {} THEN Rest
                     ELSE [Rest EXCEPT !.step = "land", !.spell = s, !.todo = Landable(s)])
          /\ contested' = contested \cup {r \in Landable(s) : Listed(r)}
          /\ early' = early \cup {k \in 1..MaxCasts :
                        Inserting(k) /\ \E r \in Landable(s) : rows[r].cast = k}
          /\ left' = left \ {s}
    /\ UNCHANGED <<rows, hits, casts, faults>>

List(h) ==
    /\ At(h, "list")
    /\ LET s == task[h].spell
       IN IF Waiting(s)
            THEN Goes(h, Rest) /\ UNCHANGED history
            ELSE /\ Goes(h, IF Landable(s) = {} THEN Rest
                            ELSE [Rest EXCEPT !.step = "land", !.spell = s,
                                              !.todo = Landable(s)])
                 /\ contested' = contested \cup {r \in Landable(s) : Listed(r)}
                 /\ early' = early \cup {k \in 1..MaxCasts :
                               Inserting(k) /\ \E r \in Landable(s) : rows[r].cast = k}
                 /\ left' = left \ {s}
    /\ UNCHANGED <<rows, hits, casts, faults>>

Hit(h, r) ==
    /\ At(h, "land") /\ r \in task[h].todo
    /\ hits' = [hits EXCEPT ![r] = IF @ = 0 THEN 1 ELSE 2]
    /\ Goes(h, [task[h] EXCEPT !.todo = @ \ {r}, !.done = @ \cup {r}])
    /\ UNCHANGED <<rows, casts, faults, history>>

Unlist(h, r) ==
    Goes(h, IF task[h].done = {r} THEN Rest ELSE [task[h] EXCEPT !.done = @ \ {r}])

Mark(h, r) ==
    /\ At(h, "land") /\ task[h].todo = {} /\ r \in task[h].done
    /\ Write(r, "applied")
    /\ Unlist(h, r)
    /\ UNCHANGED <<hits, casts, faults, history>>

(***************************************************************************)
(* The DM cancels a cast: CancelAoEPendingSave forfeits every row with the *)
(* tag of the one clicked that has not landed.                             *)
(***************************************************************************)
Cancel(h, r) ==
    /\ At(h, "rest")
    /\ rows[r].status \notin {"none", "applied"}
    /\ Goes(h, [Rest EXCEPT !.step = "survey", !.spell = rows[r].spell,
                            !.level = rows[r].level])
    /\ UNCHANGED <<rows, hits, casts, faults, history>>

Survey(h) ==
    /\ At(h, "survey")
    /\ LET tagged == {r \in Of(task[h].spell) :
                        /\ rows[r].level = task[h].level
                        /\ rows[r].status \in {"pending", "rolled"}}
       IN Goes(h, IF tagged = {} THEN Rest ELSE [Rest EXCEPT !.step = "void", !.todo = tagged])
    /\ UNCHANGED <<rows, hits, casts, faults, history>>

Void(h, r) ==
    /\ At(h, "void") /\ IsOldest(r, task[h].todo)
    /\ Write(r, "forfeited")
    /\ contested' = IF rows[r].status \in {"pending", "rolled"} /\ ~Listed(r)
                      THEN contested ELSE contested \cup {r}
    /\ left' = left \cup {rows[r].spell}
    /\ Goes(h, IF task[h].todo = {r} THEN Rest ELSE [task[h] EXCEPT !.todo = @ \ {r}])
    /\ UNCHANGED <<hits, casts, faults, early>>

\* A statement fails, or the process dies: the handler ends where it is.
Fail(h) ==
    /\ ~At(h, "rest") /\ faults < MaxFaults
    /\ faults' = faults + 1
    /\ Goes(h, Rest)
    /\ contested' = contested \cup task[h].done
    /\ left' = IF task[h].step \in {"list", "land"} THEN left \cup {task[h].spell} ELSE left
    /\ UNCHANGED <<rows, hits, casts, early>>

Casting(h) ==
    \/ \E s \in Spells, l \in Levels, targets \in SUBSET Targets, spared \in SUBSET Sparable :
         BeginCast(h, s, l, targets, spared)
    \/ \E x \in Targets, r \in Ids : InsertRow(h, x, r)
    \/ Spare(h)

Rolling(h) ==
    \/ \E x \in Targets \ Monsters : (\E r \in Ids : Save(h, x, r)) \/ TimeOut(h, x)
    \/ \E r \in Ids : (rows[r].target \in Monsters /\ Click(h, r)) \/ TimerRoll(h, r)
    \/ Look(h) \/ Record(h)

Landing(h) == List(h) \/ \E r \in Ids : Hit(h, r) \/ Mark(h, r)

Cancelling(h) == Survey(h) \/ \E r \in Ids : Cancel(h, r) \/ Void(h, r)

Next == \E h \in Handlers : Casting(h) \/ Rolling(h) \/ Landing(h) \/ Cancelling(h) \/ Fail(h)

Spec == Init /\ [][Next]_vars

(***************************************************************************)
(* What must hold.                                                         *)
(***************************************************************************)
AtRest == \A h \in Handlers : At(h, "rest")

\* Repeated drives cannot hit twice (aoe.go:982-986): /save and the dashboard both
\* drive the spell, and a row marked applied is never hit again.
HitAtMostOnce == \A r \in Ids : hits[r] <= 1

\* When nobody is at work, no spell has rolls that wait to land and no save that is
\* still to come, unless the timer, a Careful Spell or a cancellation had the last
\* word on it, or a drive failed: whoever records the last roll drives the rest.
NothingLeftHanging ==
    AtRest => \A r \in Rows : rows[r].spell \notin left /\ rows[r].status = "rolled" =>
        \E q \in Rows : rows[q].spell = rows[r].spell /\ rows[q].status = "pending"

\* A cast lands on nobody while one of its targets still has to roll, unless it was
\* driven while its rows were being inserted.
LandsTogether ==
    \A r \in Ids : hits[r] > 0 /\ rows[r].cast \notin early =>
        \A q \in Ids : rows[q].cast = rows[r].cast => rows[q].status # "pending"

\* When nobody is at work, every roll has landed or some save is still to come.
EveryRollLands ==
    AtRest => \A r \in Rows : rows[r].status = "rolled" =>
        \E q \in Rows : rows[q].spell = rows[r].spell /\ rows[q].status = "pending"

=============================================================================
