-------------------------------- MODULE Desk --------------------------------
(***************************************************************************)
(* The DM's desk: overrides, the resolution of pending actions, undo, and  *)
(* the action log by which an undo finds what to put back.                 *)
(*                                                                         *)
(* The dashboard's handlers run under the advisory lock of the turn that   *)
(* was active when they came in; ExecuteEnemyTurn runs without it, and so  *)
(* does whatever else writes combatants (Elsewhere).  Any handler may fail *)
(* between two statements.                                                 *)
(*                                                                         *)
(* Of a combatant: hit points (is_alive and temporary hit points are       *)
(* written with them), position, and conditions, the columns an undo       *)
(* knows.  What damage does to death saves, concentration, rage and        *)
(* exhaustion is left out, and so is what follows the row of an enemy      *)
(* turn.  Overrides of initiative, slots, feature uses and turn resources  *)
(* only log rows an undo refuses (Record).                                 *)
(***************************************************************************)
EXTENDS Integers, Sequences, FiniteSets

CONSTANTS
    Combatants,
    Npcs,        \* who dies at zero hit points instead of falling
    HpMax,
    Places,
    Ailments,
    Out,         \* the dying bundle: unconscious and prone
    Actions,     \* freeform actions
    Author,      \* who asked for each
    Handlers,    \* handlers in flight at most
    LastTurn,    \* bound: turns
    MaxLog,      \* bound: rows of the log
    MaxEffects,  \* bound: effects of one resolution, steps of one enemy
    MaxCalls,    \* bound: calls, requests, turns, unlogged writes and unknowing rows
    None

ASSUME DeskAssumption ==
    /\ Npcs \subseteq Combatants
    /\ HpMax \in Nat /\ LastTurn \in Nat \ {0} /\ MaxLog \in Nat /\ MaxEffects \in Nat
    /\ MaxCalls \in Nat
    /\ Out \in Ailments
    /\ Author \in [Actions -> Combatants]
    /\ None \notin Combatants \cup Places \cup Handlers \cup Actions

Cols == {"hp", "place", "conds"}
Turns == 1..LastTurn
Snapshot == [hp : 0..HpMax, place : Places \cup {None}, conds : SUBSET Ailments]
Cells == Combatants \X Cols
Blank == [hp |-> 0, place |-> None, conds |-> {}]

VARIABLES
    row,       \* combatants
    turn,      \* the active turn
    lock,      \* advisory lock of each turn
    pending,   \* pending_actions: status
    log,       \* action_log of the encounter, by created_at
    call,      \* the handlers and their locals
    calls,     \* so many of what MaxCalls bounds so far
    loose,     \* history: cells changed since the log last spoke of them
    landed,    \* history: how often all effects of an action were applied
    disputed   \* history: actions two handlers had in hand, or one dropped

history == <<loose, landed, disputed>>
vars == <<row, turn, lock, pending, log, call, calls, history>>

\* knows: the columns before_state names by the keys an undo reads; tells:
\* those after_state names; sure (history): the columns of before that its
\* writer found as the log had last told them, and nobody changed since.
Entry == [turn : Turns, actor : Combatants \cup {None}, knows : SUBSET Cols, tells : SUBSET Cols,
          before : Snapshot, after : Snapshot, sure : SUBSET Cols, undoes : 0..MaxLog]

Call == [step : {"rest", "lock", "hp", "faint", "settle", "place", "conds", "log",
                 "march", "effects", "aimed", "down", "shifted", "resolve", "void"},
         kind : {"none", "override", "tune", "undo", "resolve", "enemy", "cancel"},
         who : Combatants \cup {None}, turn : 0..LastTurn, todo : SUBSET Cols,
         knows : SUBSET Cols, tells : SUBSET Cols,
         value : Snapshot, before : Snapshot, copy : Snapshot,
         at : Combatants \cup {None}, left : 0..MaxEffects, entry : 0..MaxLog,
         action : Actions \cup {None}, sure : SUBSET Cols, calm : SUBSET Cols, spoiled : SUBSET Cells]

Rest == [step |-> "rest", kind |-> "none", who |-> None, turn |-> 0, todo |-> {},
         knows |-> {}, tells |-> {}, value |-> Blank, before |-> Blank, copy |-> Blank,
         at |-> None, left |-> 0, entry |-> 0, action |-> None, sure |-> {}, calm |-> {},
         spoiled |-> {}]

TypeOK ==
    /\ row \in [Combatants -> Snapshot]
    /\ turn \in Turns
    /\ lock \in [Turns -> Handlers \cup {None}]
    /\ pending \in [Actions -> {"none", "pending", "resolved", "cancelled"}]
    /\ log \in Seq(Entry) /\ Len(log) <= MaxLog
    /\ call \in [Handlers -> Call] /\ calls \in 0..MaxCalls
    /\ loose \subseteq Cells
    /\ landed \in [Actions -> 0..2]
    /\ disputed \subseteq Actions

Init ==
    /\ \E p \in Places :
         row = [c \in Combatants |-> [hp |-> HpMax, place |-> p, conds |-> {}]]
    /\ turn = 1
    /\ lock = [t \in Turns |-> None]
    /\ pending = [a \in Actions |-> "none"]
    /\ log = <<>>
    /\ call = [h \in Handlers |-> Rest] /\ calls = 0
    /\ loose = {} /\ landed = [a \in Actions |-> 0] /\ disputed = {}

(***************************************************************************)
(* Helpers.                                                                *)
(***************************************************************************)
Counts == calls < MaxCalls /\ calls' = calls + 1
At(h, step) == call[h].step = step
Goes(h, k) == call' = [call EXCEPT ![h] = k]
Free(h) == lock' = [t \in Turns |-> IF lock[t] = h THEN None ELSE lock[t]]
Calm(c) == {col \in Cols : <<c, col>> \notin loose}

Seen(k, cells) == {cell \in cells : cell[1] \in {k.who, k.at}}

\* Handler h goes on as k; the cells are no longer what others in flight have read.
Stir(h, k, cells) ==
    call' = [g \in Handlers |->
               IF g = h THEN k
               ELSE IF At(g, "rest") \/ At(g, "lock") THEN call[g]
               ELSE [call[g] EXCEPT !.spoiled = @ \cup Seen(call[g], cells)]]

\* UPDATE combatants: one group of columns, whatever it holds by then.
Touch(h, c, col, v, k) ==
    /\ row' = [row EXCEPT ![c][col] = v]
    /\ loose' = loose \cup {<<c, col>>}
    /\ Stir(h, k, {<<c, col>>})

\* What is put back next: hit points, position, conditions, then the log.
Onward(k, done) ==
    LET todo == k.todo \ done IN
    [k EXCEPT !.todo = todo,
              !.step = IF "hp" \in todo THEN "hp"
                       ELSE IF "place" \in todo THEN "place"
                       ELSE IF "conds" \in todo THEN "conds" ELSE "log"]

Tells(k, c, col) == log[k].actor = c /\ col \in log[k].tells
\* Of the first n rows, k is the last that tells column col of c.
IsNewest(k, n, c, col) ==
    /\ k \in 1..n /\ Tells(k, c, col)
    /\ \A m \in (k + 1)..n : ~Tells(m, c, col)

Asked(c) == {a \in Actions : Author[a] = c /\ pending[a] = "pending"}
InHand(a) == {g \in Handlers : call[g].action = a}

\* recordCombatAction and its like, and the overrides of initiative, slots,
\* feature uses and turn resources: rows of which an undo knows nothing.
Note(t) == [turn |-> t, actor |-> None, knows |-> {}, tells |-> {}, before |-> Blank,
            after |-> Blank, sure |-> {}, undoes |-> 0]

(***************************************************************************)
(* Players ask for freeform actions; turns change; others write rows.      *)
(***************************************************************************)
\* The row that tells of an action knows nothing; its failure is swallowed.
Ask(a) ==
    /\ pending[a] = "none"
    /\ Counts
    /\ pending' = [pending EXCEPT ![a] = "pending"]
    /\ \/ Len(log) < MaxLog /\ log' = Append(log, Note(turn))
       \/ UNCHANGED log
    /\ UNCHANGED <<row, turn, lock, call, history>>

\* The turn timer resolves an absent player's turn: what is pending is void.
Lapse(c) ==
    /\ Asked(c) # {}
    /\ Counts
    /\ pending' = [a \in Actions |-> IF a \in Asked(c) THEN "cancelled" ELSE pending[a]]
    /\ disputed' = disputed \cup {a \in Asked(c) : InHand(a) # {}}
    /\ UNCHANGED <<row, turn, lock, log, call, loose, landed>>

AdvanceTurn ==
    /\ turn < LastTurn
    /\ Counts
    /\ turn' = turn + 1
    /\ UNCHANGED <<row, lock, pending, log, call, history>>

\* Attacks, spells, moves, heals, conditions that expire: none of them logs
\* what it changes.
Elsewhere(c, col) ==
    /\ Counts
    /\ \E s \in Snapshot :
         /\ s.place # None /\ s[col] # row[c][col]
         /\ row' = [row EXCEPT ![c][col] = s[col]]
    /\ loose' = loose \cup {<<c, col>>}
    /\ Stir(None, Rest, {<<c, col>>})
    /\ UNCHANGED <<turn, lock, pending, log, landed, disputed>>

Record ==
    /\ Counts
    /\ Len(log) < MaxLog
    /\ log' = Append(log, Note(turn))
    /\ UNCHANGED <<row, turn, lock, pending, call, history>>

(***************************************************************************)
(* Handlers come in: the active turn is read, then its lock is waited for. *)
(***************************************************************************)
Begins(h, k) ==
    /\ At(h, "rest")
    /\ Counts
    /\ Goes(h, [k EXCEPT !.turn = turn])

Override(h, c, col, value) ==
    /\ Begins(h, [Rest EXCEPT !.step = "lock", !.kind = "override", !.who = c, !.todo = {col},
                     !.knows = Cols, !.tells = Cols, !.value = value])
    /\ UNCHANGED <<row, turn, lock, pending, log, history>>

OverrideHp(h, c, n) == Override(h, c, "hp", [Blank EXCEPT !.hp = n])
OverridePlace(h, c, p) == Override(h, c, "place", [Blank EXCEPT !.place = p])
OverrideConditions(h, c, s) == Override(h, c, "conds", [Blank EXCEPT !.conds = s])

\* Exhaustion writes the conditions back from its copy, and logs levels only.
OverrideExhaustion(h, c) ==
    /\ Begins(h, [Rest EXCEPT !.step = "lock", !.kind = "tune", !.who = c, !.todo = {"conds"}])
    /\ UNCHANGED <<row, turn, lock, pending, log, history>>

\* The last row of the active turn, listed before the lock.
Undo(h, e) ==
    /\ e \in DOMAIN log /\ log[e].turn = turn
    /\ \A m \in (e + 1)..Len(log) : log[m].turn # turn
    /\ Begins(h, [Rest EXCEPT !.step = "lock", !.kind = "undo", !.who = log[e].actor,
                     !.todo = log[e].knows, !.knows = Cols, !.tells = log[e].knows,
                     !.value = log[e].before, !.entry = e])
    /\ UNCHANGED <<row, turn, lock, pending, log, history>>

\* The action is checked to be pending before the lock.
Resolve(h, a) ==
    /\ pending[a] = "pending"
    /\ Begins(h, [Rest EXCEPT !.step = "lock", !.kind = "resolve", !.who = Author[a],
                     !.knows = {"conds"}, !.tells = {"conds"}, !.left = MaxEffects, !.action = a])
    /\ disputed' = IF InHand(a) = {} THEN disputed ELSE disputed \cup {a}
    /\ UNCHANGED <<row, turn, lock, pending, log, loose, landed>>

\* /action cancel, through the players' gate.
Cancel(h, c) ==
    /\ Begins(h, [Rest EXCEPT !.step = "lock", !.kind = "cancel", !.who = c])
    /\ UNCHANGED <<row, turn, lock, pending, log, history>>

\* An error, a panic, a lock not granted within its five seconds: what was
\* written stays.
Fault(h) ==
    /\ ~At(h, "rest")
    /\ Free(h)
    /\ Goes(h, Rest)
    /\ disputed' = IF call[h].kind = "resolve" /\ ~(At(h, "lock") \/ At(h, "log"))
                   THEN disputed \cup {call[h].action} ELSE disputed
    /\ UNCHANGED <<row, turn, pending, log, loose, landed, calls>>

(***************************************************************************)
(* Inside the lock.                                                        *)
(***************************************************************************)
Granted(h) ==
    /\ At(h, "lock")
    /\ lock[call[h].turn] = None

Locks(h) == lock' = [lock EXCEPT ![call[h].turn] = h]

\* GetCombatant, under the lock.  An undo writes the hit points in any case:
\* those just read if its row knows no others.
Read(h) ==
    LET k == [call[h] EXCEPT !.before = row[call[h].who], !.sure = Calm(call[h].who),
                               !.spoiled = {}]
        known == IF "hp" \in k.todo THEN k.value.hp ELSE k.before.hp IN
    /\ Granted(h) /\ call[h].kind # "cancel"
    /\ call[h].kind = "undo" => call[h].todo # {}
    /\ Locks(h)
    /\ Goes(h, CASE k.kind = "resolve" -> [k EXCEPT !.step = "effects"]
                  [] k.kind = "tune" -> Onward([k EXCEPT !.value = k.before], {})
                  [] k.kind = "undo" ->
                       Onward([k EXCEPT !.todo = @ \cup {"hp"}, !.value.hp = known], {})
                  [] OTHER -> Onward(k, {}))
    /\ UNCHANGED <<row, turn, pending, log, history, calls>>

\* An undo of a row that knows nothing is refused.
Refuse(h) ==
    /\ Granted(h) /\ call[h].kind = "undo"
    /\ call[h].todo = {}
    /\ Goes(h, Rest)
    /\ UNCHANGED <<row, turn, lock, pending, log, history, calls>>

\* Fewer hit points than there are go through ApplyDamage first, which
\* writes them and lets a player character fall.
Damage(h) ==
    LET k == call[h]  falls == k.who \notin Npcs /\ k.value.hp = 0 IN
    /\ At(h, "hp")
    /\ k.value.hp < k.before.hp
    /\ Touch(h, k.who, "hp", k.value.hp,
             [k EXCEPT !.step = IF falls THEN "faint" ELSE "settle", !.at = k.who])
    /\ UNCHANGED <<turn, lock, pending, log, landed, disputed, calls>>

\* An override logs the row its last statement returns, an undo the state
\* it was told to restore.
Restored(k, col, v) ==
    LET r == [row[k.who] EXCEPT ![col] = v] IN
    Onward(IF k.kind = "override" THEN [k EXCEPT !.value = r] ELSE k, {col})

Settle(h) ==
    LET k == call[h] IN
    /\ At(h, "settle") \/ (At(h, "hp") /\ k.value.hp >= k.before.hp)
    /\ Touch(h, k.who, "hp", k.value.hp, Restored(k, "hp", k.value.hp))
    /\ UNCHANGED <<turn, lock, pending, log, landed, disputed, calls>>

Place(h) ==
    LET k == call[h] IN
    /\ At(h, "place")
    /\ Touch(h, k.who, "place", k.value.place, Restored(k, "place", k.value.place))
    /\ UNCHANGED <<turn, lock, pending, log, landed, disputed, calls>>

Conditions(h) ==
    LET k == call[h] IN
    /\ At(h, "conds")
    /\ Touch(h, k.who, "conds", k.value.conds, Restored(k, "conds", k.value.conds))
    /\ UNCHANGED <<turn, lock, pending, log, landed, disputed, calls>>

\* Unconscious and prone, added to the conditions as they are.
Faint(h) ==
    LET k == call[h] IN
    /\ At(h, "faint")
    /\ Touch(h, k.at, "conds", row[k.at].conds \cup {Out},
             [k EXCEPT !.step = IF k.kind \in {"resolve", "enemy"} THEN "down" ELSE "settle"])
    /\ UNCHANGED <<turn, lock, pending, log, landed, disputed, calls>>

(***************************************************************************)
(* Effects of a resolution, and ExecuteEnemyTurn.                          *)
(***************************************************************************)
\* ExecuteEnemyTurn reads its creature and takes no lock; first it moves.
EnemyTurn(h, c) ==
    /\ c \in Npcs
    /\ Begins(h, [Rest EXCEPT !.step = "march", !.kind = "enemy", !.who = c, !.knows = Cols,
                     !.tells = Cols, !.left = MaxEffects, !.before = row[c],
                     !.sure = Calm(c)])
    /\ UNCHANGED <<row, turn, lock, pending, log, history>>

March(h, p) ==
    LET k == call[h] IN
    /\ At(h, "march") /\ k.left > 0
    /\ Touch(h, k.who, "place", p, [k EXCEPT !.left = @ - 1])
    /\ UNCHANGED <<turn, lock, pending, log, landed, disputed, calls>>

Again(k) == [k EXCEPT !.step = "effects", !.at = None, !.copy = Blank, !.value = Blank,
                      !.calm = {}, !.spoiled = {cell \in @ : cell[1] = k.who}]

\* The target of the next effect or strike is read.
Aim(h, t) ==
    /\ At(h, "effects") \/ At(h, "march")
    /\ call[h].left > 0
    /\ call[h].kind = "enemy" => t # call[h].who
    /\ Goes(h, [call[h] EXCEPT !.step = "aimed", !.at = t, !.copy = row[t],
                               !.left = @ - 1, !.calm = Calm(t)])
    /\ UNCHANGED <<row, turn, lock, pending, log, history, calls>>

\* ApplyDamage: hit points from the copy.  Who is out of them falls, or is
\* dead at once.
Hurt(h, n) ==
    LET k == call[h] IN
    /\ At(h, "aimed")
    /\ n <= k.copy.hp
    /\ \E next \in IF n > 0 \/ k.copy.hp = 0 THEN {"effects"}
                   ELSE IF k.at \in Npcs THEN {"down"} ELSE {"faint", "down"} :
         Touch(h, k.at, "hp", n,
               IF next = "effects" THEN Again(k) ELSE [k EXCEPT !.step = next])
    /\ UNCHANGED <<turn, lock, pending, log, landed, disputed, calls>>

\* The row that says so in the DM's timeline knows nothing; a failure to
\* write it is swallowed.
Down(h) ==
    /\ At(h, "down")
    /\ \/ Len(log) < MaxLog /\ log' = Append(log, Note(turn))
       \/ UNCHANGED log
    /\ Goes(h, Again(call[h]))
    /\ UNCHANGED <<row, turn, lock, pending, history, calls>>

Afflict(h, a) ==
    LET k == call[h] IN
    /\ At(h, "aimed") /\ k.kind = "resolve"
    /\ \E conds \in {k.copy.conds \cup {a}, k.copy.conds \ {a}} :
         Touch(h, k.at, "conds", conds, Again(k))
    /\ UNCHANGED <<turn, lock, pending, log, landed, disputed, calls>>

Shift(h, p) ==
    LET k == call[h] IN
    /\ At(h, "aimed") /\ k.kind = "resolve"
    /\ Touch(h, k.at, "place", p,
             [k EXCEPT !.step = "shifted", !.value = [row[k.at] EXCEPT !.place = p]])
    /\ UNCHANGED <<turn, lock, pending, log, landed, disputed, calls>>

\* All effects are applied: the row is read again for its after-state.
\* Where that fails an enemy's turn logs the state before for the one after.
Review(h) ==
    LET k == call[h] IN
    /\ At(h, "effects") \/ At(h, "march")
    /\ \/ Goes(h, [k EXCEPT !.value = row[k.who],
                            !.step = IF k.kind = "resolve" THEN "resolve" ELSE "log"])
       \/ /\ k.kind = "enemy"
          /\ Goes(h, [k EXCEPT !.value = k.before, !.step = "log",
                               !.spoiled = @ \cup ({k.who} \X Cols)])
    /\ landed' = IF k.kind = "resolve" /\ landed[k.action] < 2
                 THEN [landed EXCEPT ![k.action] = @ + 1] ELSE landed
    /\ UNCHANGED <<row, turn, lock, pending, log, loose, disputed, calls>>

\* Variant: the status is left alone.
MarkNothing(h) ==
    /\ At(h, "resolve")
    /\ Goes(h, [call[h] EXCEPT !.step = "log", !.action = None])
    /\ UNCHANGED <<row, turn, lock, pending, log, history, calls>>

\* UPDATE pending_actions SET status: whatever it was.
MarkResolved(h) ==
    /\ At(h, "resolve")
    /\ pending' = [pending EXCEPT ![call[h].action] = "resolved"]
    /\ Goes(h, [call[h] EXCEPT !.step = "log", !.action = None])
    /\ UNCHANGED <<row, turn, lock, log, history, calls>>

\* A pending action of the player's, if there is one.
Find(h) ==
    /\ Granted(h) /\ call[h].kind = "cancel"
    /\ \E a \in Asked(call[h].who) :
         /\ Goes(h, [call[h] EXCEPT !.step = "void", !.action = a])
         /\ disputed' = IF InHand(a) = {} THEN disputed ELSE disputed \cup {a}
    /\ Locks(h)
    /\ UNCHANGED <<row, turn, pending, log, loose, landed, calls>>

FindNone(h) ==
    /\ Granted(h) /\ call[h].kind = "cancel"
    /\ Asked(call[h].who) = {}
    /\ Goes(h, Rest)
    /\ UNCHANGED <<row, turn, lock, pending, log, history, calls>>

Void(h) ==
    /\ At(h, "void")
    /\ pending' = [pending EXCEPT ![call[h].action] = "cancelled"]
    /\ Free(h) /\ Goes(h, Rest)
    /\ UNCHANGED <<row, turn, log, history, calls>>

(***************************************************************************)
(* The log.                                                                *)
(***************************************************************************)
\* What is known of c once the entry is written: cells others wrote since
\* h read them stay loose, and whoever works on a cell the log only now
\* hears of has read something else.
Stirred(h, c, tells) == ({c} \X tells) \cap (loose \cup call[h].spoiled)

Of(cells, c) == {col \in Cols : <<c, col>> \in cells}

Written(h, c, before, e) ==
    LET k == call[h] IN
    [turn |-> k.turn, actor |-> c, knows |-> k.knows, tells |-> k.tells, before |-> before,
     after |-> k.value, sure |-> (k.sure \ Of(k.spoiled, c)) \cap k.knows, undoes |-> e]

Heard(h, c, tells) ==
    loose' = (loose \ ({c} \X tells)) \cup (({c} \X tells) \cap call[h].spoiled)

\* Variant: an undo logs the row as it found it for the state it restored.
WriteFound(h) ==
    LET k == call[h] IN
    /\ At(h, "log")
    /\ Len(log) < MaxLog
    /\ log' = Append(log, [Written(h, k.who, k.before, k.entry) EXCEPT
                             !.after = IF k.kind = "undo" THEN k.before ELSE @])
    /\ Heard(h, k.who, k.tells)
    /\ Stir(h, Rest, Stirred(h, k.who, k.tells))
    /\ Free(h)
    /\ UNCHANGED <<row, turn, pending, landed, disputed, calls>>

\* Variant: the state before is read after the change.
WriteLate(h) ==
    LET k == call[h] IN
    /\ At(h, "log")
    /\ Len(log) < MaxLog
    /\ log' = Append(log, Written(h, k.who, k.value, k.entry))
    /\ Heard(h, k.who, k.tells)
    /\ Stir(h, Rest, Stirred(h, k.who, k.tells))
    /\ Free(h)
    /\ UNCHANGED <<row, turn, pending, landed, disputed, calls>>

Write(h) ==
    LET k == call[h] IN
    /\ At(h, "log")
    /\ Len(log) < MaxLog
    /\ log' = Append(log, Written(h, k.who, k.before, k.entry))
    /\ Heard(h, k.who, k.tells)
    /\ Stir(h, Rest, Stirred(h, k.who, k.tells))
    /\ Free(h)
    /\ UNCHANGED <<row, turn, pending, landed, disputed, calls>>

\* dm_move_effect, written in the middle of a resolution; a failure to write
\* it is swallowed.
WriteShift(h) ==
    LET k == call[h]  cells == Stirred(h, k.at, Cols) IN
    /\ At(h, "shifted")
    /\ Len(log) < MaxLog
    /\ log' = Append(log, [turn |-> turn, actor |-> k.at, knows |-> Cols, tells |-> Cols,
                           before |-> k.copy, after |-> k.value,
                           sure |-> k.calm \ Of(k.spoiled, k.at), undoes |-> 0])
    /\ Heard(h, k.at, Cols)
    /\ Stir(h, Again([k EXCEPT !.spoiled = @ \cup cells]), cells)
    /\ UNCHANGED <<row, turn, lock, pending, landed, disputed, calls>>

ShiftUnlogged(h) ==
    /\ At(h, "shifted")
    /\ Goes(h, Again(call[h]))
    /\ UNCHANGED <<row, turn, lock, pending, log, history, calls>>

Handler(h) ==
    \/ \E c \in Combatants :
         \/ \E n \in 0..HpMax : OverrideHp(h, c, n)
         \/ \E p \in Places : OverridePlace(h, c, p)
         \/ \E s \in SUBSET Ailments : OverrideConditions(h, c, s)
         \/ OverrideExhaustion(h, c) \/ Cancel(h, c)
         \/ EnemyTurn(h, c) \/ Aim(h, c)
    \/ \E e \in DOMAIN log : Undo(h, e)
    \/ \E a \in Actions : Resolve(h, a)
    \/ Fault(h) \/ Read(h) \/ Refuse(h)
    \/ Damage(h) \/ Faint(h) \/ Settle(h) \/ Place(h) \/ Conditions(h)
    \/ \E p \in Places : (March(h, p) \/ Shift(h, p))
    \/ \E n \in 0..HpMax : Hurt(h, n)
    \/ \E a \in Ailments : Afflict(h, a)
    \/ Down(h) \/ Review(h) \/ MarkResolved(h)
    \/ Find(h) \/ FindNone(h) \/ Void(h)
    \/ Write(h) \/ WriteShift(h) \/ ShiftUnlogged(h)

Next ==
    \/ \E a \in Actions : Ask(a)
    \/ AdvanceTurn
    \/ Record
    \/ \E c \in Combatants : (Lapse(c) \/ \E col \in Cols : Elsewhere(c, col))
    \/ \E h \in Handlers : Handler(h)

Spec == Init /\ [][Next]_vars

(***************************************************************************)
(* What the desk promises.                                                 *)
(***************************************************************************)
\* A cell that nobody changed since the log last told it holds what the log
\* told: an override logs what it wrote and an undo what it restored, also
\* when fewer hit points made a character fall on the way.
LogTellsTheRow ==
    \A c \in Combatants, col \in Cols, k \in DOMAIN log :
        IsNewest(k, Len(log), c, col) /\ <<c, col>> \notin loose
            => log[k].after[col] = row[c][col]

\* Undoing a row takes a combatant back to what the log told of it before
\* that row and not further: for every column the row's writer found as the
\* log had last told it, although the undo reads the row before it has the
\* lock, and undoes whatever it read whoever has come in between.
UndoTakesBackOne ==
    \A k \in DOMAIN log : \A i \in DOMAIN log : \A col \in Cols :
        LET e == log[k].undoes IN
        /\ e > 0
        /\ col \in log[e].sure
        /\ IsNewest(i, e - 1, log[e].actor, col)
        => log[k].after[col] = log[i].after[col]

\* A freeform action takes effect once: the DM's effects land once at most,
\* never for an action its player took back, and an action whose effects
\* landed is off the DM's list when the handler is done; unless two handlers
\* held it at once or one failed half way.
AppliedOnce ==
    \A a \in Actions \ disputed :
        /\ landed[a] <= 1
        /\ pending[a] = "cancelled" => landed[a] = 0
        /\ landed[a] = 1 /\ InHand(a) = {} => pending[a] = "resolved"
=============================================================================
