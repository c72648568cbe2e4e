------------------------------ MODULE TurnGate ------------------------------
(***************************************************************************)
(* The per-turn advisory lock of internal/combat (RunUnderTurnLock) and    *)
(* the player commands that spend a turn's resources, with and without it. *)
(*                                                                         *)
(* A command is a sequence of database statements.  The lock is held by a  *)
(* transaction of its own: the statements of the command do not run in it  *)
(* (no caller uses TxFromContext), so a rollback frees the lock and undoes *)
(* nothing.  UpdateTurnActions writes every column of a turn from a copy   *)
(* read earlier; SpendTurnResources is a compare-and-set on one column.    *)
(* AdvanceTurn, which does not take the lock, appears as the statements    *)
(* that end a turn, open the next one and point the encounter at it.       *)
(***************************************************************************)
EXTENDS Integers, FiniteSets

CONSTANTS
    Cmds,       \* command invocations, each made once
    Kind,       \* which handler serves the command
    Users,
    By,         \* the user who issues it
    LastTurn,   \* bound: turns the encounter gets to
    Owner,      \* the user who plays a turn
    Dm,         \* campaigns.dm_user_id, who may act on every turn
    Resources,  \* action, attacks, bonus action, object interaction, movement
    Action,     \* the one whose column is action_used
    Attack,     \* the one whose column is attacks_remaining
    Allowance,  \* how often a turn may spend each: 1 for the flags
    Spends,     \* the resource the command costs, or gives back
    Nobody      \* no command

Turns == 1..LastTurn

ASSUME GateAssumption ==
    /\ LastTurn \in Nat \ {0}
    /\ Owner \in [Turns -> Users]
    /\ By \in [Cmds -> Users]
    /\ Nobody \notin Cmds
    /\ Kind \in [Cmds -> {"act", "bonus", "use", "move", "give", "restore"}]
    /\ Spends \in [Cmds -> Resources]
    /\ Action \in Resources /\ Attack \in Resources /\ Action # Attack
    /\ Allowance \in [Resources -> Nat] /\ Allowance[Action] = 1
    /\ \A p \in Cmds : Kind[p] = "use" => Spends[p] # Attack

VARIABLES
    row,       \* turns: status and how much of each resource is used
    pointer,   \* encounters.current_turn_id
    handover,  \* how far an AdvanceTurn has come
    holder,    \* advisory lock of each turn
    cmd,       \* locals of every command
    paid,      \* history: how often commands were charged on each turn
    flagged,   \* history: has a compare-and-set spent the turn's action?
    strays     \* history: turns written by a command that did not hold the
               \* turn's lock from its read of the row to its write

vars == <<row, pointer, handover, holder, cmd, paid, flagged, strays>>

Used == [Resources -> Nat]
Fresh == [r \in Resources |-> 0]

Cmd == [pc : {"idle", "ready", "waiting", "locked", "inside", "working", "paid", "done"},
        turn : {0} \cup Turns, at : {0} \cup Turns, copy : Used]

NewCmd == [pc |-> "idle", turn |-> 0, at |-> 0, copy |-> Fresh]

TypeOK ==
    /\ row \in [Turns -> [status : {"none", "active", "completed"}, used : Used]]
    /\ pointer \in Turns
    /\ handover \in {"none", "ended", "opened"}
    /\ holder \in [Turns -> Cmds \cup {Nobody}]
    /\ cmd \in [Cmds -> Cmd]
    /\ paid \in [Turns -> Used]
    /\ flagged \in [Turns -> BOOLEAN]
    /\ strays \in SUBSET Turns

Init ==
    /\ row = [t \in Turns |-> [status |-> IF t = 1 THEN "active" ELSE "none",
                               used |-> Fresh]]
    /\ pointer = 1
    /\ handover = "none"
    /\ holder = [t \in Turns |-> Nobody]
    /\ cmd = [p \in Cmds |-> NewCmd]
    /\ paid = [t \in Turns |-> Fresh]
    /\ flagged = [t \in Turns |-> FALSE]
    /\ strays = {}

(***************************************************************************)
(* Helpers.                                                                *)
(***************************************************************************)
\* ValidateResource: each resource has a column of its own, and nothing that
\* checks the attacks looks at the action.
Affords(used, r) == used[r] < Allowance[r]

\* Mutant: spending the action leaves the attacks.
ChargedOneWay(used, r) ==
    IF r = Attack THEN [used EXCEPT ![Attack] = @ + 1, ![Action] = 1]
    ELSE [used EXCEPT ![r] = @ + 1]

\* UseResource, UseAttack, UseMovement on a copy of the row.  The action takes
\* the attacks with it, and the first attack takes the action.
Charged(used, r) ==
    IF r = Action THEN [used EXCEPT ![Action] = @ + 1, ![Attack] = Allowance[Attack]]
    ELSE IF r = Attack THEN [used EXCEPT ![Attack] = @ + 1, ![Action] = 1]
    ELSE [used EXCEPT ![r] = @ + 1]

\* SpendTurnResources sets the column it names and no other: the action spent
\* this way leaves the attacks.
Flagged(used, r) == [used EXCEPT ![r] = @ + 1]

\* RestoreTurnAction: the action and its attacks come back.
Restored(used) == [used EXCEPT ![Action] = 0, ![Attack] = 0]

\* ValidateTurnOwnership: the player of the turn, or the DM.
MayPlay(u, t) == u \in {Owner[t], Dm}

Goes(p, pc) == cmd' = [cmd EXCEPT ![p] = [@ EXCEPT !.pc = pc]]
Ends(p) == cmd' = [cmd EXCEPT ![p] = [NewCmd EXCEPT !.pc = "done"]]
Free(p) == holder' = [t \in Turns |-> IF holder[t] = p THEN Nobody ELSE holder[t]]
Abandon(p) == Free(p) /\ Ends(p)

(***************************************************************************)
(* What each handler reads before the gate.                                *)
(***************************************************************************)
\* /attack, /cast, /action, /interact: the encounter, whose CurrentTurnID
\* the gated body uses.  /bonus reads it again inside.
LookUp(p) ==
    /\ Kind[p] \in {"act", "bonus"}
    /\ cmd' = [cmd EXCEPT ![p] =
                  [@ EXCEPT !.pc = "ready",
                            !.at = IF Kind[p] = "act" THEN pointer ELSE cmd[p].at]]

\* The confirm button of /move and /fly names the turn it was minted on;
\* the row is read here and charged inside the gate.
ClickMove(p) ==
    /\ Kind[p] = "move"
    /\ \E t \in Turns :
        /\ row[t].status # "none"
        /\ MayPlay(By[p], t)
        /\ cmd' = [cmd EXCEPT ![p] =
                      [@ EXCEPT !.pc = "ready", !.at = t, !.copy = row[t].used]]

\* /use: own turn, resource available.
OpenBag(p) ==
    /\ Kind[p] = "use"
    /\ IF Owner[pointer] = By[p] /\ Affords(row[pointer].used, Spends[p])
       THEN cmd' = [cmd EXCEPT ![p] =
                      [@ EXCEPT !.pc = "ready", !.at = pointer,
                                !.copy = row[pointer].used]]
       ELSE Ends(p)

\* /give and /check charge the encounter's current turn, the DM's restore gives
\* back the action of the active one, all without the gate.
Ungated == {"give", "restore"}
Wants(p, t) ==
    IF Kind[p] = "give" THEN t = pointer /\ Affords(row[t].used, Spends[p])
    ELSE row[t].status = "active" /\ row[t].used[Action] # 0
HandOver(p) ==
    /\ Kind[p] \in Ungated
    /\ \/ \E t \in Turns :
            /\ Wants(p, t)
            /\ cmd' = [cmd EXCEPT ![p] =
                         [@ EXCEPT !.pc = "working", !.at = t, !.copy = row[t].used]]
       \/ (\A t \in Turns : ~Wants(p, t)) /\ Ends(p)

Start(p) ==
    /\ cmd[p].pc = "idle"
    /\ LookUp(p) \/ ClickMove(p) \/ OpenBag(p) \/ HandOver(p)
    /\ UNCHANGED <<row, pointer, handover, holder, paid, flagged, strays>>

(***************************************************************************)
(* The gate: AcquireTurnLockWithValidation.                                *)
(***************************************************************************)
Validate(p) ==
    /\ cmd[p].pc = "ready"
    /\ \/ \E t \in Turns :
            /\ row[t].status = "active"
            /\ IF MayPlay(By[p], t)
               THEN cmd' = [cmd EXCEPT ![p] = [@ EXCEPT !.pc = "waiting", !.turn = t]]
               ELSE Ends(p)
       \/ /\ \A t \in Turns : row[t].status # "active"
          /\ Ends(p)
    /\ UNCHANGED <<row, pointer, handover, holder, paid, flagged, strays>>

\* Mutant: the lock is not waited for.
LockAnyway(p) ==
    /\ cmd[p].pc = "waiting"
    /\ holder' = [holder EXCEPT ![cmd[p].turn] = p]
    /\ Goes(p, "locked")
    /\ UNCHANGED <<row, pointer, handover, paid, flagged, strays>>

Lock(p) ==
    /\ cmd[p].pc = "waiting"
    /\ holder[cmd[p].turn] = Nobody
    /\ holder' = [holder EXCEPT ![cmd[p].turn] = p]
    /\ Goes(p, "locked")
    /\ UNCHANGED <<row, pointer, handover, paid, flagged, strays>>

TimeOut(p) ==
    /\ cmd[p].pc = "waiting"
    /\ holder[cmd[p].turn] # Nobody
    /\ Ends(p)
    /\ UNCHANGED <<row, pointer, handover, holder, paid, flagged, strays>>

\* ErrTurnChanged rolls the lock's transaction back.
Recheck(p) ==
    /\ cmd[p].pc = "locked"
    /\ IF row[cmd[p].turn].status = "active"
       THEN Goes(p, "inside") /\ UNCHANGED holder
       ELSE Abandon(p)
    /\ UNCHANGED <<row, pointer, handover, paid, flagged, strays>>

(***************************************************************************)
(* The body, run while the lock is held (never, for the ungated).          *)
(***************************************************************************)
\* The turn a body works on and the copy of its row it works from.
WorksAt(p) == IF Kind[p] = "bonus" THEN pointer ELSE cmd[p].at
CopyOf(p) == IF Kind[p] \in {"move", "use"} THEN cmd[p].copy ELSE row[WorksAt(p)].used

\* /use has validated its copy before the gate and goes on to its writes.
Load(p) ==
    /\ cmd[p].pc = "inside"
    /\ IF Kind[p] = "use" \/ Affords(CopyOf(p), Spends[p])
       THEN /\ cmd' = [cmd EXCEPT ![p] =
                         [@ EXCEPT !.pc = "working", !.at = WorksAt(p),
                                   !.copy = CopyOf(p)]]
            /\ UNCHANGED holder
       ELSE Abandon(p)
    /\ UNCHANGED <<row, pointer, handover, paid, flagged, strays>>

\* Mutant: /use writes its copy back, as the gated commands do.
WrittenFromCopy(p) ==
    IF Kind[p] = "restore" THEN Restored(cmd[p].copy) ELSE Charged(cmd[p].copy, Spends[p])

\* The columns the row has after the write: all of the copy's, or for the
\* compare-and-set of /use only the one it names.
Written(p) ==
    CASE Kind[p] = "use" -> Flagged(row[cmd[p].at].used, Spends[p])
      [] Kind[p] = "restore" -> Restored(cmd[p].copy)
      [] OTHER -> Charged(cmd[p].copy, Spends[p])

\* Has p held the lock of the row it works on since it read that row?
Covered(p) == holder[cmd[p].at] = p /\ Kind[p] # "move"

Billed(p) ==
    LET t == cmd[p].at IN
    /\ paid' = IF Kind[p] = "restore" THEN paid ELSE [paid EXCEPT ![t][Spends[p]] = @ + 1]
    /\ flagged' = [flagged EXCEPT ![t] = @ \/ (Kind[p] = "use" /\ Spends[p] = Action)]
    /\ strays' = IF Covered(p) THEN strays ELSE strays \cup {t}

Pay(p) ==
    /\ cmd[p].pc = "working"
    /\ IF Kind[p] = "use" /\ ~ Affords(row[cmd[p].at].used, Spends[p])
       THEN Abandon(p) /\ UNCHANGED <<row, paid, flagged, strays>>
       ELSE /\ row' = [row EXCEPT ![cmd[p].at].used = Written(p)]
            /\ Billed(p)
            /\ cmd' = [cmd EXCEPT ![p] = [@ EXCEPT !.pc = "paid", !.copy = Fresh]]
            /\ UNCHANGED holder
    /\ UNCHANGED <<pointer, handover>>

Commit(p) ==
    /\ cmd[p].pc = "paid"
    /\ Abandon(p)
    /\ UNCHANGED <<row, pointer, handover, paid, flagged, strays>>

\* An error, a panic or a lost connection ends the lock's transaction and
\* leaves the writes made so far.
Fail(p) ==
    /\ cmd[p].pc \notin {"idle", "done"}
    /\ Abandon(p)
    /\ UNCHANGED <<row, pointer, handover, paid, flagged, strays>>

Command(p) ==
    \/ Start(p) \/ Validate(p) \/ Lock(p) \/ TimeOut(p) \/ Recheck(p)
    \/ Load(p) \/ Pay(p) \/ Commit(p) \/ Fail(p)

(***************************************************************************)
(* AdvanceTurn, as far as commands can see it.                             *)
(***************************************************************************)
EndTurn ==
    /\ handover = "none"
    /\ row[pointer].status = "active"
    /\ row' = [row EXCEPT ![pointer].status = "completed"]
    /\ handover' = "ended"
    /\ UNCHANGED <<pointer, holder, cmd, paid, flagged, strays>>

OpenTurn ==
    /\ handover = "ended"
    /\ pointer + 1 \in Turns
    /\ row' = [row EXCEPT ![pointer + 1].status = "active"]
    /\ handover' = "opened"
    /\ UNCHANGED <<pointer, holder, cmd, paid, flagged, strays>>

PointAtTurn ==
    /\ handover = "opened"
    /\ pointer' = pointer + 1
    /\ handover' = "none"
    /\ UNCHANGED <<row, holder, cmd, paid, flagged, strays>>

Advance == EndTurn \/ OpenTurn \/ PointAtTurn

Next == Advance \/ \E p \in Cmds : Command(p)
Spec == Init /\ [][Next]_vars

(***************************************************************************)
(* Properties.                                                             *)
(***************************************************************************)
\* What the row of a turn must say, given how often each resource was charged
\* and whether a compare-and-set has spent the action.
Balance(n, byFlag) ==
    [r \in Resources |->
        IF r = Action THEN (IF n[Action] + n[Attack] > 0 THEN 1 ELSE 0)
        ELSE IF r = Attack /\ n[Action] > 0 /\ ~byFlag THEN Allowance[Attack]
        ELSE n[r]]

\* A turn's row says exactly what commands were charged on it, no charge
\* reverted by another command's write, as long as every write to the row came
\* from a command that held the turn's lock since it read it (RunUnderTurnLock
\* around UpdateTurnActions), or held it for its compare-and-set
\* (SpendTurnResources).
CoveredTurnsExact == \A t \in Turns \ strays : row[t].used = Balance(paid[t], flagged[t])

\* Charges that are within the turn's means.
Within(n, byFlag) ==
    /\ \A r \in Resources : n[r] <= Allowance[r]
    /\ byFlag \/ n[Action] = 0 \/ n[Attack] = 0

\* On such a turn no resource is charged beyond its allowance, and the action
\* and attacks are not both charged: unless a compare-and-set has spent the
\* action, which leaves the attacks to be spent after it (UseResource,
\* UseAttack, SpendTurnResources).
OneActionATurn == \A t \in Turns \ strays : Within(paid[t], flagged[t])

\* A turn's lock is held only by a command that is inside the gate of that
\* very turn: no return path of the gate forgets to end the transaction.
Inside(p) == cmd[p].pc \in {"locked", "inside", "working", "paid"}
Gated(p) == Inside(p) /\ Kind[p] \notin Ungated
NoOrphanLock ==
    \A t \in Turns, p \in Cmds : holder[t] = p => Gated(p) /\ cmd[p].turn = t

\* What CoveredTurnsExact rests on: the lock is held through the body, and a
\* copy read under it stays the row's value until it is written back.
Situated(p) ==
    /\ Kind[p] \in Ungated => cmd[p].pc \in {"idle", "working", "paid", "done"}
    /\ Kind[p] \in {"act", "use", "move"} /\ cmd[p].pc \notin {"idle", "done"}
          => cmd[p].at \in Turns
    /\ cmd[p].pc = "working" => cmd[p].at \in Turns
    /\ cmd[p].pc = "waiting" \/ Gated(p) => cmd[p].turn \in Turns
HoldsLock(p) == Gated(p) => holder[cmd[p].turn] = p
FreshCopy(p) ==
    /\ cmd[p].pc = "working"
    /\ Kind[p] \in {"act", "bonus"}
    /\ holder[cmd[p].at] = p
    /\ cmd[p].at \notin strays
    => cmd[p].copy = row[cmd[p].at].used /\ Affords(cmd[p].copy, Spends[p])
GateInv ==
    /\ TypeOK
    /\ handover = "opened" => pointer + 1 \in Turns
    /\ \A p \in Cmds : Situated(p) /\ HoldsLock(p) /\ FreshCopy(p)
    /\ NoOrphanLock
    /\ \A t \in Turns : flagged[t] => paid[t][Action] > 0
    /\ CoveredTurnsExact
    /\ OneActionATurn
=============================================================================
