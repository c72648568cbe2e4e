----------------------------- MODULE TurnOrder -----------------------------
(***************************************************************************)
(* The turn loop of internal/combat: AdvanceTurn, the handlers that call   *)
(* it, and the handlers that touch the same rows.                          *)
(*                                                                         *)
(* AdvanceTurn is not a transaction and takes no lock, so it is modelled   *)
(* as the sequence of database statements it issues, one action for each   *)
(* statement another handler can observe, with the call's local variables  *)
(* in call[p].  Spec lets the calls interleave, as the code does.          *)
(* SerialSpec runs the turn handlers one at a time, ClickSpec lets clicks  *)
(* on an End Turn button overlap; in each the turn timer, which reads a    *)
(* turn and completes it later by its id, runs beside them, and a call may *)
(* stop half-way at any statement.                                         *)
(***************************************************************************)
EXTENDS Integers, Sequences, FiniteSets

CONSTANTS
    Combatants,   \* rows of combatants in the encounter
    Npcs,         \* those with is_npc
    Shared,       \* summons acting on their summoner's turn (SharesCasterTurn)
    Seat,         \* initiative_order as assigned by rollInitiative
    Nobody,       \* no combatant
    Callers,      \* invocations of AdvanceTurn that may be in flight
    Fates,        \* bound: what other handlers may make of each combatant
    Ambushed,     \* bound: combatants the DM may mark surprised
    LastRound,    \* bound: no call starts that could leave this round
    MaxTurns,     \* bound: rows the turns table may hold
    MaxFaults     \* bound: calls that stop half-way

Seated == Combatants \ Shared

ASSUME CombatantsAssumption ==
    /\ Npcs \subseteq Combatants
    /\ Shared \subseteq Combatants
    /\ Nobody \notin Combatants
ASSUME SeatAssumption ==
    /\ Seat \in [Combatants -> Nat]
    /\ \A c, d \in Seated : c # d => Seat[c] # Seat[d]
ASSUME BoundsAssumption ==
    /\ Fates \in [Combatants -> SUBSET {"able", "held", "saveEnds", "dying", "dead"}]
    /\ \A c \in Npcs : "dying" \notin Fates[c]
    /\ Ambushed \subseteq Combatants
    /\ LastRound \in Nat
    /\ MaxTurns \in Nat
    /\ MaxFaults \in Nat

VARIABLES
    status,    \* encounters.status
    round,     \* encounters.round_number
    pointer,   \* encounters.current_turn_id, 0 for NULL
    turns,     \* the turns table; the id of a row is its index
    body,      \* the columns of a combatant the turn loop branches on
    call,      \* locals of every AdvanceTurn in flight
    ending,    \* EndCombat is between CompleteTurn and UpdateEncounterStatus
    listed,    \* rows the timer has read as due and still has to resolve
    orphans,   \* history: rows whose call stopped before the pointer was written
    faults     \* history: calls that stopped half-way

around == <<ending, listed, orphans, faults>>
vars == <<status, round, pointer, turns, body, call, around>>

(***************************************************************************)
(* Rows.  "held" is any incapacitating condition without a repeat save     *)
(* (an unconscious, stable PC included), "saveEnds" one with it, "dying" a *)
(* PC at 0 HP that still rolls death saves, "dead" is_alive = false.       *)
(***************************************************************************)
Conditions == {"able", "held", "saveEnds", "dying", "dead"}

Body == [state : Conditions, surprised : BOOLEAN]

Turn == [who : Combatants, round : Nat, acted : BOOLEAN,
         status : {"active", "completed", "skipped"}]

Row(c, r, s) == [who |-> c, round |-> r, acted |-> FALSE, status |-> s]

IdleCall == [pc |-> "idle", minted |-> 0, cur |-> 0, rnd |-> 0, left |-> {},
             seen |-> [c \in Combatants |-> [state |-> "dead", surprised |-> FALSE]],
             again |-> FALSE, fresh |-> 0]

Call == [pc : {"idle", "enter", "complete", "list", "roll", "pick", "point"},
         minted : Nat, cur : Nat, rnd : Nat, left : SUBSET Combatants,
         seen : [Combatants -> Body], again : BOOLEAN, fresh : Nat]

TypeOK ==
    /\ status \in {"active", "completed"}
    /\ round \in Nat
    /\ pointer \in 0..Len(turns)
    /\ turns \in Seq(Turn)
    /\ body \in [Combatants -> Body]
    /\ call \in [Callers -> Call]
    /\ ending \in BOOLEAN
    /\ listed \subseteq DOMAIN turns
    /\ orphans \subseteq DOMAIN turns
    /\ faults \in Nat

\* What the loop reads of a combatant row.
Alive(b) == b.state # "dead"

HasRow(c, r) == \E i \in DOMAIN turns : turns[i].who = c /\ turns[i].round = r

ActiveRows == {i \in DOMAIN turns : turns[i].status = "active"}

Eligible(seen) == {c \in Seated : Alive(seen[c])}

CandidatesForgetTurns(seen, r) == Eligible(seen)
CandidatesForgetSkips(seen, r) ==
    {c \in Eligible(seen) : ~ \E i \in DOMAIN turns :
        turns[i].who = c /\ turns[i].round = r /\ turns[i].status # "skipped"}
\* Combatants the pass of round r may still seat: alive, own initiative
\* slot, no row in the turns table for this round whatever its status.
Candidates(seen, r) == {c \in Eligible(seen) : ~HasRow(c, r)}

LeadsLast(c, S) == \A d \in S : Seat[d] <= Seat[c]
\* ListCombatantsByEncounterID orders by initiative_order.
Leads(c, S) == \A d \in S : Seat[c] <= Seat[d]

\* What the loop does with a candidate: surprise costs round 1; a dying PC
\* and a creature with a repeat save get a real turn although incapacitated.
Verdict(b, r) ==
    IF r = 1 /\ b.surprised THEN "surprised"
    ELSE IF b.state = "held" THEN "incapacitated" ELSE "seat"

-----------------------------------------------------------------------------
\* combat has been started: rollInitiative wrote the seats, round 1 and the
\* status, the DM marked some combatants surprised, nobody is seated yet.
Init ==
    /\ status = "active"
    /\ round = 1
    /\ pointer = 0
    /\ turns = <<>>
    /\ \E marked \in SUBSET Ambushed :
          body = [c \in Combatants |-> [state |-> "able", surprised |-> c \in marked]]
    /\ call = [p \in Callers |-> IdleCall]
    /\ ending = FALSE
    /\ listed = {}
    /\ orphans = {}
    /\ faults = 0

\* No turn handler is in flight.
Quiet == ~ending /\ \A p \in Callers : call[p].pc = "idle"

\* Bound on the history: a call may close two rounds and skip everyone twice.
Room ==
    /\ round + 2 <= LastRound
    /\ Len(turns) + 2 * Cardinality(Seated) + 1 <= MaxTurns

\* The dashboard's End Turn, /deathsave on one's own turn and a /done with
\* nothing left to spend call AdvanceTurn without naming a turn.  /done and
\* /deathsave resolve the encounter among the active ones; the dashboard
\* passes its id.
Request(p) ==
    /\ call[p].pc = "idle"
    /\ Room
    /\ call' = [call EXCEPT ![p] = [IdleCall EXCEPT !.pc = "enter"]]
    /\ UNCHANGED <<status, round, pointer, turns, body, around>>

\* A click on the End Turn button minted for turn t: HandleDoneConfirm goes
\* on only while the encounter still points at t.
Confirm(p) ==
    /\ call[p].pc = "idle"
    /\ Room
    /\ pointer # 0
    /\ call' = [call EXCEPT ![p] = [IdleCall EXCEPT !.pc = "enter", !.minted = pointer]]
    /\ UNCHANGED <<status, round, pointer, turns, body, around>>

NpcNotExecutedNever == FALSE
NpcNotExecuted ==
    pointer # 0 /\ turns[pointer].who \in Npcs /\ ~turns[pointer].acted

\* ErrEnemyTurnNotExecuted.
Refuse(p) ==
    /\ call[p].pc = "enter"
    /\ NpcNotExecuted
    /\ call' = [call EXCEPT ![p] = IdleCall]
    /\ UNCHANGED <<status, round, pointer, turns, body, around>>

\* GetEncounter, GetTurn, GetCombatant: the snapshot the call goes on with.
Enter(p) ==
    /\ call[p].pc = "enter"
    /\ ~NpcNotExecuted
    /\ call' = [call EXCEPT ![p].pc = IF pointer = 0 THEN "list" ELSE "complete",
                            ![p].cur = pointer,
                            ![p].rnd = round]
    /\ UNCHANGED <<status, round, pointer, turns, body, around>>

\* Conditions that run out when a turn ends or starts (processExpiredConditions).
Expire(freed) ==
    body' = [c \in Combatants |-> IF c \in freed THEN [body[c] EXCEPT !.state = "able"]
                                                 ELSE body[c]]
Bound(c) == body[c].state \in {"held", "saveEnds"}

\* ProcessTurnEndWithLog and CompleteTurn, whatever the status of the row.
CompleteNothing(p) ==
    /\ call[p].pc = "complete"
    /\ call' = [call EXCEPT ![p].pc = "list"]
    /\ UNCHANGED <<status, round, pointer, turns, body, around>>
Complete(p) ==
    /\ call[p].pc = "complete"
    /\ turns' = [turns EXCEPT ![call[p].cur].status = "completed"]
    /\ \E freed \in SUBSET {c \in Combatants : Bound(c)} : Expire(freed)
    /\ call' = [call EXCEPT ![p].pc = "list"]
    /\ UNCHANGED <<status, round, pointer, around>>

ListEndsRoundEarly(p) ==
    LET left == Candidates(body, call[p].rnd)
        roll == Cardinality(left) <= 1
    IN  /\ call[p].pc = "list"
        /\ call' = [call EXCEPT ![p].pc = IF roll THEN "roll" ELSE "pick",
                                ![p].left = IF roll THEN Eligible(body) ELSE left,
                                ![p].seen = body]
        /\ UNCHANGED <<status, round, pointer, turns, body, around>>
\* ListCombatantsByEncounterID and ListTurnsByEncounterAndRound.
List(p) ==
    LET left == Candidates(body, call[p].rnd)
        roll == left = {}
    IN  /\ call[p].pc = "list"
        /\ call' = [call EXCEPT ![p].pc = IF roll THEN "roll" ELSE "pick",
                                ![p].left = IF roll THEN Eligible(body) ELSE left,
                                ![p].seen = body]
        /\ UNCHANGED <<status, round, pointer, turns, body, around>>

\* advanceRound: the round is written from the call's own copy.  With nobody
\* alive the call returns "no alive combatants" after the write.
Roll(p) ==
    /\ call[p].pc = "roll"
    /\ round' = call[p].rnd + 1
    /\ call' = [call EXCEPT ![p] =
                  IF call[p].left = {} THEN IdleCall
                  ELSE [call[p] EXCEPT !.pc = "pick", !.rnd = @ + 1]]
    /\ UNCHANGED <<status, pointer, turns, body, around>>

\* The conditions column written back from the snapshot, minus "surprised":
\* conditions that came or went since the snapshot are overwritten, the HP
\* columns are not.
WrittenBack(now, was) ==
    [state |-> IF now.state \in {"dying", "dead"} THEN now.state
               ELSE IF was.state = "dying" THEN "held" ELSE was.state,
     surprised |-> FALSE]

\* After a skip: next candidate; or, all skipped, the next round over the same
\* snapshot; or, all skipped there too, "no alive combatants".
AfterSkip(k, c) ==
    IF k.left # {c} THEN [k EXCEPT !.left = @ \ {c}]
    ELSE IF k.again THEN IdleCall
    ELSE [k EXCEPT !.pc = "roll", !.left = Eligible(k.seen), !.again = TRUE]

\* skipSurprisedTurn and skipCombatantTurn.
Skip(p) ==
    LET k == call[p] IN
    /\ k.pc = "pick"
    /\ \E c \in k.left :
       /\ Leads(c, k.left)
       /\ Verdict(k.seen[c], k.rnd) # "seat"
       /\ turns' = Append(turns, Row(c, k.rnd, "skipped"))
       /\ body' = IF Verdict(k.seen[c], k.rnd) = "surprised"
                  THEN [body EXCEPT ![c] = WrittenBack(@, k.seen[c])] ELSE body
       /\ call' = [call EXCEPT ![p] = AfterSkip(k, c)]
    /\ UNCHANGED <<status, round, pointer, around>>

\* createActiveTurn, CreateTurn.
Activate(p) ==
    LET k == call[p] IN
    /\ k.pc = "pick"
    /\ \E c \in k.left :
       /\ Leads(c, k.left)
       /\ Verdict(k.seen[c], k.rnd) = "seat"
       /\ turns' = Append(turns, Row(c, k.rnd, "active"))
    /\ call' = [call EXCEPT ![p].pc = "point", ![p].fresh = Len(turns) + 1]
    /\ UNCHANGED <<status, round, pointer, body, around>>

\* createActiveTurn, ProcessTurnStartWithLog and UpdateEncounterCurrentTurn.
Point(p) ==
    /\ call[p].pc = "point"
    /\ \E freed \in SUBSET {c \in Combatants : Bound(c)} : Expire(freed)
    /\ pointer' = call[p].fresh
    /\ call' = [call EXCEPT ![p] = IdleCall]
    /\ UNCHANGED <<status, round, turns, around>>

\* A statement fails, or the server stops: what the call has written so far
\* stays, the rest never happens.  A row inserted and not yet pointed at stays
\* active; a skip row stays without the "surprised" condition being removed; the
\* round stays written although the zones were not swept.
Stop(p) ==
    LET k == call[p] IN
    /\ k.pc # "idle"
    /\ faults < MaxFaults
    /\ \/ UNCHANGED <<round, turns, body>>
       \/ /\ k.pc \in {"complete", "point"}
          /\ \E freed \in SUBSET {c \in Combatants : Bound(c)} : Expire(freed)
          /\ UNCHANGED <<round, turns>>
       \/ k.pc = "roll" /\ round' = k.rnd + 1 /\ UNCHANGED <<turns, body>>
       \/ /\ k.pc = "pick"
          /\ \E c \in k.left : /\ Leads(c, k.left)
                               /\ Verdict(k.seen[c], k.rnd) # "seat"
                               /\ turns' = Append(turns, Row(c, k.rnd, "skipped"))
          /\ UNCHANGED <<round, body>>
    /\ call' = [call EXCEPT ![p] = IdleCall]
    /\ orphans' = IF k.pc = "point" THEN orphans \cup {k.fresh} ELSE orphans
    /\ faults' = faults + 1
    /\ UNCHANGED <<status, pointer, ending, listed>>

-----------------------------------------------------------------------------
ReseatAnyone(c) ==
    /\ pointer # 0
    /\ LET t == turns[pointer] IN
       /\ t.who # c
       /\ ~t.acted
       /\ Alive(body[c])
       /\ c \in Seated
       /\ turns' = [turns EXCEPT ![pointer] = Row(c, t.round, "active")]
    /\ UNCHANGED <<status, round, pointer, body, call, around>>
\* ReseatActiveTurn: the DM moves the row the encounter points at to c, whose
\* start-of-turn conditions then run out.
Reseat(c) ==
    /\ pointer # 0
    /\ LET t == turns[pointer] IN
       /\ t.who # c
       /\ ~t.acted
       /\ Alive(body[c])
       /\ c \in Seated
       /\ ~ \E i \in DOMAIN turns : i # pointer /\ turns[i].who = c /\ turns[i].round = t.round
       /\ turns' = [turns EXCEPT ![pointer] = Row(c, t.round, "active")]
    /\ \E freed \in SUBSET {d \in Combatants : Bound(d)} : Expire(freed)
    /\ UNCHANGED <<status, round, pointer, call, around>>

\* EndCombat up to CompleteTurn: the row the encounter points at is completed.
EndCombat ==
    /\ status = "active"
    /\ ~ending
    /\ ending' = TRUE
    /\ turns' = IF pointer = 0 THEN turns
                ELSE [turns EXCEPT ![pointer].status = "completed"]
    /\ UNCHANGED <<status, round, pointer, body, call, listed, orphans, faults>>

\* The rest of EndCombat: the status, then the combat-only conditions; the
\* pointer stays.
CloseEncounter ==
    /\ ending
    /\ ending' = FALSE
    /\ status' = "completed"
    /\ \E freed \in SUBSET {c \in Combatants : Bound(c)} :
          body' = [c \in Combatants |->
                     [state |-> IF c \in freed THEN "able" ELSE body[c].state,
                      surprised |-> FALSE]]
    /\ UNCHANGED <<round, pointer, turns, call, listed, orphans, faults>>

\* EndCombat stops in between: the zone or reaction cleanup fails (nothing more
\* is written), or the listing after the status was written does.
StopEnding ==
    /\ ending
    /\ faults < MaxFaults
    /\ ending' = FALSE
    /\ status' \in {status, "completed"}
    /\ faults' = faults + 1
    /\ UNCHANGED <<round, pointer, turns, body, call, listed, orphans>>

\* An action spent on an active turn: a player's command, or ExecuteEnemyTurn,
\* which marks whichever turn of the encounter is active.
SpendAction(i) ==
    /\ i \in ActiveRows
    /\ ~turns[i].acted
    /\ turns' = [turns EXCEPT ![i].acted = TRUE]
    /\ UNCHANGED <<status, round, pointer, body, call, around>>

\* A poll of the timer finds turns due: active rows of player characters.
PickUp ==
    /\ listed = {}
    /\ \E due \in SUBSET {i \in ActiveRows : turns[i].who \notin Npcs} :
          due # {} /\ listed' = due
    /\ UNCHANGED <<status, round, pointer, turns, body, call, ending, orphans, faults>>

\* TurnTimer.AutoResolveTurn, up to its last statement on the turn: the row is
\* completed by its id, whoever holds it by now; nobody advances.
AutoResolve(i) ==
    /\ i \in listed
    /\ turns' = [turns EXCEPT ![i].status = "completed"]
    /\ listed' = listed \ {i}
    /\ UNCHANGED <<status, round, pointer, body, call, ending, orphans, faults>>

\* A statement of AutoResolveTurn fails before that: the turn is left as it is.
LeaveUnresolved(i) ==
    /\ i \in listed
    /\ listed' = listed \ {i}
    /\ UNCHANGED <<status, round, pointer, turns, body, call, ending, orphans, faults>>

\* Damage, healing, death saves and conditions, by any other handler.
Suffer(c) ==
    /\ \E s \in Fates[c] \ {body[c].state} : body' = [body EXCEPT ![c].state = s]
    /\ UNCHANGED <<status, round, pointer, turns, call, around>>

Step(p) ==
    \/ Refuse(p) \/ Enter(p) \/ Complete(p) \/ List(p) \/ Roll(p)
    \/ Skip(p) \/ Activate(p) \/ Point(p)

Finish == CloseEncounter \/ StopEnding

World ==
    \/ \E i \in DOMAIN turns : SpendAction(i) \/ AutoResolve(i) \/ LeaveUnresolved(i)
    \/ PickUp
    \/ \E c \in Seated : Suffer(c)

Next ==
    \/ \E p \in Callers : Request(p) \/ Confirm(p) \/ Step(p) \/ Stop(p)
    \/ \E c \in Combatants : Reseat(c)
    \/ EndCombat \/ Finish
    \/ World

Spec == Init /\ [][Next]_vars

\* Turn handlers one at a time; other handlers and the timer in between.
SerialNext ==
    \/ Quiet /\ \E p \in Callers : Request(p) \/ Confirm(p)
    \/ \E p \in Callers : Step(p) \/ Stop(p)
    \/ Finish
    \/ Quiet /\ \E c \in Combatants : Reseat(c)
    \/ Quiet /\ EndCombat
    \/ World

SerialSpec == Init /\ [][SerialNext]_vars

\* A second click on an End Turn button while the first is still in flight.
ClickNext ==
    \/ SerialNext
    \/ \E p, q \in Callers : call[q].minted # 0 /\ Confirm(p)

ClickSpec == Init /\ [][ClickNext]_vars

-----------------------------------------------------------------------------
(***************************************************************************)
(* Properties.                                                             *)
(***************************************************************************)

\* With no handler in flight, the active row, if any, is the one the encounter
\* points at, unless a call that stopped between CreateTurn and the pointer left
\* it behind: the two notions of "current turn" the code uses agree otherwise.
ActiveIsPointedAt == Quiet => ActiveRows \subseteq {pointer} \cup orphans

\* No combatant has two turn rows in a round: nobody acts twice.
OneRowPerRound ==
    \A i, j \in DOMAIN turns :
        turns[i].who = turns[j].who /\ turns[i].round = turns[j].round => i = j

\* A turn is handed to a combatant only after everyone seated before it whom
\* the pass saw alive has a row in that round.
GivesInOrder(p) ==
    call[p].pc = "pick" /\ call'[p].pc = "point" =>
        LET c == turns'[call'[p].fresh].who IN
        \A d \in Eligible(call[p].seen) : Seat[d] < Seat[c] => HasRow(d, call[p].rnd)
SeatedInOrder == [][\A p \in Callers : GivesInOrder(p)]_vars

\* The round advances only when everyone the pass saw alive has a row in it.
ClosesFull(p) ==
    call[p].pc = "roll" /\ call'[p].pc # "roll" /\ round' # round =>
        \A d \in Eligible(call[p].seen) : HasRow(d, call[p].rnd)
RoundClosesFull == [][\A p \in Callers : ClosesFull(p)]_vars

\* An NPC's turn is completed only after the enemy turn was executed, unless the
\* combat is being ended or the timer had picked the row up while a player held
\* it: AdvanceTurn itself never drops a creature's turn silently.
KeptUntilExecuted(i) ==
    turns[i].status = "active" /\ turns[i].who \in Npcs /\ ~turns[i].acted
        => turns'[i].status = "active" \/ (ending' /\ ~ending) \/ i \in listed
NpcTurnNotDropped == [][\A i \in DOMAIN turns : KeptUntilExecuted(i)]_vars

\* A click on a turn's End Turn button ends that turn or none.
DoneEndsItsOwnTurn ==
    \A p \in Callers :
        call[p].pc = "complete" /\ call[p].minted # 0 => call[p].cur = call[p].minted

\* Active rows but those a call left behind, which nobody points at.
Holders == ActiveRows \ orphans

\* The inductive invariant of SerialSpec: what a call in flight may rely on,
\* between two of its statements, about the rows it is going to write.
InFlight(p) ==
    LET k == call[p] IN
    /\ k.pc \in {"enter", "complete"} /\ k.minted # 0 => k.minted = pointer
    /\ k.pc = "complete" => k.cur = pointer /\ pointer # 0
    /\ k.pc \in {"complete", "list", "roll", "pick"} => k.rnd = round
    /\ k.pc \in {"list", "roll", "pick"} => Holders = {}
    /\ k.pc \in {"roll", "pick"} => k.left \subseteq Seated
    /\ k.pc = "pick" => \A c \in k.left : ~HasRow(c, k.rnd)
    /\ k.pc = "point" => /\ k.fresh \in DOMAIN turns \ orphans /\ k.fresh # pointer
                         /\ Holders \subseteq {k.fresh}

TurnLoopInv ==
    /\ TypeOK
    /\ \A p, q \in Callers : call[p].pc # "idle" /\ call[q].pc # "idle" => p = q
    /\ \A p \in Callers : InFlight(p)
    /\ \A i \in DOMAIN turns : turns[i].round <= round
    /\ OneRowPerRound
    /\ pointer \notin orphans
    /\ (\A p \in Callers : call[p].pc # "point") => Holders \subseteq {pointer}

\* The turn handlers, run one at a time, implement RoundRobin.  A row nobody
\* points at holds no floor: its seat has lost its turn.
Floor == IF Holders = {} THEN Nobody ELSE turns[CHOOSE i \in Holders : TRUE].who
Abstract == INSTANCE RoundRobin WITH
    Seats <- Seated,
    rnd <- round,
    had <- {c \in Seated : HasRow(c, round)},
    floor <- Floor,
    late <- \E i \in Holders : turns[i].round < round
ImplementsRoundRobin == Abstract!RRSpec

\* Handlers run to their end, enemy turns get executed and somebody keeps
\* pressing End Turn.
Fairness ==
    /\ \A p \in Callers : WF_vars(Step(p)) /\ WF_vars(Quiet /\ Request(p))
    /\ WF_vars(Finish)
    /\ SF_vars(\E i \in ActiveRows : turns[i].who \in Npcs /\ SpendAction(i))

FairSpec == SerialSpec /\ Fairness

\* The two ways the loop can be blocked for good: an enemy turn that was ended
\* unexecuted, and a row left behind by a call that stopped, which the queries
\* for "the active turn" may return instead of the one pointed at.
Blocked ==
    \/ NpcNotExecuted /\ pointer \notin ActiveRows
    \/ ActiveRows \cap orphans # {}

\* Whoever can act, or has a death save to roll, is seated in the round or
\* stops being in that state, or the combat ends, or the loop is blocked.
EveryoneComesUp ==
    \A c \in Seated : \A r \in 1..(LastRound - 2) :
        (round = r /\ body[c].state \in {"able", "saveEnds", "dying"})
          ~> \/ HasRow(c, r)
             \/ body[c].state \in {"held", "dead"}
             \/ status = "completed"
             \/ Blocked
=============================================================================
