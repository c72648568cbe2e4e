----------------------------- MODULE TurnTimer -----------------------------
(***************************************************************************)
(* The turn timer of internal/combat: one goroutine polls the turns table, *)
(* nudges, warns, asks the DM for a decision and at last resolves a turn   *)
(* nobody played.  Its state is in the rows only; a process that dies      *)
(* forgets where it was and starts polling anew.                           *)
(*                                                                         *)
(* The poller is modelled statement by statement, each other handler as    *)
(* one step.  Time is a clock the poller reads; it may pass between any    *)
(* two statements.  What a resolution does to the character between its    *)
(* reads and the statement that closes the turn (its death save is in      *)
(* Dying, its saves in SpellSaves) is not told apart here, but it may fail.*)
(***************************************************************************)
EXTENDS Integers, FiniteSets

CONSTANTS
    Combatants, \* rows of combatants, of all encounters
    Npcs,       \* those with is_npc
    Tables,     \* active encounters
    Table,      \* the encounter of each combatant
    Muted,      \* encounters whose campaign has no your-turn channel
    Nobody,     \* no combatant
    LastTurn,   \* bound: rows the turns table may hold
    Timeout,    \* turn_timeout_hours
    Hour,       \* the DM's time to decide
    Horizon,    \* bound: the clock stops here, and no turn is opened or reseated
                \* that it could not see out
    MaxFaults   \* bound: failed statements and crashes

Turns == 1..LastTurn

ASSUME CombatantsAssumption ==
    /\ Npcs \subseteq Combatants /\ Muted \subseteq Tables
    /\ Table \in [Combatants -> Tables]
    /\ Nobody \notin Combatants
ASSUME TimerAssumption ==
    /\ LastTurn \in Nat /\ Horizon \in Nat /\ MaxFaults \in Nat
    /\ Timeout \in Nat \ {0}
    /\ Hour \in Nat \ {0}

VARIABLES
    now,      \* the clock
    row,      \* the turns table
    count,    \* combatants.consecutive_auto_resolves
    poll,     \* locals of PollOnce
    sent,     \* history: escalations delivered since the row was last seated
    usurped,  \* history: rows reseated while the poller had them in hand
    closed,   \* history: turns the poller closed on behalf of each combatant
    faults    \* bound: faults so far

history == <<sent, usurped, closed>>
vars == <<now, row, count, poll, history, faults>>

Stages == {"nudge", "warning", "prompt", "resolve"}

\* 0 is NULL; dm_decision_sent_at is set and cleared with the deadline.
Row == [status : {"none", "active", "completed"}, who : Combatants \cup {Nobody},
        acted : BOOLEAN, started : Nat, timeout : Nat, nudged : BOOLEAN,
        warned : BOOLEAN, deadline : Nat, resolved : BOOLEAN]

\* A row as CreateTurn and ReseatTurn leave it.
Fresh(status, c, started, timeout) ==
    [status |-> status, who |-> c, acted |-> FALSE, started |-> started,
     timeout |-> timeout, nudged |-> FALSE, warned |-> FALSE, deadline |-> 0,
     resolved |-> FALSE]

Item == [turn : Turns, due : Nat]
Poll == [pc : {"idle", "next", "mark", "close", "count"},
         stage : Stages, queue : SUBSET Item, turn : {0} \cup Turns,
         who : Combatants \cup {Nobody}, count : Nat]
AtRest == [pc |-> "idle", stage |-> "nudge", queue |-> {}, turn |-> 0,
           who |-> Nobody, count |-> 0]

TypeOK ==
    /\ now \in Nat \ {0}
    /\ row \in [Turns -> Row]
    /\ count \in [Combatants -> Nat]
    /\ poll \in Poll
    /\ sent \in [Turns -> SUBSET {"nudge", "warning", "prompt"}]
    /\ usurped \subseteq Turns
    /\ closed \in [Combatants -> Nat]
    /\ faults \in 0..MaxFaults

Init ==
    /\ now = 1
    /\ row = [t \in Turns |-> Fresh("none", Nobody, 0, 0)]
    /\ count = [c \in Combatants |-> 0]
    /\ poll = AtRest
    /\ sent = [t \in Turns |-> {}]
    /\ usurped = {}
    /\ closed = [c \in Combatants |-> 0]
    /\ faults = 0

Tick ==
    /\ now < Horizon
    /\ now' = now + 1
    /\ UNCHANGED <<row, count, poll, history, faults>>

(***************************************************************************)
(* The poller.                                                             *)
(***************************************************************************)
\* Mutant: the auto-resolve query looks at timeout_at, not at the deadline.
DueAtTimeout(stage, r) ==
    /\ r.status = "active"
    /\ r.timeout # 0 /\ r.started # 0
    /\ CASE stage = "nudge" -> ~r.nudged /\ 2 * (now - r.started) >= r.timeout - r.started
         [] stage = "warning" -> ~r.warned /\ 4 * (now - r.started) >= 3 * (r.timeout - r.started)
         [] stage = "prompt" -> r.deadline = 0 /\ now >= r.timeout
         [] OTHER -> now >= r.timeout

\* Mutant: the queries compare with = for >=, and miss what fell due while
\* the process was down.
DueOnTheDot(stage, r) ==
    /\ r.status = "active"
    /\ CASE stage = "nudge" -> ~r.nudged /\ r.timeout # 0 /\ 2 * (now - r.started) = r.timeout - r.started
         [] stage = "warning" -> ~r.warned /\ r.timeout # 0 /\ 4 * (now - r.started) = 3 * (r.timeout - r.started)
         [] stage = "prompt" -> r.deadline = 0 /\ r.timeout # 0 /\ now = r.timeout
         [] OTHER -> r.deadline # 0 /\ now = r.deadline

\* ListTurnsNeedingNudge, ListTurnsNeedingWarning, ListTurnsTimedOut and
\* ListTurnsNeedingDMAutoResolve; the last does not look at timeout_at.
Due(stage, r) ==
    /\ r.status = "active"
    /\ stage # "resolve" => r.timeout # 0 /\ r.started # 0
    /\ CASE stage = "nudge" -> ~r.nudged /\ 2 * (now - r.started) >= r.timeout - r.started
         [] stage = "warning" -> ~r.warned /\ 4 * (now - r.started) >= 3 * (r.timeout - r.started)
         [] stage = "prompt" -> r.deadline = 0 /\ now >= r.timeout
         [] OTHER -> r.deadline # 0 /\ now >= r.deadline

\* The column each list is ordered by.
Rank(stage, r) ==
    CASE stage \in {"nudge", "warning"} -> r.started
      [] stage = "prompt" -> r.timeout
      [] OTHER -> r.deadline

\* One of the four lists, in hand.
Listed(stage) ==
    [AtRest EXCEPT !.pc = "next", !.stage = stage,
       !.queue = {[turn |-> t, due |-> Rank(stage, row[t])] :
                    t \in {u \in Turns : Due(stage, row[u])}}]

After(stage) == CASE stage = "nudge" -> "warning" [] stage = "warning" -> "prompt" [] OTHER -> "resolve"

\* A poll starts, or goes on with the next list once it is through with one.
Ask ==
    /\ \/ poll.pc = "idle" /\ poll' = Listed("nudge")
       \/ /\ poll.pc = "next" /\ poll.queue = {} /\ poll.stage # "resolve"
          /\ poll' = Listed(After(poll.stage))
    /\ UNCHANGED <<now, row, count, history, faults>>

EndPoll ==
    /\ poll.pc = "next" /\ poll.queue = {} /\ poll.stage = "resolve"
    /\ poll' = AtRest
    /\ UNCHANGED <<now, row, count, history, faults>>

NextItem == [AtRest EXCEPT !.pc = "next", !.stage = poll.stage, !.queue = poll.queue]
First(item) == item \in poll.queue /\ \A other \in poll.queue : item.due <= other.due
Move(pc, item) ==
    poll' = [poll EXCEPT !.pc = pc, !.turn = item.turn, !.queue = poll.queue \ {item}]

\* sendNudge, sendWarning, sendDMDecisionPrompt: the message, if there is a
\* channel, and then the mark.
Send(item) ==
    /\ poll.pc = "next" /\ poll.stage # "resolve"
    /\ First(item)
    /\ sent' = IF Table[row[item.turn].who] \in Muted THEN sent
               ELSE [sent EXCEPT ![item.turn] = @ \cup {poll.stage}]
    /\ Move("mark", item)
    /\ UNCHANGED <<now, row, count, usurped, closed, faults>>

\* Mutant: the deadline is the moment of the prompt.
MarkedAtOnce(r) ==
    CASE poll.stage = "nudge" -> [r EXCEPT !.nudged = TRUE]
      [] poll.stage = "warning" -> [r EXCEPT !.warned = TRUE]
      [] OTHER -> [r EXCEPT !.deadline = now]

\* UpdateTurnNudgeSent, UpdateTurnWarningSent, UpdateTurnDMDecisionSent: by id,
\* whoever holds the row by now.
Marked(r) ==
    CASE poll.stage = "nudge" -> [r EXCEPT !.nudged = TRUE]
      [] poll.stage = "warning" -> [r EXCEPT !.warned = TRUE]
      [] OTHER -> [r EXCEPT !.deadline = now + Hour]

Mark ==
    /\ poll.pc = "mark"
    /\ row' = [row EXCEPT ![poll.turn] = Marked(row[poll.turn])]
    /\ poll' = NextItem
    /\ UNCHANGED <<now, count, history, faults>>

\* AutoResolveTurn reads the turn and its combatant and looks at no status.
Look(item) ==
    /\ poll.pc = "next" /\ poll.stage = "resolve"
    /\ First(item)
    /\ LET c == row[item.turn].who IN
       poll' = [poll EXCEPT !.pc = "close", !.turn = item.turn,
                  !.queue = poll.queue \ {item}, !.who = c, !.count = count[c]]
    /\ UNCHANGED <<now, row, count, history, faults>>

\* Mutant: UpdateTurnAutoResolved leaves the status alone.
CloseLeavesActive ==
    /\ poll.pc = "close"
    /\ row' = [row EXCEPT ![poll.turn].resolved = TRUE]
    /\ closed' = [closed EXCEPT ![poll.who] = @ + 1]
    /\ poll' = [poll EXCEPT !.pc = "count"]
    /\ UNCHANGED <<now, count, sent, usurped, faults>>

\* UpdateTurnAutoResolved, by id.
Close ==
    /\ poll.pc = "close"
    /\ row' = [row EXCEPT ![poll.turn].resolved = TRUE, ![poll.turn].status = "completed"]
    /\ closed' = [closed EXCEPT ![poll.who] = @ + 1]
    /\ poll' = [poll EXCEPT !.pc = "count"]
    /\ UNCHANGED <<now, count, sent, usurped, faults>>

\* UpdateCombatantAutoResolveCount, from the copy.
Count ==
    /\ poll.pc = "count"
    /\ count' = [count EXCEPT ![poll.who] = poll.count + 1]
    /\ poll' = NextItem
    /\ UNCHANGED <<now, row, history, faults>>

PollStep ==
    \/ Ask \/ EndPoll \/ Mark \/ Close \/ Count
    \/ \E item \in poll.queue : Send(item) \/ Look(item)

\* A failing statement or message: the turn is left to the next poll.  A
\* failing list ends the poll.
Fault ==
    /\ faults < MaxFaults
    /\ faults' = faults + 1
    /\ \/ /\ poll.pc = "next"
          /\ \E item \in poll.queue : First(item) /\ Move("next", item)
       \/ /\ poll.pc \in {"mark", "close", "count"}
          /\ poll' = NextItem
       \/ /\ poll.pc = "next" /\ poll.queue = {} /\ poll.stage # "resolve"
          /\ poll' = AtRest
    /\ UNCHANGED <<now, row, count, history>>

\* The process dies in the middle of a poll; it polls before it serves commands again.
Crash ==
    /\ poll.pc # "idle"
    /\ faults < MaxFaults
    /\ faults' = faults + 1
    /\ poll' = AtRest
    /\ UNCHANGED <<now, row, count, history>>

(***************************************************************************)
(* Players, the DM and the turn loop.                                      *)
(***************************************************************************)
Opened(t) == row[t].status # "none"

\* The row the encounter points at: its last.
Current(t) ==
    /\ Opened(t)
    /\ \A u \in Turns : u > t /\ Opened(u) => Table[row[u].who] # Table[row[t].who]

Room == now + Timeout + Hour <= Horizon

\* resolveTimerForTurn, for player characters only; when it cannot read the
\* campaign's settings the turn has no timer.
SeatAt(t, c) ==
    LET Clock(started, timeout) ==
          row' = [row EXCEPT ![t] = Fresh("active", c, started, timeout)]
    IN  \/ c \in Npcs /\ Clock(0, 0) /\ UNCHANGED faults
        \/ c \notin Npcs /\ Clock(now, now + Timeout) /\ UNCHANGED faults
        \/ /\ c \notin Npcs /\ faults < MaxFaults
           /\ Clock(0, 0) /\ faults' = faults + 1

\* createActiveTurn, once AdvanceTurn has completed the turn before.
OpenTurn(c) ==
    /\ Room
    /\ \A t \in Turns : row[t].status = "active" => Table[row[t].who] # Table[c]
    /\ \E t \in Turns :
        /\ ~Opened(t)
        /\ \A u \in Turns : ~Opened(u) => t <= u
        /\ SeatAt(t, c)
    /\ UNCHANGED <<now, count, poll, history>>

\* AdvanceTurn completes the current turn (/done, /deathsave, the dashboard);
\* it refuses to drop a creature's turn that was not executed.
EndTurn(t) ==
    /\ row[t].status = "active"
    /\ Current(t)
    /\ row[t].who \in Npcs => row[t].acted
    /\ row' = [row EXCEPT ![t].status = "completed"]
    /\ UNCHANGED <<now, count, poll, history, faults>>

\* ExecuteEnemyTurn spends the action of an active creature's turn.  What players
\* spend is left out: a row they spent on may be reseated here, not in the code.
ExecuteEnemyTurn(t) ==
    /\ row[t].status = "active"
    /\ row[t].who \in Npcs
    /\ ~row[t].acted
    /\ row' = [row EXCEPT ![t].acted = TRUE]
    /\ UNCHANGED <<now, count, poll, history, faults>>

\* The poller has read t and will still write its row.
InHand(t) ==
    \/ \E item \in poll.queue : item.turn = t
    \/ poll.pc \in {"mark", "close"} /\ poll.turn = t

\* Mutant: ReseatTurn leaves the escalation of the displaced player in place.
ReseatKeepsEscalation(t, c) ==
    /\ Room
    /\ Current(t)
    /\ row[t].who # c /\ Table[row[t].who] = Table[c]
    /\ ~row[t].acted
    /\ row' = [row EXCEPT ![t].status = "active", ![t].who = c,
                          ![t].started = IF c \in Npcs THEN 0 ELSE now,
                          ![t].timeout = IF c \in Npcs THEN 0 ELSE now + Timeout]
    /\ sent' = [sent EXCEPT ![t] = {}]
    /\ usurped' = IF InHand(t) THEN usurped \cup {t} ELSE usurped \ {t}
    /\ UNCHANGED <<now, count, poll, closed, faults>>

\* ReseatActiveTurn: the DM gives the row the encounter points at, whatever its
\* status, to c, with a new start, a new timeout and no escalation.  Rounds are
\* left out: the guard that c has no other row in the round is TurnOrder's.
Reseat(t, c) ==
    /\ Room
    /\ Current(t)
    /\ row[t].who # c /\ Table[row[t].who] = Table[c]
    /\ ~row[t].acted
    /\ SeatAt(t, c)
    /\ sent' = [sent EXCEPT ![t] = {}]
    /\ usurped' = IF InHand(t) THEN usurped \cup {t} ELSE usurped \ {t}
    /\ UNCHANGED <<now, count, poll, closed>>

Others ==
    \/ \E c \in Combatants : OpenTurn(c)
    \/ \E t \in Turns : EndTurn(t) \/ ExecuteEnemyTurn(t)
    \/ \E t \in Turns, c \in Combatants : Reseat(t, c)

-----------------------------------------------------------------------------
Next == Tick \/ PollStep \/ Fault \/ Crash \/ Others
Spec == Init /\ [][Next]_vars

\* The ticker fires again and again, and time passes.
FairSpec == Spec /\ WF_vars(PollStep) /\ WF_vars(Tick)

-----------------------------------------------------------------------------
(***************************************************************************)
(* Properties.                                                             *)
(***************************************************************************)
\* The escalation went out to whoever holds the row, unless there is no channel
\* or the DM moved the row under the poller's hands.
Promised(t, stage) ==
    t \in usurped \/ Table[row[t].who] \in Muted \/ stage \in sent[t]

\* An escalation is marked only when its message went out: a crash or a
\* failing message between the two repeats it, and never loses it (sendNudge,
\* sendWarning, sendDMDecisionPrompt mark after they send), and a reseated turn
\* starts its escalation anew.
MarkedWasSent ==
    \A t \in Turns :
        /\ row[t].nudged => Promised(t, "nudge")
        /\ row[t].warned => Promised(t, "warning")
        /\ row[t].deadline # 0 => Promised(t, "prompt")

\* No turn is resolved before the DM was asked to decide about its holder,
\* whatever failures and reseats came in between (processTimeouts,
\* processDMAutoResolves), unless it was reseated in the poller's hands.
ResolvedWasPrompted ==
    \A t \in Turns : row[t].resolved => Promised(t, "prompt")

\* A player is held absent for no more turns than were closed on their behalf,
\* although the count is written from a copy after the turn is closed, and the
\* row may have another holder by then.
AbsenceNotOvercounted == \A c \in Combatants : count[c] <= closed[c]

\* A player has the whole timeout and the DM a whole hour before the timer
\* resolves the turn, however the poller was delayed and however often the row
\* was reseated, unless that happened while the poller had the row in hand: from
\* the list of processDMAutoResolves to UpdateTurnAutoResolved nothing looks at
\* the row again.
Overdue(t) == t \in usurped \/ (row[t].started # 0 /\ now >= row[t].started + Timeout)
Patient(t) == t \in usurped \/ (row[t].started # 0 /\ now >= row[t].started + Timeout + Hour)
FullTime == \A t \in Turns : row[t].resolved => Patient(t)

\* The inductive invariant of Spec: what the poller relies on between two of
\* its statements.
PollerInv ==
    /\ poll.pc \in {"mark", "close"} => poll.turn \in Turns /\ Opened(poll.turn)
    /\ poll.pc = "mark" =>
          /\ poll.stage # "resolve" /\ Promised(poll.turn, poll.stage)
          /\ poll.stage = "prompt" => Overdue(poll.turn)
    /\ \A item \in poll.queue :
          /\ Opened(item.turn)
          /\ poll.stage = "prompt" => Overdue(item.turn)
          /\ poll.stage = "resolve" => Promised(item.turn, "prompt") /\ Patient(item.turn)
    /\ poll.pc = "close" => Promised(poll.turn, "prompt") /\ Patient(poll.turn)
    /\ poll.pc \in {"close", "count"} =>
          poll.who \in Combatants /\ poll.count = count[poll.who]
    /\ poll.pc = "count" => poll.count + 1 <= closed[poll.who]

RowsInv ==
    \A t \in Turns :
        /\ Opened(t) => row[t].who \in Combatants
        /\ ~Opened(t) => row[t] = Fresh("none", Nobody, 0, 0) /\ t \notin usurped
        /\ row[t].timeout # 0 =>
              row[t].started # 0 /\ row[t].timeout = row[t].started + Timeout
        /\ row[t].deadline # 0 /\ t \notin usurped =>
              row[t].started # 0 /\ row[t].deadline >= row[t].started + Timeout + Hour
        /\ row[t].resolved => row[t].status = "completed"

TimerInv ==
    /\ TypeOK
    /\ RowsInv
    /\ PollerInv
    /\ MarkedWasSent
    /\ ResolvedWasPrompted
    /\ AbsenceNotOvercounted
    /\ FullTime

\* No timeout is missed: whatever crashes and failures delayed the poller, an
\* overdue turn gets its DM decision prompt, ends, or gets a new clock.
NoTimeoutMissed ==
    \A t \in Turns :
        (row[t].status = "active" /\ row[t].timeout \in 1..now)
            ~> \/ row[t].deadline # 0 \/ row[t].status # "active"
               \/ row[t].timeout \notin 1..now

\* A turn the DM left undecided for the hour is ended, by its player or by
\* the timer, or reseated.
UndecidedTurnsEnd ==
    \A t \in Turns :
        (row[t].status = "active" /\ row[t].deadline \in 1..Horizon)
            ~> (row[t].status # "active" \/ row[t].deadline = 0)
=============================================================================
