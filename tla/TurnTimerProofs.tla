-------------------------- MODULE TurnTimerProofs --------------------------
(***************************************************************************)
(* What the turn timer guarantees for any combatants, encounters,          *)
(* timeouts, reseats, failures and crashes.                                *)
(***************************************************************************)
EXTENDS TurnTimer, TLAPS

(***************************************************************************)
(* Types.                                                                  *)
(***************************************************************************)
LEMMA FreshIsARow ==
    ASSUME NEW status \in {"none", "active", "completed"},
           NEW c \in Combatants \cup {Nobody}, NEW started \in Nat, NEW timeout \in Nat
    PROVE  Fresh(status, c, started, timeout) \in Row
BY DEF Fresh, Row

LEMMA RowUpdates ==
    ASSUME NEW r \in Row
    PROVE  /\ [r EXCEPT !.nudged = TRUE] \in Row
           /\ [r EXCEPT !.warned = TRUE] \in Row
           /\ \A n \in Nat : [r EXCEPT !.deadline = n] \in Row
           /\ [r EXCEPT !.status = "completed"] \in Row
           /\ [r EXCEPT !.acted = TRUE] \in Row
           /\ [r EXCEPT !.resolved = TRUE, !.status = "completed"] \in Row
BY DEF Row

LEMMA PollsAtRest ==
    ASSUME TypeOK
    PROVE  AtRest \in Poll /\ NextItem \in Poll
<1>1. poll.stage \in Stages /\ poll.queue \in SUBSET Item
    BY DEF TypeOK, Poll
<1> QED
    BY <1>1 DEF AtRest, NextItem, Poll, Stages

LEMMA ListedIsAPoll ==
    ASSUME TypeOK, NEW stage \in Stages
    PROVE  /\ Listed(stage) \in Poll
           /\ Listed(stage).pc = "next" /\ Listed(stage).stage = stage
           /\ \A item \in Listed(stage).queue :
                 item.turn \in Turns /\ Due(stage, row[item.turn])
<1>1. \A t \in Turns : [turn |-> t, due |-> Rank(stage, row[t])] \in Item
    BY DEF TypeOK, Rank, Item, Row
<1>2. {[turn |-> t, due |-> Rank(stage, row[t])] : t \in {u \in Turns : Due(stage, row[u])}}
         \in SUBSET Item
    BY <1>1
<1> DEFINE list == {[turn |-> t, due |-> Rank(stage, row[t])] :
                      t \in {u \in Turns : Due(stage, row[u])}}
<1>3. \A item \in list : item.turn \in Turns /\ Due(stage, row[item.turn])
    OBVIOUS
<1>4. Listed(stage) = [AtRest EXCEPT !.pc = "next", !.stage = stage, !.queue = list]
    BY DEF Listed
<1>5. list \in SUBSET Item
    BY <1>2
<1> HIDE DEF list
<1>6. Listed(stage) = [pc |-> "next", stage |-> stage, queue |-> list, turn |-> 0,
                       who |-> Nobody, count |-> 0]
    BY <1>4 DEF AtRest
<1> QED
    BY <1>3, <1>5, <1>6 DEF Poll

LEMMA ItemsNameTurns ==
    ASSUME TypeOK, NEW item \in poll.queue
    PROVE  item.turn \in Turns /\ item \in Item
BY DEF TypeOK, Poll, Item

LEMMA PollMoves ==
    ASSUME TypeOK, NEW item \in poll.queue, NEW pc \in {"next", "mark"}, Move(pc, item)
    PROVE  /\ poll' \in Poll
           /\ poll'.pc = pc /\ poll'.turn = item.turn
           /\ poll'.stage = poll.stage /\ poll'.queue = poll.queue \ {item}
<1>1. poll \in Poll /\ item.turn \in Turns
    BY ItemsNameTurns DEF TypeOK
<1> QED
    BY <1>1 DEF Move, Poll

(***************************************************************************)
(* The initial state.                                                      *)
(***************************************************************************)
LEMMA TimerInitially == Init => TimerInv
<1> SUFFICES ASSUME Init PROVE TimerInv
    OBVIOUS
<1> USE TimerAssumption, CombatantsAssumption DEF Init
<1>1. \A t \in Turns : row[t] = Fresh("none", Nobody, 0, 0)
    OBVIOUS
<1>2. \A t \in Turns : /\ row[t].status = "none" /\ ~row[t].resolved /\ ~row[t].nudged
                       /\ ~row[t].warned /\ row[t].deadline = 0 /\ row[t].timeout = 0
    BY <1>1 DEF Fresh
<1>3. TypeOK
    BY FreshIsARow DEF TypeOK, AtRest, Poll, Stages
<1>4. RowsInv
    BY <1>1, <1>2 DEF RowsInv, Opened
<1>5. PollerInv
    BY DEF PollerInv, AtRest
<1>6. MarkedWasSent /\ ResolvedWasPrompted /\ FullTime
    BY <1>2 DEF MarkedWasSent, ResolvedWasPrompted, FullTime
<1>7. AbsenceNotOvercounted
    BY DEF AbsenceNotOvercounted
<1> QED
    BY <1>3, <1>4, <1>5, <1>6, <1>7 DEF TimerInv

(***************************************************************************)
(* Steps that leave the turns table alone.                                 *)
(***************************************************************************)
LEMMA RowsUntouched ==
    ASSUME TimerInv, TypeOK', PollerInv', UNCHANGED <<row, count, usurped, closed>>,
           now' >= now, \A t \in Turns : sent[t] \subseteq sent'[t]
    PROVE  TimerInv'
<1>0. RowsInv /\ MarkedWasSent /\ ResolvedWasPrompted /\ AbsenceNotOvercounted /\ FullTime
    BY DEF TimerInv
<1>1. now \in Nat /\ now' \in Nat /\ \A t \in Turns : row[t].started \in Nat
    BY DEF TimerInv, TypeOK, Row
<1>2. RowsInv'
    BY <1>0 DEF RowsInv, Opened
<1>3. MarkedWasSent' /\ ResolvedWasPrompted'
    BY <1>0 DEF MarkedWasSent, ResolvedWasPrompted, Promised
<1>4. AbsenceNotOvercounted'
    BY <1>0 DEF AbsenceNotOvercounted
<1>5. FullTime'
    BY <1>0, <1>1, TimerAssumption DEF FullTime, Patient
<1> QED
    BY <1>2, <1>3, <1>4, <1>5 DEF TimerInv

LEMMA TickKeepsInvariant == TimerInv /\ Tick => TimerInv'
<1> SUFFICES ASSUME TimerInv, Tick PROVE TimerInv'
    OBVIOUS
<1>0. TypeOK /\ PollerInv
    BY DEF TimerInv
<1>1. TypeOK'
    BY <1>0 DEF Tick, TypeOK, history
<1>2. \A t \in Turns : row[t].started \in Nat /\ now \in Nat
    BY <1>0 DEF TypeOK, Row
<1>3. \A item \in poll.queue : item.turn \in Turns
    BY <1>0, ItemsNameTurns
<1>4. \A t \in Turns : (Overdue(t) => Overdue(t)') /\ (Patient(t) => Patient(t)')
    BY <1>2, TimerAssumption DEF Overdue, Patient, Tick, history
<1>5. \A t \in Turns, s \in Stages : Promised(t, s) => Promised(t, s)'
    BY DEF Promised, Tick, history
<1>6. poll.stage \in Stages /\ "prompt" \in Stages
    BY <1>0 DEF TypeOK, Poll, Stages
<1>7. PollerInv'
    BY <1>0, <1>3, <1>4, <1>5, <1>6 DEF PollerInv, Tick, history, Opened
<1> QED
    BY <1>0, <1>1, <1>7, RowsUntouched DEF Tick, history, TypeOK

LEMMA AskKeepsInvariant == TimerInv /\ Ask => TimerInv'
<1> SUFFICES ASSUME TimerInv, Ask PROVE TimerInv'
    OBVIOUS
<1>0. TypeOK /\ RowsInv /\ MarkedWasSent
    BY DEF TimerInv
<1>1. PICK stage \in Stages : poll' = Listed(stage)
    BY <1>0 DEF Ask, After, Stages, TypeOK, Poll
<1>2. /\ poll' \in Poll /\ poll'.pc = "next" /\ poll'.stage = stage
      /\ \A item \in poll'.queue : item.turn \in Turns /\ Due(stage, row[item.turn])
    BY <1>0, <1>1, ListedIsAPoll
<1>3. TypeOK'
    BY <1>0, <1>2 DEF Ask, TypeOK, history
<1>4. now \in Nat /\ \A t \in Turns : /\ row[t].started \in Nat /\ row[t].timeout \in Nat
                                      /\ row[t].deadline \in Nat
    BY <1>0 DEF TypeOK, Row
<1>5. \A t \in Turns : Due(stage, row[t]) =>
         /\ Opened(t)
         /\ stage = "prompt" => Overdue(t)
         /\ stage = "resolve" => Promised(t, "prompt") /\ Patient(t)
    <2> SUFFICES ASSUME NEW t \in Turns, Due(stage, row[t])
                 PROVE  /\ Opened(t)
                        /\ stage = "prompt" => Overdue(t)
                        /\ stage = "resolve" => Promised(t, "prompt") /\ Patient(t)
        OBVIOUS
    <2>1. Opened(t)
        BY DEF Due, Opened
    <2>2. stage = "prompt" => Overdue(t)
        BY <1>0, <1>4 DEF Due, RowsInv, Overdue
    <2>3. stage = "resolve" => row[t].deadline # 0 /\ now >= row[t].deadline
        BY DEF Due
    <2>4. stage = "resolve" => Patient(t)
        BY <1>0, <1>4, <2>3, TimerAssumption DEF RowsInv, Patient
    <2>5. stage = "resolve" => Promised(t, "prompt")
        BY <1>0, <2>3 DEF MarkedWasSent
    <2> QED BY <2>1, <2>2, <2>4, <2>5
<1>6. PollerInv'
    BY <1>2, <1>5 DEF PollerInv, Ask, history, Opened, Overdue, Patient, Promised
<1> QED
    BY <1>3, <1>4, <1>6, RowsUntouched DEF Ask, history

LEMMA EndPollKeepsInvariant == TimerInv /\ EndPoll => TimerInv'
<1> SUFFICES ASSUME TimerInv, EndPoll PROVE TimerInv'
    OBVIOUS
<1>0. TypeOK
    BY DEF TimerInv
<1>1. TypeOK'
    BY <1>0, PollsAtRest DEF EndPoll, TypeOK, history
<1>2. PollerInv'
    BY DEF EndPoll, PollerInv, AtRest
<1> QED
    BY <1>0, <1>1, <1>2, RowsUntouched DEF EndPoll, history, TypeOK

LEMMA SendKeepsInvariant ==
    ASSUME TimerInv, NEW item \in poll.queue, Send(item)
    PROVE  TimerInv'
<1>0. TypeOK /\ PollerInv
    BY DEF TimerInv
<1>1. item.turn \in Turns
    BY <1>0, ItemsNameTurns
<1>2. /\ poll' \in Poll /\ poll'.pc = "mark" /\ poll'.turn = item.turn
      /\ poll'.stage = poll.stage /\ poll'.queue = poll.queue \ {item}
      /\ poll.stage # "resolve"
    BY <1>0, PollMoves DEF Send
<1>3. poll.stage \in {"nudge", "warning", "prompt"}
    BY <1>0, <1>2 DEF TypeOK, Poll, Stages
<1>4. sent' \in [Turns -> SUBSET {"nudge", "warning", "prompt"}]
    BY <1>0, <1>1, <1>3 DEF Send, TypeOK
<1>5. TypeOK'
    BY <1>0, <1>2, <1>4 DEF Send, TypeOK
<1>6. \A t \in Turns : sent[t] \subseteq sent'[t]
    BY <1>0, <1>1 DEF Send, TypeOK
<1>7. Promised(item.turn, poll.stage)'
    BY <1>0, <1>1, <1>2 DEF Send, Promised, TypeOK
<1>8. PollerInv'
    BY <1>0, <1>1, <1>2, <1>7 DEF PollerInv, Send, Opened, Overdue
<1> QED
    BY <1>0, <1>5, <1>6, <1>8, RowsUntouched DEF Send, TypeOK

LEMMA LookKeepsInvariant ==
    ASSUME TimerInv, NEW item \in poll.queue, Look(item)
    PROVE  TimerInv'
<1>0. TypeOK /\ PollerInv /\ RowsInv
    BY DEF TimerInv
<1>1. item.turn \in Turns /\ row[item.turn].who \in Combatants
    BY <1>0, ItemsNameTurns DEF PollerInv, RowsInv
<1>2. count[row[item.turn].who] \in Nat
    BY <1>0, <1>1 DEF TypeOK
<1>3. /\ poll' \in Poll /\ poll'.pc = "close" /\ poll'.turn = item.turn
      /\ poll.stage = "resolve" /\ poll'.stage = "resolve"
      /\ poll'.queue = poll.queue \ {item}
      /\ poll'.who = row[item.turn].who /\ poll'.count = count[poll'.who]
    BY <1>0, <1>1, <1>2 DEF Look, Poll, TypeOK
<1>4. TypeOK'
    BY <1>0, <1>3 DEF Look, TypeOK, history
<1>5. PollerInv'
    BY <1>0, <1>1, <1>3 DEF PollerInv, Look, history, Opened, Promised, Patient
<1> QED
    BY <1>0, <1>4, <1>5, RowsUntouched DEF Look, history, TypeOK

\* A poll that gives up: what is left on its list is unchanged.
LEMMA GivingUp ==
    ASSUME TimerInv, TypeOK', UNCHANGED <<now, row, count, history>>,
           poll'.pc \in {"next", "idle"},
           poll'.queue \subseteq poll.queue,
           poll'.queue = {} \/ poll'.stage = poll.stage
    PROVE  TimerInv'
<1>0. TypeOK /\ PollerInv
    BY DEF TimerInv
<1>1. PollerInv'
    BY <1>0 DEF PollerInv, history, Opened, Promised, Patient, Overdue
<1> QED
    BY <1>0, <1>1, RowsUntouched DEF history, TypeOK

LEMMA FaultKeepsInvariant == TimerInv /\ Fault => TimerInv'
<1> SUFFICES ASSUME TimerInv, Fault PROVE TimerInv'
    OBVIOUS
<1>0. TypeOK /\ faults' \in 0..MaxFaults
    BY TimerAssumption DEF TimerInv, TypeOK, Fault
<1>1. /\ poll' \in Poll /\ poll'.pc \in {"next", "idle"} /\ poll'.queue \subseteq poll.queue
      /\ poll'.queue = {} \/ poll'.stage = poll.stage
    <2>1. CASE \E item \in poll.queue : First(item) /\ Move("next", item)
        BY <1>0, <2>1, PollMoves
    <2>2. CASE poll' = NextItem
        BY <1>0, <2>2, PollsAtRest DEF NextItem, AtRest
    <2>3. CASE poll' = AtRest
        BY <1>0, <2>3, PollsAtRest DEF AtRest
    <2> QED BY <2>1, <2>2, <2>3 DEF Fault
<1>2. TypeOK'
    BY <1>0, <1>1 DEF Fault, TypeOK, history
<1> QED
    BY <1>1, <1>2, GivingUp DEF Fault

LEMMA CrashKeepsInvariant == TimerInv /\ Crash => TimerInv'
<1> SUFFICES ASSUME TimerInv, Crash PROVE TimerInv'
    OBVIOUS
<1>0. TypeOK /\ faults' \in 0..MaxFaults
    BY TimerAssumption DEF TimerInv, TypeOK, Crash
<1>1. /\ poll' \in Poll /\ poll'.pc \in {"next", "idle"} /\ poll'.queue \subseteq poll.queue
      /\ poll'.queue = {}
    BY <1>0, PollsAtRest DEF Crash, AtRest
<1>2. TypeOK'
    BY <1>0, <1>1 DEF Crash, TypeOK, history
<1> QED
    BY <1>1, <1>2, GivingUp DEF Crash

(***************************************************************************)
(* Steps of the poller that write a row or a count.                        *)
(***************************************************************************)
LEMMA MarkKeepsInvariant == TimerInv /\ Mark => TimerInv'
<1> SUFFICES ASSUME TimerInv, Mark PROVE TimerInv'
    OBVIOUS
<1> USE TimerAssumption
<1>0. /\ TypeOK /\ RowsInv /\ PollerInv /\ MarkedWasSent /\ ResolvedWasPrompted
      /\ AbsenceNotOvercounted /\ FullTime
    BY DEF TimerInv
<1>1. /\ poll.turn \in Turns /\ Opened(poll.turn) /\ poll.stage # "resolve"
      /\ Promised(poll.turn, poll.stage)
      /\ poll.stage = "prompt" => Overdue(poll.turn)
    BY <1>0 DEF PollerInv, Mark
<1>2. now \in Nat /\ row \in [Turns -> Row] /\ row[poll.turn] \in Row /\ now + Hour \in Nat
    BY <1>0, <1>1 DEF TypeOK
<1>3. \A t \in Turns : row[t].started \in Nat /\ row[t].deadline \in Nat
    BY <1>2 DEF Row
<1>4. Marked(row[poll.turn]) \in Row
    BY <1>2, RowUpdates DEF Marked
<1>5. poll'.pc = "next" /\ poll'.stage = poll.stage /\ poll'.queue = poll.queue /\ poll' \in Poll
    BY <1>0, PollsAtRest DEF Mark, NextItem, AtRest
<1>6. TypeOK'
    BY <1>0, <1>1, <1>2, <1>4, <1>5 DEF Mark, TypeOK, history
<1>7. \A t \in Turns :
        /\ row'[t].who = row[t].who /\ row'[t].status = row[t].status
        /\ row'[t].resolved = row[t].resolved
        /\ row'[t].started = row[t].started /\ row'[t].timeout = row[t].timeout
        /\ t # poll.turn => row'[t] = row[t]
    BY <1>1, <1>2 DEF Mark, Marked, Row
<1>8. /\ row'[poll.turn].nudged => row[poll.turn].nudged \/ poll.stage = "nudge"
      /\ row'[poll.turn].warned => row[poll.turn].warned \/ poll.stage = "warning"
      /\ \/ row'[poll.turn].deadline = row[poll.turn].deadline
         \/ poll.stage = "prompt" /\ row'[poll.turn].deadline = now + Hour
    BY <1>0, <1>1, <1>2 DEF Mark, Marked, Row, TypeOK, Poll, Stages
<1>9. \A t \in Turns, s \in Stages : Promised(t, s)' <=> Promised(t, s)
    BY <1>7 DEF Promised, Mark, history
<1>10. \A t \in Turns : (Overdue(t)' <=> Overdue(t)) /\ (Patient(t)' <=> Patient(t))
    BY <1>7 DEF Overdue, Patient, Mark, history
<1>11. RowsInv'
    <2> SUFFICES ASSUME NEW t \in Turns
                 PROVE  (/\ Opened(t) => row[t].who \in Combatants
                         /\ ~Opened(t) => row[t] = Fresh("none", Nobody, 0, 0) /\ t \notin usurped
                         /\ row[t].timeout # 0 =>
                              row[t].started # 0 /\ row[t].timeout = row[t].started + Timeout
                         /\ row[t].deadline # 0 /\ t \notin usurped =>
                              row[t].started # 0 /\ row[t].deadline >= row[t].started + Timeout + Hour
                         /\ row[t].resolved => row[t].status = "completed")'
        BY DEF RowsInv
    <2>1. CASE t # poll.turn
        BY <1>0, <1>7, <2>1 DEF RowsInv, Opened, Mark, history
    <2>2. CASE t = poll.turn
        <3>1. row'[t].deadline # 0 /\ t \notin usurped =>
                 row[t].started # 0 /\ row'[t].deadline >= row[t].started + Timeout + Hour
            BY <1>0, <1>1, <1>2, <1>3, <1>8, <2>2 DEF RowsInv, Overdue
        <3> QED BY <1>0, <1>1, <1>7, <2>2, <3>1 DEF RowsInv, Opened, Mark, history
    <2> QED BY <2>1, <2>2
<1>12. \A item \in poll.queue : item.turn \in Turns
    BY <1>0, ItemsNameTurns
<1>13. PollerInv'
    BY <1>0, <1>5, <1>7, <1>9, <1>10, <1>12 DEF PollerInv, Opened, Stages
<1>14. MarkedWasSent'
    BY <1>0, <1>1, <1>7, <1>8, <1>9 DEF MarkedWasSent, Stages
<1>15. ResolvedWasPrompted' /\ FullTime'
    BY <1>0, <1>7, <1>9, <1>10 DEF ResolvedWasPrompted, FullTime, Stages
<1>16. AbsenceNotOvercounted'
    BY <1>0 DEF AbsenceNotOvercounted, Mark, history
<1> QED
    BY <1>6, <1>11, <1>13, <1>14, <1>15, <1>16 DEF TimerInv

LEMMA CloseKeepsInvariant == TimerInv /\ Close => TimerInv'
<1> SUFFICES ASSUME TimerInv, Close PROVE TimerInv'
    OBVIOUS
<1>0. /\ TypeOK /\ RowsInv /\ PollerInv /\ MarkedWasSent /\ ResolvedWasPrompted
      /\ AbsenceNotOvercounted /\ FullTime
    BY DEF TimerInv
<1>1. /\ poll.turn \in Turns /\ Opened(poll.turn)
      /\ Promised(poll.turn, "prompt") /\ Patient(poll.turn)
      /\ poll.who \in Combatants /\ poll.count = count[poll.who]
    BY <1>0 DEF PollerInv, Close
<1>2. row \in [Turns -> Row] /\ count[poll.who] \in Nat /\ closed[poll.who] \in Nat
    BY <1>0, <1>1 DEF TypeOK
<1>3. /\ poll'.pc = "count" /\ poll'.turn = poll.turn /\ poll'.stage = poll.stage
      /\ poll'.queue = poll.queue /\ poll'.who = poll.who /\ poll'.count = poll.count
      /\ poll' \in Poll
    BY <1>0 DEF Close, TypeOK, Poll
<1>4. TypeOK'
    <2>1. row' = [row EXCEPT ![poll.turn] =
                    [row[poll.turn] EXCEPT !.resolved = TRUE, !.status = "completed"]]
        BY <1>1, <1>2 DEF Close
    <2>2. [row[poll.turn] EXCEPT !.resolved = TRUE, !.status = "completed"] \in Row
        BY <1>1, <1>2, RowUpdates
    <2>3. row' \in [Turns -> Row]
        BY <1>1, <1>2, <2>1, <2>2
    <2>4. closed' \in [Combatants -> Nat]
        BY <1>0, <1>1, <1>2 DEF Close, TypeOK
    <2> QED BY <1>0, <1>3, <2>3, <2>4 DEF Close, TypeOK
<1>5. \A t \in Turns :
        /\ row'[t].who = row[t].who /\ row'[t].nudged = row[t].nudged
        /\ row'[t].warned = row[t].warned /\ row'[t].deadline = row[t].deadline
        /\ row'[t].started = row[t].started /\ row'[t].timeout = row[t].timeout
        /\ t # poll.turn => row'[t] = row[t]
    BY <1>1, <1>2 DEF Close, Row
<1>6. row'[poll.turn].resolved /\ row'[poll.turn].status = "completed"
    BY <1>1, <1>2 DEF Close, Row
<1>7. \A t \in Turns, s \in Stages : Promised(t, s)' <=> Promised(t, s)
    BY <1>5 DEF Promised, Close
<1>8. \A t \in Turns : (Overdue(t)' <=> Overdue(t)) /\ (Patient(t)' <=> Patient(t))
    BY <1>5 DEF Overdue, Patient, Close
<1>9. RowsInv'
    <2> SUFFICES ASSUME NEW t \in Turns
                 PROVE  (/\ Opened(t) => row[t].who \in Combatants
                         /\ ~Opened(t) => row[t] = Fresh("none", Nobody, 0, 0) /\ t \notin usurped
                         /\ row[t].timeout # 0 =>
                              row[t].started # 0 /\ row[t].timeout = row[t].started + Timeout
                         /\ row[t].deadline # 0 /\ t \notin usurped =>
                              row[t].started # 0 /\ row[t].deadline >= row[t].started + Timeout + Hour
                         /\ row[t].resolved => row[t].status = "completed")'
        BY DEF RowsInv
    <2>1. UNCHANGED usurped
        BY DEF Close
    <2>2. CASE t # poll.turn
        BY <1>0, <1>5, <2>1, <2>2 DEF RowsInv, Opened
    <2>3. CASE t = poll.turn
        BY <1>0, <1>1, <1>5, <1>6, <2>1, <2>3 DEF RowsInv, Opened
    <2> QED BY <2>2, <2>3
<1>10. \A item \in poll.queue : item.turn \in Turns
    BY <1>0, ItemsNameTurns
<1>11. poll'.count + 1 <= closed'[poll'.who]
    BY <1>0, <1>1, <1>2, <1>3 DEF Close, AbsenceNotOvercounted, TypeOK
<1>12. PollerInv'
    <2>1. \A t \in Turns : Opened(t) => Opened(t)'
        BY <1>5, <1>6 DEF Opened
    <2>2. (\A item \in poll.queue :
             /\ Opened(item.turn)
             /\ poll.stage = "prompt" => Overdue(item.turn)
             /\ poll.stage = "resolve" => Promised(item.turn, "prompt") /\ Patient(item.turn))'
        BY <1>0, <1>3, <1>7, <1>8, <1>10, <2>1 DEF PollerInv, Stages
    <2>3. (poll.who \in Combatants /\ poll.count = count[poll.who])'
        BY <1>1, <1>3 DEF Close
    <2> QED BY <1>3, <1>11, <2>2, <2>3 DEF PollerInv
<1>13. MarkedWasSent'
    BY <1>0, <1>5, <1>7 DEF MarkedWasSent, Stages
<1>14. ResolvedWasPrompted' /\ FullTime'
    BY <1>0, <1>1, <1>5, <1>7, <1>8 DEF ResolvedWasPrompted, FullTime, Stages
<1>15. AbsenceNotOvercounted'
    BY <1>0, <1>1, <1>2 DEF AbsenceNotOvercounted, Close, TypeOK
<1> QED
    BY <1>4, <1>9, <1>12, <1>13, <1>14, <1>15 DEF TimerInv

LEMMA CountKeepsInvariant == TimerInv /\ Count => TimerInv'
<1> SUFFICES ASSUME TimerInv, Count PROVE TimerInv'
    OBVIOUS
<1>0. /\ TypeOK /\ RowsInv /\ PollerInv /\ MarkedWasSent /\ ResolvedWasPrompted
      /\ AbsenceNotOvercounted /\ FullTime
    BY DEF TimerInv
<1>1. poll.who \in Combatants /\ poll.count + 1 <= closed[poll.who] /\ poll.count \in Nat
    BY <1>0 DEF PollerInv, Count, TypeOK, Poll
<1>2. poll' \in Poll /\ poll'.pc = "next" /\ poll'.stage = poll.stage /\ poll'.queue = poll.queue
    BY <1>0, PollsAtRest DEF Count, NextItem, AtRest
<1>3. TypeOK'
    BY <1>0, <1>1, <1>2 DEF Count, TypeOK, history
<1>4. RowsInv' /\ MarkedWasSent' /\ ResolvedWasPrompted' /\ FullTime'
    BY <1>0 DEF Count, history, RowsInv, MarkedWasSent, ResolvedWasPrompted, FullTime,
                Opened, Promised, Patient
<1>5. PollerInv'
    BY <1>0, <1>2 DEF PollerInv, Count, history, Opened, Promised, Patient, Overdue
<1>6. AbsenceNotOvercounted'
    BY <1>0, <1>1 DEF AbsenceNotOvercounted, Count, history, TypeOK
<1> QED
    BY <1>3, <1>4, <1>5, <1>6 DEF TimerInv

(***************************************************************************)
(* Steps of the others: a row goes on as it was, or is seated anew, and in *)
(* the latter case it is usurped if the poller has it in hand.             *)
(***************************************************************************)
GoesOn(t) ==
    /\ row'[t].who = row[t].who /\ row'[t].started = row[t].started
    /\ row'[t].timeout = row[t].timeout /\ row'[t].nudged = row[t].nudged
    /\ row'[t].warned = row[t].warned /\ row'[t].deadline = row[t].deadline
    /\ row'[t].resolved = row[t].resolved
    /\ row'[t].resolved => row'[t].status = "completed"
    /\ Opened(t)' <=> Opened(t)
    /\ ~Opened(t) => row'[t] = row[t]
    /\ sent'[t] = sent[t]
    /\ t \in usurped' <=> t \in usurped

SeatedAnew(t) ==
    /\ \E c \in Combatants, s \in Nat, e \in Nat :
          /\ row'[t] = Fresh("active", c, s, e)
          /\ e # 0 => s # 0 /\ e = s + Timeout
    /\ InHand(t) => t \in usurped'

LEMMA OthersKeepPoller ==
    ASSUME TimerInv, TypeOK', UNCHANGED <<now, count, poll, closed>>,
           \A t \in Turns : GoesOn(t) \/ SeatedAnew(t)
    PROVE  TimerInv'
<1>0. /\ TypeOK /\ RowsInv /\ PollerInv /\ MarkedWasSent /\ ResolvedWasPrompted
      /\ AbsenceNotOvercounted /\ FullTime
    BY DEF TimerInv
<1>1. \A t \in Turns : SeatedAnew(t) =>
         /\ row'[t].who \in Combatants /\ row'[t].status = "active" /\ ~row'[t].resolved
         /\ ~row'[t].nudged /\ ~row'[t].warned /\ row'[t].deadline = 0
         /\ row'[t].timeout # 0 =>
               row'[t].started # 0 /\ row'[t].timeout = row'[t].started + Timeout
    BY DEF SeatedAnew, Fresh
<1>2. \A t \in Turns : GoesOn(t) =>
         /\ \A s \in Stages : Promised(t, s)' <=> Promised(t, s)
         /\ Overdue(t)' <=> Overdue(t)
         /\ Patient(t)' <=> Patient(t)
    BY DEF GoesOn, Promised, Overdue, Patient
<1>3. RowsInv'
    <2> SUFFICES ASSUME NEW t \in Turns
                 PROVE  (/\ Opened(t) => row[t].who \in Combatants
                         /\ ~Opened(t) => row[t] = Fresh("none", Nobody, 0, 0) /\ t \notin usurped
                         /\ row[t].timeout # 0 =>
                              row[t].started # 0 /\ row[t].timeout = row[t].started + Timeout
                         /\ row[t].deadline # 0 /\ t \notin usurped =>
                              row[t].started # 0 /\ row[t].deadline >= row[t].started + Timeout + Hour
                         /\ row[t].resolved => row[t].status = "completed")'
        BY DEF RowsInv
    <2>1. CASE GoesOn(t)
        BY <1>0, <2>1 DEF RowsInv, GoesOn, Opened
    <2>2. CASE SeatedAnew(t)
        BY <1>1, <2>2 DEF Opened
    <2> QED BY <2>1, <2>2
<1>4. MarkedWasSent' /\ ResolvedWasPrompted' /\ FullTime'
    <2> SUFFICES ASSUME NEW t \in Turns
                 PROVE  /\ row'[t].nudged => Promised(t, "nudge")'
                        /\ row'[t].warned => Promised(t, "warning")'
                        /\ row'[t].deadline # 0 => Promised(t, "prompt")'
                        /\ row'[t].resolved => Promised(t, "prompt")' /\ Patient(t)'
        BY DEF MarkedWasSent, ResolvedWasPrompted, FullTime
    <2>1. CASE GoesOn(t)
        BY <1>0, <1>2, <2>1 DEF MarkedWasSent, ResolvedWasPrompted, FullTime, GoesOn, Stages
    <2>2. CASE SeatedAnew(t)
        BY <1>1, <2>2
    <2> QED BY <2>1, <2>2
<1>5. ASSUME NEW t \in Turns, InHand(t), Opened(t)
      PROVE  /\ Opened(t)'
             /\ \A s \in Stages : Promised(t, s) => Promised(t, s)'
             /\ Overdue(t) => Overdue(t)'
             /\ Patient(t) => Patient(t)'
    <2>1. CASE GoesOn(t)
        BY <1>2, <1>5, <2>1 DEF GoesOn
    <2>2. CASE SeatedAnew(t)
        <3>1. t \in usurped' /\ row'[t].status = "active"
            BY <1>1, <1>5, <2>2 DEF SeatedAnew
        <3> QED BY <3>1 DEF Opened, Promised, Overdue, Patient
    <2> QED BY <2>1, <2>2
<1>6. \A item \in poll.queue : item.turn \in Turns /\ InHand(item.turn)
    BY <1>0, ItemsNameTurns DEF InHand
<1>7. poll.pc \in {"mark", "close"} => InHand(poll.turn)
    BY DEF InHand
<1>8. poll.stage \in Stages /\ "prompt" \in Stages
    BY <1>0 DEF TypeOK, Poll, Stages
<1>9. PollerInv'
    BY <1>0, <1>5, <1>6, <1>7, <1>8 DEF PollerInv
<1>10. AbsenceNotOvercounted'
    BY <1>0 DEF AbsenceNotOvercounted
<1> QED
    BY <1>3, <1>4, <1>9, <1>10 DEF TimerInv

LEMMA SeatingIsTyped ==
    ASSUME TypeOK, NEW t \in Turns, NEW c \in Combatants, SeatAt(t, c)
    PROVE  /\ row' \in [Turns -> Row] /\ faults' \in 0..MaxFaults
           /\ \A u \in Turns \ {t} : row'[u] = row[u]
           /\ \E s \in Nat, e \in Nat : /\ row'[t] = Fresh("active", c, s, e)
                                        /\ e # 0 => s # 0 /\ e = s + Timeout
<1> USE TimerAssumption
<1>1. now \in Nat \ {0} /\ now + Timeout \in Nat /\ row \in [Turns -> Row]
    BY DEF TypeOK
<1>2. PICK s \in Nat, e \in Nat :
         /\ row' = [row EXCEPT ![t] = Fresh("active", c, s, e)]
         /\ e # 0 => s # 0 /\ e = s + Timeout
    BY <1>1 DEF SeatAt
<1>3. faults' \in 0..MaxFaults
    BY DEF SeatAt, TypeOK
<1>4. Fresh("active", c, s, e) \in Row
    BY FreshIsARow
<1> QED
    BY <1>1, <1>2, <1>3, <1>4

LEMMA OthersKeepInvariant == TimerInv /\ Others => TimerInv'
<1> SUFFICES ASSUME TimerInv, Others PROVE TimerInv'
    OBVIOUS
<1>0. TypeOK /\ RowsInv
    BY DEF TimerInv
<1>1. row \in [Turns -> Row]
    BY <1>0 DEF TypeOK
<1>2. ASSUME NEW t \in Turns, UNCHANGED <<sent, usurped>>, row'[t] = row[t]
      PROVE  GoesOn(t)
    BY <1>0, <1>2 DEF GoesOn, RowsInv, Opened
<1>3. ASSUME NEW c \in Combatants, OpenTurn(c) PROVE TimerInv'
    <2>1. PICK t \in Turns : ~Opened(t) /\ SeatAt(t, c)
        BY <1>3 DEF OpenTurn
    <2>2. /\ row' \in [Turns -> Row] /\ faults' \in 0..MaxFaults
          /\ \A u \in Turns \ {t} : row'[u] = row[u]
          /\ \E s \in Nat, e \in Nat : /\ row'[t] = Fresh("active", c, s, e)
                                       /\ e # 0 => s # 0 /\ e = s + Timeout
        BY <1>0, <2>1, SeatingIsTyped
    <2>3. TypeOK'
        BY <1>0, <1>3, <2>2 DEF OpenTurn, TypeOK, history
    <2>4. ~InHand(t)
        BY <2>1, TimerInv DEF TimerInv, PollerInv, InHand
    <2>5. SeatedAnew(t)
        BY <2>2, <2>4 DEF SeatedAnew
    <2>6. \A u \in Turns \ {t} : GoesOn(u)
        BY <1>2, <1>3, <2>2 DEF OpenTurn, history
    <2> QED BY <1>3, <2>3, <2>5, <2>6, OthersKeepPoller DEF OpenTurn, history
<1>4. ASSUME NEW t \in Turns, EndTurn(t) PROVE TimerInv'
    <2>1. row' = [row EXCEPT ![t].status = "completed"] /\ Opened(t)
        BY <1>4 DEF EndTurn, Current
    <2>2. TypeOK'
        <3>1. row' = [row EXCEPT ![t] = [row[t] EXCEPT !.status = "completed"]]
            BY <1>1, <2>1
        <3>2. [row[t] EXCEPT !.status = "completed"] \in Row
            BY <1>1, RowUpdates
        <3>3. row' \in [Turns -> Row]
            BY <1>1, <3>1, <3>2
        <3> QED BY <1>0, <1>4, <3>3 DEF EndTurn, TypeOK, history
    <2>3. GoesOn(t)
        BY <1>1, <1>4, <2>1 DEF EndTurn, history, GoesOn, Opened, Row
    <2>4. \A u \in Turns \ {t} : GoesOn(u)
        BY <1>1, <1>2, <1>4, <2>1 DEF EndTurn, history
    <2> QED BY <1>4, <2>2, <2>3, <2>4, OthersKeepPoller DEF EndTurn, history
<1>5. ASSUME NEW t \in Turns, ExecuteEnemyTurn(t) PROVE TimerInv'
    <2>1. row' = [row EXCEPT ![t].acted = TRUE] /\ row[t].status = "active"
        BY <1>5 DEF ExecuteEnemyTurn
    <2>2. TypeOK'
        <3>1. row' = [row EXCEPT ![t] = [row[t] EXCEPT !.acted = TRUE]]
            BY <1>1, <2>1
        <3>2. [row[t] EXCEPT !.acted = TRUE] \in Row
            BY <1>1, RowUpdates
        <3>3. row' \in [Turns -> Row]
            BY <1>1, <3>1, <3>2
        <3> QED BY <1>0, <1>5, <3>3 DEF ExecuteEnemyTurn, TypeOK, history
    <2>3. GoesOn(t)
        BY <1>0, <1>1, <1>5, <2>1
        DEF ExecuteEnemyTurn, history, GoesOn, Opened, Row, RowsInv
    <2>4. \A u \in Turns \ {t} : GoesOn(u)
        BY <1>1, <1>2, <1>5, <2>1 DEF ExecuteEnemyTurn, history
    <2> QED BY <1>5, <2>2, <2>3, <2>4, OthersKeepPoller DEF ExecuteEnemyTurn, history
<1>6. ASSUME NEW t \in Turns, NEW c \in Combatants, Reseat(t, c) PROVE TimerInv'
    <2>1. /\ row' \in [Turns -> Row] /\ faults' \in 0..MaxFaults
          /\ \A u \in Turns \ {t} : row'[u] = row[u]
          /\ \E s \in Nat, e \in Nat : /\ row'[t] = Fresh("active", c, s, e)
                                       /\ e # 0 => s # 0 /\ e = s + Timeout
        BY <1>0, <1>6, SeatingIsTyped DEF Reseat
    <2>2. TypeOK'
        BY <1>0, <1>6, <2>1 DEF Reseat, TypeOK
    <2>3. SeatedAnew(t)
        BY <1>6, <2>1 DEF Reseat, SeatedAnew
    <2>4. \A u \in Turns \ {t} :
             sent'[u] = sent[u] /\ (u \in usurped' <=> u \in usurped)
        BY <1>0, <1>6 DEF Reseat, TypeOK
    <2>5. \A u \in Turns \ {t} : GoesOn(u)
        BY <1>0, <2>1, <2>4 DEF GoesOn, RowsInv, Opened
    <2> QED BY <1>6, <2>2, <2>3, <2>5, OthersKeepPoller DEF Reseat
<1> QED
    BY <1>3, <1>4, <1>5, <1>6 DEF Others

LEMMA StutterKeepsInvariant == TimerInv /\ UNCHANGED vars => TimerInv'
<1> SUFFICES ASSUME TimerInv, UNCHANGED vars PROVE TimerInv'
    OBVIOUS
<1>0. TypeOK /\ PollerInv
    BY DEF TimerInv
<1>1. TypeOK'
    BY <1>0 DEF TypeOK, vars, history
<1>2. PollerInv'
    BY <1>0 DEF PollerInv, vars, history, Opened, Promised, Patient, Overdue
<1> QED
    BY <1>0, <1>1, <1>2, RowsUntouched DEF vars, history, TypeOK

(***************************************************************************)
(* The theorems.                                                           *)
(***************************************************************************)
\* What the poller relies on between two of its statements always holds,
\* beside players, reseats, failures and crashes (PollOnce).
THEOREM TimerInvariant == Spec => []TimerInv
<1>1. TimerInv /\ [Next]_vars => TimerInv'
    BY TickKeepsInvariant, AskKeepsInvariant, EndPollKeepsInvariant, SendKeepsInvariant,
       LookKeepsInvariant, MarkKeepsInvariant, CloseKeepsInvariant, CountKeepsInvariant,
       FaultKeepsInvariant, CrashKeepsInvariant, OthersKeepInvariant, StutterKeepsInvariant
    DEF Next, PollStep
<1> QED
    BY <1>1, TimerInitially, PTL DEF Spec

\* sendNudge, sendWarning, sendDMDecisionPrompt: no escalation is marked that
\* was not sent for the holder of the row, unless it was reseated in the
\* poller's hands.
THEOREM MarksFollowMessages == Spec => []MarkedWasSent
<1>1. TimerInv => MarkedWasSent
    BY DEF TimerInv
<1> QED BY <1>1, TimerInvariant, PTL

\* processDMAutoResolves: no turn is resolved before the DM was asked about its
\* holder, with the same exception.
THEOREM DmIsAskedFirst == Spec => []ResolvedWasPrompted
<1>1. TimerInv => ResolvedWasPrompted
    BY DEF TimerInv
<1> QED BY <1>1, TimerInvariant, PTL

\* UpdateCombatantAutoResolveCount: absence is never counted without a turn
\* that was closed for it.
THEOREM AbsenceIsEarned == Spec => []AbsenceNotOvercounted
<1>1. TimerInv => AbsenceNotOvercounted
    BY DEF TimerInv
<1> QED BY <1>1, TimerInvariant, PTL

\* A player has the whole timeout and the DM the whole hour, for any delays,
\* failures and crashes of the poller and any reseats but those of a row it has
\* in hand (UpdateTurnDMDecisionSent, ReseatTurn).
THEOREM PlayersHaveTheFullTime == Spec => []FullTime
<1>1. TimerInv => FullTime
    BY DEF TimerInv
<1> QED BY <1>1, TimerInvariant, PTL
=============================================================================
