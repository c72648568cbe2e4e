--------------------------- MODULE TurnGateProofs ---------------------------
(***************************************************************************)
(* What the per-turn lock guarantees, for any commands, users, turns and   *)
(* resources.                                                              *)
(***************************************************************************)
EXTENDS TurnGate, TLAPS

LEMMA ChargingTypes ==
    ASSUME NEW used \in Used, NEW r \in Resources
    PROVE  /\ Charged(used, r) \in Used
           /\ Flagged(used, r) \in Used
           /\ Restored(used) \in Used
           /\ [used EXCEPT ![r] = @ + 1] \in Used
BY GateAssumption DEF Charged, Flagged, Restored, Used

\* What keeps a row in balance with its charges: UseResource and UseAttack on
\* the row itself ...
LEMMA ChargingBalances ==
    ASSUME NEW n \in Used, NEW byFlag \in BOOLEAN, Within(n, byFlag),
           byFlag => n[Action] > 0,
           NEW r \in Resources, Affords(Balance(n, byFlag), r)
    PROVE  LET m == [n EXCEPT ![r] = @ + 1] IN
           /\ Charged(Balance(n, byFlag), r) = Balance(m, byFlag)
           /\ Within(m, byFlag)
<1> DEFINE m == [n EXCEPT ![r] = @ + 1]
           b == Balance(n, byFlag)
<1> USE GateAssumption
<1>1. /\ \A s \in Resources : n[s] \in Nat /\ Allowance[s] \in Nat
      /\ m[r] = n[r] + 1 /\ \A s \in Resources \ {r} : m[s] = n[s]
    BY DEF Used
<1>2. b[r] < Allowance[r]
    BY DEF Affords
<1>3. CASE r = Action
    <2>1. n[Action] = 0 /\ n[Attack] = 0 /\ ~byFlag
        BY <1>1, <1>2, <1>3 DEF Balance
    <2>2. \A s \in Resources : Charged(b, r)[s] = Balance(m, byFlag)[s]
        BY <1>1, <1>3, <2>1 DEF Balance, Charged
    <2>3. Charged(b, r) = Balance(m, byFlag)
        BY <2>2 DEF Balance, Charged
    <2>4. Within(m, byFlag)
        BY <1>1, <1>3, <2>1 DEF Within
    <2> QED BY <2>3, <2>4
<1>4. CASE r = Attack
    <2>1. b[Attack] = n[Attack] /\ (n[Action] = 0 \/ byFlag)
        BY <1>1, <1>2, <1>4 DEF Balance
    <2>2. \A s \in Resources : Charged(b, r)[s] = Balance(m, byFlag)[s]
        BY <1>1, <1>4, <2>1 DEF Balance, Charged
    <2>3. Charged(b, r) = Balance(m, byFlag)
        BY <2>2 DEF Balance, Charged
    <2>4. Within(m, byFlag)
        BY <1>1, <1>2, <1>4, <2>1 DEF Within
    <2> QED BY <2>3, <2>4
<1>5. CASE r \notin {Action, Attack}
    <2>2. \A s \in Resources : Charged(b, r)[s] = Balance(m, byFlag)[s]
        BY <1>1, <1>5 DEF Balance, Charged
    <2>3. Charged(b, r) = Balance(m, byFlag)
        BY <2>2 DEF Balance, Charged
    <2>4. Within(m, byFlag)
        BY <1>1, <1>2, <1>5 DEF Within, Balance
    <2> QED BY <2>3, <2>4
<1> QED BY <1>3, <1>4, <1>5

\* ... and the compare-and-set, which never names the attacks.
LEMMA FlaggingBalances ==
    ASSUME NEW n \in Used, NEW byFlag \in BOOLEAN, Within(n, byFlag),
           NEW r \in Resources \ {Attack}, Affords(Balance(n, byFlag), r)
    PROVE  LET m == [n EXCEPT ![r] = @ + 1] IN
           /\ Flagged(Balance(n, byFlag), r) = Balance(m, byFlag \/ r = Action)
           /\ Within(m, byFlag \/ r = Action)
<1> DEFINE m == [n EXCEPT ![r] = @ + 1]
           b == Balance(n, byFlag)
           f == byFlag \/ r = Action
<1> USE GateAssumption
<1>1. /\ \A s \in Resources : n[s] \in Nat /\ Allowance[s] \in Nat
      /\ m[r] = n[r] + 1 /\ \A s \in Resources \ {r} : m[s] = n[s]
    BY DEF Used
<1>2. b[r] < Allowance[r]
    BY DEF Affords
<1>3. \A s \in Resources : Flagged(b, r)[s] = Balance(m, f)[s]
    <2>1. CASE r = Action
        <3>1. n[Action] = 0 /\ n[Attack] = 0
            BY <1>1, <1>2, <2>1 DEF Balance
        <3> QED BY <1>1, <2>1, <3>1 DEF Balance, Flagged
    <2>2. CASE r # Action
        BY <1>1, <2>2 DEF Balance, Flagged
    <2> QED BY <2>1, <2>2
<1>4. Flagged(b, r) = Balance(m, f)
    BY <1>3 DEF Balance, Flagged
<1>5. Within(m, f)
    BY <1>1, <1>2 DEF Within, Balance
<1> QED BY <1>4, <1>5

LEMMA GateInitially == Init => GateInv
<1> SUFFICES ASSUME Init PROVE GateInv
    OBVIOUS
<1> USE GateAssumption DEF Init
<1>1. Fresh \in Used
    BY DEF Fresh, Used
<1>2. NewCmd \in Cmd
    BY <1>1 DEF NewCmd, Cmd
<1>3. TypeOK
    BY <1>1, <1>2 DEF TypeOK, Turns
<1>4. \A p \in Cmds : cmd[p].pc = "idle"
    BY DEF NewCmd
<1>5. \A p \in Cmds : Situated(p) /\ HoldsLock(p) /\ FreshCopy(p)
    BY <1>4 DEF Situated, HoldsLock, FreshCopy, Gated, Inside
<1>6. NoOrphanLock
    BY DEF NoOrphanLock
<1>7. Fresh = Balance(Fresh, FALSE) /\ Within(Fresh, FALSE)
    BY DEF Balance, Within, Fresh
<1>8. CoveredTurnsExact /\ OneActionATurn
    BY <1>7 DEF CoveredTurnsExact, OneActionATurn
<1> QED
    BY <1>3, <1>5, <1>6, <1>8 DEF GateInv

(***************************************************************************)
(* Types.                                                                  *)
(***************************************************************************)
LEMMA TypesKept == GateInv /\ [Next]_vars => TypeOK'
<1> SUFFICES ASSUME GateInv, [Next]_vars PROVE TypeOK'
    OBVIOUS
<1> USE GateAssumption
<1> USE DEF GateInv, TypeOK
<1>1. CASE EndTurn
    BY <1>1 DEF EndTurn
<1>2. CASE OpenTurn
    BY <1>2 DEF OpenTurn
<1>3. CASE PointAtTurn
    BY <1>3 DEF PointAtTurn
<1>4. CASE UNCHANGED vars
    BY <1>4 DEF vars
<1>5. ASSUME NEW p \in Cmds, Command(p) PROVE TypeOK'
    <2>0. cmd[p] \in Cmd /\ Situated(p)
        OBVIOUS
    <2>1. ASSUME Free(p) PROVE holder' \in [Turns -> Cmds \cup {Nobody}]
        BY <2>1 DEF Free
    <2>2. ASSUME NEW pc \in {"idle", "ready", "waiting", "locked", "inside", "working",
                              "paid", "done"},
                 Goes(p, pc)
          PROVE  cmd' \in [Cmds -> Cmd]
        BY <2>0, <2>2 DEF Goes, Cmd
    <2>E. ASSUME Ends(p) PROVE cmd' \in [Cmds -> Cmd]
        <3>1. [NewCmd EXCEPT !.pc = "done"] \in Cmd
            BY DEF NewCmd, Cmd, Fresh, Used
        <3> QED BY <2>E, <3>1 DEF Ends
    <2>R. ASSUME NEW c \in Cmd, cmd' = [cmd EXCEPT ![p] = c]
          PROVE  cmd' \in [Cmds -> Cmd]
        BY <2>R
    <2>3. CASE Start(p)
        <3>1. \A t \in Turns : row[t].used \in Used
            OBVIOUS
        <3>2. cmd' \in [Cmds -> Cmd]
            <4>1. CASE LookUp(p)
                <5>1. [cmd[p] EXCEPT !.pc = "ready",
                                     !.at = IF Kind[p] = "act" THEN pointer ELSE cmd[p].at] \in Cmd
                    BY <2>0 DEF Cmd
                <5> QED BY <2>R, <4>1, <5>1 DEF LookUp
            <4>2. CASE ClickMove(p)
                <5>1. \A t \in Turns : [cmd[p] EXCEPT !.pc = "ready", !.at = t,
                                                      !.copy = row[t].used] \in Cmd
                    BY <2>0, <3>1 DEF Cmd
                <5> QED BY <2>R, <4>2, <5>1 DEF ClickMove
            <4>3. CASE OpenBag(p)
                <5>1. [cmd[p] EXCEPT !.pc = "ready", !.at = pointer,
                                     !.copy = row[pointer].used] \in Cmd
                    BY <2>0, <3>1 DEF Cmd
                <5> QED BY <2>E, <2>R, <4>3, <5>1 DEF OpenBag
            <4>4. CASE HandOver(p)
                <5>1. \A t \in Turns : [cmd[p] EXCEPT !.pc = "working", !.at = t,
                                                      !.copy = row[t].used] \in Cmd
                    BY <2>0, <3>1 DEF Cmd
                <5> QED BY <2>E, <2>R, <4>4, <5>1 DEF HandOver
            <4> QED BY <2>3, <4>1, <4>2, <4>3, <4>4 DEF Start
        <3> QED BY <2>3, <3>2 DEF Start
    <2>4. CASE Validate(p)
        <3>1. \A t \in Turns : [cmd[p] EXCEPT !.pc = "waiting", !.turn = t] \in Cmd
            BY <2>0 DEF Cmd
        <3>2. cmd' \in [Cmds -> Cmd]
            BY <2>E, <2>R, <2>4, <3>1 DEF Validate
        <3> QED BY <2>4, <3>2 DEF Validate
    <2>5. CASE Lock(p)
        BY <2>0, <2>2, <2>5 DEF Lock, Cmd
    <2>6. CASE TimeOut(p)
        BY <2>E, <2>6 DEF TimeOut
    <2>7. CASE Recheck(p)
        BY <2>1, <2>2, <2>E, <2>7 DEF Recheck, Abandon
    <2>8. CASE Load(p)
        <3>1. Kind[p] # "bonus" => cmd[p].at \in {0} \cup Turns
            BY <2>0 DEF Cmd
        <3>2. WorksAt(p) \in {0} \cup Turns
            BY <3>1 DEF WorksAt
        <3>3. CopyOf(p) \in Used
            BY <2>0, <2>8 DEF CopyOf, WorksAt, Cmd, Situated, Load, Ungated
        <3>5. [cmd[p] EXCEPT !.pc = "working", !.at = WorksAt(p), !.copy = CopyOf(p)] \in Cmd
            BY <2>0, <3>2, <3>3 DEF Cmd
        <3>6. cmd' \in [Cmds -> Cmd]
            BY <2>E, <2>R, <2>8, <3>5 DEF Load, Abandon
        <3> QED BY <2>1, <2>8, <3>6 DEF Load, Abandon
    <2>9. CASE Pay(p)
        <3> DEFINE t == cmd[p].at
        <3>1. t \in Turns /\ cmd[p].copy \in Used /\ row[t].used \in Used /\ paid[t] \in Used
            BY <2>0, <2>9 DEF Pay, Situated, Cmd
        <3>2. CASE Abandon(p) /\ UNCHANGED <<row, paid, flagged, strays>>
            BY <2>1, <2>E, <2>9, <3>2 DEF Pay, Abandon
        <3>3. CASE ~ (Abandon(p) /\ UNCHANGED <<row, paid, flagged, strays>>)
            <4>1. /\ row' = [row EXCEPT ![t].used = Written(p)] /\ Billed(p)
                  /\ cmd' = [cmd EXCEPT ![p] = [@ EXCEPT !.pc = "paid", !.copy = Fresh]]
                  /\ UNCHANGED <<holder, pointer, handover>>
                BY <2>9, <3>3 DEF Pay
            <4>2. Written(p) \in Used
                BY <3>1, ChargingTypes DEF Written
            <4>3. [cmd[p] EXCEPT !.pc = "paid", !.copy = Fresh] \in Cmd
                BY <2>0 DEF Cmd, Fresh, Used
            <4>4. cmd' \in [Cmds -> Cmd]
                BY <2>R, <4>1, <4>3
            <4>5. [paid[t] EXCEPT ![Spends[p]] = @ + 1] \in Used
                BY <3>1, ChargingTypes
            <4>6. paid' \in [Turns -> Used] /\ flagged' \in [Turns -> BOOLEAN] /\ strays' \in SUBSET Turns
                BY <3>1, <4>1, <4>5 DEF Billed
            <4>7. row' \in [Turns -> [status : {"none", "active", "completed"}, used : Used]]
                <5>1. [row[t] EXCEPT !.used = Written(p)]
                         \in [status : {"none", "active", "completed"}, used : Used]
                    BY <3>1, <4>2
                <5> QED BY <3>1, <4>1, <5>1
            <4> QED BY <4>1, <4>4, <4>6, <4>7
        <3> QED BY <3>2, <3>3
    <2>11. CASE Commit(p)
        BY <2>1, <2>E, <2>11 DEF Commit, Abandon
    <2>12. CASE Fail(p)
        BY <2>1, <2>E, <2>12 DEF Fail, Abandon
    <2> QED
        BY <1>5, <2>3, <2>4, <2>5, <2>6, <2>7, <2>8, <2>9, <2>11, <2>12
        DEF Command
<1> QED
    BY <1>1, <1>2, <1>3, <1>4, <1>5 DEF Next, Advance

(***************************************************************************)
(* The invariant.  A step that writes no row disturbs only the parts of    *)
(* the invariant that speak of the command that takes it.                  *)
(***************************************************************************)
BooksExact ==
    (\A t \in Turns : flagged[t] => paid[t][Action] > 0) /\ CoveredTurnsExact /\ OneActionATurn
LockOf(p) ==
    \A t \in Turns : holder[t] = p => Gated(p) /\ cmd[p].turn = t

LEMMA OthersUndisturbed ==
    ASSUME GateInv, TypeOK', NEW p \in Cmds,
           UNCHANGED <<row, pointer, handover, paid, flagged, strays>>,
           \A q \in Cmds \ {p} : cmd'[q] = cmd[q],
           \A q \in Cmds \ {p}, t \in Turns : holder'[t] = q <=> holder[t] = q,
           Situated(p)', HoldsLock(p)', FreshCopy(p)', LockOf(p)'
    PROVE  GateInv'
<1>1. ASSUME NEW q \in Cmds
      PROVE  Situated(q)' /\ HoldsLock(q)' /\ FreshCopy(q)' /\ LockOf(q)'
    <2>1. CASE q = p
        BY <2>1
    <2>2. CASE q # p
        <3>1. cmd'[q] = cmd[q] /\ \A t \in Turns : holder'[t] = q <=> holder[t] = q
            BY <2>2
        <3>2. Situated(q) /\ HoldsLock(q) /\ FreshCopy(q) /\ LockOf(q)
            BY DEF GateInv, NoOrphanLock, LockOf
        <3>3. Situated(q)'
            BY <3>1, <3>2 DEF Situated, Gated, Inside
        <3>4. HoldsLock(q)'
            BY <3>1, <3>2 DEF HoldsLock, Situated, Gated, Inside
        <3>5. FreshCopy(q)'
            BY <3>1, <3>2 DEF FreshCopy, Situated, Affords
        <3>6. LockOf(q)'
            BY <3>1, <3>2 DEF LockOf, Gated, Inside
        <3> QED BY <3>3, <3>4, <3>5, <3>6
    <2> QED BY <2>1, <2>2
<1>2. BooksExact'
    BY DEF GateInv, BooksExact, CoveredTurnsExact, OneActionATurn
<1>3. NoOrphanLock'
    BY <1>1 DEF NoOrphanLock, LockOf, Gated, Inside
<1> QED
    BY <1>1, <1>2, <1>3 DEF GateInv, BooksExact

LEMMA AbandonKeeps ==
    ASSUME GateInv, TypeOK', NEW p \in Cmds, Abandon(p),
           UNCHANGED <<row, pointer, handover, paid, flagged, strays>>
    PROVE  GateInv'
<1> USE GateAssumption
<1>1. cmd'[p].pc = "done" /\ \A q \in Cmds \ {p} : cmd'[q] = cmd[q]
    BY DEF Abandon, Ends, GateInv, TypeOK, NewCmd
<1>2. \A t \in Turns : holder'[t] # p
    BY DEF Abandon, Free
<1>3. \A q \in Cmds \ {p}, t \in Turns : holder'[t] = q <=> holder[t] = q
    BY DEF Abandon, Free
<1>4. Situated(p)' /\ HoldsLock(p)' /\ FreshCopy(p)' /\ LockOf(p)'
    BY <1>1, <1>2 DEF Situated, HoldsLock, FreshCopy, LockOf, Gated, Inside
<1> QED
    BY <1>1, <1>3, <1>4, OthersUndisturbed

LEMMA GateKept == GateInv /\ [Next]_vars => GateInv'
<1> SUFFICES ASSUME GateInv, [Next]_vars PROVE GateInv'
    OBVIOUS
<1> USE GateAssumption
<1>T. TypeOK /\ TypeOK'
    BY TypesKept DEF GateInv
<1>1. ASSUME UNCHANGED <<holder, cmd, paid, flagged, strays>>,
             \A t \in Turns : row'[t].used = row[t].used,
             handover' = "opened" => pointer' + 1 \in Turns
      PROVE  GateInv'
    <2>1. ASSUME NEW q \in Cmds PROVE Situated(q)' /\ HoldsLock(q)' /\ FreshCopy(q)'
        BY <1>1 DEF GateInv, Situated, HoldsLock, FreshCopy, Gated, Inside, Affords
    <2>2. NoOrphanLock'
        BY <1>1 DEF GateInv, NoOrphanLock, Gated, Inside
    <2>3. BooksExact'
        BY <1>1 DEF GateInv, BooksExact, CoveredTurnsExact, OneActionATurn
    <2> QED BY <1>T, <1>1, <2>1, <2>2, <2>3 DEF GateInv, BooksExact
<1>2. CASE Advance
    <2>1. CASE EndTurn
        BY <1>T, <1>1, <2>1 DEF EndTurn, TypeOK
    <2>2. CASE OpenTurn
        BY <1>T, <1>1, <2>2 DEF OpenTurn, TypeOK
    <2>3. CASE PointAtTurn
        BY <1>T, <1>1, <2>3 DEF PointAtTurn, TypeOK
    <2> QED BY <1>2, <2>1, <2>2, <2>3 DEF Advance
<1>3. CASE UNCHANGED vars
    BY <1>1, <1>3 DEF vars, GateInv
<1>4. ASSUME NEW p \in Cmds, Command(p) PROVE GateInv'
    <2>0. /\ cmd \in [Cmds -> Cmd] /\ cmd[p] \in Cmd
          /\ Situated(p) /\ HoldsLock(p) /\ FreshCopy(p) /\ LockOf(p)
        BY <1>T DEF GateInv, TypeOK, NoOrphanLock, LockOf
    <2>S. ASSUME NEW c, cmd' = [cmd EXCEPT ![p] = c]
          PROVE  cmd'[p] = c /\ \A q \in Cmds \ {p} : cmd'[q] = cmd[q]
        BY <2>0, <2>S
    <2>G. ASSUME NEW pc, Goes(p, pc)
          PROVE  /\ cmd'[p].pc = pc /\ cmd'[p].at = cmd[p].at /\ cmd'[p].turn = cmd[p].turn
                 /\ cmd'[p].copy = cmd[p].copy
                 /\ \A q \in Cmds \ {p} : cmd'[q] = cmd[q]
        BY <2>0, <2>G DEF Goes, Cmd
    <2>E. ASSUME Ends(p)
          PROVE  cmd'[p].pc = "done" /\ \A q \in Cmds \ {p} : cmd'[q] = cmd[q]
        BY <2>0, <2>E DEF Ends, NewCmd
    <2>1. CASE Start(p)
        <3>0. \A t \in Turns : holder[t] # p
            BY <2>0, <2>1 DEF Start, LockOf, Gated, Inside
        <3>1. \A q \in Cmds \ {p} : cmd'[q] = cmd[q]
            BY <2>0, <2>1 DEF Start, LookUp, ClickMove, OpenBag, HandOver, Ends
        <3>2. /\ cmd'[p].pc \in {"ready", "done"} /\ Kind[p] \notin Ungated
                 /\ (Kind[p] \in {"act", "use", "move"} /\ cmd'[p].pc = "ready"
                        => cmd'[p].at \in Turns)
              \/ /\ Kind[p] \in Ungated
                 /\ \/ cmd'[p].pc = "done"
                    \/ cmd'[p].pc = "working" /\ cmd'[p].at \in Turns
            <4>1. CASE LookUp(p)
                BY <1>T, <2>0, <4>1 DEF LookUp, TypeOK, Cmd, Ungated
            <4>2. CASE ClickMove(p)
                BY <1>T, <2>0, <4>2 DEF ClickMove, TypeOK, Cmd, Ungated
            <4>3. CASE OpenBag(p)
                <5>1. CASE Ends(p)
                    BY <2>E, <4>3, <5>1 DEF OpenBag, Ungated
                <5>2. CASE ~ Ends(p)
                    <6>1. cmd' = [cmd EXCEPT ![p] =
                            [cmd[p] EXCEPT !.pc = "ready", !.at = pointer,
                                           !.copy = row[pointer].used]]
                        BY <4>3, <5>2 DEF OpenBag
                    <6>2. Kind[p] = "use"
                        BY <4>3 DEF OpenBag
                    <6> QED BY <1>T, <2>0, <2>S, <6>1, <6>2 DEF TypeOK, Cmd, Ungated
                <5> QED BY <5>1, <5>2
            <4>4. CASE HandOver(p)
                <5>1. CASE Ends(p)
                    BY <2>E, <4>4, <5>1 DEF HandOver
                <5>2. CASE ~ Ends(p)
                    <6>1. PICK u \in Turns : cmd' = [cmd EXCEPT ![p] =
                            [cmd[p] EXCEPT !.pc = "working", !.at = u, !.copy = row[u].used]]
                        BY <4>4, <5>2 DEF HandOver
                    <6>2. Kind[p] \in Ungated
                        BY <4>4 DEF HandOver
                    <6> QED BY <1>T, <2>0, <2>S, <6>1, <6>2 DEF TypeOK, Cmd
                <5> QED BY <5>1, <5>2
            <4> QED BY <2>1, <4>1, <4>2, <4>3, <4>4 DEF Start
        <3>3. Situated(p)' /\ HoldsLock(p)' /\ FreshCopy(p)' /\ LockOf(p)'
            BY <2>1, <3>0, <3>2 DEF Start, Situated, HoldsLock, FreshCopy, LockOf,
                                    Gated, Inside
        <3> QED BY <1>T, <2>1, <3>1, <3>3, OthersUndisturbed DEF Start
    <2>2. CASE Validate(p)
        <3>0. \A t \in Turns : holder[t] # p
            BY <2>0, <2>2 DEF Validate, LockOf, Gated, Inside
        <3>1. /\ \A q \in Cmds \ {p} : cmd'[q] = cmd[q]
              /\ \/ cmd'[p].pc = "done"
                 \/ /\ cmd'[p].pc = "waiting" /\ cmd'[p].turn \in Turns
                    /\ cmd'[p].at = cmd[p].at
            <4>1. CASE Ends(p)
                BY <2>E, <4>1
            <4>2. CASE ~ Ends(p)
                <5>1. PICK t \in Turns :
                        cmd' = [cmd EXCEPT ![p] = [cmd[p] EXCEPT !.pc = "waiting", !.turn = t]]
                    BY <2>2, <4>2 DEF Validate
                <5> QED BY <2>0, <2>S, <5>1 DEF Cmd
            <4> QED BY <4>1, <4>2
        <3>2. Situated(p)' /\ HoldsLock(p)' /\ FreshCopy(p)' /\ LockOf(p)'
            BY <2>0, <2>2, <3>0, <3>1 DEF Validate, Situated, HoldsLock, FreshCopy,
                                          LockOf, Gated, Inside
        <3> QED BY <1>T, <2>2, <3>1, <3>2, OthersUndisturbed DEF Validate
    <2>3. CASE Lock(p)
        <3>0. cmd[p].turn \in Turns /\ Kind[p] \notin Ungated
            BY <2>0, <2>3 DEF Lock, Situated
        <3>1. /\ \A q \in Cmds \ {p} : cmd'[q] = cmd[q]
              /\ cmd'[p].pc = "locked" /\ cmd'[p].at = cmd[p].at
              /\ cmd'[p].turn = cmd[p].turn
            BY <2>0, <2>3 DEF Lock, Goes, Cmd
        <3>2. /\ holder'[cmd[p].turn] = p
              /\ \A t \in Turns : t # cmd[p].turn => holder'[t] = holder[t]
            BY <1>T, <2>3, <3>0 DEF Lock, TypeOK
        <3>3. \A t \in Turns : holder[t] # p
            BY <2>0, <2>3 DEF Lock, LockOf, Gated, Inside
        <3>4. \A q \in Cmds \ {p}, t \in Turns : holder'[t] = q <=> holder[t] = q
            BY <2>3, <3>0, <3>2 DEF Lock
        <3>5. Situated(p)' /\ HoldsLock(p)' /\ FreshCopy(p)' /\ LockOf(p)'
            BY <2>0, <2>3, <3>0, <3>1, <3>2, <3>3 DEF Lock, Situated, HoldsLock,
                                          FreshCopy, LockOf, Gated, Inside
        <3> QED BY <1>T, <2>3, <3>1, <3>4, <3>5, OthersUndisturbed DEF Lock
    <2>4. CASE TimeOut(p)
        <3>0. \A t \in Turns : holder[t] # p
            BY <2>0, <2>4 DEF TimeOut, LockOf, Gated, Inside
        <3>1. cmd'[p].pc = "done" /\ \A q \in Cmds \ {p} : cmd'[q] = cmd[q]
            BY <2>E, <2>4 DEF TimeOut
        <3>2. Situated(p)' /\ HoldsLock(p)' /\ FreshCopy(p)' /\ LockOf(p)'
            BY <2>4, <3>0, <3>1 DEF TimeOut, Situated, HoldsLock, FreshCopy,
                                          LockOf, Gated, Inside
        <3> QED BY <1>T, <2>4, <3>1, <3>2, OthersUndisturbed DEF TimeOut
    <2>5. CASE Recheck(p)
        <3>1. CASE Abandon(p)
            BY <1>T, <2>5, <3>1, AbandonKeeps DEF Recheck
        <3>2. CASE Goes(p, "inside") /\ UNCHANGED holder
            <4>1. /\ \A q \in Cmds \ {p} : cmd'[q] = cmd[q]
                  /\ cmd'[p].pc = "inside" /\ cmd'[p].at = cmd[p].at
                  /\ cmd'[p].turn = cmd[p].turn
                BY <2>0, <3>2 DEF Goes, Cmd
            <4>2. Situated(p)' /\ HoldsLock(p)' /\ FreshCopy(p)' /\ LockOf(p)'
                BY <2>0, <2>5, <3>2, <4>1 DEF Recheck, Situated, HoldsLock, FreshCopy,
                                          LockOf, Gated, Inside
            <4> QED BY <1>T, <2>5, <3>2, <4>1, <4>2, OthersUndisturbed DEF Recheck
        <3> QED BY <2>5, <3>1, <3>2 DEF Recheck
    <2>6. CASE Load(p)
        <3>0. Kind[p] \notin Ungated /\ cmd[p].turn \in Turns
            BY <2>0, <2>6 DEF Load, Situated, Gated, Inside
        <3>1. CASE Abandon(p)
            BY <1>T, <2>6, <3>1, AbandonKeeps DEF Load
        <3>2. CASE ~ Abandon(p)
            <4>1. /\ Kind[p] = "use" \/ Affords(CopyOf(p), Spends[p])
                  /\ UNCHANGED holder
                  /\ \A q \in Cmds \ {p} : cmd'[q] = cmd[q]
                  /\ cmd'[p].pc = "working" /\ cmd'[p].at = WorksAt(p)
                  /\ cmd'[p].turn = cmd[p].turn /\ cmd'[p].copy = CopyOf(p)
                <5>1. Kind[p] = "use" \/ Affords(CopyOf(p), Spends[p])
                    BY <2>6, <3>2 DEF Load
                <5>2. UNCHANGED holder
                    BY <2>6, <3>2 DEF Load
                <5>3. cmd' = [cmd EXCEPT ![p] =
                        [cmd[p] EXCEPT !.pc = "working", !.at = WorksAt(p),
                                       !.copy = CopyOf(p)]]
                    BY <2>6, <3>2 DEF Load
                <5> QED BY <2>0, <2>S, <5>1, <5>2, <5>3 DEF Cmd
            <4>2. WorksAt(p) \in Turns
                BY <1>T, <2>0, <2>6, <3>0 DEF Load, WorksAt, Situated, TypeOK, Ungated
            <4>3. Kind[p] \in {"act", "bonus"} => CopyOf(p) = row[WorksAt(p)].used
                BY DEF CopyOf
            <4>4. Situated(p)' /\ HoldsLock(p)' /\ LockOf(p)'
                BY <2>0, <2>6, <3>0, <4>1, <4>2 DEF Load, Situated, HoldsLock,
                                                   LockOf, Gated, Inside
            <4>5. FreshCopy(p)'
                BY <2>6, <4>1, <4>2, <4>3 DEF Load, FreshCopy, Affords
            <4> QED BY <1>T, <2>6, <4>1, <4>4, <4>5, OthersUndisturbed DEF Load
        <3> QED BY <3>1, <3>2
    <2>7. CASE Pay(p)
        <3> DEFINE t == cmd[p].at
                   r == Spends[p]
        <3>0. /\ t \in Turns /\ cmd[p].copy \in Used /\ row[t].used \in Used
              /\ paid[t] \in Used /\ r \in Resources /\ flagged[t] \in BOOLEAN
            BY <1>T, <2>0, <2>7 DEF Pay, Situated, TypeOK, Cmd
        <3>1. CASE Kind[p] = "use" /\ ~ Affords(row[t].used, r)
            <4>1. Abandon(p) /\ UNCHANGED <<row, pointer, handover, paid, flagged, strays>>
                BY <2>7, <3>1 DEF Pay
            <4> QED BY <1>T, <4>1, AbandonKeeps
        <3>2. CASE ~ (Kind[p] = "use" /\ ~ Affords(row[t].used, r))
            <4>1. /\ row' = [row EXCEPT ![t].used = Written(p)]
                  /\ paid' = IF Kind[p] = "restore" THEN paid ELSE [paid EXCEPT ![t][r] = @ + 1]
                  /\ flagged' = [flagged EXCEPT ![t] = @ \/ (Kind[p] = "use" /\ r = Action)]
                  /\ strays' = IF Covered(p) THEN strays ELSE strays \cup {t}
                  /\ UNCHANGED <<holder, pointer, handover>>
                BY <2>7, <3>2 DEF Pay, Billed
            <4>2. cmd' = [cmd EXCEPT ![p] = [cmd[p] EXCEPT !.pc = "paid", !.copy = Fresh]]
                BY <2>7, <3>2 DEF Pay
            <4>3. /\ \A q \in Cmds \ {p} : cmd'[q] = cmd[q]
                  /\ cmd'[p].pc = "paid" /\ cmd[p].pc = "working" /\ cmd'[p].at = cmd[p].at
                  /\ cmd'[p].turn = cmd[p].turn
                BY <2>0, <2>S, <2>7, <4>2 DEF Cmd, Pay
            <4>4. /\ row'[t].used = Written(p)
                  /\ Kind[p] # "restore" => paid'[t] = [paid[t] EXCEPT ![r] = @ + 1]
                  /\ \A u \in Turns \ {t} : row'[u] = row[u] /\ paid'[u] = paid[u]
                BY <1>T, <3>0, <4>1 DEF TypeOK
            <4>5. \A q \in Cmds : Situated(q) /\ HoldsLock(q) /\ FreshCopy(q) /\ LockOf(q)
                BY DEF GateInv, NoOrphanLock, LockOf
            <4>6. ASSUME NEW q \in Cmds
                  PROVE  Situated(q)' /\ HoldsLock(q)' /\ FreshCopy(q)' /\ LockOf(q)'
                <5>1. Situated(q)' /\ HoldsLock(q)' /\ LockOf(q)'
                    <6>1. /\ \/ cmd'[q].pc = cmd[q].pc
                             \/ cmd[q].pc = "working" /\ cmd'[q].pc = "paid"
                          /\ cmd'[q].at = cmd[q].at /\ cmd'[q].turn = cmd[q].turn
                        BY <4>3
                    <6> QED BY <4>1, <4>5, <6>1 DEF Situated, HoldsLock, LockOf, Gated, Inside
                <5>2. FreshCopy(q)'
                    <6>1. CASE q = p
                        BY <4>3, <6>1 DEF FreshCopy
                    <6>2. CASE q # p /\ cmd[q].at = t
                        <7>1. holder[t] = q => t \in strays'
                            BY <4>1, <6>2 DEF Covered
                        <7> QED BY <4>1, <4>3, <6>2, <7>1 DEF FreshCopy
                    <6>3. CASE q # p /\ cmd[q].at # t
                        <7>1. cmd'[q] = cmd[q] /\ strays \subseteq strays' /\ holder' = holder
                            BY <4>1, <4>3, <6>3
                        <7>2. cmd[q].pc = "working" => row'[cmd[q].at] = row[cmd[q].at]
                            BY <4>4, <4>5, <6>3 DEF Situated
                        <7> QED BY <4>5, <7>1, <7>2 DEF FreshCopy, Affords
                    <6> QED BY <6>1, <6>2, <6>3
                <5> QED BY <5>1, <5>2
            <4>7. NoOrphanLock'
                BY <4>6 DEF NoOrphanLock, LockOf, Gated, Inside
            <4>8. BooksExact'
                <5>1. ASSUME t \notin strays'
                      PROVE  /\ row'[t].used = Balance(paid'[t], flagged'[t])
                             /\ Within(paid'[t], flagged'[t])
                    <6>1. t \notin strays /\ Covered(p)
                        BY <4>1, <5>1
                    <6>2. /\ row[t].used = Balance(paid[t], flagged[t])
                          /\ Within(paid[t], flagged[t])
                          /\ flagged[t] => paid[t][Action] > 0
                        BY <3>0, <6>1 DEF GateInv, CoveredTurnsExact, OneActionATurn
                    <6>3. Kind[p] \in {"act", "bonus", "use"}
                        BY <2>0, <3>0, <6>1 DEF Covered, LockOf, Gated, Ungated
                    <6>4. paid'[t] = [paid[t] EXCEPT ![r] = @ + 1]
                        BY <4>4, <6>3
                    <6>5. CASE Kind[p] = "use"
                        <7>1. Written(p) = Flagged(row[t].used, r) /\ Affords(row[t].used, r)
                            BY <3>2, <6>5 DEF Written
                        <7>2. r \in Resources \ {Attack}
                            BY <3>0, <6>5
                        <7>3. flagged'[t] = (flagged[t] \/ r = Action)
                            BY <1>T, <3>0, <4>1, <6>5 DEF TypeOK
                        <7>4. Affords(Balance(paid[t], flagged[t]), r)
                            BY <6>2, <7>1
                        <7>5. LET m == [paid[t] EXCEPT ![r] = @ + 1] IN
                              /\ Flagged(Balance(paid[t], flagged[t]), r) = Balance(m, flagged[t] \/ r = Action)
                              /\ Within(m, flagged[t] \/ r = Action)
                            BY <3>0, <6>2, <7>2, <7>4, FlaggingBalances
                        <7> QED BY <4>4, <6>2, <6>4, <7>1, <7>3, <7>5
                    <6>6. CASE Kind[p] \in {"act", "bonus"}
                        <7>1. cmd[p].copy = row[t].used /\ Affords(cmd[p].copy, r)
                            BY <2>0, <2>7, <6>1, <6>6 DEF Pay, FreshCopy, Covered
                        <7>2. Written(p) = Charged(row[t].used, r)
                            BY <6>6, <7>1 DEF Written
                        <7>3. flagged'[t] = flagged[t]
                            BY <1>T, <3>0, <4>1, <6>6 DEF TypeOK
                        <7>4. Affords(Balance(paid[t], flagged[t]), r)
                            BY <6>2, <7>1
                        <7>5. LET m == [paid[t] EXCEPT ![r] = @ + 1] IN
                              /\ Charged(Balance(paid[t], flagged[t]), r) = Balance(m, flagged[t])
                              /\ Within(m, flagged[t])
                            BY <3>0, <6>2, <7>4, ChargingBalances
                        <7> QED BY <4>4, <6>2, <6>4, <7>1, <7>2, <7>3, <7>5
                    <6> QED BY <6>3, <6>5, <6>6
                <5>2. /\ strays \subseteq strays'
                      /\ \A u \in Turns \ {t} : flagged'[u] = flagged[u]
                    BY <1>T, <4>1 DEF TypeOK
                <5>3. \A u \in Turns \ strays' : row'[u].used = Balance(paid'[u], flagged'[u])
                                                /\ Within(paid'[u], flagged'[u])
                    BY <4>4, <5>1, <5>2 DEF GateInv, CoveredTurnsExact, OneActionATurn
                <5>4. \A u \in Turns : flagged'[u] => paid'[u][Action] > 0
                    <6>1. ASSUME flagged'[t] PROVE paid'[t][Action] > 0
                        <7>1. \A s \in Resources : paid[t][s] \in Nat
                            BY <3>0 DEF Used
                        <7>2. flagged[t] \/ (Kind[p] = "use" /\ r = Action)
                            BY <1>T, <3>0, <4>1, <6>1 DEF TypeOK
                        <7>3. flagged[t] => paid[t][Action] > 0
                            BY <3>0 DEF GateInv
                        <7>4. CASE Kind[p] = "restore"
                            BY <4>1, <7>2, <7>3, <7>4
                        <7>5. CASE Kind[p] # "restore"
                            <8>1. paid'[t][Action] = IF r = Action THEN paid[t][Action] + 1
                                                     ELSE paid[t][Action]
                                BY <3>0, <4>4, <7>5 DEF Used
                            <8> QED BY <7>1, <7>2, <7>3, <8>1
                        <7> QED BY <7>4, <7>5
                    <6> QED BY <4>4, <5>2, <6>1 DEF GateInv
                <5> QED BY <5>3, <5>4 DEF BooksExact, CoveredTurnsExact, OneActionATurn
            <4>9. handover' = "opened" => pointer' + 1 \in Turns
                BY <4>1 DEF GateInv
            <4> QED BY <1>T, <4>6, <4>7, <4>8, <4>9 DEF GateInv, BooksExact
        <3> QED BY <3>1, <3>2
    <2>9. CASE Commit(p)
        BY <1>T, <2>9, AbandonKeeps DEF Commit
    <2>10. CASE Fail(p)
        BY <1>T, <2>10, AbandonKeeps DEF Fail
    <2> QED
        BY <1>4, <2>1, <2>2, <2>3, <2>4, <2>5, <2>6, <2>7, <2>9, <2>10 DEF Command
<1> QED
    BY <1>2, <1>3, <1>4 DEF Next

(***************************************************************************)
(* With the lock alone, whatever else goes on.                             *)
(***************************************************************************)
\* The inductive invariant of the gate holds in every reachable state, for
\* any commands, kinds, users, turns and resources.
THEOREM GateInvariant == Spec => []GateInv
<1>1. Init => GateInv
    BY GateInitially
<1>2. GateInv /\ [Next]_vars => GateInv'
    BY GateKept
<1> QED
    BY <1>1, <1>2, PTL DEF Spec

\* The row of a turn is exact and within its allowances as long as only
\* commands that kept the turn's lock from read to write have written it:
\* RunUnderTurnLock protects what reads inside it, and nothing else.
THEOREM CoveredTurnsStayExact == Spec => []CoveredTurnsExact
<1>1. GateInv => CoveredTurnsExact
    BY DEF GateInv
<1> QED
    BY <1>1, GateInvariant, PTL

\* No path through the gate leaves a turn locked behind it.
THEOREM LocksAreNotOrphaned == Spec => []NoOrphanLock
<1>1. GateInv => NoOrphanLock
    BY DEF GateInv
<1> QED
    BY <1>1, GateInvariant, PTL

\* On such a turn the action and the attacks are not both spent, unless a
\* compare-and-set came first.
THEOREM ActionsAreSpentOnce == Spec => []OneActionATurn
<1>1. GateInv => OneActionATurn
    BY DEF GateInv
<1> QED
    BY <1>1, GateInvariant, PTL
=============================================================================
