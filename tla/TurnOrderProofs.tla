--------------------------- MODULE TurnOrderProofs --------------------------
(***************************************************************************)
(* SerialSpec keeps TurnLoopInv, for any set of combatants, seats and      *)
(* callers; the safety properties of TurnOrder follow from it.             *)
(***************************************************************************)
EXTENDS TurnOrder, SequenceTheorems, TLAPS

-----------------------------------------------------------------------------
\* Rewriting one row leaves the table as long as it was.
LEMMA RowRewritten ==
    ASSUME NEW s \in Seq(Turn), NEW i \in DOMAIN s, NEW t \in Turn
    PROVE  LET u == [s EXCEPT ![i] = t] IN
           /\ u \in Seq(Turn)
           /\ Len(u) = Len(s)
           /\ DOMAIN u = DOMAIN s
           /\ u[i] = t
           /\ \A j \in DOMAIN s : j # i => u[j] = s[j]
<1>1. s \in [1..Len(s) -> Turn] /\ DOMAIN s = 1..Len(s)  OBVIOUS
<1>2. [s EXCEPT ![i] = t] \in Seq(Turn) /\ Len([s EXCEPT ![i] = t]) = Len(s)
  BY ExceptSeq
<1>3. QED  BY <1>1, <1>2

\* A new row is last and the others keep their place.
LEMMA RowAppended ==
    ASSUME NEW s \in Seq(Turn), NEW t \in Turn
    PROVE  LET u == Append(s, t) IN
           /\ u \in Seq(Turn)
           /\ Len(u) = Len(s) + 1
           /\ DOMAIN u = DOMAIN s \cup {Len(s) + 1}
           /\ Len(s) + 1 \notin DOMAIN s
           /\ u[Len(s) + 1] = t
           /\ \A j \in DOMAIN s : u[j] = s[j]
  BY AppendProperties

LEMMA RowIsTurn ==
    ASSUME NEW c \in Combatants, NEW r \in Nat,
           NEW s \in {"active", "completed", "skipped"}
    PROVE  Row(c, r, s) \in Turn
  BY DEF Row, Turn

LEMMA IdleCallType == IdleCall \in Call
  BY DEF IdleCall, Call, Body, Conditions

LEMMA CallsType ==
    ASSUME TypeOK, NEW p \in Callers, NEW k \in Call
    PROVE  /\ [call EXCEPT ![p] = k] \in [Callers -> Call]
           /\ [call EXCEPT ![p] = k][p] = k
           /\ \A q \in Callers : q # p => [call EXCEPT ![p] = k][q] = call[q]
  BY DEF TypeOK

LEMMA InvInit == Init => TurnLoopInv
<1> SUFFICES ASSUME Init PROVE TurnLoopInv  OBVIOUS
<1>1. TypeOK
  <2>1. body \in [Combatants -> Body]  BY DEF Init, Body, Conditions
  <2>2. call \in [Callers -> Call]  BY IdleCallType DEF Init
  <2>3. turns \in Seq(Turn) /\ pointer \in 0..Len(turns)  BY DEF Init
  <2>4. QED  BY <2>1, <2>2, <2>3 DEF Init, TypeOK
<1>2. \A p \in Callers : call[p].pc = "idle"  BY DEF Init, IdleCall
<1>3. Holders = {} /\ DOMAIN turns = {} /\ orphans = {}  BY DEF Init, Holders, ActiveRows
<1>4. QED  BY <1>1, <1>2, <1>3 DEF TurnLoopInv, InFlight, OneRowPerRound

-----------------------------------------------------------------------------
(***************************************************************************)
(* Steps of a call that leave the tables alone.                            *)
(***************************************************************************)

\* A call that starts finds nobody else in flight.
LEMMA InvBegin ==
    ASSUME TurnLoopInv, Quiet, NEW p \in Callers, Request(p) \/ Confirm(p)
    PROVE  TurnLoopInv'
<1> DEFINE k == call'[p]
<1>1. /\ k \in Call /\ k.pc = "enter" /\ k.minted \in {0, pointer}
      /\ call' = [call EXCEPT ![p] = k]
  <2>1. TypeOK  BY DEF TurnLoopInv
  <2>2. pointer \in Nat  BY <2>1 DEF TypeOK
  <2>3. \A m \in Nat : [IdleCall EXCEPT !.pc = "enter", !.minted = m] \in Call
    BY IdleCallType DEF Call, IdleCall
  <2>4. CASE Request(p)
    <3>1. [IdleCall EXCEPT !.pc = "enter"] \in Call
      BY IdleCallType DEF Call, IdleCall
    <3>2. QED  BY <2>1, <2>4, <3>1, CallsType DEF Request, IdleCall, TypeOK
  <2>5. CASE Confirm(p)
    BY ZenonT(40), <2>1, <2>2, <2>3, <2>5, CallsType DEF Confirm, IdleCall, TypeOK
  <2>6. QED  BY <2>4, <2>5
<1>2. /\ \A q \in Callers : q # p => call'[q].pc = "idle"
      /\ call' \in [Callers -> Call]
  BY <1>1, CallsType DEF TurnLoopInv, Quiet
<1>3. UNCHANGED <<status, round, pointer, turns, body, ending, listed, orphans, faults>>
  BY DEF Request, Confirm, around
<1>4. TypeOK'  BY <1>2, <1>3 DEF TurnLoopInv, TypeOK
<1>5. Holders' = Holders /\ OneRowPerRound' = OneRowPerRound
  BY <1>3 DEF Holders, ActiveRows, OneRowPerRound
<1>6. Holders \subseteq {pointer}  BY DEF TurnLoopInv, Quiet
<1>7. \A q \in Callers : InFlight(q)'
  BY <1>1, <1>2, <1>3 DEF InFlight
<1>8. QED
  BY <1>1, <1>2, <1>3, <1>4, <1>5, <1>6, <1>7 DEF TurnLoopInv

\* A step of the call in flight leaves the others idle, so only what the
\* call itself may rely on afterwards is at stake.
LEMMA OneInFlight ==
    ASSUME TurnLoopInv, NEW p \in Callers, call[p].pc # "idle",
           NEW k \in Call, call' = [call EXCEPT ![p] = k]
    PROVE  /\ call' \in [Callers -> Call]
           /\ call'[p] = k
           /\ \A q \in Callers : q # p => call'[q].pc = "idle"
           /\ \A q, r \in Callers : call'[q].pc # "idle" /\ call'[r].pc # "idle" => q = r
           /\ InFlight(p)' => \A q \in Callers : InFlight(q)'
<1>1. /\ call' \in [Callers -> Call] /\ call'[p] = k
      /\ \A q \in Callers : q # p => call'[q] = call[q]
  BY CallsType DEF TurnLoopInv
<1>2. \A q \in Callers : q # p => call'[q].pc = "idle"
  BY <1>1 DEF TurnLoopInv
<1>3. \A q \in Callers : q # p => InFlight(q)'
  BY <1>2 DEF InFlight
<1>4. QED  BY <1>1, <1>2, <1>3

LEMMA InvRefuse ==
    ASSUME TurnLoopInv, NEW p \in Callers, Refuse(p)
    PROVE  TurnLoopInv'
<1>1. call' = [call EXCEPT ![p] = IdleCall] /\ call[p].pc = "enter"
  BY DEF Refuse
<1>2. UNCHANGED <<status, round, pointer, turns, body, ending, listed, orphans, faults>>  BY DEF Refuse, around
<1>3. IdleCall.pc = "idle"  BY DEF IdleCall
<1>4. InFlight(p)'  BY <1>1, <1>3, OneInFlight, IdleCallType DEF InFlight
<1>5. Holders' = Holders /\ OneRowPerRound' = OneRowPerRound
  BY <1>2 DEF Holders, ActiveRows, OneRowPerRound
<1>6. Holders \subseteq {pointer}  BY <1>1 DEF TurnLoopInv
<1>7. QED
  BY <1>1, <1>2, <1>3, <1>4, <1>5, <1>6, OneInFlight, IdleCallType
  DEF TurnLoopInv, TypeOK

LEMMA InvEnter ==
    ASSUME TurnLoopInv, NEW p \in Callers, Enter(p)
    PROVE  TurnLoopInv'
<1> DEFINE k == [call[p] EXCEPT !.pc = IF pointer = 0 THEN "list" ELSE "complete",
                                !.cur = pointer, !.rnd = round]
<1>1. call[p].pc = "enter" /\ call[p] \in Call /\ pointer \in Nat /\ round \in Nat
  BY DEF Enter, TurnLoopInv, TypeOK
<1>2. call' = [call EXCEPT ![p] = k]  BY <1>1 DEF Enter, TurnLoopInv, TypeOK
<1>3. k \in Call /\ k.cur = pointer /\ k.rnd = round /\ k.minted = call[p].minted
      /\ k.pc = IF pointer = 0 THEN "list" ELSE "complete"
  BY <1>1 DEF Call
<1>4. UNCHANGED <<status, round, pointer, turns, body, ending, listed, orphans, faults>>  BY DEF Enter, around
<1>5. Holders' = Holders /\ OneRowPerRound' = OneRowPerRound
  BY <1>4 DEF Holders, ActiveRows, OneRowPerRound
<1>6. Holders \subseteq {pointer}  BY <1>1 DEF TurnLoopInv
<1>7. pointer = 0 => Holders = {}
  BY <1>6 DEF Holders, ActiveRows, TurnLoopInv, TypeOK
<1>8. call[p].minted # 0 => call[p].minted = pointer
  BY <1>1 DEF TurnLoopInv, InFlight
<1>9. InFlight(p)'
  BY <1>2, <1>3, <1>4, <1>5, <1>7, <1>8, <1>1, OneInFlight DEF InFlight
<1>10. QED
  BY <1>1, <1>2, <1>3, <1>4, <1>5, <1>6, <1>9, OneInFlight
  DEF TurnLoopInv, TypeOK

LEMMA InvList ==
    ASSUME TurnLoopInv, NEW p \in Callers, List(p)
    PROVE  TurnLoopInv'
<1> DEFINE left == Candidates(body, call[p].rnd)
           roll == left = {}
           k == [call[p] EXCEPT !.pc = IF roll THEN "roll" ELSE "pick",
                                !.left = IF roll THEN Eligible(body) ELSE left,
                                !.seen = body]
<1>1. call[p].pc = "list" /\ call[p] \in Call /\ body \in [Combatants -> Body]
  BY DEF List, TurnLoopInv, TypeOK
<1>2. call' = [call EXCEPT ![p] = k]  BY <1>1 DEF List, TurnLoopInv, TypeOK
<1>3. Eligible(body) \subseteq Seated /\ left \subseteq Seated
      /\ Seated \subseteq Combatants
  BY DEF Eligible, Candidates, Seated
<1>4. k \in Call /\ k.rnd = call[p].rnd /\ k.minted = call[p].minted
      /\ k.pc = (IF roll THEN "roll" ELSE "pick")
      /\ k.left = (IF roll THEN Eligible(body) ELSE left)
  BY <1>1, <1>3 DEF Call
<1>5. UNCHANGED <<status, round, pointer, turns, body, ending, listed, orphans, faults>>  BY DEF List, around
<1>6. Holders' = Holders /\ OneRowPerRound' = OneRowPerRound
      /\ \A c, r : HasRow(c, r)' = HasRow(c, r)
  BY <1>5 DEF Holders, ActiveRows, OneRowPerRound, HasRow
<1>7. Holders = {} /\ call[p].rnd = round
  BY <1>1 DEF TurnLoopInv, InFlight
<1>8. \A c \in left : ~HasRow(c, call[p].rnd)  BY DEF Candidates
<1>9. InFlight(p)'
  <2>1. call'[p] = k  BY <1>1, <1>2, <1>4, OneInFlight
  <2>2. \A c \in left : ~ \E i \in DOMAIN turns' :
                             turns'[i].who = c /\ turns'[i].round = k.rnd
    BY <1>4, <1>5, <1>8 DEF HasRow
  <2> HIDE DEF k, left, roll
  <2>3. QED  BY <1>3, <1>4, <1>5, <1>6, <1>7, <2>1, <2>2 DEF InFlight, HasRow
<1>10. QED
  BY <1>1, <1>2, <1>4, <1>5, <1>6, <1>7, <1>9, OneInFlight
  DEF TurnLoopInv, TypeOK

-----------------------------------------------------------------------------
(***************************************************************************)
(* Steps that write the turns table.                                       *)
(***************************************************************************)

LEMMA ExpireType ==
    ASSUME TypeOK, NEW freed, Expire(freed)
    PROVE  body' \in [Combatants -> Body]
<1>1. \A c \in Combatants : [body[c] EXCEPT !.state = "able"] \in Body
  BY DEF TypeOK, Body, Conditions
<1>2. QED  BY <1>1 DEF Expire, TypeOK

\* A row that keeps its combatant and its round: only its being active can
\* change.
LEMMA RowRestamped ==
    ASSUME turns \in Seq(Turn), NEW i \in DOMAIN turns, NEW t \in Turn,
           t.who = turns[i].who, t.round = turns[i].round,
           turns' = [turns EXCEPT ![i] = t], orphans' = orphans
    PROVE  /\ turns' \in Seq(Turn) /\ Len(turns') = Len(turns)
           /\ DOMAIN turns' = DOMAIN turns
           /\ \A j \in DOMAIN turns : /\ turns'[j].who = turns[j].who
                                      /\ turns'[j].round = turns[j].round
           /\ OneRowPerRound => OneRowPerRound'
           /\ t.status # "active" => Holders' = Holders \ {i}
           /\ t.status = "active" => Holders' = Holders \cup ({i} \ orphans)
<1>1. /\ turns' \in Seq(Turn) /\ Len(turns') = Len(turns)
      /\ DOMAIN turns' = DOMAIN turns /\ turns'[i] = t
      /\ \A j \in DOMAIN turns : j # i => turns'[j] = turns[j]
  BY RowRewritten
<1>2. \A j \in DOMAIN turns : /\ turns'[j].who = turns[j].who
                              /\ turns'[j].round = turns[j].round
  BY <1>1
<1>3. OneRowPerRound => OneRowPerRound'  BY <1>1, <1>2 DEF OneRowPerRound
<1>4. t.status # "active" => Holders' = Holders \ {i}
  BY <1>1 DEF Holders, ActiveRows
<1>5. t.status = "active" => Holders' = Holders \cup ({i} \ orphans)
  BY <1>1 DEF Holders, ActiveRows
<1>6. QED  BY <1>1, <1>2, <1>3, <1>4, <1>5

LEMMA StatusRewritten ==
    ASSUME TypeOK, NEW i \in DOMAIN turns,
           NEW s \in {"active", "completed", "skipped"},
           turns' = [turns EXCEPT ![i].status = s]
    PROVE  \E t \in Turn : /\ t.who = turns[i].who /\ t.round = turns[i].round
                           /\ t.status = s /\ turns' = [turns EXCEPT ![i] = t]
<1> DEFINE t == [turns[i] EXCEPT !.status = s]
<1>1. turns[i] \in Turn  BY DEF TypeOK
<1>2. t \in Turn /\ t.who = turns[i].who /\ t.round = turns[i].round /\ t.status = s
  BY <1>1 DEF Turn
<1>3. turns' = [turns EXCEPT ![i] = t]  OBVIOUS
<1>4. QED  BY <1>2, <1>3

LEMMA RowType ==
    ASSUME TypeOK
    PROVE  /\ \A i \in DOMAIN turns : turns[i] \in Turn
           /\ DOMAIN turns = 1..Len(turns) /\ Len(turns) \in Nat
  BY DEF TypeOK

LEMMA PointerIsRow ==
    ASSUME TypeOK, pointer # 0
    PROVE  pointer \in DOMAIN turns
  BY DEF TypeOK

LEMMA InvComplete ==
    ASSUME TurnLoopInv, NEW p \in Callers, Complete(p)
    PROVE  TurnLoopInv'
<1> DEFINE k == [call[p] EXCEPT !.pc = "list"]
<1>1. call[p].pc = "complete" /\ call[p] \in Call /\ TypeOK
  BY DEF Complete, TurnLoopInv, TypeOK
<1>2. call' = [call EXCEPT ![p] = k]  BY DEF Complete
<1>3. k \in Call /\ k.pc = "list" /\ k.rnd = call[p].rnd  BY <1>1 DEF Call
<1>4. call[p].cur = pointer /\ pointer # 0 /\ call[p].rnd = round
  BY <1>1 DEF TurnLoopInv, InFlight
<1>5. pointer \in DOMAIN turns  BY <1>1, <1>4, PointerIsRow
<1>6. turns' = [turns EXCEPT ![pointer].status = "completed"]
  BY <1>4 DEF Complete
<1>7. PICK t \in Turn : /\ t.who = turns[pointer].who /\ t.round = turns[pointer].round
                        /\ t.status = "completed"
                        /\ turns' = [turns EXCEPT ![pointer] = t]
  BY <1>1, <1>5, <1>6, StatusRewritten
<1>11. UNCHANGED <<status, round, pointer, ending, listed, orphans, faults>>  BY DEF Complete, around
<1>8. /\ turns' \in Seq(Turn) /\ Len(turns') = Len(turns) /\ DOMAIN turns' = DOMAIN turns
      /\ \A j \in DOMAIN turns : turns'[j].round = turns[j].round
      /\ OneRowPerRound' /\ Holders' = Holders \ {pointer}
  BY <1>1, <1>5, <1>7, <1>11, RowRestamped DEF TurnLoopInv, TypeOK
<1>9. Holders' = {}  BY <1>1, <1>8 DEF TurnLoopInv
<1>10. body' \in [Combatants -> Body]  BY <1>1, ExpireType DEF Complete
<1>12. InFlight(p)'
  BY <1>1, <1>2, <1>3, <1>4, <1>9, <1>11, OneInFlight DEF InFlight
<1>13. TypeOK'  BY <1>1, <1>2, <1>3, <1>8, <1>10, <1>11, OneInFlight DEF TypeOK
<1>14. QED
  BY <1>1, <1>2, <1>3, <1>8, <1>9, <1>11, <1>12, <1>13, OneInFlight
  DEF TurnLoopInv

LEMMA InvRoll ==
    ASSUME TurnLoopInv, NEW p \in Callers, Roll(p)
    PROVE  TurnLoopInv'
<1> DEFINE k == IF call[p].left = {} THEN IdleCall
                ELSE [call[p] EXCEPT !.pc = "pick", !.rnd = @ + 1]
<1>1. call[p].pc = "roll" /\ call[p] \in Call /\ TypeOK /\ round \in Nat
  BY DEF Roll, TurnLoopInv, TypeOK
<1>2. call' = [call EXCEPT ![p] = k] /\ round' = call[p].rnd + 1  BY DEF Roll
<1>3. call[p].rnd = round /\ Holders = {} /\ call[p].left \subseteq Seated
  BY <1>1 DEF TurnLoopInv, InFlight
<1>4. /\ k \in Call /\ k.pc \in {"pick", "idle"}
      /\ k.pc = "pick" => k.rnd = round + 1 /\ k.left \subseteq Seated
  <2>1. CASE call[p].left = {}
    <3>1. IdleCall.pc = "idle"  BY DEF IdleCall
    <3>2. QED  BY <2>1, <3>1, IdleCallType
  <2>2. CASE call[p].left # {}
    <3>1. call[p].rnd + 1 \in Nat  BY <1>1, <1>3
    <3>2. QED  BY <1>1, <1>3, <2>2, <3>1 DEF Call
  <2>3. QED  BY <2>1, <2>2
<1>5. UNCHANGED <<status, pointer, turns, body, ending, listed, orphans, faults>>  BY DEF Roll, around
<1>6. Holders' = {} /\ OneRowPerRound'
  BY <1>3, <1>5 DEF Holders, ActiveRows, OneRowPerRound, TurnLoopInv
<1>7. \A i \in DOMAIN turns : turns[i].round \in Nat
  BY <1>1, RowType DEF Turn
<1>8. \A i \in DOMAIN turns : turns[i].round <= round /\ turns[i].round # round + 1
  BY <1>1, <1>7 DEF TurnLoopInv
<1>9. \A c : ~ \E i \in DOMAIN turns' : turns'[i].who = c /\ turns'[i].round = round + 1
  BY <1>5, <1>8
<1>10. InFlight(p)'
  <2>1. call'[p] = k  BY <1>1, <1>2, <1>4, OneInFlight
  <2> HIDE DEF k
  <2>2. QED
    BY <1>2, <1>3, <1>4, <1>6, <1>9, <2>1 DEF InFlight, HasRow
<1>11. TypeOK'  BY <1>1, <1>2, <1>3, <1>4, <1>5, OneInFlight DEF TypeOK
<1>12. \A i \in DOMAIN turns' : turns'[i].round <= round'
  BY <1>1, <1>2, <1>3, <1>5, <1>7, <1>8
<1>13. QED
  BY <1>1, <1>2, <1>4, <1>5, <1>6, <1>10, <1>11, <1>12, OneInFlight DEF TurnLoopInv

\* A new row for a combatant that had none in its round.
LEMMA RowMinted ==
    ASSUME TypeOK, OneRowPerRound, NEW c \in Combatants, NEW r \in Nat,
           NEW s \in {"active", "skipped"}, ~HasRow(c, r),
           turns' = Append(turns, Row(c, r, s)), orphans' = orphans
    PROVE  /\ turns' \in Seq(Turn) /\ Len(turns') = Len(turns) + 1
           /\ DOMAIN turns' = DOMAIN turns \cup {Len(turns) + 1}
           /\ turns'[Len(turns) + 1] = Row(c, r, s)
           /\ \A j \in DOMAIN turns : turns'[j] = turns[j]
           /\ OneRowPerRound'
           /\ s = "skipped" => Holders' = Holders
           /\ s = "active" => Holders' = Holders \cup {Len(turns) + 1}
<1>1. /\ turns' \in Seq(Turn) /\ Len(turns') = Len(turns) + 1
      /\ DOMAIN turns' = DOMAIN turns \cup {Len(turns) + 1}
      /\ Len(turns) + 1 \notin DOMAIN turns
      /\ turns'[Len(turns) + 1] = Row(c, r, s)
      /\ \A j \in DOMAIN turns : turns'[j] = turns[j]
  <2>1. turns \in Seq(Turn)  BY DEF TypeOK
  <2>2. Row(c, r, s) \in Turn  BY RowIsTurn
  <2>3. QED  BY <2>1, <2>2, RowAppended
<1>2. Row(c, r, s).who = c /\ Row(c, r, s).round = r /\ Row(c, r, s).status = s
  BY DEF Row
<1>3. OneRowPerRound'  BY <1>1, <1>2 DEF OneRowPerRound, HasRow
<1>4. s = "skipped" => Holders' = Holders  BY <1>1, <1>2 DEF Holders, ActiveRows
<1>5. s = "active" => Holders' = Holders \cup {Len(turns) + 1}
  BY <1>1, <1>2 DEF TypeOK, Holders, ActiveRows
<1>6. QED  BY <1>1, <1>3, <1>4, <1>5

LEMMA AfterSkipType ==
    ASSUME NEW k \in Call, k.pc = "pick", k.left \subseteq Seated, NEW c \in k.left
    PROVE  LET n == AfterSkip(k, c) IN
           /\ n \in Call /\ n.pc \in {"pick", "roll", "idle"}
           /\ n.pc = "pick" => n.rnd = k.rnd /\ n.left = k.left \ {c}
           /\ n.pc = "roll" => n.rnd = k.rnd /\ n.left \subseteq Seated
<1>1. Eligible(k.seen) \subseteq Seated /\ Seated \subseteq Combatants
  BY DEF Eligible, Seated
<1>2. CASE k.left # {c}
  BY <1>2 DEF AfterSkip, Call
<1>3. CASE k.left = {c} /\ k.again
  <2>1. IdleCall.pc = "idle"  BY DEF IdleCall
  <2>2. AfterSkip(k, c) = IdleCall  BY <1>3 DEF AfterSkip
  <2>3. QED  BY <2>1, <2>2, IdleCallType
<1>4. CASE k.left = {c} /\ ~k.again
  BY <1>1, <1>4 DEF AfterSkip, Call
<1>5. QED  BY <1>2, <1>3, <1>4

LEMMA InvSkip ==
    ASSUME TurnLoopInv, NEW p \in Callers, Skip(p)
    PROVE  TurnLoopInv'
<1>1. call[p].pc = "pick" /\ call[p] \in Call /\ TypeOK /\ OneRowPerRound
  BY DEF Skip, TurnLoopInv, TypeOK
<1>2. /\ call[p].rnd = round /\ round \in Nat /\ Holders = {}
      /\ call[p].left \subseteq Seated /\ Seated \subseteq Combatants
      /\ \A c \in call[p].left : ~HasRow(c, round)
  BY <1>1 DEF TurnLoopInv, InFlight, TypeOK, Seated
<1>3. PICK c \in call[p].left :
        /\ turns' = Append(turns, Row(c, round, "skipped"))
        /\ \/ body' = [body EXCEPT ![c] = WrittenBack(@, call[p].seen[c])]
           \/ body' = body
        /\ call' = [call EXCEPT ![p] = AfterSkip(call[p], c)]
  BY <1>2 DEF Skip
<1> DEFINE k == AfterSkip(call[p], c)
<1>4. /\ k \in Call /\ k.pc \in {"pick", "roll", "idle"}
      /\ k.pc = "pick" => k.rnd = round /\ k.left = call[p].left \ {c}
      /\ k.pc = "roll" => k.rnd = round /\ k.left \subseteq Seated
  BY <1>1, <1>2, AfterSkipType
<1>5. call' = [call EXCEPT ![p] = k]  BY <1>3
<1>6. UNCHANGED <<status, round, pointer, ending, listed, orphans, faults>>  BY DEF Skip, around
<1> HIDE DEF k
<1>7. /\ turns' \in Seq(Turn) /\ Len(turns') = Len(turns) + 1
      /\ DOMAIN turns' = DOMAIN turns \cup {Len(turns) + 1}
      /\ turns'[Len(turns) + 1] = Row(c, round, "skipped")
      /\ \A j \in DOMAIN turns : turns'[j] = turns[j]
      /\ OneRowPerRound' /\ Holders' = {}
  BY <1>1, <1>2, <1>3, <1>6, RowMinted
<1>8. Row(c, round, "skipped").who = c /\ Row(c, round, "skipped").round = round
  BY DEF Row
<1>9. body' \in [Combatants -> Body]
  <2>1. WrittenBack(body[c], call[p].seen[c]) \in Body
    BY <1>1, <1>2 DEF TypeOK, Call, Body, Conditions, WrittenBack
  <2>2. QED  BY <1>1, <1>2, <1>3, <2>1 DEF TypeOK
<1>10. InFlight(p)'
  <2>1. call'[p] = k  BY <1>1, <1>4, <1>5, OneInFlight
  <2>2. \A d \in call[p].left \ {c} :
          ~ \E i \in DOMAIN turns' : turns'[i].who = d /\ turns'[i].round = round
    BY <1>2, <1>7, <1>8 DEF HasRow
  <2>3. QED
    BY <1>2, <1>4, <1>6, <1>7, <2>1, <2>2 DEF InFlight, HasRow
<1>11. TypeOK'
  BY <1>1, <1>4, <1>5, <1>6, <1>7, <1>9, OneInFlight, RowType DEF TypeOK
<1>12. \A i \in DOMAIN turns' : turns'[i].round <= round'
  BY <1>2, <1>6, <1>7, <1>8 DEF TurnLoopInv
<1>13. QED
  BY <1>1, <1>4, <1>5, <1>6, <1>7, <1>10, <1>11, <1>12, OneInFlight DEF TurnLoopInv

LEMMA InvActivate ==
    ASSUME TurnLoopInv, NEW p \in Callers, Activate(p)
    PROVE  TurnLoopInv'
<1> DEFINE new == Len(turns) + 1
           k == [call[p] EXCEPT !.pc = "point", !.fresh = new]
<1>1. call[p].pc = "pick" /\ call[p] \in Call /\ TypeOK /\ OneRowPerRound
  BY DEF Activate, TurnLoopInv, TypeOK
<1>2. /\ call[p].rnd = round /\ round \in Nat /\ Holders = {}
      /\ call[p].left \subseteq Combatants
      /\ \A c \in call[p].left : ~HasRow(c, round)
  BY <1>1 DEF TurnLoopInv, InFlight, TypeOK, Seated
<1>3. PICK c \in call[p].left : turns' = Append(turns, Row(c, round, "active"))
  BY <1>2 DEF Activate
<1>4. call' = [call EXCEPT ![p] = k]  BY <1>1 DEF Activate, TypeOK
<1>5. k \in Call /\ k.pc = "point" /\ k.fresh = new
  <2>1. new \in Nat  BY <1>1, RowType
  <2> HIDE DEF new
  <2>2. QED  BY <1>1, <2>1 DEF Call
<1>6. UNCHANGED <<status, round, pointer, body, ending, listed, orphans, faults>>  BY DEF Activate, around
<1>7. /\ turns' \in Seq(Turn) /\ Len(turns') = Len(turns) + 1
      /\ DOMAIN turns' = DOMAIN turns \cup {new}
      /\ turns'[new] = Row(c, round, "active")
      /\ \A j \in DOMAIN turns : turns'[j] = turns[j]
      /\ OneRowPerRound' /\ Holders' = {new}
  BY <1>1, <1>2, <1>3, <1>6, RowMinted
<1>8. Row(c, round, "active").round = round  BY DEF Row
<1>9. call'[p] = k  BY <1>1, <1>4, <1>5, OneInFlight
<1>10. InFlight(p)'
  <2>1. new \notin orphans /\ new # pointer  BY <1>1, RowType DEF TypeOK
  <2> HIDE DEF new, k
  <2>2. QED  BY <1>5, <1>6, <1>7, <1>9, <2>1 DEF InFlight
<1>11. TypeOK'
  BY <1>1, <1>4, <1>5, <1>6, <1>7, OneInFlight, RowType DEF TypeOK
<1>12. \A i \in DOMAIN turns' : turns'[i].round <= round'
  BY <1>2, <1>6, <1>7, <1>8 DEF TurnLoopInv
<1>13. QED
  BY <1>1, <1>4, <1>5, <1>6, <1>7, <1>9, <1>10, <1>11, <1>12, OneInFlight
  DEF TurnLoopInv

LEMMA InvPoint ==
    ASSUME TurnLoopInv, NEW p \in Callers, Point(p)
    PROVE  TurnLoopInv'
<1>1. call[p].pc = "point" /\ TypeOK /\ IdleCall.pc = "idle"
  BY DEF Point, TurnLoopInv, IdleCall
<1>2. pointer' = call[p].fresh /\ call' = [call EXCEPT ![p] = IdleCall]
  BY DEF Point
<1>3. UNCHANGED <<status, round, turns, ending, listed, orphans, faults>>  BY DEF Point, around
<1>4. call[p].fresh \in DOMAIN turns \ orphans /\ Holders \subseteq {call[p].fresh}
  BY <1>1 DEF TurnLoopInv, InFlight
<1>5. Holders' = Holders /\ OneRowPerRound' = OneRowPerRound
  BY <1>3 DEF Holders, ActiveRows, OneRowPerRound
<1>6. body' \in [Combatants -> Body]  BY <1>1, ExpireType DEF Point
<1>7. call' \in [Callers -> Call] /\ \A q \in Callers : call'[q].pc = "idle"
  BY <1>1, <1>2, OneInFlight, IdleCallType
<1>8. TypeOK'  BY <1>1, <1>2, <1>3, <1>4, <1>6, <1>7, RowType DEF TypeOK
<1>9. \A q \in Callers : InFlight(q)'  BY <1>7 DEF InFlight
<1>10. QED
  BY <1>2, <1>3, <1>4, <1>5, <1>7, <1>8, <1>9 DEF TurnLoopInv

\* A call that stops half-way: what it wrote is what a step of it writes, but
\* for the pointer; the row it was going to point at is left behind.
LEMMA InvStop ==
    ASSUME TurnLoopInv, NEW p \in Callers, Stop(p)
    PROVE  TurnLoopInv'
<1>1. /\ call[p].pc # "idle" /\ call[p] \in Call /\ TypeOK /\ OneRowPerRound
      /\ IdleCall.pc = "idle" /\ InFlight(p)
  BY DEF Stop, TurnLoopInv, TypeOK, IdleCall
<1>2. /\ call' = [call EXCEPT ![p] = IdleCall] /\ faults' = faults + 1
      /\ UNCHANGED <<status, pointer, ending, listed>>
      /\ orphans' = IF call[p].pc = "point" THEN orphans \cup {call[p].fresh} ELSE orphans
  BY DEF Stop
<1>3. call' \in [Callers -> Call] /\ \A q \in Callers : call'[q].pc = "idle"
  BY <1>1, <1>2, OneInFlight, IdleCallType
<1>4. /\ turns' \in Seq(Turn) /\ DOMAIN turns \subseteq DOMAIN turns'
      /\ pointer \in 0..Len(turns')
      /\ OneRowPerRound' /\ round' \in Nat
      /\ \A i \in DOMAIN turns' : turns'[i].round <= round'
      /\ body' \in [Combatants -> Body]
      /\ ActiveRows' = ActiveRows
  <2>1. CASE UNCHANGED <<round, turns, body>>
    BY <1>1, <2>1 DEF TurnLoopInv, TypeOK, OneRowPerRound, ActiveRows
  <2>2. CASE /\ UNCHANGED <<round, turns>>
             /\ \E freed \in SUBSET {c \in Combatants : Bound(c)} : Expire(freed)
    <3>1. body' \in [Combatants -> Body]  BY <1>1, <2>2, ExpireType
    <3>2. QED  BY <1>1, <2>2, <3>1 DEF TurnLoopInv, TypeOK, OneRowPerRound, ActiveRows
  <2>3. CASE /\ call[p].pc = "roll" /\ round' = call[p].rnd + 1
             /\ UNCHANGED <<turns, body>>
    <3>1. round' = round + 1 /\ round \in Nat  BY <1>1, <2>3 DEF InFlight, TypeOK
    <3>2. \A i \in DOMAIN turns : turns[i].round \in Nat  BY <1>1, RowType DEF Turn
    <3>3. \A i \in DOMAIN turns' : turns'[i].round <= round'
      BY <2>3, <3>1, <3>2 DEF TurnLoopInv
    <3>4. QED  BY <1>1, <2>3, <3>1, <3>3 DEF TypeOK, OneRowPerRound, ActiveRows
  <2>4. CASE /\ call[p].pc = "pick" /\ UNCHANGED <<round, body>>
             /\ \E c \in call[p].left : turns' = Append(turns, Row(c, call[p].rnd, "skipped"))
    <3>1. /\ call[p].rnd = round /\ round \in Nat
          /\ call[p].left \subseteq Combatants
          /\ \A c \in call[p].left : ~HasRow(c, round)
      BY <1>1, <2>4 DEF InFlight, TypeOK, Seated
    <3>2. PICK c \in call[p].left : turns' = Append(turns, Row(c, round, "skipped"))
      BY <2>4, <3>1
    <3>3. orphans' = orphans  BY <1>2, <2>4
    <3>4. /\ turns' \in Seq(Turn) /\ Len(turns') = Len(turns) + 1
          /\ DOMAIN turns' = DOMAIN turns \cup {Len(turns) + 1}
          /\ turns'[Len(turns) + 1] = Row(c, round, "skipped")
          /\ \A j \in DOMAIN turns : turns'[j] = turns[j]
          /\ OneRowPerRound'
      BY <1>1, <3>1, <3>2, <3>3, RowMinted
    <3>5. Row(c, round, "skipped").round = round /\ Row(c, round, "skipped").status = "skipped"
      BY DEF Row
    <3>6. ActiveRows' = ActiveRows  BY <3>4, <3>5 DEF ActiveRows
    <3>7. \A i \in DOMAIN turns' : turns'[i].round <= round'
      BY <2>4, <3>1, <3>4, <3>5 DEF TurnLoopInv
    <3>8. pointer \in 0..Len(turns')  BY <1>1, <3>4, RowType DEF TypeOK
    <3>9. body' \in [Combatants -> Body] /\ round' \in Nat  BY <1>1, <2>4 DEF TypeOK
    <3>10. QED  BY <3>4, <3>6, <3>7, <3>8, <3>9
  <2>5. QED  BY <2>1, <2>2, <2>3, <2>4 DEF Stop
<1>5. orphans' \subseteq DOMAIN turns'
  BY <1>1, <1>2, <1>4 DEF InFlight, TypeOK
<1>6. pointer \notin orphans'
  <2>1. CASE call[p].pc = "point"
    <3>1. call[p].fresh \in DOMAIN turns \ orphans  BY <1>1, <2>1 DEF InFlight
    <3>2. call[p].fresh # pointer  BY <1>1, <2>1 DEF InFlight
    <3>3. QED  BY <1>2, <2>1, <3>2 DEF TurnLoopInv
  <2>2. QED  BY <1>2, <2>1 DEF TurnLoopInv
<1>7. Holders' \subseteq {pointer}
  <2>1. CASE call[p].pc = "point"
    <3>1. Holders \subseteq {call[p].fresh}  BY <1>1, <2>1 DEF InFlight
    <3>2. Holders' = Holders \ {call[p].fresh}  BY <1>2, <1>4, <2>1 DEF Holders
    <3>3. QED  BY <3>1, <3>2
  <2>2. CASE call[p].pc # "point"
    <3>1. \A q \in Callers : call[q].pc # "point"  BY <1>1, <2>2 DEF TurnLoopInv
    <3>2. Holders \subseteq {pointer}  BY <3>1 DEF TurnLoopInv
    <3>3. Holders' = Holders  BY <1>2, <1>4, <2>2 DEF Holders
    <3>4. QED  BY <3>2, <3>3
  <2>3. QED  BY <2>1, <2>2
<1>8. TypeOK'
  BY <1>1, <1>2, <1>3, <1>4, <1>5 DEF TypeOK
<1>9. \A q \in Callers : InFlight(q)'  BY <1>3 DEF InFlight
<1>10. QED  BY <1>2, <1>3, <1>4, <1>6, <1>7, <1>8, <1>9 DEF TurnLoopInv

-----------------------------------------------------------------------------
(***************************************************************************)
(* Steps of the other handlers.                                            *)
(***************************************************************************)

\* What a step that lets every call be, and never activates a row, must keep.
LEMMA WorldStep ==
    ASSUME TurnLoopInv, UNCHANGED <<round, pointer, call, orphans>>,
           ending' \in BOOLEAN, listed' \subseteq DOMAIN turns, faults' \in Nat,
           status' \in {"active", "completed"}, body' \in [Combatants -> Body],
           turns' \in Seq(Turn), Len(turns') = Len(turns),
           DOMAIN turns' = DOMAIN turns,
           \A j \in DOMAIN turns : /\ turns'[j].who = turns[j].who
                                   /\ turns'[j].round = turns[j].round,
           Holders' \subseteq Holders
    PROVE  TurnLoopInv'
<1>1. TypeOK'  BY DEF TurnLoopInv, TypeOK
<1>2. OneRowPerRound'  BY DEF TurnLoopInv, OneRowPerRound
<1>3. \A p \in Callers : InFlight(p)'
  <2> SUFFICES ASSUME NEW p \in Callers PROVE InFlight(p)'  OBVIOUS
  <2>1. InFlight(p)  BY DEF TurnLoopInv
  <2>2. \A c, r : (\E i \in DOMAIN turns' : turns'[i].who = c /\ turns'[i].round = r)
                    => (\E i \in DOMAIN turns : turns[i].who = c /\ turns[i].round = r)
    OBVIOUS
  <2>3. QED  BY <2>1, <2>2 DEF InFlight, HasRow
<1>4. \A i \in DOMAIN turns' : turns'[i].round <= round'  BY DEF TurnLoopInv
<1>5. QED  BY <1>1, <1>2, <1>3, <1>4 DEF TurnLoopInv

LEMMA InvSpendAction ==
    ASSUME TurnLoopInv, NEW i \in DOMAIN turns, SpendAction(i)
    PROVE  TurnLoopInv'
<1> DEFINE t == [turns[i] EXCEPT !.acted = TRUE]
<1>1. TypeOK /\ turns[i] \in Turn /\ i \in ActiveRows
  BY RowType DEF TurnLoopInv, SpendAction
<1>2. t \in Turn /\ t.who = turns[i].who /\ t.round = turns[i].round
      /\ t.status = turns[i].status
  BY <1>1 DEF Turn
<1>3. t.status = "active"  BY <1>1, <1>2 DEF Holders, ActiveRows
<1>4. turns' = [turns EXCEPT ![i] = t]  BY DEF SpendAction
<1> HIDE DEF t
<1>5. turns \in Seq(Turn)  BY <1>1 DEF TypeOK
<1>7. UNCHANGED <<status, round, pointer, body, call, ending, listed, orphans, faults>>  BY DEF SpendAction, around
<1>6. /\ turns' \in Seq(Turn) /\ Len(turns') = Len(turns) /\ DOMAIN turns' = DOMAIN turns
      /\ \A j \in DOMAIN turns : /\ turns'[j].who = turns[j].who
                                 /\ turns'[j].round = turns[j].round
      /\ Holders' = Holders \cup ({i} \ orphans)
  BY <1>2, <1>3, <1>4, <1>5, <1>7, RowRestamped
<1>8. Holders' \subseteq Holders  BY <1>1, <1>6 DEF Holders
<1>9. QED  BY <1>1, <1>6, <1>7, <1>8, WorldStep DEF TypeOK

LEMMA InvAutoResolve ==
    ASSUME TurnLoopInv, NEW i \in DOMAIN turns, AutoResolve(i)
    PROVE  TurnLoopInv'
<1>1. TypeOK /\ turns \in Seq(Turn)  BY DEF TurnLoopInv, TypeOK
<1>2. turns' = [turns EXCEPT ![i].status = "completed"]  BY DEF AutoResolve
<1>3. PICK t \in Turn : /\ t.who = turns[i].who /\ t.round = turns[i].round
                        /\ t.status = "completed" /\ turns' = [turns EXCEPT ![i] = t]
  BY <1>1, <1>2, StatusRewritten
<1>4. UNCHANGED <<status, round, pointer, body, call, ending, orphans, faults>>
      /\ listed' = listed \ {i}
  BY DEF AutoResolve
<1>5. /\ turns' \in Seq(Turn) /\ Len(turns') = Len(turns) /\ DOMAIN turns' = DOMAIN turns
      /\ \A j \in DOMAIN turns : /\ turns'[j].who = turns[j].who
                                 /\ turns'[j].round = turns[j].round
      /\ Holders' = Holders \ {i}
  BY <1>1, <1>3, <1>4, RowRestamped
<1>6. QED  BY <1>1, <1>4, <1>5, WorldStep DEF TypeOK

\* What the timer has listed moves nothing in the tables.
LEMMA InvTimer ==
    ASSUME TurnLoopInv, PickUp \/ \E i \in DOMAIN turns : LeaveUnresolved(i)
    PROVE  TurnLoopInv'
<1>1. TypeOK /\ turns \in Seq(Turn)  BY DEF TurnLoopInv, TypeOK
<1>2. UNCHANGED <<status, round, pointer, turns, body, call, ending, orphans, faults>>
  BY DEF PickUp, LeaveUnresolved
<1>3. listed' \subseteq DOMAIN turns
  BY <1>1 DEF PickUp, LeaveUnresolved, ActiveRows, TypeOK
<1>4. Holders' = Holders  BY <1>2 DEF Holders, ActiveRows
<1>5. QED  BY <1>1, <1>2, <1>3, <1>4, WorldStep DEF TypeOK

LEMMA InvSuffer ==
    ASSUME TurnLoopInv, NEW c \in Combatants, Suffer(c)
    PROVE  TurnLoopInv'
<1>1. TypeOK /\ body[c] \in Body  BY DEF TurnLoopInv, TypeOK
<1>2. PICK s \in Fates[c] : body' = [body EXCEPT ![c].state = s]
  BY DEF Suffer
<1>3. s \in Conditions  BY BoundsAssumption DEF Conditions
<1>4. [body[c] EXCEPT !.state = s] \in Body  BY <1>1, <1>3 DEF Body
<1>5. body' = [body EXCEPT ![c] = [body[c] EXCEPT !.state = s]]  BY <1>2
<1>6. body' \in [Combatants -> Body]  BY <1>1, <1>4, <1>5 DEF TypeOK
<1>7. UNCHANGED <<status, round, pointer, turns, call, ending, listed, orphans, faults>>  BY DEF Suffer, around
<1>8. Holders' = Holders  BY <1>7 DEF Holders, ActiveRows
<1>9. QED  BY <1>1, <1>6, <1>7, <1>8, WorldStep DEF TypeOK

LEMMA InvEndCombat ==
    ASSUME TurnLoopInv, EndCombat
    PROVE  TurnLoopInv'
<1>1. TypeOK /\ turns \in Seq(Turn)  BY DEF TurnLoopInv, TypeOK
<1>2. UNCHANGED <<status, round, pointer, body, call, listed, orphans, faults>> /\ ending' = TRUE
  BY DEF EndCombat
<1>3. /\ turns' \in Seq(Turn) /\ Len(turns') = Len(turns) /\ DOMAIN turns' = DOMAIN turns
      /\ \A j \in DOMAIN turns : /\ turns'[j].who = turns[j].who
                                 /\ turns'[j].round = turns[j].round
      /\ Holders' \subseteq Holders
  <2>1. CASE pointer = 0
    <3>1. turns' = turns  BY <2>1 DEF EndCombat
    <3>2. Holders' = Holders  BY <1>2, <3>1 DEF Holders, ActiveRows
    <3>3. QED  BY <1>1, <3>1, <3>2
  <2>2. CASE pointer # 0
    <3>1. pointer \in DOMAIN turns  BY <1>1, <2>2, PointerIsRow
    <3>2. turns' = [turns EXCEPT ![pointer].status = "completed"]
      BY <2>2 DEF EndCombat
    <3>3. PICK t \in Turn : /\ t.who = turns[pointer].who
                            /\ t.round = turns[pointer].round
                            /\ t.status = "completed"
                            /\ turns' = [turns EXCEPT ![pointer] = t]
      BY <1>1, <3>1, <3>2, StatusRewritten
    <3>4. QED  BY <1>1, <1>2, <3>1, <3>3, RowRestamped
  <2>3. QED  BY <2>1, <2>2
<1>4. QED  BY <1>1, <1>2, <1>3, WorldStep DEF TypeOK

LEMMA InvFinish ==
    ASSUME TurnLoopInv, Finish
    PROVE  TurnLoopInv'
<1>1. TypeOK /\ turns \in Seq(Turn)  BY DEF TurnLoopInv, TypeOK
<1>2. UNCHANGED <<round, pointer, turns, call, listed, orphans>> /\ ending' = FALSE
      /\ faults' \in Nat /\ status' \in {"active", "completed"}
  BY <1>1 DEF Finish, CloseEncounter, StopEnding, TypeOK
<1>3. body' \in [Combatants -> Body]
  <2>1. \A c \in Combatants : \A s \in {"able", body[c].state} :
          [state |-> s, surprised |-> FALSE] \in Body
    BY <1>1 DEF TypeOK, Body, Conditions
  <2>2. CASE CloseEncounter
    <3>1. PICK freed : body' = [c \in Combatants |->
                        [state |-> IF c \in freed THEN "able" ELSE body[c].state,
                         surprised |-> FALSE]]
      BY <2>2 DEF CloseEncounter
    <3>2. QED  BY <2>1, <3>1
  <2>3. CASE StopEnding  BY <1>1, <2>3 DEF StopEnding, TypeOK
  <2>4. QED  BY <2>2, <2>3 DEF Finish
<1>4. Holders' = Holders  BY <1>2 DEF Holders, ActiveRows
<1>5. QED  BY <1>1, <1>2, <1>3, <1>4, WorldStep DEF TypeOK

\* The row is moved to a combatant without a row in its round, so the round
\* still has one row for each.
LEMMA InvReseat ==
    ASSUME TurnLoopInv, Quiet, NEW c \in Combatants, Reseat(c)
    PROVE  TurnLoopInv'
<1> DEFINE t == Row(c, turns[pointer].round, "active")
<1>1. TypeOK /\ turns \in Seq(Turn) /\ pointer \in DOMAIN turns /\ OneRowPerRound
      /\ turns[pointer] \in Turn
  BY PointerIsRow, RowType DEF TurnLoopInv, TypeOK, Reseat
<1>2. t \in Turn /\ t.who = c /\ t.round = turns[pointer].round /\ t.status = "active"
  BY <1>1 DEF Row, Turn
<1>3. /\ turns' = [turns EXCEPT ![pointer] = t]
      /\ ~ \E i \in DOMAIN turns : /\ i # pointer /\ turns[i].who = c
                                   /\ turns[i].round = turns[pointer].round
  BY DEF Reseat
<1> HIDE DEF t
<1>4. /\ turns' \in Seq(Turn) /\ Len(turns') = Len(turns)
      /\ DOMAIN turns' = DOMAIN turns /\ turns'[pointer] = t
      /\ \A j \in DOMAIN turns : j # pointer => turns'[j] = turns[j]
  BY <1>1, <1>2, <1>3, RowRewritten
<1>5. UNCHANGED <<status, round, pointer, call, ending, listed, orphans, faults>>  BY DEF Reseat, around
<1>6. OneRowPerRound'  BY <1>1, <1>2, <1>3, <1>4 DEF OneRowPerRound
<1>7. Holders \subseteq {pointer} /\ \A p \in Callers : call[p].pc = "idle"
  BY DEF TurnLoopInv, Quiet
<1>8. Holders' \subseteq {pointer}  BY <1>4, <1>5, <1>7 DEF Holders, ActiveRows
<1>9. \A p \in Callers : InFlight(p)'  BY <1>5, <1>7 DEF InFlight
<1>10. TypeOK'
  <2>1. body' \in [Combatants -> Body]  BY <1>1, ExpireType DEF Reseat
  <2>2. QED  BY <1>1, <1>4, <1>5, <2>1 DEF TypeOK
<1>11. \A i \in DOMAIN turns' : turns'[i].round <= round'
  BY <1>1, <1>2, <1>4, <1>5 DEF TurnLoopInv
<1>12. QED
  BY <1>5, <1>6, <1>7, <1>8, <1>9, <1>10, <1>11 DEF TurnLoopInv

-----------------------------------------------------------------------------
\* Whatever the combatants, their seats and their number, the turn handlers
\* run one at a time keep what each of their statements relies on.
THEOREM TurnLoopInvariant == SerialSpec => []TurnLoopInv
<1>1. TurnLoopInv /\ [SerialNext]_vars => TurnLoopInv'
  <2> SUFFICES ASSUME TurnLoopInv, [SerialNext]_vars PROVE TurnLoopInv'
    OBVIOUS
  <2>1. CASE UNCHANGED vars
    BY <2>1 DEF vars, around, TurnLoopInv, TypeOK, InFlight, OneRowPerRound, Holders, ActiveRows, HasRow
  <2>2. CASE Quiet /\ \E p \in Callers : Request(p) \/ Confirm(p)
    BY <2>2, InvBegin
  <2>3. ASSUME NEW p \in Callers, Step(p) PROVE TurnLoopInv'
    BY <2>3, InvRefuse, InvEnter, InvComplete, InvList, InvRoll, InvSkip,
       InvActivate, InvPoint DEF Step
  <2>4. CASE Quiet /\ \E c \in Combatants : Reseat(c)
    BY <2>4, InvReseat
  <2>5. CASE EndCombat
    BY <2>5, InvEndCombat
  <2>6. CASE World
    BY <2>6, InvSpendAction, InvAutoResolve, InvTimer, InvSuffer DEF World, Seated
  <2>7. ASSUME NEW p \in Callers, Stop(p) PROVE TurnLoopInv'
    BY <2>7, InvStop
  <2>8. CASE Finish
    BY <2>8, InvFinish
  <2>9. QED  BY <2>1, <2>2, <2>3, <2>4, <2>5, <2>6, <2>7, <2>8 DEF SerialNext
<1>2. QED  BY InvInit, <1>1, PTL DEF SerialSpec

\* Each combatant gets at most one turn row a round: nobody acts twice.
THEOREM NobodyActsTwice == SerialSpec => []OneRowPerRound
<1>1. TurnLoopInv => OneRowPerRound  BY DEF TurnLoopInv
<1>2. QED  BY <1>1, TurnLoopInvariant, PTL

\* With no handler in flight the pointer and the status column agree.
THEOREM PointerAgrees == SerialSpec => []ActiveIsPointedAt
<1>1. TurnLoopInv => ActiveIsPointedAt
  BY DEF TurnLoopInv, ActiveIsPointedAt, Quiet, Holders
<1>2. QED  BY <1>1, TurnLoopInvariant, PTL

-----------------------------------------------------------------------------
(***************************************************************************)
(* Order, full rounds and the refinement of RoundRobin need more: whom the *)
(* pass in flight has seen alive and no longer holds has a row in its      *)
(* round; when it is about to roll, everybody has; a call that is going to *)
(* complete a turn has seen the creature act; rows belong to seats.        *)
(***************************************************************************)
PassOK(p) ==
    LET k == call[p] IN
    /\ k.pc = "complete" => ~NpcNotExecuted
    /\ k.pc = "pick" => \A d \in Eligible(k.seen) \ k.left : HasRow(d, k.rnd)
    /\ k.pc = "roll" => /\ k.left = Eligible(k.seen)
                        /\ \A d \in Eligible(k.seen) : HasRow(d, k.rnd)

RowsSeated == \A i \in DOMAIN turns : turns[i].who \in Seated

PassInv ==
    /\ TurnLoopInv
    /\ RowsSeated
    /\ \A p \in Callers : PassOK(p)

\* What every step of the serialised turn loop does.
Orderly ==
    /\ Abstract!RRNext \/ UNCHANGED Abstract!rrVars
    /\ \A p \in Callers : GivesInOrder(p) /\ ClosesFull(p)
    /\ \A i \in DOMAIN turns : KeptUntilExecuted(i)

LEMMA FloorIs ==
    /\ Holders = {} => Floor = Nobody
    /\ \A i : Holders = {i} => Floor = turns[i].who
BY DEF Floor

LEMMA AtMostOneActive ==
    ASSUME TurnLoopInv
    PROVE  Holders = {} \/ \E i \in DOMAIN turns : Holders = {i}
<1>1. \A i, j \in Holders : i = j
    BY DEF TurnLoopInv, InFlight
<1> QED  BY <1>1 DEF Holders, ActiveRows

\* A step that leaves the tables alone is a stutter of the round robin.
LEMMA TablesAlone ==
    ASSUME UNCHANGED <<round, turns, orphans>>
    PROVE  /\ UNCHANGED Abstract!rrVars
           /\ \A i \in DOMAIN turns : KeptUntilExecuted(i)
           /\ RowsSeated => RowsSeated'
           /\ \A c, r : HasRow(c, r) => (\E i \in DOMAIN turns' : turns'[i].who = c /\ turns'[i].round = r)
BY DEF Abstract!rrVars, HasRow, Floor, Holders, ActiveRows, KeptUntilExecuted, RowsSeated

\* A step that stamps rows and hands none over ends the active turn, or is
\* another stutter.
LEMMA RowsStamped ==
    ASSUME TurnLoopInv, RowsSeated, round' = round, orphans' = orphans,
           DOMAIN turns' = DOMAIN turns,
           \A j \in DOMAIN turns : /\ turns'[j].who = turns[j].who
                                   /\ turns'[j].round = turns[j].round,
           Holders' \subseteq Holders
    PROVE  /\ Abstract!RRNext \/ UNCHANGED Abstract!rrVars
           /\ RowsSeated'
           /\ \A c, r : (\E i \in DOMAIN turns' : turns'[i].who = c /\ turns'[i].round = r) <=> HasRow(c, r)
<1>1. \A c, r : (\E i \in DOMAIN turns' : turns'[i].who = c /\ turns'[i].round = r) <=> HasRow(c, r)
    BY DEF HasRow
<1>2. {c \in Seated : HasRow(c, round)}' = {c \in Seated : HasRow(c, round)}
    BY <1>1 DEF HasRow
<1>3. RowsSeated'
    BY DEF RowsSeated
<1>4. Abstract!RRNext \/ UNCHANGED Abstract!rrVars
    <2>1. CASE Holders' = Holders
        <3>1. Floor' = Floor
            <4>1. CASE Holders = {}
                BY <2>1, <4>1, FloorIs DEF Floor
            <4>2. CASE \E i \in DOMAIN turns : Holders = {i}
                BY <2>1, <4>2 DEF Floor
            <4> QED  BY <4>1, <4>2, AtMostOneActive
        <3>2. (\E i \in Holders : turns[i].round < round)'
                = (\E i \in Holders : turns[i].round < round)
            BY <2>1 DEF Holders, ActiveRows
        <3> QED  BY <1>2, <3>1, <3>2 DEF Abstract!rrVars
    <2>2. CASE Holders' # Holders
        <3>1. PICK i \in DOMAIN turns : Holders = {i}
            BY <2>2, AtMostOneActive
        <3>2. Holders' = {}
            BY <2>2, <3>1
        <3>3. Floor' = Nobody /\ Floor = turns[i].who
            BY <3>1, <3>2 DEF Floor
        <3>4. turns[i].who # Nobody
            BY CombatantsAssumption DEF RowsSeated, Seated
        <3>5. Abstract!Finish
            BY <1>2, <3>2, <3>3, <3>4 DEF Abstract!Finish
        <3> QED  BY <3>5 DEF Abstract!RRNext
    <2> QED  BY <2>1, <2>2
<1> QED  BY <1>1, <1>3, <1>4

\* Of the calls only the one that moves can break a promise.
LEMMA OthersRest ==
    ASSUME TurnLoopInv, NEW p \in Callers, call[p].pc # "idle",
           NEW k \in Call, call' = [call EXCEPT ![p] = k]
    PROVE  \A q \in Callers \ {p} : PassOK(q)' /\ GivesInOrder(q) /\ ClosesFull(q)
<1>1. \A q \in Callers \ {p} : call[q].pc = "idle" /\ call'[q].pc = "idle"
    BY OneInFlight DEF TurnLoopInv
<1> QED  BY <1>1 DEF PassOK, GivesInOrder, ClosesFull

LEMMA PassBegin ==
    ASSUME PassInv, Quiet, NEW p \in Callers, Request(p) \/ Confirm(p)
    PROVE  PassInv' /\ Orderly
<1>1. TurnLoopInv'
    BY InvBegin DEF PassInv
<1>2. UNCHANGED <<status, round, pointer, turns, body, ending, listed, orphans, faults>>
    BY DEF Request, Confirm, around
<1>3. \A q \in Callers : call[q].pc = "idle"
    BY DEF Quiet
<1>4. \A q \in Callers : call'[q].pc \in {"idle", "enter"}
    <2>1. call \in [Callers -> Call]
        BY DEF PassInv, TurnLoopInv, TypeOK
    <2> QED  BY <1>3, <2>1 DEF Request, Confirm, IdleCall
<1>5. \A q \in Callers : PassOK(q)' /\ GivesInOrder(q) /\ ClosesFull(q)
    BY <1>3, <1>4 DEF PassOK, GivesInOrder, ClosesFull
<1> QED  BY <1>1, <1>2, <1>5, TablesAlone DEF PassInv, Orderly

LEMMA PassRefuse ==
    ASSUME PassInv, NEW p \in Callers, Refuse(p)
    PROVE  PassInv' /\ Orderly
<1>1. TurnLoopInv'
    BY InvRefuse DEF PassInv
<1>2. call' = [call EXCEPT ![p] = IdleCall] /\ call[p].pc = "enter"
      /\ UNCHANGED <<status, round, pointer, turns, body, ending, listed, orphans, faults>>
    BY DEF Refuse, around
<1>3. call'[p].pc = "idle"
    BY <1>2, OneInFlight, IdleCallType DEF PassInv, IdleCall
<1>4. PassOK(p)' /\ GivesInOrder(p) /\ ClosesFull(p)
    BY <1>2, <1>3 DEF PassOK, GivesInOrder, ClosesFull
<1> QED  BY <1>1, <1>2, <1>4, TablesAlone, OthersRest, IdleCallType DEF PassInv, Orderly

LEMMA PassEnter ==
    ASSUME PassInv, NEW p \in Callers, Enter(p)
    PROVE  PassInv' /\ Orderly
<1> DEFINE k == [call[p] EXCEPT !.pc = IF pointer = 0 THEN "list" ELSE "complete",
                                !.cur = pointer, !.rnd = round]
<1>0. TurnLoopInv
    BY DEF PassInv
<1>1. call[p].pc = "enter" /\ call[p] \in Call /\ pointer \in Nat /\ round \in Nat
    BY <1>0 DEF Enter, TurnLoopInv, TypeOK
<1>2. call' = [call EXCEPT ![p] = k]
    BY <1>0, <1>1 DEF Enter, TurnLoopInv, TypeOK
<1>3. k \in Call /\ k.pc \in {"list", "complete"}
    BY <1>1 DEF Call
<1>4. UNCHANGED <<status, round, pointer, turns, body, ending, listed, orphans, faults>> /\ ~NpcNotExecuted
    BY DEF Enter, around
<1> HIDE DEF k
<1>5. call'[p] = k
    BY <1>0, <1>1, <1>2, <1>3, OneInFlight
<1>6. ~NpcNotExecuted'
    BY <1>4 DEF NpcNotExecuted
<1>7. PassOK(p)' /\ GivesInOrder(p) /\ ClosesFull(p)
    BY <1>1, <1>3, <1>5, <1>6 DEF PassOK, GivesInOrder, ClosesFull
<1>8. Orderly
    BY <1>0, <1>1, <1>2, <1>3, <1>4, <1>7, TablesAlone, OthersRest DEF Orderly
<1>9. TurnLoopInv'
    BY <1>0, InvEnter
<1>10. \A q \in Callers : PassOK(q)'
    BY <1>0, <1>1, <1>2, <1>3, <1>7, OthersRest
<1>11. RowsSeated'
    BY <1>4 DEF PassInv, RowsSeated
<1> QED  BY <1>8, <1>9, <1>10, <1>11 DEF PassInv

\* The turn that is completed is the pointed one, and its creature has acted.
LEMMA PassComplete ==
    ASSUME PassInv, NEW p \in Callers, Complete(p)
    PROVE  PassInv' /\ Orderly
<1> DEFINE k == [call[p] EXCEPT !.pc = "list"]
<1>0. TurnLoopInv /\ TypeOK
    BY DEF PassInv, TurnLoopInv
<1>1. call[p].pc = "complete" /\ call[p] \in Call
    BY <1>0 DEF Complete, TypeOK
<1>2. call' = [call EXCEPT ![p] = k] /\ k \in Call /\ k.pc = "list"
    BY <1>1 DEF Complete, Call
<1> HIDE DEF k
<1>3. call'[p] = k
    BY <1>0, <1>1, <1>2, OneInFlight
<1>4. call[p].cur = pointer /\ pointer \in DOMAIN turns
    BY <1>0, <1>1, PointerIsRow DEF TurnLoopInv, InFlight
<1>5. turns' = [turns EXCEPT ![pointer].status = "completed"]
    BY <1>4 DEF Complete
<1>6. PICK t \in Turn : /\ t.who = turns[pointer].who /\ t.round = turns[pointer].round
                        /\ t.status = "completed"
                        /\ turns' = [turns EXCEPT ![pointer] = t]
    BY <1>0, <1>4, <1>5, StatusRewritten
<1>8. UNCHANGED <<status, round, pointer, ending, listed, orphans, faults>>
    BY DEF Complete, around
<1>7. /\ DOMAIN turns' = DOMAIN turns
      /\ \A j \in DOMAIN turns : turns'[j].who = turns[j].who /\ turns'[j].round = turns[j].round
      /\ Holders' = Holders \ {pointer}
    BY <1>0, <1>4, <1>6, <1>8, RowRestamped DEF TypeOK
<1>9. PassOK(p)' /\ GivesInOrder(p) /\ ClosesFull(p)
    BY <1>1, <1>2, <1>3 DEF PassOK, GivesInOrder, ClosesFull
<1>10. ASSUME NEW i \in DOMAIN turns
       PROVE  KeptUntilExecuted(i)
    <2>1. ~NpcNotExecuted
        BY <1>1 DEF PassInv, PassOK
    <2>2. i = pointer => turns[i].who \notin Npcs \/ turns[i].acted
        BY <1>0, <1>1, <2>1 DEF NpcNotExecuted, TurnLoopInv, InFlight
    <2>3. i # pointer => turns'[i] = turns[i]
        BY <1>0, <1>4, <1>5 DEF TypeOK
    <2> QED  BY <2>2, <2>3 DEF KeptUntilExecuted
<1> QED
    BY <1>0, <1>1, <1>2, <1>7, <1>8, <1>9, <1>10, RowsStamped, OthersRest, InvComplete
    DEF PassInv, Orderly

LEMMA PassList ==
    ASSUME PassInv, NEW p \in Callers, List(p)
    PROVE  PassInv' /\ Orderly
<1> DEFINE left == Candidates(body, call[p].rnd)
           roll == left = {}
           k == [call[p] EXCEPT !.pc = IF roll THEN "roll" ELSE "pick",
                                !.left = IF roll THEN Eligible(body) ELSE left,
                                !.seen = body]
<1>0. TurnLoopInv
    BY DEF PassInv
<1>1. call[p].pc = "list" /\ call[p] \in Call /\ body \in [Combatants -> Body]
    BY <1>0 DEF List, TurnLoopInv, TypeOK
<1>2. call' = [call EXCEPT ![p] = k]
    BY <1>0, <1>1 DEF List, TurnLoopInv, TypeOK
<1>3. Eligible(body) \subseteq Combatants /\ left \subseteq Combatants
    BY DEF Eligible, Candidates, Seated
<1>4. k \in Call /\ k.rnd = call[p].rnd /\ k.seen = body
      /\ k.pc = (IF roll THEN "roll" ELSE "pick")
      /\ k.left = (IF roll THEN Eligible(body) ELSE left)
    BY <1>1, <1>3 DEF Call
<1>5. UNCHANGED <<status, round, pointer, turns, body, ending, listed, orphans, faults>>
    BY DEF List, around
<1>6. \A d \in Eligible(body) \ left : HasRow(d, call[p].rnd)
    BY DEF Candidates
<1> HIDE DEF k
<1>7. call'[p] = k
    BY <1>0, <1>1, <1>2, <1>4, OneInFlight
<1>8. \A d \in Eligible(body) \ left : \E i \in DOMAIN turns' : turns'[i].who = d /\ turns'[i].round = k.rnd
    BY <1>4, <1>5, <1>6 DEF HasRow
<1>9. PassOK(p)'
    <2>1. CASE left = {}
        <3>1. /\ call'[p].pc = "roll" /\ call'[p].left = Eligible(body)
              /\ call'[p].seen = body /\ call'[p].rnd = k.rnd
            BY <1>4, <1>7, <2>1
        <3>2. \A d \in Eligible(body) : \E i \in DOMAIN turns' : turns'[i].who = d /\ turns'[i].round = k.rnd
            BY <1>8, <2>1
        <3> QED  BY <3>1, <3>2 DEF PassOK, HasRow, Eligible
    <2>2. CASE left # {}
        <3>1. /\ call'[p].pc = "pick" /\ call'[p].left = left
              /\ call'[p].seen = body /\ call'[p].rnd = k.rnd
            BY <1>4, <1>7, <2>2
        <3> HIDE DEF left
        <3> QED  BY <1>8, <3>1 DEF PassOK, HasRow, Eligible
    <2> QED  BY <2>1, <2>2
<1>10. GivesInOrder(p) /\ ClosesFull(p)
    BY <1>1 DEF GivesInOrder, ClosesFull
<1> QED
    BY <1>0, <1>1, <1>2, <1>4, <1>5, <1>9, <1>10, TablesAlone, OthersRest, InvList DEF PassInv, Orderly

\* Writing the next round number empties the set of those who had a turn.
LEMMA RoundClosed ==
    ASSUME TurnLoopInv, Holders = {}, round' = round + 1, UNCHANGED <<turns, orphans>>
    PROVE  Abstract!NewRound
<1>1. round \in Nat /\ TypeOK
    BY DEF TurnLoopInv, TypeOK
<1>2. \A i \in DOMAIN turns : turns[i].round # round + 1
    BY <1>1, RowType DEF TurnLoopInv, Turn
<1>3. {c \in Seated : HasRow(c, round)}' = {}
    BY <1>2 DEF HasRow
<1>4. Holders' = {}
    BY DEF Holders, ActiveRows
<1>5. Floor = Nobody /\ Floor' = Nobody
    BY <1>4 DEF Floor
<1> QED  BY <1>3, <1>4, <1>5 DEF Abstract!NewRound

\* The round is closed over rows none of which is later than it.
LEMMA PassRoll ==
    ASSUME PassInv, NEW p \in Callers, Roll(p)
    PROVE  PassInv' /\ Orderly
<1> DEFINE k == IF call[p].left = {} THEN IdleCall
                ELSE [call[p] EXCEPT !.pc = "pick", !.rnd = @ + 1]
<1>0. TurnLoopInv /\ TypeOK /\ PassOK(p)
    BY DEF PassInv, TurnLoopInv
<1>1. call[p].pc = "roll" /\ call[p] \in Call /\ round \in Nat
    BY <1>0 DEF Roll, TypeOK
<1>2. call' = [call EXCEPT ![p] = k] /\ round' = call[p].rnd + 1
      /\ UNCHANGED <<status, pointer, turns, body, ending, listed, orphans, faults>>
    BY DEF Roll, around
<1>3. call[p].rnd = round /\ Holders = {} /\ call[p].left = Eligible(call[p].seen)
      /\ \A d \in Eligible(call[p].seen) : HasRow(d, call[p].rnd)
    BY <1>0, <1>1 DEF TurnLoopInv, InFlight, PassOK
<1>4. /\ k \in Call /\ k.pc \in {"pick", "idle"}
      /\ k.pc = "pick" => k.left = call[p].left /\ k.seen = call[p].seen
    <2>1. CASE call[p].left = {}
        BY <2>1, IdleCallType DEF IdleCall
    <2>2. CASE call[p].left # {}
        <3>1. call[p].rnd + 1 \in Nat
            BY <1>1, <1>3
        <3> QED  BY <1>1, <2>2, <3>1 DEF Call
    <2> QED  BY <2>1, <2>2
<1> HIDE DEF k
<1>5. call'[p] = k
    BY <1>0, <1>1, <1>2, <1>4, OneInFlight
<1>6. PassOK(p)'
    BY <1>3, <1>4, <1>5 DEF PassOK, Eligible
<1>7. GivesInOrder(p) /\ ClosesFull(p)
    BY <1>1, <1>3 DEF GivesInOrder, ClosesFull
<1>8. Abstract!NewRound
    BY <1>0, <1>2, <1>3, RoundClosed
<1>9. \A i \in DOMAIN turns : KeptUntilExecuted(i)
    BY <1>2 DEF KeptUntilExecuted
<1>10. RowsSeated'
    BY <1>2 DEF PassInv, RowsSeated
<1>11. Orderly
    BY <1>0, <1>1, <1>2, <1>4, <1>7, <1>8, <1>9, OthersRest DEF Orderly, Abstract!RRNext
<1> QED
    BY <1>0, <1>1, <1>2, <1>4, <1>6, <1>10, <1>11, OthersRest, InvRoll DEF PassInv

\* A new row of the round: its combatant joins those who had their turn.
LEMMA RowHandedOut ==
    ASSUME TypeOK, RowsSeated, round' = round, orphans' = orphans, Holders = {}, NEW c \in Seated,
           NEW s \in {"active", "skipped"}, ~HasRow(c, round),
           DOMAIN turns' = DOMAIN turns \cup {Len(turns) + 1},
           turns'[Len(turns) + 1] = Row(c, round, s),
           \A j \in DOMAIN turns : turns'[j] = turns[j]
    PROVE  /\ RowsSeated'
           /\ \A d, r : (\E i \in DOMAIN turns' : turns'[i].who = d /\ turns'[i].round = r)
                          <=> HasRow(d, r) \/ (d = c /\ r = round)
           /\ \A i \in DOMAIN turns : KeptUntilExecuted(i)
           /\ s = "skipped" => Abstract!Pass(c)
           /\ s = "active" => Abstract!Give(c)
<1>1. /\ Row(c, round, s).who = c /\ Row(c, round, s).round = round
      /\ Row(c, round, s).status = s
    BY DEF Row
<1>2. \A d, r : (\E i \in DOMAIN turns' : turns'[i].who = d /\ turns'[i].round = r)
                  <=> HasRow(d, r) \/ (d = c /\ r = round)
    BY <1>1 DEF HasRow
<1>3. {d \in Seated : HasRow(d, round)}' = {d \in Seated : HasRow(d, round)} \cup {c}
    <2>1. \A d : (\E i \in DOMAIN turns' : turns'[i].who = d /\ turns'[i].round = round')
                    <=> HasRow(d, round) \/ d = c
        BY <1>2
    <2>2. {d \in Seated : HasRow(d, round)}'
            = {d \in Seated : \E i \in DOMAIN turns' : turns'[i].who = d /\ turns'[i].round = round'}
        BY DEF HasRow, Seated
    <2> QED  BY <2>1, <2>2
<1>4. RowsSeated' /\ \A i \in DOMAIN turns : KeptUntilExecuted(i)
    BY <1>1 DEF RowsSeated, KeptUntilExecuted
<1>5. Floor = Nobody
    BY DEF Floor
<1>6. ASSUME s = "skipped"
      PROVE  Abstract!Pass(c)
    <2>1. Holders' = {}
        BY <1>1, <1>6 DEF Holders, ActiveRows
    <2>2. Floor' = Nobody
        BY <2>1 DEF Floor
    <2> QED  BY <1>3, <1>5, <2>1, <2>2 DEF Abstract!Pass
<1>7. ASSUME s = "active"
      PROVE  Abstract!Give(c)
    <2>1. Holders' = {Len(turns) + 1}
        BY <1>1, <1>7, RowType DEF TypeOK, Holders, ActiveRows
    <2>2. Floor' = c
        BY <1>1, <2>1 DEF Floor
    <2>3. round \in Nat
        BY DEF TypeOK
    <2>4. ~ \E i \in Holders' : turns'[i].round < round'
        BY <1>1, <2>1, <2>3
    <2> QED  BY <1>3, <1>5, <2>2, <2>4 DEF Abstract!Give
<1> QED  BY <1>2, <1>4, <1>6, <1>7

LEMMA PassSkip ==
    ASSUME PassInv, NEW p \in Callers, Skip(p)
    PROVE  PassInv' /\ Orderly
<1>0. TurnLoopInv /\ TypeOK /\ PassOK(p) /\ RowsSeated /\ OneRowPerRound
    BY DEF PassInv, TurnLoopInv
<1>1. call[p].pc = "pick" /\ call[p] \in Call
    BY <1>0 DEF Skip, TypeOK
<1>2. /\ call[p].rnd = round /\ round \in Nat /\ Holders = {}
      /\ call[p].left \subseteq Seated /\ Seated \subseteq Combatants
      /\ \A c \in call[p].left : ~HasRow(c, round)
      /\ \A d \in Eligible(call[p].seen) \ call[p].left : HasRow(d, round)
    BY <1>0, <1>1 DEF TurnLoopInv, InFlight, TypeOK, Seated, PassOK
<1>3. PICK c \in call[p].left :
        /\ turns' = Append(turns, Row(c, round, "skipped"))
        /\ call' = [call EXCEPT ![p] = AfterSkip(call[p], c)]
    BY <1>2 DEF Skip
<1> DEFINE k == AfterSkip(call[p], c)
<1>4. k \in Call
    BY <1>1, <1>2, AfterSkipType
<1>5. call'[p] = k
    BY <1>0, <1>1, <1>3, <1>4, OneInFlight
<1>6. UNCHANGED <<status, round, pointer, ending, listed, orphans, faults>>
    BY DEF Skip, around
<1>7. /\ DOMAIN turns' = DOMAIN turns \cup {Len(turns) + 1}
      /\ turns'[Len(turns) + 1] = Row(c, round, "skipped")
      /\ \A j \in DOMAIN turns : turns'[j] = turns[j]
    BY <1>0, <1>2, <1>3, RowMinted
<1>8. /\ RowsSeated'
      /\ \A d, r : (\E i \in DOMAIN turns' : turns'[i].who = d /\ turns'[i].round = r)
                     <=> HasRow(d, r) \/ (d = c /\ r = round)
      /\ \A i \in DOMAIN turns : KeptUntilExecuted(i)
      /\ Abstract!Pass(c) /\ c \in Seated
    BY <1>0, <1>2, <1>6, <1>7, RowHandedOut
<1>9. PassOK(p)'
    <2>1. CASE call[p].left # {c}
        <3>1. /\ k.pc = "pick" /\ k.left = call[p].left \ {c}
              /\ k.seen = call[p].seen /\ k.rnd = round
            BY <1>1, <1>2, <2>1 DEF AfterSkip, Call
        <3>2. \A d \in Eligible(k.seen) \ k.left :
                \E i \in DOMAIN turns' : turns'[i].who = d /\ turns'[i].round = k.rnd
            BY <1>2, <1>8, <3>1
        <3> HIDE DEF k
        <3> QED  BY <1>5, <3>1, <3>2 DEF PassOK, HasRow, Eligible
    <2>2. CASE call[p].left = {c} /\ call[p].again
        <3>1. k.pc = "idle"
            BY <2>2 DEF AfterSkip, IdleCall
        <3> HIDE DEF k
        <3> QED  BY <1>5, <3>1 DEF PassOK
    <2>3. CASE call[p].left = {c} /\ ~call[p].again
        <3>1. /\ k.pc = "roll" /\ k.left = Eligible(call[p].seen)
              /\ k.seen = call[p].seen /\ k.rnd = round
            BY <1>1, <1>2, <2>3 DEF AfterSkip, Call
        <3>2. \A d \in Eligible(k.seen) :
                \E i \in DOMAIN turns' : turns'[i].who = d /\ turns'[i].round = k.rnd
            BY <1>2, <1>8, <2>3, <3>1
        <3> HIDE DEF k
        <3> QED  BY <1>5, <3>1, <3>2 DEF PassOK, HasRow, Eligible
    <2> QED  BY <2>1, <2>2, <2>3
<1>10. GivesInOrder(p) /\ ClosesFull(p)
    <2>1. k.pc # "point"
        BY <1>1, <1>2, AfterSkipType
    <2> QED  BY <1>1, <1>5, <2>1 DEF GivesInOrder, ClosesFull
<1>11. Orderly
    BY <1>0, <1>1, <1>3, <1>4, <1>8, <1>10, OthersRest DEF Orderly, Abstract!RRNext
<1> QED
    BY <1>0, <1>1, <1>3, <1>4, <1>8, <1>9, <1>11, OthersRest, InvSkip DEF PassInv

\* The turn goes to the one with the lowest seat among those the pass still
\* holds; whoever it no longer holds has a row.
LEMMA PassActivate ==
    ASSUME PassInv, NEW p \in Callers, Activate(p)
    PROVE  PassInv' /\ Orderly
<1> DEFINE new == Len(turns) + 1
           k == [call[p] EXCEPT !.pc = "point", !.fresh = new]
<1>0. TurnLoopInv /\ TypeOK /\ PassOK(p) /\ RowsSeated /\ OneRowPerRound
    BY DEF PassInv, TurnLoopInv
<1>1. call[p].pc = "pick" /\ call[p] \in Call
    BY <1>0 DEF Activate, TypeOK
<1>2. /\ call[p].rnd = round /\ round \in Nat /\ Holders = {}
      /\ call[p].left \subseteq Seated /\ Seated \subseteq Combatants
      /\ \A c \in call[p].left : ~HasRow(c, round)
      /\ \A d \in Eligible(call[p].seen) \ call[p].left : HasRow(d, round)
    BY <1>0, <1>1 DEF TurnLoopInv, InFlight, TypeOK, Seated, PassOK
<1>3. PICK c \in call[p].left :
        turns' = Append(turns, Row(c, round, "active")) /\ Leads(c, call[p].left)
    BY <1>2 DEF Activate
<1>4. call' = [call EXCEPT ![p] = k]
    BY <1>0, <1>1 DEF Activate, TypeOK
<1>5. k \in Call /\ k.pc = "point" /\ k.fresh = new
    <2>1. new \in Nat
        BY <1>0, RowType
    <2> HIDE DEF new
    <2> QED  BY <1>1, <2>1 DEF Call
<1>6. UNCHANGED <<status, round, pointer, body, ending, listed, orphans, faults>>
    BY DEF Activate, around
<1>7. /\ DOMAIN turns' = DOMAIN turns \cup {new}
      /\ turns'[new] = Row(c, round, "active")
      /\ \A j \in DOMAIN turns : turns'[j] = turns[j]
    BY <1>0, <1>2, <1>3, RowMinted
<1>8. /\ RowsSeated'
      /\ \A i \in DOMAIN turns : KeptUntilExecuted(i)
      /\ Abstract!Give(c) /\ c \in Seated
    BY <1>0, <1>2, <1>6, <1>7, RowHandedOut
<1>9. call'[p] = k
    BY <1>0, <1>1, <1>4, <1>5, OneInFlight
<1>10. PassOK(p)' /\ ClosesFull(p)
    BY <1>1, <1>5, <1>9 DEF PassOK, ClosesFull
<1>11. GivesInOrder(p)
    <2>1. turns'[call'[p].fresh].who = c
        BY <1>5, <1>7, <1>9 DEF Row
    <2>2. ASSUME NEW d \in Eligible(call[p].seen), Seat[d] < Seat[c]
          PROVE  HasRow(d, call[p].rnd)
        <3>1. d \in Combatants /\ c \in Combatants
            BY <1>2 DEF Eligible
        <3>2. Seat[d] \in Nat /\ Seat[c] \in Nat
            BY <3>1, SeatAssumption
        <3>3. d \notin call[p].left
            BY <1>3, <2>2, <3>2 DEF Leads
        <3> QED  BY <1>2, <3>3
    <2> QED  BY <2>1, <2>2 DEF GivesInOrder
<1> HIDE DEF k, new
<1>12. Orderly
    BY <1>0, <1>1, <1>4, <1>5, <1>8, <1>10, <1>11, OthersRest DEF Orderly, Abstract!RRNext
<1> QED
    BY <1>0, <1>1, <1>4, <1>5, <1>8, <1>10, <1>12, OthersRest, InvActivate DEF PassInv

LEMMA PassPoint ==
    ASSUME PassInv, NEW p \in Callers, Point(p)
    PROVE  PassInv' /\ Orderly
<1>0. TurnLoopInv
    BY DEF PassInv
<1>1. call[p].pc = "point" /\ call' = [call EXCEPT ![p] = IdleCall]
      /\ UNCHANGED <<status, round, turns, ending, listed, orphans, faults>>
    BY DEF Point, around
<1>2. call'[p].pc = "idle"
    BY <1>0, <1>1, OneInFlight, IdleCallType DEF IdleCall
<1>3. PassOK(p)' /\ GivesInOrder(p) /\ ClosesFull(p)
    BY <1>1, <1>2 DEF PassOK, GivesInOrder, ClosesFull
<1> QED
    BY <1>0, <1>1, <1>3, TablesAlone, OthersRest, IdleCallType, InvPoint DEF PassInv, Orderly

\* A call that stops before the pointer is written has ended the turn it was
\* about to announce; stopping elsewhere is a step of the round robin or none.
LEMMA PassStop ==
    ASSUME PassInv, NEW p \in Callers, Stop(p)
    PROVE  PassInv' /\ Orderly
<1>0. /\ TurnLoopInv /\ TypeOK /\ PassOK(p) /\ RowsSeated /\ OneRowPerRound
      /\ InFlight(p) /\ call[p] \in Call /\ round \in Nat
    BY DEF PassInv, TurnLoopInv, TypeOK
<1>1. /\ call[p].pc # "idle" /\ call' = [call EXCEPT ![p] = IdleCall]
      /\ UNCHANGED <<status, pointer, ending, listed>>
      /\ orphans' = IF call[p].pc = "point" THEN orphans \cup {call[p].fresh} ELSE orphans
    BY DEF Stop
<1>2. call'[p].pc = "idle"
    BY <1>0, <1>1, OneInFlight, IdleCallType DEF IdleCall
<1>3. PassOK(p)' /\ GivesInOrder(p)
    BY <1>2 DEF PassOK, GivesInOrder
<1>4. ClosesFull(p)
    BY <1>0 DEF PassOK, ClosesFull
<1>5. /\ Abstract!RRNext \/ UNCHANGED Abstract!rrVars
      /\ RowsSeated'
      /\ \A i \in DOMAIN turns : KeptUntilExecuted(i)
    <2>1. CASE UNCHANGED <<round, turns>> /\ call[p].pc # "point"
        BY <1>0, <1>1, <2>1, TablesAlone
    <2>2. CASE UNCHANGED <<round, turns>> /\ call[p].pc = "point"
        <3>1. PICK i \in DOMAIN turns : i = call[p].fresh /\ Holders \subseteq {i}
            BY <1>0, <2>2 DEF InFlight
        <3>2. Holders' = {}
            BY <1>1, <2>2, <3>1 DEF Holders, ActiveRows
        <3>3. {c \in Seated : HasRow(c, round)}' = {c \in Seated : HasRow(c, round)}
            BY <2>2 DEF HasRow, Seated
        <3>4. CASE Holders = {}
            <4>1. Floor = Nobody /\ Floor' = Nobody
                BY <3>2, <3>4 DEF Floor
            <4> QED  BY <1>0, <2>2, <3>2, <3>3, <3>4, <4>1 DEF Abstract!rrVars, RowsSeated, KeptUntilExecuted
        <3>5. CASE Holders = {i}
            <4>1. Floor = turns[i].who /\ Floor' = Nobody
                BY <3>2, <3>5 DEF Floor
            <4>2. turns[i].who # Nobody
                BY <1>0, CombatantsAssumption DEF RowsSeated, Seated
            <4>3. Abstract!Finish
                BY <2>2, <3>2, <3>3, <4>1, <4>2 DEF Abstract!Finish
            <4> QED  BY <1>0, <2>2, <4>3 DEF Abstract!RRNext, RowsSeated, KeptUntilExecuted
        <3> QED  BY <3>1, <3>4, <3>5
    <2>3. CASE /\ call[p].pc = "roll" /\ round' = call[p].rnd + 1
               /\ UNCHANGED <<turns, body>>
        <3>1. Holders = {} /\ call[p].rnd = round
            BY <1>0, <2>3 DEF InFlight
        <3>2. Abstract!NewRound
            BY <1>0, <1>1, <2>3, <3>1, RoundClosed
        <3> QED  BY <1>0, <2>3, <3>2 DEF Abstract!RRNext, RowsSeated, KeptUntilExecuted
    <2>4. CASE /\ call[p].pc = "pick" /\ UNCHANGED <<round, body>>
               /\ \E c \in call[p].left : turns' = Append(turns, Row(c, call[p].rnd, "skipped"))
        <3>1. /\ Holders = {} /\ call[p].rnd = round /\ call[p].left \subseteq Seated
              /\ Seated \subseteq Combatants /\ orphans' = orphans
              /\ \A c \in call[p].left : ~HasRow(c, round)
            BY <1>0, <1>1, <2>4 DEF InFlight, Seated
        <3>2. PICK c \in call[p].left : turns' = Append(turns, Row(c, round, "skipped"))
            BY <2>4, <3>1
        <3>3. /\ DOMAIN turns' = DOMAIN turns \cup {Len(turns) + 1}
              /\ turns'[Len(turns) + 1] = Row(c, round, "skipped")
              /\ \A j \in DOMAIN turns : turns'[j] = turns[j]
            BY <1>0, <3>1, <3>2, RowMinted
        <3> QED  BY <1>0, <2>4, <3>1, <3>3, RowHandedOut DEF Abstract!RRNext
    <2> QED  BY <2>1, <2>2, <2>3, <2>4 DEF Stop
<1>6. Orderly
    BY <1>0, <1>1, <1>3, <1>4, <1>5, OthersRest, IdleCallType DEF Orderly
<1> QED
    BY <1>0, <1>1, <1>3, <1>5, <1>6, OthersRest, IdleCallType, InvStop DEF PassInv

\* A step of another handler lets every call be: rows keep their combatants
\* and rounds, and no creature that has acted is found not to have.
LEMMA PassWorld ==
    ASSUME PassInv, call' = call, pointer' = pointer, turns' \in Seq(Turn),
           DOMAIN turns' = DOMAIN turns,
           \A j \in DOMAIN turns : /\ turns'[j].who = turns[j].who
                                   /\ turns'[j].round = turns[j].round
                                   /\ turns[j].acted => turns'[j].acted
    PROVE  \A q \in Callers : PassOK(q)' /\ GivesInOrder(q) /\ ClosesFull(q)
<1> SUFFICES ASSUME NEW q \in Callers
             PROVE  PassOK(q)' /\ GivesInOrder(q) /\ ClosesFull(q)
    OBVIOUS
<1>1. GivesInOrder(q) /\ ClosesFull(q)
    <2>1. call[q].pc = "pick" => call'[q].pc # "point"
        OBVIOUS
    <2>2. call[q].pc = "roll" => call'[q].pc = "roll"
        OBVIOUS
    <2> QED  BY <2>1, <2>2 DEF GivesInOrder, ClosesFull
<1>2. \A c, r : HasRow(c, r) => \E i \in DOMAIN turns' : turns'[i].who = c /\ turns'[i].round = r
    BY DEF HasRow
<1>3. ~NpcNotExecuted => ~NpcNotExecuted'
    <2>1. pointer # 0 => pointer \in DOMAIN turns
        BY PointerIsRow DEF PassInv, TurnLoopInv
    <2> QED  BY <2>1 DEF NpcNotExecuted
<1>4. PassOK(q)
    BY DEF PassInv
<1>5. PassOK(q)'
    BY <1>2, <1>3, <1>4 DEF PassOK, HasRow, Eligible
<1> QED  BY <1>1, <1>5

LEMMA PassSpendAction ==
    ASSUME PassInv, NEW i \in DOMAIN turns, SpendAction(i)
    PROVE  PassInv' /\ Orderly
<1> DEFINE t == [turns[i] EXCEPT !.acted = TRUE]
<1>0. TurnLoopInv /\ RowsSeated /\ turns \in Seq(Turn)
    BY DEF PassInv, TurnLoopInv, TypeOK
<1>1. turns[i] \in Turn /\ turns[i].status = "active"
    BY RowType DEF PassInv, TurnLoopInv, SpendAction, Holders, ActiveRows
<1>2. t \in Turn /\ t.who = turns[i].who /\ t.round = turns[i].round
      /\ t.status = "active" /\ t.acted
    BY <1>1 DEF Turn
<1>3. turns' = [turns EXCEPT ![i] = t] /\ UNCHANGED <<status, round, pointer, body, call, ending, listed, orphans, faults>>
    BY DEF SpendAction, around
<1> HIDE DEF t
<1>4. /\ turns' \in Seq(Turn) /\ DOMAIN turns' = DOMAIN turns /\ turns'[i] = t
      /\ \A j \in DOMAIN turns : j # i => turns'[j] = turns[j]
    BY <1>0, <1>2, <1>3, RowRewritten
<1>5. Holders' = Holders
    BY <1>1, <1>2, <1>3, <1>4 DEF Holders, ActiveRows
<1>6. \A j \in DOMAIN turns : /\ turns'[j].who = turns[j].who
                              /\ turns'[j].round = turns[j].round
                              /\ turns[j].acted => turns'[j].acted
                              /\ turns'[j].status = turns[j].status
    BY <1>1, <1>2, <1>4
<1>7. \A j \in DOMAIN turns : KeptUntilExecuted(j)
    BY <1>6 DEF KeptUntilExecuted
<1>8. \A q \in Callers : PassOK(q)' /\ GivesInOrder(q) /\ ClosesFull(q)
    BY <1>3, <1>4, <1>6, PassWorld
<1>9. (Abstract!RRNext \/ UNCHANGED Abstract!rrVars) /\ RowsSeated'
    BY <1>0, <1>3, <1>4, <1>5, <1>6, RowsStamped
<1> QED  BY <1>0, <1>7, <1>8, <1>9, InvSpendAction DEF PassInv, Orderly

\* The timer completes the rows it has listed.
LEMMA PassAutoResolve ==
    ASSUME PassInv, NEW i \in DOMAIN turns, AutoResolve(i)
    PROVE  PassInv' /\ Orderly
<1>0. TurnLoopInv /\ RowsSeated /\ turns \in Seq(Turn) /\ TypeOK
    BY DEF PassInv, TurnLoopInv, TypeOK
<1>1. turns' = [turns EXCEPT ![i].status = "completed"] /\ i \in listed
      /\ UNCHANGED <<status, round, pointer, body, call, ending, orphans, faults>>
    BY DEF AutoResolve
<1>2. PICK t \in Turn : /\ t.who = turns[i].who /\ t.round = turns[i].round
                        /\ t.status = "completed" /\ turns' = [turns EXCEPT ![i] = t]
    BY <1>0, <1>1, StatusRewritten
<1>3. /\ turns' \in Seq(Turn) /\ DOMAIN turns' = DOMAIN turns
      /\ Holders' = Holders \ {i}
    BY <1>0, <1>1, <1>2, RowRestamped
<1>4. \A j \in DOMAIN turns : /\ turns'[j].who = turns[j].who
                              /\ turns'[j].round = turns[j].round
                              /\ turns'[j].acted = turns[j].acted
    <2>1. turns[i] \in Turn
        BY <1>0, RowType
    <2> QED  BY <1>0, <1>1, <2>1 DEF Turn
<1>5. \A j \in DOMAIN turns : KeptUntilExecuted(j)
    BY <1>0, <1>1 DEF KeptUntilExecuted
<1>6. \A q \in Callers : PassOK(q)' /\ GivesInOrder(q) /\ ClosesFull(q)
    BY <1>1, <1>3, <1>4, PassWorld
<1>7. (Abstract!RRNext \/ UNCHANGED Abstract!rrVars) /\ RowsSeated'
    BY <1>0, <1>1, <1>3, <1>4, RowsStamped
<1> QED  BY <1>0, <1>5, <1>6, <1>7, InvAutoResolve DEF PassInv, Orderly

LEMMA PassTimer ==
    ASSUME PassInv, PickUp \/ \E i \in DOMAIN turns : LeaveUnresolved(i)
    PROVE  PassInv' /\ Orderly
<1>0. TurnLoopInv /\ turns \in Seq(Turn)
    BY DEF PassInv, TurnLoopInv, TypeOK
<1>1. UNCHANGED <<status, round, pointer, turns, body, call, ending, orphans, faults>>
    BY DEF PickUp, LeaveUnresolved
<1>2. \A q \in Callers : PassOK(q)' /\ GivesInOrder(q) /\ ClosesFull(q)
    BY <1>0, <1>1, PassWorld
<1> QED  BY <1>0, <1>1, <1>2, TablesAlone, InvTimer DEF PassInv, Orderly

LEMMA PassSuffer ==
    ASSUME PassInv, NEW c \in Seated, Suffer(c)
    PROVE  PassInv' /\ Orderly
<1>0. TurnLoopInv /\ turns \in Seq(Turn) /\ c \in Combatants
    BY DEF PassInv, TurnLoopInv, TypeOK, Seated
<1>1. UNCHANGED <<status, round, pointer, turns, call, ending, listed, orphans, faults>>
    BY DEF Suffer, around
<1>2. \A q \in Callers : PassOK(q)' /\ GivesInOrder(q) /\ ClosesFull(q)
    BY <1>0, <1>1, PassWorld
<1> QED  BY <1>0, <1>1, <1>2, TablesAlone, InvSuffer DEF PassInv, Orderly

LEMMA PassEndCombat ==
    ASSUME PassInv, EndCombat
    PROVE  PassInv' /\ Orderly
<1>0. TurnLoopInv /\ RowsSeated /\ turns \in Seq(Turn) /\ TypeOK
    BY DEF PassInv, TurnLoopInv, TypeOK
<1>1. ending' /\ ~ending /\ UNCHANGED <<status, round, pointer, body, call, orphans>>
    BY DEF EndCombat
<1>2. /\ turns' \in Seq(Turn) /\ DOMAIN turns' = DOMAIN turns
      /\ Holders' \subseteq Holders
      /\ \A j \in DOMAIN turns : /\ turns'[j].who = turns[j].who
                                 /\ turns'[j].round = turns[j].round
                                 /\ turns'[j].acted = turns[j].acted
    <2>1. CASE pointer = 0
        <3>1. turns' = turns
            BY <2>1 DEF EndCombat
        <3> QED  BY <1>0, <1>1, <3>1 DEF Holders, ActiveRows
    <2>2. CASE pointer # 0
        <3>1. pointer \in DOMAIN turns /\ turns[pointer] \in Turn
            BY <1>0, <2>2, PointerIsRow, RowType
        <3>2. turns' = [turns EXCEPT ![pointer].status = "completed"]
            BY <2>2 DEF EndCombat
        <3>3. PICK t \in Turn : /\ t.who = turns[pointer].who
                                /\ t.round = turns[pointer].round
                                /\ t.status = "completed"
                                /\ turns' = [turns EXCEPT ![pointer] = t]
            BY <1>0, <3>1, <3>2, StatusRewritten
        <3>4. \A j \in DOMAIN turns : turns'[j].acted = turns[j].acted
            BY <1>0, <3>1, <3>2 DEF Turn
        <3> QED  BY <1>0, <1>1, <3>1, <3>3, <3>4, RowRestamped
    <2> QED  BY <2>1, <2>2
<1>3. \A j \in DOMAIN turns : KeptUntilExecuted(j)
    BY <1>1 DEF KeptUntilExecuted
<1>4. \A q \in Callers : PassOK(q)' /\ GivesInOrder(q) /\ ClosesFull(q)
    BY <1>1, <1>2, PassWorld
<1>5. (Abstract!RRNext \/ UNCHANGED Abstract!rrVars) /\ RowsSeated'
    BY <1>0, <1>1, <1>2, RowsStamped
<1> QED  BY <1>0, <1>3, <1>4, <1>5, InvEndCombat DEF PassInv, Orderly

LEMMA PassFinish ==
    ASSUME PassInv, Finish
    PROVE  PassInv' /\ Orderly
<1>0. TurnLoopInv /\ turns \in Seq(Turn)
    BY DEF PassInv, TurnLoopInv, TypeOK
<1>1. UNCHANGED <<round, pointer, turns, call, orphans>>
    BY DEF Finish, CloseEncounter, StopEnding
<1>2. \A q \in Callers : PassOK(q)' /\ GivesInOrder(q) /\ ClosesFull(q)
    BY <1>0, <1>1, PassWorld
<1> QED  BY <1>0, <1>1, <1>2, TablesAlone, InvFinish DEF PassInv, Orderly

\* Moving a row of the round being played corrects the seat; moving one left
\* over from an earlier round leaves the round alone.
LEMMA ReseatCorrects ==
    ASSUME PassInv, Quiet, NEW c \in Combatants, Reseat(c)
    PROVE  /\ RowsSeated'
           /\ Abstract!RRNext
           /\ \A i \in DOMAIN turns : KeptUntilExecuted(i)
<1> DEFINE t == Row(c, turns[pointer].round, "active")
           d == turns[pointer].who
<1>0. TurnLoopInv /\ RowsSeated /\ turns \in Seq(Turn) /\ OneRowPerRound
      /\ pointer \in DOMAIN turns /\ turns[pointer] \in Turn /\ round \in Nat
    BY PointerIsRow, RowType DEF PassInv, TurnLoopInv, TypeOK, Reseat
<1>1. t \in Turn /\ t.who = c /\ t.round = turns[pointer].round /\ t.status = "active"
    BY <1>0 DEF Row, Turn
<1>2. /\ turns' = [turns EXCEPT ![pointer] = t]
      /\ ~ \E i \in DOMAIN turns : /\ i # pointer /\ turns[i].who = c
                                   /\ turns[i].round = turns[pointer].round
      /\ c \in Seated /\ c # d /\ d \in Seated
      /\ UNCHANGED <<status, round, pointer, call, ending, listed, orphans, faults>>
    BY <1>0 DEF Reseat, RowsSeated, around
<1> HIDE DEF t
<1>3. /\ DOMAIN turns' = DOMAIN turns /\ turns'[pointer] = t
      /\ \A j \in DOMAIN turns : j # pointer => turns'[j] = turns[j]
    BY <1>0, <1>1, <1>2, RowRewritten
<1>4. RowsSeated'
    BY <1>0, <1>1, <1>2, <1>3 DEF RowsSeated
<1>5. Holders \subseteq {pointer} /\ Holders' = {pointer}
    BY <1>0, <1>1, <1>2, <1>3 DEF TurnLoopInv, Quiet, Holders, ActiveRows
<1>6. Floor \in {d, Nobody} /\ Floor' = c
    <2>1. Holders = {} \/ Holders = {pointer}
        BY <1>5
    <2>2. Floor \in {d, Nobody}
        BY <2>1 DEF Floor
    <2>3. Floor' = turns'[pointer].who
        BY <1>5 DEF Floor
    <2> QED  BY <1>1, <1>3, <2>2, <2>3
<1>7. \A i \in DOMAIN turns : KeptUntilExecuted(i)
    BY <1>1, <1>3 DEF KeptUntilExecuted
<1>8. \A e : (\E i \in DOMAIN turns' : turns'[i].who = e /\ turns'[i].round = round')
               <=> \E i \in DOMAIN turns : turns'[i].who = e /\ turns'[i].round = round
    BY <1>2, <1>3
<1>9. {e \in Seated : HasRow(e, round)}'
        = {e \in Seated : \E i \in DOMAIN turns : turns'[i].who = e /\ turns'[i].round = round}
    BY <1>8 DEF HasRow, Seated
<1>10. CASE turns[pointer].round = round
    <2>1. d \in {e \in Seated : HasRow(e, round)} /\ c \notin {e \in Seated : HasRow(e, round)}
        BY <1>0, <1>2, <1>10 DEF HasRow
    <2>2. {e \in Seated : HasRow(e, round)}'
            = ({e \in Seated : HasRow(e, round)} \ {d}) \cup {c}
        <3>1. ASSUME NEW e \in Seated
              PROVE  (\E i \in DOMAIN turns : turns'[i].who = e /\ turns'[i].round = round)
                        <=> (HasRow(e, round) /\ e # d) \/ e = c
            <4>1. \A i \in DOMAIN turns : turns[i].who = d /\ turns[i].round = round => i = pointer
                BY <1>0, <1>10 DEF OneRowPerRound
            <4>2. turns'[pointer].who = c /\ turns'[pointer].round = round
                BY <1>1, <1>3, <1>10
            <4>3. ASSUME HasRow(e, round), e # d
                  PROVE  \E i \in DOMAIN turns : turns'[i].who = e /\ turns'[i].round = round
                <5>1. PICK i \in DOMAIN turns : turns[i].who = e /\ turns[i].round = round
                    BY <4>3 DEF HasRow
                <5>2. turns'[i] = turns[i]
                    BY <1>3, <4>3, <5>1
                <5> QED  BY <5>1, <5>2
            <4>4. ASSUME NEW i \in DOMAIN turns, turns'[i].who = e, turns'[i].round = round,
                         e # c
                  PROVE  HasRow(e, round) /\ e # d
                <5>1. i # pointer
                    BY <4>2, <4>4
                <5>2. turns[i].who = e /\ turns[i].round = round
                    BY <1>3, <4>4, <5>1
                <5> QED  BY <4>1, <5>1, <5>2 DEF HasRow
            <4> QED  BY <1>0, <4>2, <4>3, <4>4
        <3> QED  BY <1>2, <1>9, <3>1
    <2>3. /\ ~ \E i \in Holders : turns[i].round < round
          /\ ~ \E i \in Holders' : turns'[i].round < round'
        BY <1>0, <1>1, <1>2, <1>3, <1>5, <1>10
    <2>4. Abstract!Correct(c, d)
        BY <1>2, <1>6, <2>1, <2>2, <2>3 DEF Abstract!Correct
    <2> QED  BY <1>2, <1>4, <1>7, <2>4 DEF Abstract!RRNext
<1>11. CASE turns[pointer].round # round
    <2>1. turns[pointer].round < round
        BY <1>0, <1>11 DEF TurnLoopInv, Turn
    <2>2. {e \in Seated : HasRow(e, round)}' = {e \in Seated : HasRow(e, round)}
        <3>1. \A i \in DOMAIN turns : /\ turns'[i].round = turns[i].round
                                      /\ turns[i].round = round => turns'[i].who = turns[i].who
            BY <1>1, <1>3, <1>11
        <3>2. \A e : HasRow(e, round)
                       <=> \E i \in DOMAIN turns : turns'[i].who = e /\ turns'[i].round = round
            BY <3>1 DEF HasRow
        <3> QED  BY <1>9, <3>2
    <2>3. \E i \in Holders' : turns'[i].round < round'
        BY <1>1, <1>2, <1>3, <1>5, <2>1
    <2>4. Floor = Nobody \/ \E i \in Holders : turns[i].round < round
        <3>1. CASE Holders = {}
            BY <3>1 DEF Floor
        <3>2. CASE Holders # {}
            BY <1>5, <2>1, <3>2
        <3> QED  BY <3>1, <3>2
    <2>5. Abstract!CorrectLate(c)
        BY <1>2, <1>6, <2>2, <2>3, <2>4 DEF Abstract!CorrectLate
    <2> QED  BY <1>2, <1>4, <1>7, <2>5 DEF Abstract!RRNext
<1> QED  BY <1>10, <1>11

LEMMA PassReseat ==
    ASSUME PassInv, Quiet, NEW c \in Combatants, Reseat(c)
    PROVE  PassInv' /\ Orderly
<1>1. TurnLoopInv'
    BY InvReseat DEF PassInv
<1>2. call' = call /\ \A q \in Callers : call[q].pc = "idle"
    BY DEF Reseat, Quiet
<1>3. \A q \in Callers : PassOK(q)' /\ GivesInOrder(q) /\ ClosesFull(q)
    BY <1>2 DEF PassOK, GivesInOrder, ClosesFull
<1> QED  BY <1>1, <1>3, ReseatCorrects DEF PassInv, Orderly

LEMMA PassStays ==
    ASSUME PassInv, UNCHANGED vars
    PROVE  PassInv' /\ Orderly
<1>0. TurnLoopInv /\ turns \in Seq(Turn)
    BY DEF PassInv, TurnLoopInv, TypeOK
<1>1. UNCHANGED <<status, round, pointer, turns, body, call, ending, listed, orphans, faults>>
    BY DEF vars, around
<1>2. TurnLoopInv'
    BY <1>0, <1>1 DEF TurnLoopInv, TypeOK, InFlight, OneRowPerRound, Holders, ActiveRows, HasRow
<1>3. \A q \in Callers : PassOK(q)' /\ GivesInOrder(q) /\ ClosesFull(q)
    BY <1>0, <1>1, PassWorld
<1> QED  BY <1>1, <1>2, <1>3, TablesAlone DEF PassInv, Orderly

LEMMA PassInit == Init => PassInv /\ Abstract!RRInit
<1> SUFFICES ASSUME Init PROVE PassInv /\ Abstract!RRInit
    OBVIOUS
<1>1. DOMAIN turns = {} /\ Holders = {} /\ round = 1
    BY DEF Init, Holders, ActiveRows
<1>2. \A p \in Callers : call[p].pc = "idle"
    BY DEF Init, IdleCall
<1>3. PassInv
    BY <1>1, <1>2, InvInit DEF PassInv, RowsSeated, PassOK
<1>4. Abstract!RRInit
    BY <1>1 DEF Abstract!RRInit, Floor, HasRow
<1> QED  BY <1>3, <1>4

LEMMA PassStep == PassInv /\ [SerialNext]_vars => PassInv' /\ Orderly
<1> SUFFICES ASSUME PassInv, [SerialNext]_vars PROVE PassInv' /\ Orderly
    OBVIOUS
<1>1. CASE UNCHANGED vars
    BY <1>1, PassStays
<1>2. CASE Quiet /\ \E p \in Callers : Request(p) \/ Confirm(p)
    BY <1>2, PassBegin
<1>3. ASSUME NEW p \in Callers, Step(p)
      PROVE  PassInv' /\ Orderly
    BY <1>3, PassRefuse, PassEnter, PassComplete, PassList, PassRoll, PassSkip,
       PassActivate, PassPoint DEF Step
<1>4. CASE Quiet /\ \E c \in Combatants : Reseat(c)
    BY <1>4, PassReseat
<1>5. CASE EndCombat
    BY <1>5, PassEndCombat
<1>6. CASE World
    BY <1>6, PassSpendAction, PassAutoResolve, PassTimer, PassSuffer DEF World
<1>7. ASSUME NEW p \in Callers, Stop(p)
      PROVE  PassInv' /\ Orderly
    BY <1>7, PassStop
<1>8. CASE Finish
    BY <1>8, PassFinish
<1> QED  BY <1>1, <1>2, <1>3, <1>4, <1>5, <1>6, <1>7, <1>8 DEF SerialNext

\* A pass in flight owes a row to nobody it has seen alive but those it still
\* holds, and a call that completes a turn has seen its creature act.
THEOREM PassInvariant == SerialSpec => []PassInv
BY PassInit, PassStep, PTL DEF SerialSpec

\* No turn is handed past somebody alive with a lower seat.
THEOREM SeatsComeInOrder == SerialSpec => SeatedInOrder
<1>1. PassInv /\ [SerialNext]_vars => [\A p \in Callers : GivesInOrder(p)]_vars
    BY PassStep DEF Orderly
<1> QED  BY <1>1, PassInvariant, PTL DEF SerialSpec, SeatedInOrder

\* The round number moves only when everybody seen alive had a row.
THEOREM RoundsCloseFull == SerialSpec => RoundClosesFull
<1>1. PassInv /\ [SerialNext]_vars => [\A p \in Callers : ClosesFull(p)]_vars
    BY PassStep DEF Orderly
<1> QED  BY <1>1, PassInvariant, PTL DEF SerialSpec, RoundClosesFull

\* ErrEnemyTurnNotExecuted protects a creature's turn up to CompleteTurn.
THEOREM EnemyTurnsAreKept == SerialSpec => NpcTurnNotDropped
<1>1. PassInv /\ [SerialNext]_vars => [\A i \in DOMAIN turns : KeptUntilExecuted(i)]_vars
    BY PassStep DEF Orderly
<1> QED  BY <1>1, PassInvariant, PTL DEF SerialSpec, NpcTurnNotDropped

\* Statement by statement, the serialised turn loop plays a round robin.
THEOREM TheLoopIsARoundRobin == SerialSpec => ImplementsRoundRobin
<1>1. PassInv /\ [SerialNext]_vars => [Abstract!RRNext]_(Abstract!rrVars)
    BY PassStep DEF Orderly
<1> QED  BY <1>1, PassInit, PassInvariant, PTL DEF SerialSpec, ImplementsRoundRobin, Abstract!RRSpec
=============================================================================
