----------------------------- MODULE DeskProofs -----------------------------
(***************************************************************************)
(* Proofs about the DM's desk: the log tells the row, an undo takes back   *)
(* one step, an action takes effect once.                                  *)
(*                                                                         *)
(* Most of the invariant speaks of one handler k, the log l, the rows r    *)
(* and the loose cells L, and is written as an operator of those.          *)
(***************************************************************************)
EXTENDS Desk, TLAPS

Mending == {"hp", "faint", "settle", "place", "conds"}
Effecting == {"march", "effects", "aimed", "down", "shifted", "resolve"}
Idle == {"rest", "lock"}

\* Which handler is at which step, and what it holds there.
TaskOf(k) ==
    /\ k.step = "rest" <=> k.kind = "none"
    /\ k.step # "rest" => k.turn \in Turns
    /\ k.step = "lock" => k.kind # "enemy"
    /\ k.step \in Mending =>
         \/ k.kind \in {"override", "tune", "undo"}
         \/ k.step = "faint" /\ k.kind \in {"resolve", "enemy"}
    /\ k.step \in Effecting => k.kind \in {"resolve", "enemy"}
    /\ k.step = "march" => k.kind = "enemy"
    /\ k.step \in {"shifted", "resolve"} => k.kind = "resolve"
    /\ k.step = "void" => k.kind = "cancel"
    /\ k.kind = "cancel" => k.step \in {"lock", "void"}
    /\ k.kind \in {"override", "tune", "resolve", "enemy", "cancel"} => k.who \in Combatants
    /\ k.kind = "undo" /\ (k.tells # {} \/ k.step # "lock") => k.who \in Combatants
    /\ k.step \in {"faint", "aimed", "down", "shifted"} => k.at \in Combatants

\* What is left to put back, and what the log is to hear of it.
TodoOf(k) ==
    /\ k.kind \in {"override", "enemy"} => k.tells = Cols
    /\ k.kind = "resolve" => k.tells = {"conds"}
    /\ k.kind \in {"none", "tune", "cancel"} => k.tells = {}
    /\ k.kind = "override" /\ k.step # "log" => \E col \in Cols : k.todo = {col}
    /\ k.kind = "tune" /\ k.step # "log" => k.todo = {"conds"}
    /\ k.kind \in {"resolve", "enemy", "cancel"} => k.todo = {}
    /\ k.kind = "undo" /\ k.step = "lock" => k.todo = k.tells
    /\ k.kind = "cancel" => k.sure = {}
    /\ k.kind \in {"override", "tune", "undo"} =>
         /\ k.step \in {"hp", "faint", "settle"} => "hp" \in k.todo
         /\ k.step = "place" => "place" \in k.todo /\ "hp" \notin k.todo
         /\ k.step = "conds" => k.todo = {"conds"}
         /\ k.step = "log" => k.todo = {}
    /\ k.kind = "undo" /\ k.step \in {"hp", "faint", "settle"} => k.tells \subseteq k.todo

\* An undo knows its row, and still means to restore what that row knew.
EntryOf(k, l) ==
    IF k.kind # "undo" THEN k.entry = 0
    ELSE /\ k.entry \in DOMAIN l
         /\ k.who = l[k.entry].actor
         /\ k.tells = l[k.entry].knows
         /\ \A col \in k.tells : k.value[col] = l[k.entry].before[col]

\* The cells of which a handler claims to know the row as it is.
Claims(k) ==
    IF k.step \in {"log", "resolve"} THEN {k.who} \X k.tells
    ELSE IF k.step = "shifted" THEN {k.at} \X Cols
    ELSE IF k.kind = "undo" /\ k.step \in Mending THEN {k.who} \X (k.tells \ k.todo)
    ELSE {}

ValueOf(k, r) ==
    \A c \in Combatants, col \in Cols :
        <<c, col>> \in Claims(k) \ k.spoiled => k.value[col] = r[c][col]

\* A copy s of c is what the log last told of it, and what the row is.
TellsIn(l, i, c, col) == l[i].actor = c /\ col \in l[i].tells
NewestIn(l, i, n, c, col) ==
    /\ i \in 1..n /\ TellsIn(l, i, c, col)
    /\ \A m \in (i + 1)..n : ~TellsIn(l, m, c, col)
Trusted(l, r, L, s, c, col) ==
    /\ \A i \in DOMAIN l : NewestIn(l, i, Len(l), c, col) => l[i].after[col] = s[col]
    /\ <<c, col>> \notin L => s[col] = r[c][col]

BeforeOf(k, l, r, L) ==
    k.step \notin Idle =>
      \A col \in k.sure : <<k.who, col>> \notin k.spoiled => Trusted(l, r, L, k.before, k.who, col)

CopyOf(k, l, r, L) ==
    k.step \in {"aimed", "shifted"} =>
      \A col \in k.calm : <<k.at, col>> \notin k.spoiled => Trusted(l, r, L, k.copy, k.at, col)

Told(l, r, L) ==
    \A c \in Combatants, col \in Cols, i \in DOMAIN l :
        NewestIn(l, i, Len(l), c, col) /\ <<c, col>> \notin L => l[i].after[col] = r[c][col]

\* The n-th row of the log: who knows nothing tells nothing; its before-state
\* is what the log had last told; an undo tells what its row knew.
RowOf(l, n) ==
    /\ l[n].actor = None => l[n].knows = {} /\ l[n].tells = {}
    /\ l[n].sure \subseteq l[n].knows
    /\ \A i \in DOMAIN l : \A col \in l[n].sure :
         NewestIn(l, i, n - 1, l[n].actor, col) => l[n].before[col] = l[i].after[col]
    /\ l[n].undoes > 0 =>
         /\ l[n].undoes < n
         /\ \A col \in l[l[n].undoes].knows :
              l[n].after[col] = l[l[n].undoes].before[col]

\* Who has an action in hand has it alone, pending, and applied when it is
\* about to mark it so; an action nobody has is applied if it is resolved.
HandOK ==
    \A h \in Handlers : LET k == call[h] IN
        /\ k.action # None => (k.kind = "resolve" /\ k.step # "log") \/ k.step = "void"
        /\ k.kind = "resolve" /\ k.step # "log" => k.action \in Actions
        /\ k.step = "void" => k.action \in Actions
        /\ k.action \in Actions \ disputed =>
             /\ pending[k.action] = "pending"
             /\ landed[k.action] = IF k.step = "resolve" THEN 1 ELSE 0
             /\ \A g \in Handlers : call[g].action = k.action => g = h

FreeOK ==
    \A a \in Actions \ disputed : InHand(a) = {} =>
        IF pending[a] = "resolved" THEN landed[a] = 1 ELSE landed[a] = 0

KeptOf(k, l, r, L) ==
    TaskOf(k) /\ TodoOf(k) /\ EntryOf(k, l) /\ ValueOf(k, r) /\ BeforeOf(k, l, r, L) /\ CopyOf(k, l, r, L)

HandlersOK == \A h \in Handlers : KeptOf(call[h], log, row, loose)
LogOK == \A n \in DOMAIN log : RowOf(log, n)
ToldOK == Told(log, row, loose)

IInv == TypeOK /\ HandlersOK /\ LogOK /\ ToldOK /\ HandOK /\ FreeOK

(***************************************************************************)
(* The log.                                                                *)
(***************************************************************************)
\* What appending a row does to a log.
LEMMA AppendFacts ==
    ASSUME NEW l \in Seq(Entry), NEW e \in Entry
    PROVE  /\ Append(l, e) \in Seq(Entry)
           /\ Len(l) \in Nat /\ Len(Append(l, e)) = Len(l) + 1
           /\ DOMAIN l = 1..Len(l) /\ DOMAIN Append(l, e) = 1..(Len(l) + 1)
           /\ \A i \in 1..Len(l) : Append(l, e)[i] = l[i] /\ l[i] \in Entry
           /\ Append(l, e)[Len(l) + 1] = e
  OBVIOUS

\* Who told a cell last: the new row if it tells the cell, or who did before.
LEMMA NewestGrows ==
    ASSUME NEW l \in Seq(Entry), NEW e \in Entry, NEW c, NEW col,
           NEW i \in 1..(Len(l) + 1)
    PROVE  LET l2 == Append(l, e) IN
           /\ NewestIn(l2, i, Len(l) + 1, c, col) =>
                IF e.actor = c /\ col \in e.tells THEN i = Len(l) + 1
                ELSE i \in 1..Len(l) /\ NewestIn(l, i, Len(l), c, col)
           /\ \A n \in 0..Len(l) : NewestIn(l2, i, n, c, col) <=> NewestIn(l, i, n, c, col)
  <1> DEFINE l2 == Append(l, e)
  <1>1. \A m \in 1..Len(l) : TellsIn(l2, m, c, col) <=> TellsIn(l, m, c, col)
    BY AppendFacts DEF TellsIn
  <1>2. TellsIn(l2, Len(l) + 1, c, col) <=> e.actor = c /\ col \in e.tells
    BY AppendFacts DEF TellsIn
  <1>3. Len(l) \in Nat
    BY AppendFacts
  <1> HIDE DEF l2
  <1>4. ASSUME NewestIn(l2, i, Len(l) + 1, c, col)
        PROVE  IF e.actor = c /\ col \in e.tells THEN i = Len(l) + 1
               ELSE i \in 1..Len(l) /\ NewestIn(l, i, Len(l), c, col)
    BY <1>1, <1>2, <1>3, <1>4 DEF NewestIn
  <1>5. \A n \in 0..Len(l) : NewestIn(l2, i, n, c, col) <=> NewestIn(l, i, n, c, col)
    BY <1>1, <1>3 DEF NewestIn
  <1> QED
    BY <1>4, <1>5 DEF l2

\* A trusted copy stays trusted when another cell changes, or its own, which
\* is loose from then on.
LEMMA TrustedTouch ==
    ASSUME NEW l, NEW r, NEW r2, NEW L, NEW L2, NEW s, NEW c, NEW col, NEW cell,
           Trusted(l, r, L, s, c, col), L \subseteq L2, cell \in L2,
           cell # <<c, col>> => r2[c][col] = r[c][col]
    PROVE  Trusted(l, r2, L2, s, c, col)
  BY DEF Trusted

\* Row e is appended to the log; sp are the cells its writer saw others change.
Spoken(e) == {e.actor} \X e.tells
Hushed(L, e, sp) == (L \ Spoken(e)) \cup (Spoken(e) \cap sp)
Honest(e, r, sp) ==
    \A c \in Combatants, col \in Cols :
        <<c, col>> \in Spoken(e) \ sp => e.after[col] = r[c][col]

\* A row of the log that tells a cell nobody changed since it was last told
\* tells what was known of it.
LEMMA TrustedAppend ==
    ASSUME NEW l \in Seq(Entry), NEW e \in Entry, NEW r, NEW L, NEW sp, NEW s,
           NEW c \in Combatants, NEW col \in Cols,
           Trusted(l, r, L, s, c, col), Honest(e, r, sp),
           <<c, col>> \notin Spoken(e) \cap (L \cup sp)
    PROVE  Trusted(Append(l, e), r, Hushed(L, e, sp), s, c, col)
  <1> DEFINE l2 == Append(l, e)
  <1>1. <<c, col>> \in Spoken(e) <=> e.actor = c /\ col \in e.tells
    BY DEF Spoken
  <1>2. CASE <<c, col>> \in Spoken(e)
    <2>1. s[col] = r[c][col] /\ e.after[col] = r[c][col]
      BY <1>2 DEF Trusted, Honest
    <2>2. \A i \in 1..(Len(l) + 1) : NewestIn(l2, i, Len(l) + 1, c, col) => i = Len(l) + 1
      BY <1>1, <1>2, NewestGrows
    <2> QED
      BY <2>1, <2>2, AppendFacts DEF Trusted
  <1>3. CASE <<c, col>> \notin Spoken(e)
    <2>1. \A i \in 1..(Len(l) + 1) : NewestIn(l2, i, Len(l) + 1, c, col) =>
            i \in 1..Len(l) /\ NewestIn(l, i, Len(l), c, col)
      BY <1>1, <1>3, NewestGrows
    <2> QED
      BY <2>1, <1>3, AppendFacts DEF Trusted, Hushed
  <1> QED
    BY <1>2, <1>3

(***************************************************************************)
(* What a handler holds survives what the others do.                       *)
(***************************************************************************)
\* k2 is k after another's step: more cells are spoiled, of those it reads.
Milder(k, k2) ==
    /\ k2.step = k.step /\ k2.kind = k.kind /\ k2.turn = k.turn
    /\ k2.who = k.who /\ k2.at = k.at /\ k2.todo = k.todo /\ k2.tells = k.tells
    /\ k2.value = k.value /\ k2.before = k.before /\ k2.copy = k.copy
    /\ k2.entry = k.entry /\ k2.action = k.action
    /\ k2.sure = k.sure /\ k2.calm = k.calm
    /\ k.spoiled \subseteq k2.spoiled

Hears(k, k2, X) ==
    k.step \notin Idle =>
      \A c \in {k.who, k.at} : \A col : <<c, col>> \in X => <<c, col>> \in k2.spoiled

\* Whoever is past the lock has a combatant in hand.
LEMMA Working ==
    ASSUME NEW k \in Call, TaskOf(k), k.step \notin Idle
    PROVE  k.who \in Combatants
  BY DEF TaskOf, Call, Idle

LEMMA ClaimsRead ==
    ASSUME NEW k \in Call, NEW c, NEW col, <<c, col>> \in Claims(k)
    PROVE  k.step \notin Idle /\ c \in {k.who, k.at} /\ col \in Cols
  BY DEF Claims, Call, Idle, Mending

LEMMA KeptTouch ==
    ASSUME NEW k \in Call, NEW k2 \in Call, NEW l, NEW r, NEW r2, NEW L, NEW L2, NEW cell,
           KeptOf(k, l, r, L), Milder(k, k2), Hears(k, k2, {cell}),
           \A c \in Combatants, col \in Cols : cell # <<c, col>> => r2[c][col] = r[c][col],
           L \subseteq L2, cell \in L2
    PROVE  KeptOf(k2, l, r2, L2)
  <1>1. TaskOf(k2) /\ TodoOf(k2) /\ EntryOf(k2, l)
    BY DEF KeptOf, TaskOf, TodoOf, EntryOf, Milder
  <1>2. Claims(k2) = Claims(k)
    BY DEF Claims, Milder
  <1>3. ValueOf(k2, r2)
    <2> SUFFICES ASSUME NEW c \in Combatants, NEW col \in Cols,
                        <<c, col>> \in Claims(k) \ k2.spoiled
                 PROVE  k.value[col] = r2[c][col]
      BY <1>2 DEF ValueOf, Milder
    <2>1. cell # <<c, col>>
      BY ClaimsRead DEF Hears
    <2> QED
      BY <2>1 DEF KeptOf, ValueOf, Milder
  <1>4. BeforeOf(k2, l, r2, L2)
    <2> SUFFICES ASSUME k.step \notin Idle, NEW col \in k.sure, <<k.who, col>> \notin k2.spoiled
                 PROVE  Trusted(l, r2, L2, k.before, k.who, col)
      BY DEF BeforeOf, Milder
    <2>1. Trusted(l, r, L, k.before, k.who, col)
      BY DEF KeptOf, BeforeOf, Milder
    <2>2. k.who \in Combatants /\ col \in Cols
      BY Working DEF KeptOf, Call
    <2> QED
      BY <2>1, <2>2, TrustedTouch
  <1>5. CopyOf(k2, l, r2, L2)
    <2> SUFFICES ASSUME k.step \in {"aimed", "shifted"}, NEW col \in k.calm,
                        <<k.at, col>> \notin k2.spoiled
                 PROVE  Trusted(l, r2, L2, k.copy, k.at, col)
      BY DEF CopyOf, Milder
    <2>1. Trusted(l, r, L, k.copy, k.at, col)
      BY DEF KeptOf, CopyOf, Milder
    <2>2. k.at \in Combatants /\ col \in Cols
      BY DEF KeptOf, TaskOf, Call
    <2> QED
      BY <2>1, <2>2, TrustedTouch
  <1> QED
    BY <1>1, <1>3, <1>4, <1>5 DEF KeptOf

LEMMA KeptAppend ==
    ASSUME NEW k \in Call, NEW k2 \in Call, NEW l \in Seq(Entry), NEW e \in Entry,
           NEW r, NEW L, NEW sp, KeptOf(k, l, r, L), Milder(k, k2),
           Hears(k, k2, Spoken(e) \cap (L \cup sp)), Honest(e, r, sp)
    PROVE  KeptOf(k2, Append(l, e), r, Hushed(L, e, sp))
  <1> DEFINE X == Spoken(e) \cap (L \cup sp)
  <1>1. TaskOf(k2) /\ TodoOf(k2)
    BY DEF KeptOf, TaskOf, TodoOf, Milder
  <1>2. EntryOf(k2, Append(l, e))
    <2>1. k.kind = "undo" => k.entry \in 1..Len(l) /\ Append(l, e)[k.entry] = l[k.entry]
      BY AppendFacts DEF KeptOf, EntryOf
    <2> QED
      BY <2>1, AppendFacts DEF KeptOf, EntryOf, Milder
  <1>3. ValueOf(k2, r)
    BY DEF KeptOf, ValueOf, Claims, Milder
  <1>4. BeforeOf(k2, Append(l, e), r, Hushed(L, e, sp))
    <2> SUFFICES ASSUME k.step \notin Idle, NEW col \in k.sure, <<k.who, col>> \notin k2.spoiled
                 PROVE  Trusted(Append(l, e), r, Hushed(L, e, sp), k.before, k.who, col)
      BY DEF BeforeOf, Milder
    <2>1. Trusted(l, r, L, k.before, k.who, col)
      BY DEF KeptOf, BeforeOf, Milder
    <2>2. k.who \in Combatants /\ col \in Cols
      BY Working DEF KeptOf, Call
    <2>3. <<k.who, col>> \notin X
      BY DEF Hears
    <2> QED
      BY <2>1, <2>2, <2>3, TrustedAppend
  <1>5. CopyOf(k2, Append(l, e), r, Hushed(L, e, sp))
    <2> SUFFICES ASSUME k.step \in {"aimed", "shifted"}, NEW col \in k.calm,
                        <<k.at, col>> \notin k2.spoiled
                 PROVE  Trusted(Append(l, e), r, Hushed(L, e, sp), k.copy, k.at, col)
      BY DEF CopyOf, Milder
    <2>1. Trusted(l, r, L, k.copy, k.at, col)
      BY DEF KeptOf, CopyOf, Milder
    <2>2. k.at \in Combatants /\ col \in Cols
      BY DEF KeptOf, TaskOf, Call
    <2>3. <<k.at, col>> \notin X
      BY DEF Hears, Idle
    <2> QED
      BY <2>1, <2>2, <2>3, TrustedAppend
  <1> QED
    BY <1>1, <1>2, <1>3, <1>4, <1>5 DEF KeptOf

(***************************************************************************)
(* What the log tells.                                                     *)
(***************************************************************************)
LEMMA ToldTouch ==
    ASSUME NEW l, NEW r, NEW r2, NEW L, NEW L2, NEW cell, Told(l, r, L),
           \A c \in Combatants, col \in Cols : cell # <<c, col>> => r2[c][col] = r[c][col],
           L \subseteq L2, cell \in L2
    PROVE  Told(l, r2, L2)
  BY DEF Told

LEMMA ToldAppend ==
    ASSUME NEW l \in Seq(Entry), NEW e \in Entry, NEW r, NEW L, NEW sp,
           Told(l, r, L), Honest(e, r, sp)
    PROVE  Told(Append(l, e), r, Hushed(L, e, sp))
  <1> SUFFICES ASSUME NEW c \in Combatants, NEW col \in Cols, NEW i \in 1..(Len(l) + 1),
                      NewestIn(Append(l, e), i, Len(l) + 1, c, col),
                      <<c, col>> \notin Hushed(L, e, sp)
               PROVE  Append(l, e)[i].after[col] = r[c][col]
    BY AppendFacts DEF Told
  <1>1. <<c, col>> \in Spoken(e) <=> e.actor = c /\ col \in e.tells
    BY DEF Spoken
  <1>2. CASE <<c, col>> \in Spoken(e)
    <2>1. i = Len(l) + 1
      BY <1>1, <1>2, NewestGrows
    <2> QED
      BY <1>2, <2>1, AppendFacts DEF Honest, Hushed
  <1>3. CASE <<c, col>> \notin Spoken(e)
    <2>1. i \in 1..Len(l) /\ NewestIn(l, i, Len(l), c, col)
      BY <1>1, <1>3, NewestGrows
    <2> QED
      BY <1>3, <2>1, AppendFacts DEF Told, Hushed
  <1> QED
    BY <1>2, <1>3

\* What RowOf asks of a row that is about to be appended.
Sound(l, e) ==
    /\ e.actor = None => e.knows = {} /\ e.tells = {}
    /\ e.sure \subseteq e.knows
    /\ \A i \in DOMAIN l : \A col \in e.sure :
         NewestIn(l, i, Len(l), e.actor, col) => e.before[col] = l[i].after[col]
    /\ e.undoes > 0 =>
         /\ e.undoes \in DOMAIN l
         /\ \A col \in l[e.undoes].knows : e.after[col] = l[e.undoes].before[col]

LEMMA RowsAppend ==
    ASSUME NEW l \in Seq(Entry), NEW e \in Entry, \A n \in DOMAIN l : RowOf(l, n), Sound(l, e)
    PROVE  \A n \in DOMAIN Append(l, e) : RowOf(Append(l, e), n)
  <1> DEFINE l2 == Append(l, e)
  <1> SUFFICES ASSUME NEW n \in 1..(Len(l) + 1)
               PROVE  RowOf(l2, n)
    BY AppendFacts
  <1>1. Len(l) \in Nat /\ DOMAIN l = 1..Len(l) /\ DOMAIN l2 = 1..(Len(l) + 1)
    BY AppendFacts
  <1>2. \A i \in 1..Len(l) : l2[i] = l[i] /\ l[i] \in Entry
    BY AppendFacts
  <1>3. l2[Len(l) + 1] = e
    BY AppendFacts
  <1>4. \A i \in 1..(Len(l) + 1) : \A m \in 0..Len(l) : \A c, col :
          NewestIn(l2, i, m, c, col) <=> NewestIn(l, i, m, c, col)
    BY NewestGrows
  <1>5. \A i, m, c, col : NewestIn(l, i, m, c, col) => i \in 1..m
    BY DEF NewestIn
  <1> HIDE DEF l2
  <1>6. CASE n \in 1..Len(l)
    <2>1. RowOf(l, n)
      BY <1>1, <1>6
    <2>2. l[n].undoes \in Nat
      BY <1>2, <1>6, DeskAssumption DEF Entry
    <2>3. n - 1 \in 0..Len(l)
      BY <1>1, <1>6
    <2>4. \A i \in DOMAIN l2 : \A col \in l[n].sure :
            NewestIn(l2, i, n - 1, l[n].actor, col) => l[n].before[col] = l2[i].after[col]
      <3> SUFFICES ASSUME NEW i \in DOMAIN l2, NEW col \in l[n].sure,
                          NewestIn(l2, i, n - 1, l[n].actor, col)
                   PROVE  l[n].before[col] = l2[i].after[col]
        OBVIOUS
      <3>1. NewestIn(l, i, n - 1, l[n].actor, col) /\ i \in 1..Len(l)
        BY <1>1, <1>4, <1>5, <1>6, <2>3
      <3> QED
        BY <3>1, <2>1, <1>1, <1>2 DEF RowOf
    <2>5. l[n].undoes > 0 => l[n].undoes \in 1..Len(l)
      BY <2>1, <2>2, <1>1, <1>6 DEF RowOf
    <2> QED
      BY <2>1, <2>4, <2>5, <1>2, <1>6 DEF RowOf
  <1>7. CASE n = Len(l) + 1
    <2>1. \A i \in DOMAIN l2 : \A col \in e.sure :
            NewestIn(l2, i, Len(l), e.actor, col) => e.before[col] = l2[i].after[col]
      <3> SUFFICES ASSUME NEW i \in DOMAIN l2, NEW col \in e.sure,
                          NewestIn(l2, i, Len(l), e.actor, col)
                   PROVE  e.before[col] = l2[i].after[col]
        OBVIOUS
      <3>1. NewestIn(l, i, Len(l), e.actor, col) /\ i \in 1..Len(l)
        BY <1>1, <1>4, <1>5
      <3> QED
        BY <3>1, <1>1, <1>2 DEF Sound
    <2>2. e.undoes > 0 => e.undoes \in 1..Len(l)
      BY <1>1 DEF Sound
    <2>3. n - 1 = Len(l)
      BY <1>1, <1>7
    <2> QED
      BY <2>1, <2>2, <2>3, <1>1, <1>2, <1>3, <1>7 DEF RowOf, Sound
  <1> QED
    BY <1>1, <1>6, <1>7

\* Rows that know nothing change nothing of this.
LEMMA NoteFacts ==
    ASSUME NEW t \in Turns, NEW l, NEW r, NEW L
    PROVE  /\ Note(t) \in Entry /\ Spoken(Note(t)) = {}
           /\ Honest(Note(t), r, {}) /\ Sound(l, Note(t)) /\ Hushed(L, Note(t), {}) = L
  <1>1. Note(t) \in Entry
    BY DeskAssumption DEF Note, Entry, Snapshot, Blank
  <1>2. Spoken(Note(t)) = {}
    BY DEF Note, Spoken
  <1>3. Honest(Note(t), r, {}) /\ Hushed(L, Note(t), {}) = L
    BY <1>2 DEF Honest, Hushed
  <1>4. Sound(l, Note(t))
    BY DEF Note, Sound
  <1> QED
    BY <1>1, <1>2, <1>3, <1>4

(***************************************************************************)
(* One step: what the others keep, given what the acting handler h holds.  *)
(***************************************************************************)
\* What every step must show of handlers and log, but for the history of actions.
Frame == call' \in [Handlers -> Call] /\ HandlersOK' /\ LogOK' /\ ToldOK'

\* The others as far as HandOK looks at them.
OthersKeep(h) ==
    \A g \in Handlers \ {h} : /\ call'[g].action = call[g].action
                             /\ call'[g].kind = call[g].kind
                             /\ call'[g].step = call[g].step

LEMMA GoesFacts ==
    ASSUME TypeOK, NEW h \in Handlers, NEW k \in Call, Goes(h, k)
    PROVE  /\ call' \in [Handlers -> Call] /\ call'[h] = k
           /\ \A g \in Handlers \ {h} : call'[g] = call[g]
           /\ OthersKeep(h)
  BY DEF TypeOK, Goes, OthersKeep

LEMMA StirFacts ==
    ASSUME TypeOK, NEW h, NEW k \in Call, NEW X \in SUBSET Cells, Stir(h, k, X)
    PROVE  /\ call' \in [Handlers -> Call] /\ (h \in Handlers => call'[h] = k)
           /\ \A g \in Handlers \ {h} : Milder(call[g], call'[g]) /\ Hears(call[g], call'[g], X)
           /\ OthersKeep(h)
  <1>1. ASSUME NEW g \in Handlers \ {h}
        PROVE  /\ call'[g] \in Call
               /\ Milder(call[g], call'[g]) /\ Hears(call[g], call'[g], X)
    <2> DEFINE k2 == [call[g] EXCEPT !.spoiled = @ \cup Seen(call[g], X)]
    <2>1. call[g] \in Call
      BY DEF TypeOK
    <2>2. Seen(call[g], X) \subseteq Cells
      BY DEF Seen
    <2>3. k2 \in Call /\ Milder(call[g], k2) /\ k2.spoiled = call[g].spoiled \cup Seen(call[g], X)
      BY <2>1, <2>2 DEF Call, Milder
    <2>4. CASE call[g].step \in Idle
      BY <2>1, <2>4, <1>1 DEF Stir, At, Idle, Milder, Hears
    <2>5. CASE call[g].step \notin Idle
      <3>1. call'[g] = k2
        BY <2>5, <1>1 DEF Stir, At, Idle
      <3>2. Hears(call[g], k2, X)
        BY <2>3 DEF Hears, Seen
      <3> QED
        BY <2>3, <3>1, <3>2
    <2> QED
      BY <2>4, <2>5
  <1>2. h \in Handlers => call'[h] = k
    BY DEF Stir
  <1>3. call' = [g \in Handlers |-> call'[g]]
    BY DEF Stir
  <1>4. call' \in [Handlers -> Call]
    <2>1. \A g \in Handlers : call'[g] \in Call
      BY <1>1, <1>2
    <2> QED
      BY <1>3, <2>1
  <1>5. OthersKeep(h)
    BY <1>1 DEF OthersKeep, Milder
  <1> QED
    BY <1>1, <1>2, <1>4, <1>5

\* A step that changes nobody else's data.
LEMMA FrameQuiet ==
    ASSUME IInv, NEW h \in Handlers, NEW k \in Call, Goes(h, k), UNCHANGED <<row, log, loose>>,
           KeptOf(k, log, row, loose)
    PROVE  Frame /\ OthersKeep(h)
  <1>1. /\ call' \in [Handlers -> Call] /\ call'[h] = k /\ OthersKeep(h)
        /\ \A g \in Handlers \ {h} : call'[g] = call[g]
    BY GoesFacts DEF IInv
  <1>2. HandlersOK'
    BY <1>1 DEF IInv, HandlersOK
  <1> QED
    BY <1>1, <1>2 DEF Frame, IInv, LogOK, ToldOK

\* A row that knows nothing is appended, by a handler or nobody.
LEMMA FrameNote ==
    ASSUME IInv, log' = Append(log, Note(turn)), UNCHANGED <<row, loose>>,
           \/ UNCHANGED call
           \/ \E h \in Handlers, k \in Call : Goes(h, k) /\ KeptOf(k, log, row, loose)
    PROVE  Frame
  <1> DEFINE e == Note(turn)
  <1>1. log \in Seq(Entry) /\ turn \in Turns /\ call \in [Handlers -> Call]
    BY DEF IInv, TypeOK
  <1>2. /\ e \in Entry /\ Spoken(e) = {} /\ Honest(e, row, {}) /\ Sound(log, e)
        /\ Hushed(loose, e, {}) = loose
    BY <1>1, NoteFacts
  <1>3. ASSUME NEW k \in Call, KeptOf(k, log, row, loose)
        PROVE  KeptOf(k, log', row', loose')
    <2>1. Milder(k, k) /\ Hears(k, k, Spoken(e) \cap (loose \cup {}))
      BY <1>2 DEF Milder, Hears
    <2>2. KeptOf(k, Append(log, e), row, Hushed(loose, e, {}))
      BY <1>1, <1>2, <1>3, <2>1, KeptAppend
    <2> QED
      BY <2>2, <1>2
  <1>4. \A g \in Handlers : call'[g] \in Call /\ KeptOf(call'[g], log, row, loose)
    BY <1>1, GoesFacts DEF IInv, HandlersOK
  <1>5. call' \in [Handlers -> Call]
    BY <1>1, GoesFacts DEF IInv
  <1>6. HandlersOK'
    BY <1>3, <1>4 DEF HandlersOK
  <1>7. LogOK'
    BY <1>1, <1>2, RowsAppend DEF LogOK, IInv
  <1>8. ToldOK'
    BY <1>1, <1>2, ToldAppend DEF ToldOK, IInv
  <1> QED
    BY <1>5, <1>6, <1>7, <1>8 DEF Frame

\* A group of columns is written, by a handler or somebody else.
LEMMA FrameTouch ==
    ASSUME IInv, NEW h, NEW c \in Combatants, NEW col \in Cols, NEW v, NEW k \in Call,
           Touch(h, c, col, v, k), UNCHANGED log,
           h \in Handlers => KeptOf(k, log, row', loose')
    PROVE  Frame /\ OthersKeep(h)
  <1> DEFINE cell == <<c, col>>
  <1>1. row \in [Combatants -> Snapshot] /\ call \in [Handlers -> Call]
    BY DEF IInv, TypeOK
  <1>2. \A d \in Combatants, x \in Cols : cell # <<d, x>> => row'[d][x] = row[d][x]
    BY <1>1 DEF Touch, Snapshot, Cols
  <1>3. loose \subseteq loose' /\ cell \in loose' /\ {cell} \in SUBSET Cells
    BY DEF Touch, Cells
  <1>4. /\ call' \in [Handlers -> Call] /\ (h \in Handlers => call'[h] = k) /\ OthersKeep(h)
        /\ \A g \in Handlers \ {h} : Milder(call[g], call'[g]) /\ Hears(call[g], call'[g], {cell})
    <2>1. Stir(h, k, {cell})
      BY DEF Touch
    <2> QED
      BY <1>3, <2>1, StirFacts DEF IInv
  <1>5. ASSUME NEW g \in Handlers \ {h}
        PROVE  KeptOf(call'[g], log', row', loose')
    <2>1. KeptOf(call[g], log, row, loose)
      BY DEF IInv, HandlersOK
    <2>2. KeptOf(call'[g], log, row', loose')
      BY <1>1, <1>2, <1>3, <1>4, <2>1, KeptTouch
    <2> QED
      BY <2>2
  <1>6. HandlersOK'
    BY <1>4, <1>5 DEF HandlersOK
  <1>7. ToldOK'
    BY <1>2, <1>3, ToldTouch DEF ToldOK, IInv
  <1> QED
    BY <1>4, <1>6, <1>7 DEF Frame, IInv, LogOK

\* The log has one row more.
Longer == log' \in Seq(Entry) /\ Len(log') = Len(log) + 1 /\ loose' \subseteq Cells

\* A row that knows is appended, and the others hear of it.
LEMMA FrameAppend ==
    ASSUME IInv, NEW h \in Handlers, NEW k \in Call, NEW e \in Entry, NEW sp \in SUBSET Cells,
           log' = Append(log, e), loose' = Hushed(loose, e, sp), UNCHANGED row,
           Stir(h, k, Spoken(e) \cap (loose \cup sp)),
           Honest(e, row, sp), Sound(log, e),
           KeptOf(k, log', row, loose')
    PROVE  Frame /\ OthersKeep(h) /\ Longer
  <1> DEFINE X == Spoken(e) \cap (loose \cup sp)
  <1>1. log \in Seq(Entry) /\ call \in [Handlers -> Call] /\ loose \subseteq Cells
    BY DEF IInv, TypeOK
  <1>2. X \in SUBSET Cells
    BY <1>1
  <1>3. /\ call' \in [Handlers -> Call] /\ call'[h] = k /\ OthersKeep(h)
        /\ \A g \in Handlers \ {h} : Milder(call[g], call'[g]) /\ Hears(call[g], call'[g], X)
    BY <1>2, StirFacts DEF IInv
  <1>4. ASSUME NEW g \in Handlers \ {h}
        PROVE  KeptOf(call'[g], log', row', loose')
    <2>1. KeptOf(call[g], log, row, loose)
      BY DEF IInv, HandlersOK
    <2>2. KeptOf(call'[g], Append(log, e), row, Hushed(loose, e, sp))
      BY <1>1, <1>3, <2>1, KeptAppend
    <2> QED
      BY <2>2
  <1>5. HandlersOK'
    BY <1>3, <1>4 DEF HandlersOK
  <1>6. LogOK'
    BY <1>1, RowsAppend DEF LogOK, IInv
  <1>7. ToldOK'
    BY <1>1, ToldAppend DEF ToldOK, IInv
  <1>8. Longer
    BY <1>1, AppendFacts DEF Longer, Hushed
  <1> QED
    BY <1>3, <1>5, <1>6, <1>7, <1>8 DEF Frame

(***************************************************************************)
(* What the acting handler holds.                                          *)
(***************************************************************************)
\* Nothing is asked of a handler's data before it has the lock.
LEMMA KeptIdle ==
    ASSUME NEW k \in Call, NEW l, NEW r, NEW L, k.step \in Idle, TaskOf(k), TodoOf(k), EntryOf(k, l)
    PROVE  KeptOf(k, l, r, L)
  <1>1. Claims(k) = {}
    BY DEF Claims, Idle, Mending
  <1>2. ValueOf(k, r)
    BY <1>1 DEF ValueOf
  <1>3. BeforeOf(k, l, r, L) /\ CopyOf(k, l, r, L)
    BY DEF BeforeOf, CopyOf, Idle
  <1> QED
    BY <1>2, <1>3 DEF KeptOf

LEMMA KeptRest ==
    ASSUME NEW l, NEW r, NEW L
    PROVE  Rest \in Call /\ KeptOf(Rest, l, r, L)
  <1>1. Rest \in Call
    BY DeskAssumption DEF Rest, Call, Blank, Snapshot
  <1>2. TaskOf(Rest) /\ TodoOf(Rest) /\ EntryOf(Rest, l) /\ Rest.step \in Idle
    BY DEF Rest, TaskOf, TodoOf, EntryOf, Idle, Mending, Effecting
  <1> QED
    BY <1>1, <1>2, KeptIdle

\* A row read where it is calm is what the log last told of it.
LEMMA TrustRow ==
    ASSUME IInv, NEW c \in Combatants, NEW col \in Calm(c)
    PROVE  Trusted(log, row, loose, row[c], c, col)
  BY DEF IInv, ToldOK, Told, Trusted, Calm

\* k2 goes on with the state before that k has read.
Recalls(k, k2) ==
    /\ k2.who = k.who /\ k2.before = k.before /\ k2.sure = k.sure
    /\ \A col \in Cols : <<k.who, col>> \in k.spoiled => <<k.who, col>> \in k2.spoiled

LEMMA BeforeGoesOn ==
    ASSUME NEW k \in Call, NEW k2, NEW l, NEW r, NEW L, KeptOf(k, l, r, L),
           k.step \notin Idle, Recalls(k, k2)
    PROVE  BeforeOf(k2, l, r, L)
  <1>1. k.sure \subseteq Cols
    BY DEF Call
  <1> QED
    BY <1>1 DEF BeforeOf, Recalls, KeptOf

LEMMA BeforeSurvives ==
    ASSUME NEW k \in Call, NEW k2, NEW l, NEW r, NEW r2, NEW L, NEW L2, NEW cell,
           KeptOf(k, l, r, L), k.step \notin Idle, Recalls(k, k2),
           \A c \in Combatants, col \in Cols : cell # <<c, col>> => r2[c][col] = r[c][col],
           L \subseteq L2, cell \in L2
    PROVE  BeforeOf(k2, l, r2, L2)
  <1> SUFFICES ASSUME NEW col \in k.sure, <<k.who, col>> \notin k.spoiled
               PROVE  Trusted(l, r2, L2, k.before, k.who, col)
    BY DEF BeforeOf, Recalls, Call
  <1>1. Trusted(l, r, L, k.before, k.who, col)
    BY DEF KeptOf, BeforeOf
  <1>2. k.who \in Combatants /\ col \in Cols
    BY Working DEF KeptOf, Call
  <1> QED
    BY <1>1, <1>2, TrustedTouch

\* The next effect: who is between two effects holds only the state before.
LEMMA AgainFacts ==
    ASSUME NEW k \in Call
    PROVE  LET k2 == Again(k) IN
           /\ k2 \in Call
           /\ k2.step = "effects" /\ k2.kind = k.kind /\ k2.turn = k.turn /\ k2.who = k.who
           /\ k2.todo = k.todo /\ k2.tells = k.tells /\ k2.before = k.before /\ k2.entry = k.entry
           /\ k2.sure = k.sure /\ k2.action = k.action
           /\ k2.spoiled = {cell \in k.spoiled : cell[1] = k.who}
           /\ Recalls(k, k2) /\ Claims(k2) = {}
  <1> DEFINE k1 == [k EXCEPT !.step = "effects", !.at = None, !.copy = Blank, !.value = Blank,
                             !.calm = {}]
             sp == {cell \in k.spoiled : cell[1] = k.who}
             k2 == Again(k)
  <1>1. /\ k1 \in Call
        /\ k1.step = "effects" /\ k1.kind = k.kind /\ k1.turn = k.turn /\ k1.who = k.who
        /\ k1.todo = k.todo /\ k1.tells = k.tells /\ k1.before = k.before /\ k1.entry = k.entry
        /\ k1.sure = k.sure /\ k1.action = k.action
    <2>1. Blank \in Snapshot
      BY DeskAssumption DEF Blank, Snapshot
    <2> QED
      BY <2>1 DEF Call
  <1>2. sp \in SUBSET Cells /\ k2 = [k1 EXCEPT !.spoiled = sp]
    BY DEF Call, Again
  <1> HIDE DEF k1, k2
  <1>3. /\ k2 \in Call
        /\ k2.step = "effects" /\ k2.kind = k.kind /\ k2.turn = k.turn /\ k2.who = k.who
        /\ k2.todo = k.todo /\ k2.tells = k.tells /\ k2.before = k.before /\ k2.entry = k.entry
        /\ k2.sure = k.sure /\ k2.spoiled = sp /\ k2.action = k.action
    <2> HIDE DEF sp
    <2> QED
      BY <1>1, <1>2 DEF Call
  <1>4. Recalls(k, k2)
    BY <1>3 DEF Recalls
  <1>5. Claims(k2) = {}
    <2> HIDE DEF sp
    <2> QED
      BY <1>3 DEF Claims, Mending
  <1> QED
    BY <1>3, <1>4, <1>5 DEF k2

LEMMA KeptAgain ==
    ASSUME NEW k \in Call, NEW l, NEW r, NEW L,
           TaskOf(k), TodoOf(k), EntryOf(k, l), BeforeOf(k, l, r, L),
           k.kind \in {"resolve", "enemy"}, k.step \notin Idle
    PROVE  Again(k) \in Call /\ KeptOf(Again(k), l, r, L)
  <1> DEFINE k2 == Again(k)
  <1>1. /\ k2 \in Call
        /\ k2.step = "effects" /\ k2.kind = k.kind /\ k2.turn = k.turn /\ k2.who = k.who
        /\ k2.todo = k.todo /\ k2.tells = k.tells /\ k2.before = k.before /\ k2.entry = k.entry
        /\ k2.sure = k.sure /\ k2.action = k.action
        /\ Recalls(k, k2) /\ Claims(k2) = {}
    BY AgainFacts
  <1> HIDE DEF k2
  <1>2. TaskOf(k2) /\ TodoOf(k2) /\ EntryOf(k2, l)
    BY <1>1 DEF TaskOf, TodoOf, EntryOf, Idle, Effecting, Mending
  <1>3. ValueOf(k2, r) /\ CopyOf(k2, l, r, L)
    BY <1>1 DEF ValueOf, CopyOf
  <1>4. BeforeOf(k2, l, r, L)
    BY <1>1 DEF BeforeOf, Recalls, Call
  <1> QED
    BY <1>1, <1>2, <1>3, <1>4 DEF KeptOf, k2

LEMMA RestFields ==
    /\ Rest \in Call /\ Rest.step = "rest" /\ Rest.kind = "none" /\ Rest.who = None /\ Rest.turn = 0
    /\ Rest.todo = {} /\ Rest.knows = {} /\ Rest.tells = {} /\ Rest.entry = 0
    /\ Rest.action = None /\ Rest.sure = {} /\ Rest.calm = {} /\ Rest.spoiled = {}
    /\ Rest.value = Blank
  BY KeptRest DEF Rest

LEMMA BlankRow == Blank \in Snapshot
  BY DeskAssumption DEF Blank, Snapshot

(***************************************************************************)
(* Handlers come in.                                                       *)
(***************************************************************************)
LEMMA FrameLock ==
    ASSUME IInv, NEW h \in Handlers, NEW k \in Call, Goes(h, k), UNCHANGED <<row, log, loose>>,
           k.step \in Idle, TaskOf(k), TodoOf(k), EntryOf(k, log)
    PROVE  Frame /\ OthersKeep(h)
  BY KeptIdle, FrameQuiet

LEMMA OverrideFrame ==
    ASSUME IInv, NEW h \in Handlers, NEW c \in Combatants, NEW col \in Cols, NEW v \in Snapshot,
           Override(h, c, col, v)
    PROVE  /\ Frame /\ OthersKeep(h)
           /\ call'[h].action = None /\ call'[h].kind = "override" /\ call'[h].step = "lock"
  <1> DEFINE k0 == [Rest EXCEPT !.step = "lock", !.kind = "override", !.who = c, !.todo = {col},
                                !.knows = Cols, !.tells = Cols, !.value = v]
             k == [k0 EXCEPT !.turn = turn]
  <1>1. /\ k0 \in Call
        /\ k0.step = "lock" /\ k0.kind = "override" /\ k0.who = c /\ k0.todo = {col}
        /\ k0.tells = Cols /\ k0.entry = 0 /\ k0.action = None
    BY RestFields DEF Call
  <1> HIDE DEF k0
  <1>2. turn \in Turns
    BY DEF IInv, TypeOK
  <1>3. /\ k \in Call
        /\ k.step = "lock" /\ k.kind = "override" /\ k.who = c /\ k.todo = {col}
        /\ k.tells = Cols /\ k.entry = 0 /\ k.action = None /\ k.turn = turn
    BY <1>1, <1>2, DeskAssumption DEF Call, Turns
  <1>4. Goes(h, k) /\ UNCHANGED <<row, log, loose>>
    BY DEF Override, Begins, history, k0
  <1> HIDE DEF k
  <1>5. TaskOf(k) /\ TodoOf(k) /\ EntryOf(k, log) /\ k.step \in Idle
    BY <1>2, <1>3 DEF TaskOf, TodoOf, EntryOf, Mending, Effecting, Idle
  <1>6. call'[h] = k
    BY <1>3, <1>4, GoesFacts DEF IInv
  <1> QED
    BY <1>3, <1>4, <1>5, <1>6, FrameLock

LEMMA ExhaustionFrame ==
    ASSUME IInv, NEW h \in Handlers, NEW c \in Combatants, OverrideExhaustion(h, c)
    PROVE  /\ Frame /\ OthersKeep(h)
           /\ call'[h].action = None /\ call'[h].kind = "tune" /\ call'[h].step = "lock"
  <1> DEFINE k0 == [Rest EXCEPT !.step = "lock", !.kind = "tune", !.who = c, !.todo = {"conds"}]
             k == [k0 EXCEPT !.turn = turn]
  <1>1. /\ k0 \in Call
        /\ k0.step = "lock" /\ k0.kind = "tune" /\ k0.who = c /\ k0.todo = {"conds"}
        /\ k0.tells = {} /\ k0.entry = 0 /\ k0.action = None
    BY RestFields DEF Call, Cols
  <1> HIDE DEF k0
  <1>2. turn \in Turns
    BY DEF IInv, TypeOK
  <1>3. /\ k \in Call
        /\ k.step = "lock" /\ k.kind = "tune" /\ k.who = c /\ k.todo = {"conds"}
        /\ k.tells = {} /\ k.entry = 0 /\ k.action = None /\ k.turn = turn
    BY <1>1, <1>2, DeskAssumption DEF Call, Turns
  <1>4. Goes(h, k) /\ UNCHANGED <<row, log, loose>>
    BY DEF OverrideExhaustion, Begins, history, k0
  <1> HIDE DEF k
  <1>5. TaskOf(k) /\ TodoOf(k) /\ EntryOf(k, log) /\ k.step \in Idle
    BY <1>2, <1>3 DEF TaskOf, TodoOf, EntryOf, Mending, Effecting, Idle
  <1>6. call'[h] = k
    BY <1>3, <1>4, GoesFacts DEF IInv
  <1> QED
    BY <1>3, <1>4, <1>5, <1>6, FrameLock

LEMMA CancelFrame ==
    ASSUME IInv, NEW h \in Handlers, NEW c \in Combatants, Cancel(h, c)
    PROVE  /\ Frame /\ OthersKeep(h)
           /\ call'[h].action = None /\ call'[h].kind = "cancel" /\ call'[h].step = "lock"
  <1> DEFINE k0 == [Rest EXCEPT !.step = "lock", !.kind = "cancel", !.who = c]
             k == [k0 EXCEPT !.turn = turn]
  <1>1. /\ k0 \in Call
        /\ k0.step = "lock" /\ k0.kind = "cancel" /\ k0.who = c /\ k0.todo = {}
        /\ k0.tells = {} /\ k0.entry = 0 /\ k0.action = None /\ k0.sure = {}
    BY RestFields DEF Call
  <1> HIDE DEF k0
  <1>2. turn \in Turns
    BY DEF IInv, TypeOK
  <1>3. /\ k \in Call
        /\ k.step = "lock" /\ k.kind = "cancel" /\ k.who = c /\ k.todo = {}
        /\ k.tells = {} /\ k.entry = 0 /\ k.action = None /\ k.turn = turn
        /\ k.sure = {}
    BY <1>1, <1>2, DeskAssumption DEF Call, Turns
  <1>4. Goes(h, k) /\ UNCHANGED <<row, log, loose>>
    BY DEF Cancel, Begins, history, k0
  <1> HIDE DEF k
  <1>5. TaskOf(k) /\ TodoOf(k) /\ EntryOf(k, log) /\ k.step \in Idle
    BY <1>2, <1>3 DEF TaskOf, TodoOf, EntryOf, Mending, Effecting, Idle
  <1>6. call'[h] = k
    BY <1>3, <1>4, GoesFacts DEF IInv
  <1> QED
    BY <1>3, <1>4, <1>5, <1>6, FrameLock

LEMMA ResolveFrame ==
    ASSUME IInv, NEW h \in Handlers, NEW a \in Actions, Resolve(h, a)
    PROVE  /\ Frame /\ OthersKeep(h)
           /\ call'[h].action = a /\ call'[h].kind = "resolve" /\ call'[h].step = "lock"
  <1> DEFINE k0 == [Rest EXCEPT !.step = "lock", !.kind = "resolve", !.who = Author[a],
                                !.knows = {"conds"}, !.tells = {"conds"}, !.left = MaxEffects,
                                !.action = a]
             k == [k0 EXCEPT !.turn = turn]
  <1>1. /\ k0 \in Call
        /\ k0.step = "lock" /\ k0.kind = "resolve" /\ k0.who \in Combatants /\ k0.todo = {}
        /\ k0.tells = {"conds"} /\ k0.entry = 0 /\ k0.action = a
    <2>1. Author[a] \in Combatants /\ MaxEffects \in 0..MaxEffects
      BY DeskAssumption
    <2> QED
      BY <2>1, RestFields DEF Call, Cols
  <1> HIDE DEF k0
  <1>2. turn \in Turns
    BY DEF IInv, TypeOK
  <1>3. /\ k \in Call
        /\ k.step = "lock" /\ k.kind = "resolve" /\ k.who \in Combatants /\ k.todo = {}
        /\ k.tells = {"conds"} /\ k.entry = 0 /\ k.action = a /\ k.turn = turn
    BY <1>1, <1>2, DeskAssumption DEF Call, Turns
  <1>4. Goes(h, k) /\ UNCHANGED <<row, log, loose>>
    BY DEF Resolve, Begins, history, k0
  <1> HIDE DEF k
  <1>5. TaskOf(k) /\ TodoOf(k) /\ EntryOf(k, log) /\ k.step \in Idle
    BY <1>2, <1>3 DEF TaskOf, TodoOf, EntryOf, Mending, Effecting, Idle
  <1>6. call'[h] = k
    BY <1>3, <1>4, GoesFacts DEF IInv
  <1> QED
    BY <1>3, <1>4, <1>5, <1>6, FrameLock

LEMMA UndoFrame ==
    ASSUME IInv, NEW h \in Handlers, NEW e \in DOMAIN log, Undo(h, e)
    PROVE  /\ Frame /\ OthersKeep(h)
           /\ call'[h].action = None /\ call'[h].kind = "undo" /\ call'[h].step = "lock"
  <1> DEFINE k0 == [Rest EXCEPT !.step = "lock", !.kind = "undo", !.who = log[e].actor,
                                !.todo = log[e].knows, !.knows = Cols, !.tells = log[e].knows,
                                !.value = log[e].before, !.entry = e]
             k == [k0 EXCEPT !.turn = turn]
  <1>0. /\ log[e] \in Entry /\ e \in 0..MaxLog
        /\ log[e].actor \in Combatants \/ log[e].knows = {}
    <2>1. log[e] \in Entry /\ e \in 1..Len(log) /\ Len(log) \in Nat /\ Len(log) <= MaxLog
      BY DEF IInv, TypeOK
    <2>2. log[e].actor = None => log[e].knows = {}
      BY DEF IInv, LogOK, RowOf
    <2> QED
      BY <2>1, <2>2, DeskAssumption DEF Entry
  <1>1. /\ k0 \in Call
        /\ k0.step = "lock" /\ k0.kind = "undo" /\ k0.who = log[e].actor
        /\ k0.todo = log[e].knows
        /\ k0.tells = log[e].knows /\ k0.entry = e /\ k0.action = None
        /\ k0.value = log[e].before
    <2>1. /\ log[e].actor \in Combatants \cup {None} /\ log[e].knows \in SUBSET Cols
          /\ log[e].before \in Snapshot
      BY <1>0 DEF Entry
    <2> QED
      BY <1>0, <2>1, RestFields DEF Call
  <1> HIDE DEF k0
  <1>2. turn \in Turns
    BY DEF IInv, TypeOK
  <1>3. /\ k \in Call
        /\ k.step = "lock" /\ k.kind = "undo" /\ k.who = log[e].actor
        /\ k.todo = log[e].knows
        /\ k.tells = log[e].knows /\ k.entry = e /\ k.action = None
        /\ k.value = log[e].before /\ k.turn = turn
    BY <1>1, <1>2, DeskAssumption DEF Call, Turns
  <1>4. Goes(h, k) /\ UNCHANGED <<row, log, loose>>
    BY DEF Undo, Begins, history, k0
  <1> HIDE DEF k
  <1>5. TaskOf(k) /\ TodoOf(k) /\ EntryOf(k, log) /\ k.step \in Idle
    BY <1>0, <1>2, <1>3 DEF TaskOf, TodoOf, EntryOf, Mending, Effecting, Idle
  <1>6. call'[h] = k
    BY <1>3, <1>4, GoesFacts DEF IInv
  <1> QED
    BY <1>3, <1>4, <1>5, <1>6, FrameLock

(***************************************************************************)
(* Inside the lock: a row is read, and put back group by group.            *)
(***************************************************************************)
\* The step keeps whatever action its handler has in hand, and the action's
\* effects where they are.
KeepsHand(h) ==
    /\ OthersKeep(h)
    /\ call'[h].action = call[h].action /\ call'[h].kind = call[h].kind
    /\ call[h].step = "log" \/ call'[h].step = "log" => call[h].kind # "resolve"
    /\ {call[h].step, call'[h].step} \cap {"resolve", "void"} = {}

Fits(col, v) ==
    /\ col = "hp" => v \in 0..HpMax
    /\ col = "place" => v \in Places \cup {None}
    /\ col = "conds" => v \in SUBSET Ailments

\* What a statement leaves in the row.
LEMMA TouchFacts ==
    ASSUME TypeOK, NEW h, NEW c \in Combatants, NEW col \in Cols, NEW v, NEW k,
           Fits(col, v), Touch(h, c, col, v, k)
    PROVE  /\ row' \in [Combatants -> Snapshot] /\ loose' \subseteq Cells
           /\ row'[c][col] = v
           /\ \A d \in Combatants, x \in Cols : <<c, col>> # <<d, x>> => row'[d][x] = row[d][x]
           /\ loose \subseteq loose' /\ <<c, col>> \in loose'
  <1>1. row[c] \in Snapshot /\ row \in [Combatants -> Snapshot] /\ loose \subseteq Cells
    BY DEF TypeOK
  <1>2. row'[c] = [row[c] EXCEPT ![col] = v] /\ \A d \in Combatants \ {c} : row'[d] = row[d]
    BY <1>1 DEF Touch
  <1>3. [row[c] EXCEPT ![col] = v] \in Snapshot /\ [row[c] EXCEPT ![col] = v][col] = v
    <2>1. CASE col = "hp"
      BY <1>1, <2>1 DEF Fits, Snapshot
    <2>2. CASE col = "place"
      BY <1>1, <2>2 DEF Fits, Snapshot
    <2>3. CASE col = "conds"
      BY <1>1, <2>3 DEF Fits, Snapshot
    <2> QED
      BY <2>1, <2>2, <2>3 DEF Cols
  <1>4. row' \in [Combatants -> Snapshot]
    BY <1>1, <1>2, <1>3 DEF Touch
  <1>5. \A d \in Combatants, x \in Cols : <<c, col>> # <<d, x>> => row'[d][x] = row[d][x]
    BY <1>1 DEF Touch, Snapshot, Cols
  <1> QED
    BY <1>1, <1>2, <1>3, <1>4, <1>5 DEF Touch, Cells

LEMMA TouchRow ==
    ASSUME TypeOK, NEW h, NEW c \in Combatants, NEW col \in Cols, NEW v, NEW k,
           Touch(h, c, col, v, k)
    PROVE  row'[c] = [row[c] EXCEPT ![col] = v]
  BY DEF Touch, TypeOK

LEMMA TouchGoes ==
    ASSUME TypeOK, NEW h \in Handlers, NEW c \in Combatants, NEW col \in Cols, NEW v,
           NEW k \in Call, Touch(h, c, col, v, k)
    PROVE  call'[h] = k
  <1>1. Stir(h, k, {<<c, col>>}) /\ {<<c, col>>} \in SUBSET Cells
    BY DEF Touch, Cells
  <1> QED
    BY <1>1, StirFacts

StepFor(todo) ==
    IF "hp" \in todo THEN "hp"
    ELSE IF "place" \in todo THEN "place" ELSE IF "conds" \in todo THEN "conds" ELSE "log"

LEMMA OnwardFacts ==
    ASSUME NEW k \in Call, NEW done
    PROVE  LET k2 == Onward(k, done) IN
           /\ k2 \in Call
           /\ k2.todo = k.todo \ done /\ k2.step = StepFor(k2.todo)
           /\ k2.kind = k.kind /\ k2.turn = k.turn /\ k2.who = k.who /\ k2.tells = k.tells
           /\ k2.value = k.value /\ k2.before = k.before /\ k2.entry = k.entry
           /\ k2.sure = k.sure /\ k2.spoiled = k.spoiled /\ k2.action = k.action
  <1> DEFINE todo == k.todo \ done
             s == StepFor(todo)
             k2 == [k EXCEPT !.todo = todo, !.step = s]
  <1>1. k2 = Onward(k, done)
    BY DEF Onward, StepFor
  <1>2. s \in {"hp", "place", "conds", "log"}
    BY DEF StepFor
  <1>3. todo \in SUBSET Cols
    BY DEF Call
  <1> HIDE DEF s, todo
  <1>4. /\ k2 \in Call
        /\ k2.todo = todo /\ k2.step = s
        /\ k2.kind = k.kind /\ k2.turn = k.turn /\ k2.who = k.who /\ k2.tells = k.tells
        /\ k2.value = k.value /\ k2.before = k.before /\ k2.entry = k.entry
        /\ k2.sure = k.sure /\ k2.spoiled = k.spoiled /\ k2.action = k.action
    BY ZenonT(40), <1>2, <1>3 DEF Call
  <1> QED
    BY <1>1, <1>4 DEF s, todo

\* Who puts a row back is at the step its list of columns says.
LEMMA MendingShape ==
    ASSUME NEW k \in Call, k.step = StepFor(k.todo), k.kind \in {"override", "tune", "undo"},
           k.turn \in Turns, k.who \in Combatants,
           k.kind = "override" => k.tells = Cols /\ (k.todo = {} \/ \E col \in Cols : k.todo = {col}),
           k.kind = "tune" => k.tells = {} /\ (k.todo = {} \/ k.todo = {"conds"}),
           k.kind = "undo" /\ "hp" \in k.todo => k.tells \subseteq k.todo
    PROVE  /\ TaskOf(k) /\ TodoOf(k) /\ k.step \notin Idle
           /\ Claims(k) = IF k.kind = "undo" \/ k.step = "log" THEN {k.who} \X (k.tells \ k.todo) ELSE {}
           /\ \A l, r, L : CopyOf(k, l, r, L)
  <1>1. k.step \in {"hp", "place", "conds", "log"} /\ k.todo \subseteq Cols
    BY DEF StepFor, Call
  <1>2. k.step = "log" <=> k.todo = {}
    BY <1>1 DEF StepFor, Cols
  <1>3. TaskOf(k)
    BY <1>1 DEF TaskOf, Mending, Effecting
  <1>4. TodoOf(k)
    <2>1. k.step = "hp" => "hp" \in k.todo
      BY DEF StepFor
    <2>2. k.step = "place" => "place" \in k.todo /\ "hp" \notin k.todo
      BY DEF StepFor
    <2>3. k.step = "conds" => k.todo = {"conds"}
      BY <1>1 DEF StepFor, Cols
    <2> QED
      BY <1>1, <1>2, <2>1, <2>2, <2>3 DEF TodoOf
  <1>5. Claims(k) = IF k.kind = "undo" \/ k.step = "log" THEN {k.who} \X (k.tells \ k.todo) ELSE {}
    BY <1>1, <1>2 DEF Claims, Mending
  <1>6. \A l, r, L : CopyOf(k, l, r, L)
    BY <1>1 DEF CopyOf
  <1> QED
    BY <1>1, <1>3, <1>4, <1>5, <1>6 DEF Idle

LEMMA ReadFrame ==
    ASSUME IInv, NEW h \in Handlers, Read(h)
    PROVE  Frame /\ KeepsHand(h)
  <1> DEFINE k0 == call[h]
             b == row[k0.who]
             s == Calm(k0.who)
             k == [k0 EXCEPT !.before = b, !.sure = s, !.spoiled = {}]
  <1>1. k0 \in Call /\ KeptOf(k0, log, row, loose) /\ k0.step = "lock"
    BY DEF IInv, TypeOK, HandlersOK, Read, Granted, At
  <1>2. /\ k0.kind \in {"override", "tune", "undo", "resolve"} /\ k0.who \in Combatants
        /\ k0.turn \in Turns
    <2>1. k0.kind # "cancel" /\ (k0.kind = "undo" => k0.todo # {})
      BY DEF Read
    <2> QED
      BY <1>1, <2>1 DEF KeptOf, TaskOf, TodoOf, Call
  <1>3. b \in Snapshot /\ s \in SUBSET Cols
    BY <1>2 DEF IInv, TypeOK, Calm
  <1>4. \A col \in s : Trusted(log, row, loose, b, k0.who, col)
    BY <1>2, TrustRow
  <1> HIDE DEF b, s
  <1>5. /\ k \in Call
        /\ k.before = b /\ k.sure = s /\ k.spoiled = {}
        /\ k.step = "lock" /\ k.kind = k0.kind /\ k.who = k0.who /\ k.turn = k0.turn
        /\ k.todo = k0.todo /\ k.tells = k0.tells /\ k.value = k0.value /\ k.entry = k0.entry
        /\ k.action = k0.action
    BY <1>1, <1>3 DEF Call
  <1>6. UNCHANGED <<row, log, loose>>
    BY DEF Read, history
  <1> DEFINE known == IF "hp" \in k.todo THEN k.value.hp ELSE k.before.hp
  <1>7. Goes(h, CASE k.kind = "resolve" -> [k EXCEPT !.step = "effects"]
                  [] k.kind = "tune" -> Onward([k EXCEPT !.value = k.before], {})
                  [] k.kind = "undo" ->
                       Onward([k EXCEPT !.todo = @ \cup {"hp"}, !.value.hp = known], {})
                  [] OTHER -> Onward(k, {}))
    BY DEF Read, b, s
  <1> HIDE DEF k, known
  <1>8. ASSUME NEW k2 \in Call, Goes(h, k2), TaskOf(k2), TodoOf(k2), EntryOf(k2, log),
               Claims(k2) = {}, k2.step # "aimed", k2.step # "shifted",
               k2.before = b, k2.sure = s, k2.who = k0.who, k2.kind = k0.kind,
               k2.action = k0.action, k2.step \notin {"log", "resolve", "void"}
        PROVE  Frame /\ KeepsHand(h)
    <2>1. ValueOf(k2, row) /\ CopyOf(k2, log, row, loose)
      BY <1>8 DEF ValueOf, CopyOf
    <2>2. BeforeOf(k2, log, row, loose)
      BY <1>4, <1>8 DEF BeforeOf
    <2>3. Frame /\ OthersKeep(h)
      BY <1>6, <1>8, <2>1, <2>2, FrameQuiet DEF KeptOf
    <2>4. call'[h] = k2
      BY <1>8, GoesFacts DEF IInv
    <2> QED
      BY <1>1, <1>8, <2>3, <2>4 DEF KeepsHand
  <1>9. CASE k.kind = "resolve"
    <2> DEFINE k2 == [k EXCEPT !.step = "effects"]
    <2>1. Goes(h, k2)
      BY <1>7, <1>9
    <2>2. /\ k2 \in Call /\ k2.step = "effects" /\ k2.kind = "resolve" /\ k2.who = k0.who
          /\ k2.turn = k0.turn /\ k2.todo = k0.todo /\ k2.tells = k0.tells /\ k2.entry = k0.entry
          /\ k2.before = b /\ k2.sure = s /\ k2.action = k0.action
      BY <1>5, <1>9 DEF Call
    <2> HIDE DEF k2
    <2>3. TaskOf(k2) /\ TodoOf(k2) /\ EntryOf(k2, log) /\ Claims(k2) = {}
      BY <1>1, <1>2, <1>5, <1>9, <2>2
         DEF KeptOf, TaskOf, TodoOf, EntryOf, Claims, Mending, Effecting
    <2> QED
      BY <1>5, <1>8, <1>9, <2>1, <2>2, <2>3
  <1>10. CASE k.kind = "tune"
    <2> DEFINE k1 == [k EXCEPT !.value = k.before]
               k2 == Onward(k1, {})
    <2>1. Goes(h, k2)
      BY <1>7, <1>10
    <2>2. /\ k1 \in Call /\ k1.kind = "tune" /\ k1.who = k0.who
          /\ k1.turn = k0.turn /\ k1.todo = k0.todo /\ k1.tells = k0.tells /\ k1.entry = k0.entry
          /\ k1.before = b /\ k1.sure = s /\ k1.action = k0.action
      BY <1>3, <1>5, <1>10 DEF Call
    <2> HIDE DEF k1
    <2>3. k0.todo = {"conds"} /\ k0.tells = {} /\ k0.entry = 0
      BY <1>1, <1>5, <1>10 DEF KeptOf, TodoOf, EntryOf
    <2>4. /\ k2 \in Call /\ k2.step = "conds" /\ k2.step = StepFor(k2.todo) /\ k2.kind = "tune"
          /\ k2.who = k0.who /\ k2.turn = k0.turn
          /\ k2.todo = {"conds"} /\ k2.tells = {} /\ k2.entry = 0
          /\ k2.before = b /\ k2.sure = s /\ k2.action = k0.action
      BY <2>2, <2>3, OnwardFacts DEF StepFor
    <2> HIDE DEF k2
    <2>5. TaskOf(k2) /\ TodoOf(k2) /\ Claims(k2) = {}
      BY <1>2, <2>4, MendingShape
    <2> QED
      BY <1>5, <1>8, <1>10, <2>1, <2>4, <2>5 DEF EntryOf
  <1>11. CASE k.kind = "undo"
    <2> DEFINE k1 == [k EXCEPT !.todo = @ \cup {"hp"}, !.value.hp = known]
               k2 == Onward(k1, {})
    <2>1. Goes(h, k2)
      BY <1>7, <1>11
    <2>2. known \in 0..HpMax /\ ("hp" \in k.todo => known = k.value.hp)
      BY <1>5 DEF known, Call, Snapshot
    <2>3. /\ k1 \in Call /\ k1.kind = "undo" /\ k1.who = k0.who
          /\ k1.turn = k0.turn /\ k1.todo = k0.todo \cup {"hp"} /\ k1.tells = k0.tells
          /\ k1.entry = k0.entry
          /\ k1.before = b /\ k1.sure = s /\ k1.action = k0.action
          /\ k1.value = [k0.value EXCEPT !.hp = known]
      BY <1>5, <1>11, <2>2 DEF Call, Cols, Snapshot
    <2> HIDE DEF k1
    <2>4. k0.tells = k0.todo /\ k0.tells \subseteq Cols
      BY <1>1, <1>5, <1>11 DEF KeptOf, TodoOf, Call
    <2>5. /\ k2 \in Call /\ k2.step = "hp" /\ k2.step = StepFor(k2.todo) /\ k2.kind = "undo"
          /\ k2.who = k0.who /\ k2.turn = k0.turn
          /\ k2.todo = k0.todo \cup {"hp"} /\ k2.tells = k0.todo /\ k2.entry = k0.entry
          /\ k2.before = b /\ k2.sure = s /\ k2.action = k0.action /\ k2.value = k1.value
      BY <2>3, <2>4, OnwardFacts DEF StepFor
    <2> HIDE DEF k2
    <2>6. TaskOf(k2) /\ TodoOf(k2) /\ Claims(k2) = {k2.who} \X (k2.tells \ k2.todo)
      BY <1>2, <2>5, MendingShape
    <2>7. \A col \in k0.tells : k2.value[col] = k0.value[col]
      <3>1. k0.value \in Snapshot
        BY <1>1 DEF Call
      <3> QED
        BY <1>5, <2>2, <2>3, <2>4, <2>5, <3>1 DEF Snapshot, Cols
    <2>8. EntryOf(k2, log)
      BY <1>1, <1>5, <1>11, <2>4, <2>5, <2>7 DEF KeptOf, EntryOf
    <2>9. Claims(k2) = {}
      BY <2>5, <2>6
    <2> QED
      BY <1>5, <1>8, <1>11, <2>1, <2>5, <2>6, <2>8, <2>9
  <1>12. CASE k.kind = "override"
    <2> DEFINE k2 == Onward(k, {})
    <2>1. Goes(h, k2)
      BY <1>7, <1>12
    <2>2. k0.tells = Cols /\ (\E col \in Cols : k0.todo = {col}) /\ k0.entry = 0
      BY <1>1, <1>5, <1>12 DEF KeptOf, TodoOf, EntryOf
    <2>3. /\ k2 \in Call /\ k2.step = StepFor(k2.todo) /\ k2.kind = "override"
          /\ k2.who = k0.who /\ k2.turn = k0.turn
          /\ k2.todo = k0.todo /\ k2.tells = Cols /\ k2.entry = 0
          /\ k2.before = b /\ k2.sure = s /\ k2.action = k0.action
      BY <1>5, <1>12, <2>2, OnwardFacts
    <2> HIDE DEF k2
    <2>4. k2.step \in {"hp", "place", "conds"}
      BY <2>2, <2>3 DEF StepFor, Cols
    <2>5. TaskOf(k2) /\ TodoOf(k2) /\ Claims(k2) = {}
      BY <1>2, <2>2, <2>3, <2>4, MendingShape
    <2> QED
      BY <1>5, <1>8, <1>12, <2>1, <2>3, <2>4, <2>5 DEF EntryOf
  <1> QED
    BY <1>2, <1>5, <1>9, <1>10, <1>11, <1>12

\* The step of a handler that puts back column col of its row.
LEMMA RestoredFrame ==
    ASSUME IInv, NEW h \in Handlers, NEW col \in Cols,
           call[h].step \in {"hp", "settle", "place", "conds"},
           col \in call[h].todo, col # "hp" => "hp" \notin call[h].todo,
           Touch(h, call[h].who, col, call[h].value[col], Restored(call[h], col, call[h].value[col])),
           UNCHANGED log
    PROVE  Frame /\ KeepsHand(h)
  <1> DEFINE k == call[h]
             c == k.who
             v == k.value[col]
             r == [row[c] EXCEPT ![col] = v]
             k1 == IF k.kind = "override" THEN [k EXCEPT !.value = r] ELSE k
             k2 == Onward(k1, {col})
  <1>1. k \in Call /\ KeptOf(k, log, row, loose)
    BY DEF IInv, TypeOK, HandlersOK
  <1>2. k.kind \in {"override", "tune", "undo"} /\ c \in Combatants /\ k.turn \in Turns
    BY <1>1 DEF KeptOf, TaskOf, Mending
  <1>3. Fits(col, v)
    BY <1>1 DEF Fits, Call, Snapshot
  <1>4. k2 = Restored(k, col, v)
    BY DEF Restored
  <1> HIDE DEF k2
  <1>a. Touch(h, c, col, v, k2)
    BY <1>4
  <1>b. r = row'[c]
    BY <1>2, <1>a, TouchRow DEF IInv
  <1> HIDE DEF r
  <1>5. /\ row' \in [Combatants -> Snapshot] /\ r = row'[c] /\ row'[c][col] = v
        /\ \A d \in Combatants, x \in Cols : <<c, col>> # <<d, x>> => row'[d][x] = row[d][x]
        /\ loose \subseteq loose' /\ <<c, col>> \in loose'
    <2> HIDE DEF c, v
    <2> QED
      BY <1>2, <1>3, <1>a, <1>b, TouchFacts DEF IInv
  <1>6. r \in Snapshot
    BY <1>2, <1>5
  <1>7. /\ k1 \in Call /\ k1.value = (IF k.kind = "override" THEN r ELSE k.value)
        /\ k1.kind = k.kind /\ k1.turn = k.turn /\ k1.who = c /\ k1.tells = k.tells
        /\ k1.todo = k.todo /\ k1.before = k.before /\ k1.entry = k.entry
        /\ k1.sure = k.sure /\ k1.spoiled = k.spoiled /\ k1.action = k.action
    <2>1. CASE k.kind = "override"
      BY <1>1, <1>6, <2>1 DEF Call
    <2>2. CASE k.kind # "override"
      BY <1>1, <2>2
    <2> QED
      BY <2>1, <2>2
  <1> HIDE DEF k1
  <1>8. /\ k2 \in Call /\ k2.value = k1.value /\ k2.step = StepFor(k2.todo)
        /\ k2.kind = k.kind /\ k2.turn = k.turn /\ k2.who = c /\ k2.tells = k.tells
        /\ k2.todo = k.todo \ {col} /\ k2.before = k.before /\ k2.entry = k.entry
        /\ k2.sure = k.sure /\ k2.spoiled = k.spoiled /\ k2.action = k.action
    BY <1>7, OnwardFacts DEF k2
  <1>10. /\ k.kind = "override" => k.tells = Cols /\ (\E x \in Cols : k.todo = {x})
         /\ k.kind = "tune" => k.tells = {} /\ k.todo = {"conds"}
    BY <1>1 DEF KeptOf, TodoOf
  <1>11. /\ TaskOf(k2) /\ TodoOf(k2) /\ CopyOf(k2, log, row', loose')
         /\ Claims(k2) = IF k2.kind = "undo" \/ k2.step = "log" THEN {c} \X (k2.tells \ k2.todo)
                         ELSE {}
    <2>1. k.kind = "override" => k2.todo = {}
      BY <1>8, <1>10
    <2>2. k.kind = "tune" => k2.todo = {} \/ k2.todo = {"conds"}
      BY <1>8, <1>10
    <2>3. "hp" \notin k2.todo
      BY <1>8
    <2> QED
      BY <1>2, <1>8, <1>10, <2>1, <2>2, <2>3, MendingShape
  <1>12. EntryOf(k2, log)
    BY <1>1, <1>7, <1>8 DEF KeptOf, EntryOf
  <1>13. ValueOf(k2, row')
    <2> SUFFICES ASSUME NEW d \in Combatants, NEW x \in Cols, <<d, x>> \in Claims(k2) \ k2.spoiled
                 PROVE  k2.value[x] = row'[d][x]
      BY DEF ValueOf
    <2>1. d = c /\ x \in k.tells \ k2.todo /\ k.kind # "tune"
      BY <1>8, <1>10, <1>11
    <2>2. CASE k.kind = "override"
      BY <1>5, <1>7, <1>8, <2>1, <2>2
    <2>3. CASE k.kind = "undo" /\ x = col
      BY <1>5, <1>7, <1>8, <2>1, <2>3
    <2>4. CASE k.kind = "undo" /\ x # col
      <3>1. <<d, x>> \in Claims(k) \ k.spoiled
        BY <1>8, <2>1, <2>4 DEF Claims, Mending
      <3>2. k.value[x] = row[d][x]
        BY <1>1, <3>1 DEF KeptOf, ValueOf
      <3> QED
        BY <1>5, <1>7, <1>8, <2>1, <2>4, <3>2
    <2> QED
      BY <1>2, <2>1, <2>2, <2>3, <2>4
  <1>14. BeforeOf(k2, log, row', loose')
    <2>1. Recalls(k, k2) /\ k.step \notin Idle
      BY <1>8 DEF Recalls, Idle
    <2> QED
      BY <1>1, <1>5, <2>1, BeforeSurvives
  <1>15. KeptOf(k2, log, row', loose')
    BY <1>11, <1>12, <1>13, <1>14 DEF KeptOf
  <1>16. Frame /\ OthersKeep(h)
    BY <1>2, <1>8, <1>a, <1>15, FrameTouch
  <1>17. call'[h] = k2
    BY <1>2, <1>8, <1>a, TouchGoes DEF IInv
  <1>18. k2.step \in {"hp", "place", "conds", "log"}
    BY <1>8 DEF StepFor
  <1> QED
    BY <1>2, <1>8, <1>16, <1>17, <1>18 DEF KeepsHand

LEMMA SettleFrame ==
    ASSUME IInv, NEW h \in Handlers, Settle(h)
    PROVE  Frame /\ KeepsHand(h)
  <1>1. call[h].step \in {"hp", "settle"}
    BY DEF Settle, At
  <1>2. "hp" \in call[h].todo
    BY <1>1 DEF IInv, HandlersOK, KeptOf, TaskOf, TodoOf, Mending
  <1>3. /\ Touch(h, call[h].who, "hp", call[h].value["hp"], Restored(call[h], "hp", call[h].value["hp"]))
        /\ UNCHANGED log /\ "hp" \in Cols
    BY DEF Settle, Cols
  <1> QED
    BY <1>1, <1>2, <1>3, RestoredFrame

LEMMA PlaceFrame ==
    ASSUME IInv, NEW h \in Handlers, Place(h)
    PROVE  Frame /\ KeepsHand(h)
  <1>1. call[h].step = "place"
    BY DEF Place, At
  <1>2. "place" \in call[h].todo /\ "hp" \notin call[h].todo
    BY <1>1 DEF IInv, HandlersOK, KeptOf, TaskOf, TodoOf, Mending
  <1>3. /\ Touch(h, call[h].who, "place", call[h].value["place"],
                 Restored(call[h], "place", call[h].value["place"]))
        /\ UNCHANGED log /\ "place" \in Cols
    BY DEF Place, Cols
  <1> QED
    BY <1>1, <1>2, <1>3, RestoredFrame

LEMMA ConditionsFrame ==
    ASSUME IInv, NEW h \in Handlers, Conditions(h)
    PROVE  Frame /\ KeepsHand(h)
  <1>1. call[h].step = "conds"
    BY DEF Conditions, At
  <1>2. call[h].todo = {"conds"}
    BY <1>1 DEF IInv, HandlersOK, KeptOf, TaskOf, TodoOf, Mending
  <1>3. /\ Touch(h, call[h].who, "conds", call[h].value["conds"],
                 Restored(call[h], "conds", call[h].value["conds"]))
        /\ UNCHANGED log /\ "conds" \in Cols
    BY DEF Conditions, Cols
  <1> QED
    BY <1>1, <1>2, <1>3, RestoredFrame

\* A step that goes on with the same call, and leaves one more cell loose.
LEMMA TouchedFrame ==
    ASSUME IInv, NEW h \in Handlers, NEW c \in Combatants, NEW col \in Cols, NEW v, Fits(col, v),
           NEW k \in Call, Touch(h, c, col, v, k), UNCHANGED log,
           call[h].step \notin Idle, Recalls(call[h], k),
           TaskOf(k), TodoOf(k), EntryOf(k, log), Claims(k) = {}, k.step # "aimed", k.step # "shifted",
           k.kind = call[h].kind, k.action = call[h].action,
           {call[h].step, k.step} \cap {"log", "resolve", "void"} = {}
    PROVE  Frame /\ KeepsHand(h)
  <1>1. call[h] \in Call /\ KeptOf(call[h], log, row, loose)
    BY DEF IInv, TypeOK, HandlersOK
  <1>2. /\ \A d \in Combatants, x \in Cols : <<c, col>> # <<d, x>> => row'[d][x] = row[d][x]
        /\ loose \subseteq loose' /\ <<c, col>> \in loose'
    BY TouchFacts DEF IInv
  <1>3. BeforeOf(k, log, row', loose')
    BY <1>1, <1>2, BeforeSurvives
  <1>4. ValueOf(k, row') /\ CopyOf(k, log, row', loose')
    BY DEF ValueOf, CopyOf
  <1>5. Frame /\ OthersKeep(h)
    BY <1>3, <1>4, FrameTouch DEF KeptOf
  <1>6. call'[h] = k
    BY TouchGoes DEF IInv
  <1> QED
    BY <1>5, <1>6 DEF KeepsHand

LEMMA DamageFrame ==
    ASSUME IInv, NEW h \in Handlers, Damage(h)
    PROVE  Frame /\ KeepsHand(h)
  <1> DEFINE k == call[h]
             s == IF k.who \notin Npcs /\ k.value.hp = 0 THEN "faint" ELSE "settle"
             k2 == [k EXCEPT !.step = s, !.at = k.who]
  <1>1. k \in Call /\ KeptOf(k, log, row, loose) /\ k.step = "hp"
    BY DEF IInv, TypeOK, HandlersOK, Damage, At
  <1>2. k.kind \in {"override", "tune", "undo"} /\ k.who \in Combatants /\ k.turn \in Turns
    BY <1>1 DEF KeptOf, TaskOf, Mending
  <1>3. Fits("hp", k.value.hp) /\ "hp" \in Cols
    BY <1>1 DEF Fits, Call, Snapshot, Cols
  <1>4. Touch(h, k.who, "hp", k.value.hp, k2) /\ UNCHANGED log
    BY DEF Damage
  <1>5. s \in {"faint", "settle"}
    OBVIOUS
  <1> HIDE DEF s
  <1>6. /\ k2 \in Call /\ k2.step = s /\ k2.at = k.who /\ k2.kind = k.kind /\ k2.who = k.who
        /\ k2.turn = k.turn /\ k2.todo = k.todo /\ k2.tells = k.tells /\ k2.value = k.value
        /\ k2.before = k.before /\ k2.entry = k.entry /\ k2.sure = k.sure
        /\ k2.spoiled = k.spoiled /\ k2.action = k.action
    BY <1>1, <1>2, <1>5 DEF Call
  <1> HIDE DEF k2
  <1>7. TaskOf(k2) /\ TodoOf(k2) /\ EntryOf(k2, log)
    BY <1>1, <1>2, <1>5, <1>6 DEF KeptOf, TaskOf, TodoOf, EntryOf, Mending, Effecting
  <1>8. Claims(k2) = {}
    BY <1>2, <1>5, <1>6, <1>7 DEF Claims, TodoOf, Mending
  <1>9. Recalls(k, k2)
    BY <1>6 DEF Recalls
  <1> QED
    BY <1>1, <1>2, <1>3, <1>4, <1>5, <1>6, <1>7, <1>8, <1>9, TouchedFrame DEF Idle

LEMMA FaintFrame ==
    ASSUME IInv, NEW h \in Handlers, Faint(h)
    PROVE  Frame /\ KeepsHand(h)
  <1> DEFINE k == call[h]
             v == row[k.at].conds \cup {Out}
             s == IF k.kind \in {"resolve", "enemy"} THEN "down" ELSE "settle"
             k2 == [k EXCEPT !.step = s]
  <1>1. k \in Call /\ KeptOf(k, log, row, loose) /\ k.step = "faint"
    BY DEF IInv, TypeOK, HandlersOK, Faint, At
  <1>2. /\ k.kind \in {"override", "tune", "undo", "resolve", "enemy"} /\ k.at \in Combatants
        /\ k.turn \in Turns
    BY <1>1 DEF KeptOf, TaskOf, Mending
  <1>3. Fits("conds", v) /\ "conds" \in Cols
    <2>1. row[k.at] \in Snapshot
      BY <1>2 DEF IInv, TypeOK
    <2> QED
      BY <2>1, DeskAssumption DEF Fits, Snapshot, Cols
  <1>4. Touch(h, k.at, "conds", v, k2) /\ UNCHANGED log
    BY DEF Faint
  <1>6. /\ k2 \in Call /\ k2.step = s /\ k2.at = k.at /\ k2.kind = k.kind /\ k2.who = k.who
        /\ k2.turn = k.turn /\ k2.todo = k.todo /\ k2.tells = k.tells /\ k2.value = k.value
        /\ k2.before = k.before /\ k2.entry = k.entry /\ k2.sure = k.sure
        /\ k2.spoiled = k.spoiled /\ k2.action = k.action
    BY <1>1 DEF Call
  <1> HIDE DEF k2, v
  <1>7. TaskOf(k2) /\ TodoOf(k2) /\ EntryOf(k2, log)
    BY <1>1, <1>2, <1>6 DEF KeptOf, TaskOf, TodoOf, EntryOf, Mending, Effecting
  <1>8. Claims(k2) = {}
    BY <1>2, <1>6, <1>7 DEF Claims, TodoOf, Mending
  <1>9. Recalls(k, k2)
    BY <1>6 DEF Recalls
  <1> QED
    BY <1>1, <1>2, <1>3, <1>4, <1>6, <1>7, <1>8, <1>9, TouchedFrame DEF Idle

(***************************************************************************)
(* Effects and enemy turns.                                                *)
(***************************************************************************)
LEMMA EnemyFrame ==
    ASSUME IInv, NEW h \in Handlers, NEW c \in Combatants, EnemyTurn(h, c)
    PROVE  /\ Frame /\ OthersKeep(h)
           /\ call'[h].action = None /\ call'[h].kind = "enemy" /\ call'[h].step = "march"
  <1> DEFINE b == row[c]
             s == Calm(c)
             k0 == [Rest EXCEPT !.step = "march", !.kind = "enemy", !.who = c, !.knows = Cols,
                                !.tells = Cols, !.left = MaxEffects, !.before = b, !.sure = s]
             k == [k0 EXCEPT !.turn = turn]
  <1>1. b \in Snapshot /\ s \in SUBSET Cols /\ turn \in Turns
    BY DEF IInv, TypeOK, Calm
  <1>2. \A col \in s : Trusted(log, row, loose, b, c, col)
    BY TrustRow
  <1>3. Goes(h, k) /\ UNCHANGED <<row, log, loose>>
    BY DEF EnemyTurn, Begins, history
  <1> HIDE DEF b, s
  <1>4. /\ k0 \in Call
        /\ k0.step = "march" /\ k0.kind = "enemy" /\ k0.who = c /\ k0.todo = {}
        /\ k0.tells = Cols /\ k0.entry = 0 /\ k0.action = None /\ k0.before = b /\ k0.sure = s
    <2>1. MaxEffects \in 0..MaxEffects
      BY DeskAssumption
    <2> QED
      BY <1>1, <2>1, RestFields DEF Call
  <1> HIDE DEF k0
  <1>5. /\ k \in Call
        /\ k.step = "march" /\ k.kind = "enemy" /\ k.who = c /\ k.todo = {} /\ k.turn = turn
        /\ k.tells = Cols /\ k.entry = 0 /\ k.action = None /\ k.before = b /\ k.sure = s
    BY <1>1, <1>4, DeskAssumption DEF Call, Turns
  <1> HIDE DEF k
  <1>6. TaskOf(k) /\ TodoOf(k) /\ EntryOf(k, log) /\ Claims(k) = {}
    BY <1>1, <1>5 DEF TaskOf, TodoOf, EntryOf, Claims, Mending, Effecting
  <1>7. ValueOf(k, row) /\ CopyOf(k, log, row, loose)
    BY <1>5, <1>6 DEF ValueOf, CopyOf
  <1>8. BeforeOf(k, log, row, loose)
    BY <1>2, <1>5 DEF BeforeOf
  <1>9. call'[h] = k
    BY <1>3, <1>5, GoesFacts DEF IInv
  <1> QED
    BY <1>3, <1>5, <1>6, <1>7, <1>8, <1>9, FrameQuiet DEF KeptOf

\* Who is at an effect or a strike.
LEMMA AtWork ==
    ASSUME IInv, NEW h \in Handlers, call[h].step \in Effecting
    PROVE  /\ call[h] \in Call /\ KeptOf(call[h], log, row, loose)
           /\ call[h].kind \in {"resolve", "enemy"} /\ call[h].who \in Combatants
           /\ call[h].turn \in Turns /\ call[h].step \notin Idle
           /\ call[h].step = "march" => call[h].kind = "enemy"
           /\ call[h].step \in {"aimed", "down", "shifted"} => call[h].at \in Combatants
           /\ call[h].todo = {} /\ call[h].entry = 0
           /\ call[h].kind = "enemy" => call[h].tells = Cols
           /\ call[h].kind = "resolve" => call[h].tells = {"conds"}
  <1>1. call[h] \in Call /\ KeptOf(call[h], log, row, loose)
    BY DEF IInv, TypeOK, HandlersOK
  <1> QED
    BY <1>1 DEF KeptOf, TaskOf, TodoOf, EntryOf, Effecting, Idle

LEMMA MarchFrame ==
    ASSUME IInv, NEW h \in Handlers, NEW p \in Places, March(h, p)
    PROVE  Frame /\ KeepsHand(h)
  <1> DEFINE k == call[h]
             n == k.left - 1
             k2 == [k EXCEPT !.left = n]
  <1>1. k.step = "march" /\ k.left > 0 /\ UNCHANGED log
    BY DEF March, At
  <1>2. Touch(h, k.who, "place", p, k2)
    BY DEF March
  <1>3. /\ k \in Call /\ k.who \in Combatants /\ k.kind = "enemy" /\ k.step \notin Idle
        /\ KeptOf(k, log, row, loose)
    BY <1>1, AtWork DEF Effecting
  <1>4. n \in 0..MaxEffects
    BY <1>1, <1>3, DeskAssumption DEF Call
  <1> HIDE DEF n
  <1>5. /\ k2 \in Call /\ k2.step = "march" /\ k2.kind = k.kind /\ k2.who = k.who /\ k2.at = k.at
        /\ k2.turn = k.turn /\ k2.todo = k.todo /\ k2.tells = k.tells /\ k2.value = k.value
        /\ k2.before = k.before /\ k2.entry = k.entry /\ k2.sure = k.sure
        /\ k2.spoiled = k.spoiled /\ k2.action = k.action
    BY <1>1, <1>3, <1>4 DEF Call
  <1> HIDE DEF k2
  <1>6. TaskOf(k2) /\ TodoOf(k2) /\ EntryOf(k2, log) /\ Claims(k2) = {}
    BY <1>1, <1>3, <1>5 DEF KeptOf, TaskOf, TodoOf, EntryOf, Claims, Mending, Effecting
  <1>7. Recalls(k, k2) /\ Fits("place", p) /\ "place" \in Cols
    BY <1>5 DEF Recalls, Fits, Cols
  <1> QED
    BY <1>1, <1>2, <1>3, <1>5, <1>6, <1>7, TouchedFrame

LEMMA AimFrame ==
    ASSUME IInv, NEW h \in Handlers, NEW t \in Combatants, Aim(h, t)
    PROVE  Frame /\ KeepsHand(h)
  <1> DEFINE k == call[h]
             b == row[t]
             s == Calm(t)
             n == k.left - 1
             k2 == [k EXCEPT !.step = "aimed", !.at = t, !.copy = b, !.left = n, !.calm = s]
  <1>1. k.step \in {"effects", "march"} /\ k.left > 0
    BY DEF Aim, At
  <1>2. Goes(h, k2) /\ UNCHANGED <<row, log, loose>>
    BY DEF Aim, history
  <1>3. /\ k \in Call /\ KeptOf(k, log, row, loose)
        /\ k.kind \in {"resolve", "enemy"} /\ k.who \in Combatants
        /\ k.turn \in Turns /\ k.step \notin Idle
    BY <1>1, AtWork DEF Effecting
  <1>4. b \in Snapshot /\ s \in SUBSET Cols
    BY DEF IInv, TypeOK, Calm
  <1>5. \A col \in s : Trusted(log, row, loose, b, t, col)
    BY TrustRow
  <1>6. n \in 0..MaxEffects
    BY <1>1, <1>3, DeskAssumption DEF Call
  <1> HIDE DEF b, s, n
  <1>7. /\ k2 \in Call /\ k2.step = "aimed" /\ k2.kind = k.kind /\ k2.who = k.who /\ k2.at = t
        /\ k2.turn = k.turn /\ k2.todo = k.todo /\ k2.tells = k.tells
        /\ k2.copy = b /\ k2.calm = s
        /\ k2.before = k.before /\ k2.entry = k.entry /\ k2.sure = k.sure
        /\ k2.spoiled = k.spoiled /\ k2.action = k.action
    BY <1>3, <1>4, <1>6 DEF Call
  <1> HIDE DEF k2
  <1>8. TaskOf(k2) /\ TodoOf(k2) /\ EntryOf(k2, log) /\ Claims(k2) = {}
    BY <1>1, <1>3, <1>7 DEF KeptOf, TaskOf, TodoOf, EntryOf, Claims, Mending, Effecting
  <1>9. ValueOf(k2, row) /\ CopyOf(k2, log, row, loose)
    BY <1>5, <1>7, <1>8 DEF ValueOf, CopyOf
  <1>10. BeforeOf(k2, log, row, loose)
    <2>1. Recalls(k, k2)
      BY <1>7 DEF Recalls
    <2> QED
      BY <1>3, <2>1, BeforeGoesOn
  <1>11. call'[h] = k2
    BY <1>2, <1>7, GoesFacts DEF IInv
  <1>12. Frame /\ OthersKeep(h)
    BY <1>2, <1>7, <1>8, <1>9, <1>10, FrameQuiet DEF KeptOf
  <1> QED
    BY <1>1, <1>7, <1>11, <1>12 DEF KeepsHand

\* An effect on a cell of whoever it was aimed at ends.
LEMMA EffectFrame ==
    ASSUME IInv, NEW h \in Handlers, call[h].step \in {"aimed", "down"},
           NEW col \in Cols, NEW v, Fits(col, v),
           Touch(h, call[h].at, col, v, Again(call[h])), UNCHANGED log
    PROVE  Frame /\ KeepsHand(h)
  <1> DEFINE k == call[h]
             k2 == Again(k)
  <1>1. /\ k \in Call /\ KeptOf(k, log, row, loose) /\ k.at \in Combatants
        /\ k.kind \in {"resolve", "enemy"} /\ k.step \notin Idle
    BY AtWork DEF Effecting
  <1>2. /\ k2 \in Call /\ k2.step = "effects" /\ k2.kind = k.kind /\ k2.action = k.action
        /\ Recalls(k, k2) /\ Claims(k2) = {}
    BY <1>1, AgainFacts
  <1>3. TaskOf(k2) /\ TodoOf(k2) /\ EntryOf(k2, log)
    BY <1>1, KeptAgain DEF KeptOf
  <1>4. Touch(h, k.at, col, v, k2)
    OBVIOUS
  <1> HIDE DEF k2
  <1> QED
    BY <1>1, <1>2, <1>3, <1>4, TouchedFrame

LEMMA HurtFrame ==
    ASSUME IInv, NEW h \in Handlers, NEW n \in 0..HpMax, Hurt(h, n)
    PROVE  Frame /\ KeepsHand(h)
  <1> DEFINE k == call[h]
  <1>1. k.step = "aimed" /\ UNCHANGED log
    BY DEF Hurt, At
  <1>2. PICK next \in {"effects", "down", "faint"} :
          Touch(h, k.at, "hp", n, IF next = "effects" THEN Again(k) ELSE [k EXCEPT !.step = next])
    BY DEF Hurt
  <1>3. Fits("hp", n) /\ "hp" \in Cols
    BY DEF Fits, Cols
  <1>4. CASE next = "effects"
    BY <1>1, <1>2, <1>3, <1>4, EffectFrame
  <1>5. CASE next # "effects"
    <2> DEFINE k2 == [k EXCEPT !.step = next]
    <2>1. Touch(h, k.at, "hp", n, k2)
      BY <1>2, <1>5
    <2>2. /\ k \in Call /\ KeptOf(k, log, row, loose) /\ k.at \in Combatants
          /\ k.kind \in {"resolve", "enemy"} /\ k.step \notin Idle
      BY <1>1, AtWork DEF Effecting
    <2>3. /\ k2 \in Call /\ k2.step = next /\ k2.kind = k.kind /\ k2.who = k.who /\ k2.at = k.at
          /\ k2.turn = k.turn /\ k2.todo = k.todo /\ k2.tells = k.tells /\ k2.value = k.value
          /\ k2.before = k.before /\ k2.entry = k.entry /\ k2.sure = k.sure
          /\ k2.spoiled = k.spoiled /\ k2.action = k.action
      BY <2>2 DEF Call
    <2> HIDE DEF k2
    <2>4. TaskOf(k2) /\ TodoOf(k2) /\ EntryOf(k2, log) /\ Claims(k2) = {}
      BY <1>1, <1>5, <2>2, <2>3 DEF KeptOf, TaskOf, TodoOf, EntryOf, Claims, Mending, Effecting
    <2>5. Recalls(k, k2)
      BY <2>3 DEF Recalls
    <2> QED
      BY <1>1, <1>3, <1>5, <2>1, <2>2, <2>3, <2>4, <2>5, TouchedFrame
  <1> QED
    BY <1>4, <1>5

LEMMA AfflictFrame ==
    ASSUME IInv, NEW h \in Handlers, NEW a \in Ailments, Afflict(h, a)
    PROVE  Frame /\ KeepsHand(h)
  <1> DEFINE k == call[h]
  <1>1. k.step = "aimed" /\ UNCHANGED log
    BY DEF Afflict, At
  <1>2. PICK v \in {k.copy.conds \cup {a}, k.copy.conds \ {a}} : Touch(h, k.at, "conds", v, Again(k))
    BY DEF Afflict
  <1>3. k \in Call
    BY DEF IInv, TypeOK
  <1>4. Fits("conds", v) /\ "conds" \in Cols
    BY <1>2, <1>3 DEF Fits, Cols, Call, Snapshot
  <1> QED
    BY <1>1, <1>2, <1>4, EffectFrame

LEMMA DownFrame ==
    ASSUME IInv, NEW h \in Handlers, Down(h)
    PROVE  Frame /\ KeepsHand(h)
  <1> DEFINE k == call[h]
             k2 == Again(k)
  <1>1. k.step = "down" /\ Goes(h, k2) /\ UNCHANGED <<row, loose>>
    BY DEF Down, At, history
  <1>2. log' = Append(log, Note(turn)) \/ UNCHANGED log
    BY DEF Down
  <1>3. /\ k \in Call /\ KeptOf(k, log, row, loose)
        /\ k.kind \in {"resolve", "enemy"} /\ k.step \notin Idle
    BY <1>1, AtWork DEF Effecting
  <1>4. k2 \in Call /\ KeptOf(k2, log, row, loose)
    BY <1>3, KeptAgain DEF KeptOf
  <1>5. k2.step = "effects" /\ k2.kind = k.kind /\ k2.action = k.action
    BY <1>3, AgainFacts
  <1> HIDE DEF k2
  <1>6. call'[h] = k2 /\ OthersKeep(h)
    BY <1>1, <1>4, GoesFacts DEF IInv
  <1>7. Frame
    BY <1>1, <1>2, <1>4, FrameNote, FrameQuiet
  <1> QED
    BY <1>1, <1>5, <1>6, <1>7 DEF KeepsHand

LEMMA ShiftUnloggedFrame ==
    ASSUME IInv, NEW h \in Handlers, ShiftUnlogged(h)
    PROVE  Frame /\ KeepsHand(h)
  <1> DEFINE k == call[h]
             k2 == Again(k)
  <1>1. k.step = "shifted" /\ Goes(h, k2) /\ UNCHANGED <<row, log, loose>>
    BY DEF ShiftUnlogged, At, history
  <1>2. /\ k \in Call /\ KeptOf(k, log, row, loose)
        /\ k.kind \in {"resolve", "enemy"} /\ k.step \notin Idle
    BY <1>1, AtWork DEF Effecting
  <1>3. k2 \in Call /\ KeptOf(k2, log, row, loose)
    BY <1>2, KeptAgain DEF KeptOf
  <1>4. k2.step = "effects" /\ k2.kind = k.kind /\ k2.action = k.action
    BY <1>2, AgainFacts
  <1> HIDE DEF k2
  <1>5. call'[h] = k2
    BY <1>1, <1>3, GoesFacts DEF IInv
  <1>6. Frame /\ OthersKeep(h)
    BY <1>1, <1>3, FrameQuiet
  <1> QED
    BY <1>1, <1>4, <1>5, <1>6 DEF KeepsHand

LEMMA ShiftFrame ==
    ASSUME IInv, NEW h \in Handlers, NEW p \in Places, Shift(h, p)
    PROVE  Frame /\ KeepsHand(h)
  <1> DEFINE k == call[h]
             v == [row[k.at] EXCEPT !.place = p]
             k2 == [k EXCEPT !.step = "shifted", !.value = v]
  <1>1. k.step = "aimed" /\ k.kind = "resolve" /\ UNCHANGED log
    BY DEF Shift, At
  <1>2. Touch(h, k.at, "place", p, k2)
    BY DEF Shift
  <1>3. /\ k \in Call /\ KeptOf(k, log, row, loose) /\ k.at \in Combatants
        /\ k.turn \in Turns /\ k.who \in Combatants /\ k.step \notin Idle
    BY <1>1, AtWork DEF Effecting
  <1>4. Fits("place", p) /\ "place" \in Cols
    BY DEF Fits, Cols
  <1>5. v = row'[k.at]
    <2>1. row'[k.at] = [row[k.at] EXCEPT !["place"] = p]
      BY <1>2, <1>3, <1>4, TouchRow DEF IInv
    <2> QED
      BY <2>1
  <1> HIDE DEF v
  <1>6. /\ row' \in [Combatants -> Snapshot]
        /\ \A d \in Combatants, x \in Cols : <<k.at, "place">> # <<d, x>> => row'[d][x] = row[d][x]
        /\ loose \subseteq loose' /\ <<k.at, "place">> \in loose'
    <2> HIDE DEF k2
    <2> QED
      BY <1>2, <1>3, <1>4, TouchFacts DEF IInv
  <1>7. /\ k2 \in Call /\ k2.step = "shifted" /\ k2.value = v /\ k2.kind = k.kind
        /\ k2.who = k.who /\ k2.at = k.at /\ k2.copy = k.copy /\ k2.calm = k.calm
        /\ k2.turn = k.turn /\ k2.todo = k.todo /\ k2.tells = k.tells
        /\ k2.before = k.before /\ k2.entry = k.entry /\ k2.sure = k.sure
        /\ k2.spoiled = k.spoiled /\ k2.action = k.action
    BY <1>3, <1>5, <1>6 DEF Call
  <1> HIDE DEF k2
  <1>8. TaskOf(k2) /\ TodoOf(k2) /\ EntryOf(k2, log) /\ Claims(k2) = {k.at} \X Cols
    BY <1>1, <1>3, <1>7 DEF KeptOf, TaskOf, TodoOf, EntryOf, Claims, Mending, Effecting
  <1>9. ValueOf(k2, row')
    BY <1>5, <1>7, <1>8 DEF ValueOf
  <1>10. BeforeOf(k2, log, row', loose')
    <2>1. Recalls(k, k2)
      BY <1>7 DEF Recalls
    <2> QED
      BY <1>3, <1>6, <2>1, BeforeSurvives
  <1>11. CopyOf(k2, log, row', loose')
    <2> SUFFICES ASSUME NEW col \in k.calm, <<k.at, col>> \notin k.spoiled
                 PROVE  Trusted(log, row', loose', k.copy, k.at, col)
      BY <1>7 DEF CopyOf
    <2>1. Trusted(log, row, loose, k.copy, k.at, col) /\ col \in Cols
      BY <1>1, <1>3 DEF KeptOf, CopyOf, Call
    <2> QED
      BY <1>3, <1>6, <2>1, TrustedTouch
  <1>12. Frame /\ OthersKeep(h)
    BY <1>1, <1>2, <1>3, <1>4, <1>7, <1>8, <1>9, <1>10, <1>11, FrameTouch DEF KeptOf
  <1>13. call'[h] = k2
    BY <1>2, <1>3, <1>4, <1>7, TouchGoes DEF IInv
  <1> QED
    BY <1>1, <1>7, <1>12, <1>13 DEF KeepsHand

LEMMA ReviewFrame ==
    ASSUME IInv, NEW h \in Handlers, Review(h)
    PROVE  /\ Frame /\ OthersKeep(h)
           /\ call'[h].action = call[h].action /\ call'[h].kind = call[h].kind
           /\ call'[h].step = IF call[h].kind = "resolve" THEN "resolve" ELSE "log"
  <1> DEFINE k == call[h]
             s == IF k.kind = "resolve" THEN "resolve" ELSE "log"
  <1>1. k.step \in {"effects", "march"} /\ UNCHANGED <<row, log, loose>>
    BY DEF Review, At
  <1>2. /\ k \in Call /\ KeptOf(k, log, row, loose) /\ k.kind \in {"resolve", "enemy"}
        /\ k.turn \in Turns /\ k.who \in Combatants /\ k.step \notin Idle
    BY <1>1, AtWork DEF Effecting
  <1>3. s \in {"resolve", "log"} /\ (s = "resolve" <=> k.kind = "resolve")
    OBVIOUS
  <1>4. ASSUME NEW v \in Snapshot, NEW sp \in SUBSET Cells, NEW k2,
               k2 = [k EXCEPT !.value = v, !.step = s, !.spoiled = sp], Goes(h, k2),
               k.spoiled \subseteq sp,
               \A col \in Cols : <<k.who, col>> \notin sp => v[col] = row[k.who][col]
        PROVE  /\ Frame /\ OthersKeep(h)
               /\ call'[h].action = k.action /\ call'[h].kind = k.kind /\ call'[h].step = s
    <2> HIDE DEF s
    <2>1. /\ k2 \in Call /\ k2.step = s /\ k2.value = v /\ k2.kind = k.kind
          /\ k2.who = k.who /\ k2.at = k.at
          /\ k2.turn = k.turn /\ k2.todo = k.todo /\ k2.tells = k.tells
          /\ k2.before = k.before /\ k2.entry = k.entry /\ k2.sure = k.sure
          /\ k2.spoiled = sp /\ k2.action = k.action
      BY <1>2, <1>3, <1>4 DEF Call
    <2>2. TaskOf(k2) /\ TodoOf(k2) /\ EntryOf(k2, log)
      BY <1>1, <1>2, <1>3, <2>1 DEF KeptOf, TaskOf, TodoOf, EntryOf, Mending, Effecting
    <2>3. Claims(k2) = {k.who} \X k.tells /\ CopyOf(k2, log, row, loose)
      BY <1>3, <2>1 DEF Claims, CopyOf
    <2>4. ValueOf(k2, row)
      BY <1>4, <2>1, <2>3 DEF ValueOf
    <2>5. BeforeOf(k2, log, row, loose)
      <3>1. Recalls(k, k2)
        BY <1>4, <2>1 DEF Recalls
      <3> QED
        BY <1>2, <3>1, BeforeGoesOn
    <2>6. Frame /\ OthersKeep(h)
      BY <1>1, <1>4, <2>1, <2>2, <2>3, <2>4, <2>5, FrameQuiet DEF KeptOf
    <2>7. call'[h] = k2
      BY <1>4, <2>1, GoesFacts DEF IInv
    <2> QED
      BY <2>1, <2>6, <2>7
  <1>5. CASE Goes(h, [k EXCEPT !.value = row[k.who], !.step = s])
    <2> DEFINE k2 == [k EXCEPT !.value = row[k.who], !.step = s]
    <2>1. row[k.who] \in Snapshot /\ k.spoiled \in SUBSET Cells
      BY <1>2 DEF IInv, TypeOK, Call
    <2>2. k2 = [k EXCEPT !.value = row[k.who], !.step = s, !.spoiled = k.spoiled]
      BY <1>2 DEF Call
    <2> HIDE DEF k2
    <2>3. Goes(h, k2)
      BY <1>5 DEF k2
    <2> HIDE DEF s
    <2> QED
      BY <1>4, <2>1, <2>2, <2>3 DEF s
  <1>6. CASE k.kind = "enemy" /\ Goes(h, [k EXCEPT !.value = k.before, !.step = "log",
                                                   !.spoiled = @ \cup ({k.who} \X Cols)])
    <2> DEFINE sp == k.spoiled \cup ({k.who} \X Cols)
               k2 == [k EXCEPT !.value = k.before, !.step = s, !.spoiled = sp]
    <2>1. k.before \in Snapshot /\ sp \in SUBSET Cells
      BY <1>2 DEF Call, Cells
    <2>2. Goes(h, k2)
      BY <1>6
    <2>3. k.spoiled \subseteq sp /\ \A col \in Cols : <<k.who, col>> \in sp
      OBVIOUS
    <2> HIDE DEF k2, sp
    <2>4. k2 = [k EXCEPT !.value = k.before, !.step = s, !.spoiled = sp]
      BY DEF k2
    <2> HIDE DEF s
    <2> QED
      BY <1>4, <2>1, <2>2, <2>3, <2>4 DEF s
  <1>7. \/ Goes(h, [k EXCEPT !.value = row[k.who], !.step = s])
        \/ k.kind = "enemy" /\ Goes(h, [k EXCEPT !.value = k.before, !.step = "log",
                                                 !.spoiled = @ \cup ({k.who} \X Cols)])
    BY DEF Review
  <1> QED
    BY <1>5, <1>6, <1>7

LEMMA MarkFrame ==
    ASSUME IInv, NEW h \in Handlers, MarkResolved(h)
    PROVE  /\ Frame /\ OthersKeep(h)
           /\ call'[h].action = None /\ call'[h].kind = "resolve" /\ call'[h].step = "log"
           /\ call[h].kind = "resolve" /\ call[h].step = "resolve"
  <1> DEFINE k == call[h]
             k2 == [k EXCEPT !.step = "log", !.action = None]
  <1>1. k.step = "resolve" /\ Goes(h, k2) /\ UNCHANGED <<row, log, loose>>
    BY DEF MarkResolved, At, history
  <1>2. /\ k \in Call /\ KeptOf(k, log, row, loose)
        /\ k.turn \in Turns /\ k.who \in Combatants /\ k.step \notin Idle /\ k.kind = "resolve"
    <2>1. KeptOf(k, log, row, loose)
      BY DEF IInv, HandlersOK
    <2> QED
      BY <1>1, <2>1, AtWork DEF KeptOf, TaskOf, Effecting
  <1>3. /\ k2 \in Call /\ k2.step = "log" /\ k2.value = k.value /\ k2.kind = k.kind
        /\ k2.who = k.who /\ k2.at = k.at
        /\ k2.turn = k.turn /\ k2.todo = k.todo /\ k2.tells = k.tells
        /\ k2.before = k.before /\ k2.entry = k.entry /\ k2.sure = k.sure
        /\ k2.spoiled = k.spoiled /\ k2.action = None
    BY <1>2 DEF Call
  <1> HIDE DEF k2
  <1>4. TaskOf(k2) /\ TodoOf(k2) /\ EntryOf(k2, log)
    BY <1>1, <1>2, <1>3 DEF KeptOf, TaskOf, TodoOf, EntryOf, Mending, Effecting
  <1>5. Claims(k2) = Claims(k) /\ CopyOf(k2, log, row, loose)
    BY <1>1, <1>3 DEF Claims, CopyOf
  <1>6. ValueOf(k2, row)
    BY <1>2, <1>3, <1>5 DEF KeptOf, ValueOf
  <1>7. BeforeOf(k2, log, row, loose)
    <2>1. Recalls(k, k2)
      BY <1>3 DEF Recalls
    <2> QED
      BY <1>2, <2>1, BeforeGoesOn
  <1>8. call'[h] = k2
    BY <1>1, <1>3, GoesFacts DEF IInv
  <1> QED
    BY <1>1, <1>2, <1>3, <1>4, <1>5, <1>6, <1>7, <1>8, FrameQuiet DEF KeptOf

\* A handler that stops, or goes for an action to cancel.
LEMMA RestFrame ==
    ASSUME IInv, NEW h \in Handlers, Goes(h, Rest), UNCHANGED <<row, log, loose>>
    PROVE  Frame /\ OthersKeep(h) /\ call'[h] = Rest
  BY KeptRest, FrameQuiet, GoesFacts DEF IInv

LEMMA FindFrame ==
    ASSUME IInv, NEW h \in Handlers, NEW a \in Actions,
           At(h, "lock"), call[h].kind = "cancel",
           Goes(h, [call[h] EXCEPT !.step = "void", !.action = a]), UNCHANGED <<row, log, loose>>
    PROVE  /\ Frame /\ OthersKeep(h)
           /\ call'[h].action = a /\ call'[h].kind = "cancel" /\ call'[h].step = "void"
  <1> DEFINE k == call[h]
             k2 == [k EXCEPT !.step = "void", !.action = a]
  <1>1. k \in Call /\ KeptOf(k, log, row, loose) /\ k.step = "lock" /\ k.kind = "cancel"
    BY DEF IInv, TypeOK, HandlersOK, At
  <1>2. k.turn \in Turns /\ k.who \in Combatants
    BY <1>1 DEF KeptOf, TaskOf
  <1>3. /\ k2 \in Call /\ k2.step = "void" /\ k2.kind = "cancel" /\ k2.action = a
        /\ k2.who = k.who /\ k2.turn = k.turn /\ k2.todo = k.todo /\ k2.tells = k.tells
        /\ k2.entry = k.entry /\ k2.sure = k.sure
    BY <1>1 DEF Call
  <1>4. Goes(h, k2)
    OBVIOUS
  <1> HIDE DEF k2
  <1>5. TaskOf(k2) /\ TodoOf(k2) /\ EntryOf(k2, log) /\ Claims(k2) = {}
    BY <1>1, <1>2, <1>3 DEF KeptOf, TaskOf, TodoOf, EntryOf, Claims, Mending, Effecting
  <1>6. k2.sure = {}
    BY <1>1, <1>3 DEF KeptOf, TodoOf
  <1>7. ValueOf(k2, row) /\ BeforeOf(k2, log, row, loose) /\ CopyOf(k2, log, row, loose)
    BY <1>3, <1>5, <1>6 DEF ValueOf, BeforeOf, CopyOf
  <1>8. call'[h] = k2
    BY <1>3, <1>4, GoesFacts DEF IInv
  <1> QED
    BY <1>3, <1>4, <1>5, <1>7, <1>8, FrameQuiet DEF KeptOf

(***************************************************************************)
(* Rows of the log.                                                        *)
(***************************************************************************)
\* What a handler writes before its cells are released.
LEMMA WrittenFacts ==
    ASSUME IInv, NEW h \in Handlers, At(h, "log")
    PROVE  LET k == call[h]  e == Written(h, k.who, k.before, k.entry) IN
           /\ e \in Entry /\ Spoken(e) = {k.who} \X k.tells
           /\ Honest(e, row, k.spoiled) /\ Sound(log, e)
           /\ k \in Call
  <1> DEFINE k == call[h]
             s == (k.sure \ Of(k.spoiled, k.who)) \cap k.knows
             e == Written(h, k.who, k.before, k.entry)
  <1>1. k \in Call /\ KeptOf(k, log, row, loose) /\ k.step = "log"
    BY DEF IInv, TypeOK, HandlersOK, At
  <1>2. k.who \in Combatants /\ k.turn \in Turns /\ k.kind # "none" /\ k.who # None
    <2>1. k.who \in Combatants /\ k.turn \in Turns /\ k.kind # "none"
      BY <1>1 DEF KeptOf, TaskOf, Call
    <2> QED
      BY <2>1, DeskAssumption
  <1>3. s \in SUBSET Cols /\ s \subseteq k.knows
    BY <1>1 DEF Call
  <1>4. \A col \in s : col \in k.sure /\ <<k.who, col>> \notin k.spoiled
    BY <1>1 DEF Of, Call
  <1>5. e = [turn |-> k.turn, actor |-> k.who, knows |-> k.knows, tells |-> k.tells,
             before |-> k.before, after |-> k.value, sure |-> s, undoes |-> k.entry]
    BY DEF Written
  <1> HIDE DEF s
  <1>6. /\ e \in Entry /\ e.actor = k.who /\ e.knows = k.knows /\ e.tells = k.tells
        /\ e.before = k.before /\ e.after = k.value /\ e.sure = s /\ e.undoes = k.entry
    BY <1>1, <1>2, <1>3, <1>5 DEF Call, Entry
  <1> HIDE DEF e
  <1>7. Spoken(e) = {k.who} \X k.tells
    BY <1>6 DEF Spoken
  <1>8. Honest(e, row, k.spoiled)
    <2>1. Claims(k) = {k.who} \X k.tells
      BY <1>1 DEF Claims
    <2> QED
      BY <1>1, <1>6, <1>7, <2>1 DEF Honest, KeptOf, ValueOf
  <1>9. Sound(log, e)
    <2>1. e.actor # None /\ e.sure \subseteq e.knows
      BY <1>2, <1>3, <1>6
    <2>2. \A i \in DOMAIN log : \A col \in e.sure :
            NewestIn(log, i, Len(log), e.actor, col) => e.before[col] = log[i].after[col]
      BY ZenonT(40), <1>1, <1>4, <1>6 DEF KeptOf, BeforeOf, Trusted, Idle
    <2>3. e.undoes > 0 => /\ e.undoes \in DOMAIN log
                          /\ \A col \in log[e.undoes].knows : e.after[col] = log[e.undoes].before[col]
      BY <1>1, <1>6 DEF KeptOf, EntryOf
    <2> QED
      BY <2>1, <2>2, <2>3 DEF Sound
  <1> QED
    BY <1>1, <1>6, <1>7, <1>8, <1>9 DEF e

LEMMA WriteFrame ==
    ASSUME IInv, NEW h \in Handlers, Write(h)
    PROVE  Frame /\ OthersKeep(h) /\ call'[h] = Rest /\ Longer
  <1> DEFINE k == call[h]
             e == Written(h, k.who, k.before, k.entry)
             X == Spoken(e) \cap (loose \cup k.spoiled)
  <1>1. /\ e \in Entry /\ Spoken(e) = {k.who} \X k.tells
        /\ Honest(e, row, k.spoiled) /\ Sound(log, e) /\ k \in Call
    BY WrittenFacts DEF Write
  <1>2. log' = Append(log, e) /\ UNCHANGED row
    BY DEF Write
  <1>3. loose' = Hushed(loose, e, k.spoiled)
    <2> HIDE DEF e
    <2> QED
      BY <1>1 DEF Write, Heard, Hushed
  <1>4. Stir(h, Rest, X)
    <2>1. Stirred(h, k.who, k.tells) = X
      <3> HIDE DEF e
      <3> QED
        BY <1>1 DEF Stirred
    <2>2. Stir(h, Rest, Stirred(h, k.who, k.tells))
      BY DEF Write
    <2> QED
      BY <2>1, <2>2
  <1>5. k.spoiled \in SUBSET Cells /\ X \in SUBSET Cells
    BY <1>1 DEF Call, IInv, TypeOK
  <1> HIDE DEF e
  <1>6. Rest \in Call /\ KeptOf(Rest, log', row, loose')
    BY KeptRest
  <1>7. Frame /\ OthersKeep(h) /\ Longer
    BY <1>1, <1>2, <1>3, <1>4, <1>5, <1>6, FrameAppend
  <1>8. call'[h] = Rest
    BY <1>4, <1>5, <1>6, StirFacts DEF IInv
  <1> QED
    BY <1>7, <1>8

LEMMA WriteShiftFrame ==
    ASSUME IInv, NEW h \in Handlers, WriteShift(h)
    PROVE  Frame /\ KeepsHand(h) /\ Longer
  <1> DEFINE k == call[h]
             s == k.calm \ Of(k.spoiled, k.at)
             e == [turn |-> turn, actor |-> k.at, knows |-> Cols, tells |-> Cols,
                   before |-> k.copy, after |-> k.value, sure |-> s, undoes |-> 0]
             X == Spoken(e) \cap (loose \cup k.spoiled)
             sp == k.spoiled \cup X
             k3 == [k EXCEPT !.spoiled = sp]
             k2 == Again(k3)
  <1>1. k.step = "shifted" /\ UNCHANGED row
    BY DEF WriteShift, At
  <1>2. /\ k \in Call /\ KeptOf(k, log, row, loose) /\ k.at \in Combatants
        /\ k.kind \in {"resolve", "enemy"} /\ k.step \notin Idle
    BY <1>1, AtWork DEF Effecting
  <1>3. s \in SUBSET Cols /\ \A col \in s : col \in k.calm /\ <<k.at, col>> \notin k.spoiled
    BY <1>2 DEF Call, Of
  <1>4. log' = Append(log, e)
    BY DEF WriteShift
  <1> HIDE DEF s
  <1>5. /\ e \in Entry /\ e.actor = k.at /\ e.knows = Cols /\ e.tells = Cols
        /\ e.before = k.copy /\ e.after = k.value /\ e.sure = s /\ e.undoes = 0
    <2>1. turn \in Turns /\ k.copy \in Snapshot /\ k.value \in Snapshot /\ 0 \in 0..MaxLog
      BY <1>2, DeskAssumption DEF IInv, TypeOK, Call
    <2> QED
      BY <1>2, <1>3, <2>1 DEF Entry
  <1> HIDE DEF e
  <1>6. Spoken(e) = {k.at} \X Cols
    BY <1>5 DEF Spoken
  <1>7. Stirred(h, k.at, Cols) = X
    BY <1>6 DEF Stirred
  <1>8. loose' = Hushed(loose, e, k.spoiled)
    BY <1>6 DEF WriteShift, Heard, Hushed
  <1>9. Stir(h, k2, X)
    <2>1. Stir(h, Again([k EXCEPT !.spoiled = @ \cup Stirred(h, k.at, Cols)]), Stirred(h, k.at, Cols))
      BY DEF WriteShift
    <2> QED
      BY <1>7, <2>1
  <1>10. k.spoiled \in SUBSET Cells /\ X \in SUBSET Cells /\ sp \in SUBSET Cells
    BY <1>2 DEF Call, IInv, TypeOK
  <1>11. Honest(e, row, k.spoiled)
    <2>1. Claims(k) = {k.at} \X Cols
      BY <1>1 DEF Claims
    <2> QED
      BY <1>2, <1>5, <1>6, <2>1 DEF Honest, KeptOf, ValueOf
  <1>12. Sound(log, e)
    <2>1. e.actor # None /\ e.sure \subseteq e.knows /\ ~(e.undoes > 0)
      BY <1>2, <1>3, <1>5, DeskAssumption
    <2>2. \A i \in DOMAIN log : \A col \in e.sure :
            NewestIn(log, i, Len(log), e.actor, col) => e.before[col] = log[i].after[col]
      BY <1>1, <1>2, <1>3, <1>5 DEF KeptOf, CopyOf, Trusted
    <2> QED
      BY <2>1, <2>2 DEF Sound
  <1> HIDE DEF X
  <1>13. k3 \in Call /\ Milder(k, k3) /\ k3.spoiled = sp
    BY <1>2, <1>10 DEF Call, Milder
  <1> HIDE DEF k3
  <1>14. Hears(k, k3, X)
    BY <1>13 DEF Hears
  <1>15. KeptOf(k3, log', row, loose')
    <2>1. log \in Seq(Entry)
      BY DEF IInv, TypeOK
    <2>2. KeptOf(k3, Append(log, e), row, Hushed(loose, e, k.spoiled))
      BY <1>2, <1>5, <1>11, <1>13, <1>14, <2>1, KeptAppend DEF X
    <2> QED
      BY <1>4, <1>8, <2>2
  <1>16. k2 \in Call /\ KeptOf(k2, log', row, loose')
    <2>1. k3.kind \in {"resolve", "enemy"} /\ k3.step \notin Idle
      BY <1>2, <1>13 DEF Milder
    <2> QED
      BY <1>13, <1>15, <2>1, KeptAgain DEF KeptOf
  <1>17. k2.step = "effects" /\ k2.kind = k.kind /\ k2.action = k.action
    BY <1>13, AgainFacts DEF Milder
  <1> HIDE DEF k2
  <1>18. Frame /\ OthersKeep(h) /\ Longer
    BY <1>1, <1>4, <1>5, <1>8, <1>9, <1>10, <1>11, <1>12, <1>16, FrameAppend DEF X
  <1>19. call'[h] = k2
    BY <1>9, <1>10, <1>16, StirFacts DEF IInv
  <1> QED
    BY <1>1, <1>17, <1>18, <1>19 DEF KeepsHand

(***************************************************************************)
(* Others: rows written and logged outside the desk.                       *)
(***************************************************************************)
LEMMA ElsewhereFrame ==
    ASSUME IInv, NEW c \in Combatants, NEW col \in Cols, Elsewhere(c, col)
    PROVE  Frame /\ \A g \in Handlers : /\ call'[g].action = call[g].action
                                       /\ call'[g].kind = call[g].kind
                                       /\ call'[g].step = call[g].step
  <1>1. PICK s \in Snapshot : row' = [row EXCEPT ![c][col] = s[col]]
    BY DEF Elsewhere
  <1>2. Touch(None, c, col, s[col], Rest) /\ UNCHANGED log
    BY <1>1 DEF Elsewhere, Touch
  <1>3. None \notin Handlers /\ Rest \in Call
    BY DeskAssumption, KeptRest
  <1>4. Frame /\ OthersKeep(None)
    BY <1>2, <1>3, FrameTouch
  <1> QED
    BY <1>3, <1>4 DEF OthersKeep

(***************************************************************************)
(* Who has which action in hand.                                           *)
(***************************************************************************)
HandShape(k) ==
    /\ k.action # None => (k.kind = "resolve" /\ k.step # "log") \/ k.step = "void"
    /\ k.kind = "resolve" /\ k.step # "log" => k.action \in Actions
    /\ k.step = "void" => k.action \in Actions

LEMMA HandStep ==
    ASSUME IInv, NEW h \in Handlers, OthersKeep(h), HandShape(call'[h]), disputed \subseteq disputed',
           \A a \in Actions \ disputed' :
             /\ a # call[h].action /\ a # call'[h].action =>
                  pending'[a] = pending[a] /\ landed'[a] = landed[a]
             /\ a = call'[h].action =>
                  /\ pending'[a] = "pending"
                  /\ landed'[a] = IF call'[h].step = "resolve" THEN 1 ELSE 0
                  /\ \A g \in Handlers \ {h} : call[g].action # a
             /\ a = call[h].action /\ a # call'[h].action =>
                  IF pending'[a] = "resolved" THEN landed'[a] = 1 ELSE landed'[a] = 0
    PROVE  HandOK' /\ FreeOK'
  <1>1. ASSUME NEW g \in Handlers \ {h}
        PROVE  /\ HandShape(call'[g])
               /\ call'[g].action \in Actions \ disputed' =>
                    /\ pending'[call'[g].action] = "pending"
                    /\ landed'[call'[g].action] = IF call'[g].step = "resolve" THEN 1 ELSE 0
                    /\ \A f \in Handlers : call'[f].action = call'[g].action => f = g
    <2> DEFINE a == call[g].action
    <2>1. call'[g].action = a /\ call'[g].kind = call[g].kind /\ call'[g].step = call[g].step
      BY <1>1 DEF OthersKeep
    <2>2. HandShape(call[g])
      BY <1>1 DEF IInv, HandOK, HandShape
    <2>3. ASSUME a \in Actions \ disputed'
          PROVE  /\ pending'[a] = "pending"
                 /\ landed'[a] = IF call[g].step = "resolve" THEN 1 ELSE 0
                 /\ \A f \in Handlers : call'[f].action = a => f = g
      <3>1. /\ pending[a] = "pending"
            /\ landed[a] = IF call[g].step = "resolve" THEN 1 ELSE 0
            /\ \A f \in Handlers : call[f].action = a => f = g
        BY <1>1, <2>3 DEF IInv, HandOK
      <3>2. a # call[h].action /\ a # call'[h].action
        BY <1>1, <2>3, <3>1
      <3>3. pending'[a] = pending[a] /\ landed'[a] = landed[a]
        BY <2>3, <3>2
      <3>4. \A f \in Handlers \ {h} : call'[f].action = call[f].action
        BY DEF OthersKeep
      <3> QED
        BY <3>1, <3>2, <3>3, <3>4
    <2> QED
      BY <2>1, <2>2, <2>3 DEF HandShape
  <1>2. call'[h].action \in Actions \ disputed' =>
          /\ pending'[call'[h].action] = "pending"
          /\ landed'[call'[h].action] = IF call'[h].step = "resolve" THEN 1 ELSE 0
          /\ \A f \in Handlers : call'[f].action = call'[h].action => f = h
    BY DEF OthersKeep
  <1>3. HandOK'
    BY <1>1, <1>2 DEF HandOK, HandShape
  <1>4. FreeOK'
    <2> SUFFICES ASSUME NEW a \in Actions \ disputed', InHand(a)' = {}
                 PROVE  IF pending'[a] = "resolved" THEN landed'[a] = 1 ELSE landed'[a] = 0
      BY DEF FreeOK
    <2>1. \A g \in Handlers : call'[g].action # a
      BY DEF InHand
    <2>2. CASE a = call[h].action
      BY <2>1, <2>2
    <2>3. CASE a # call[h].action
      <3>1. InHand(a) = {}
        BY <2>1, <2>3 DEF InHand, OthersKeep
      <3>2. IF pending[a] = "resolved" THEN landed[a] = 1 ELSE landed[a] = 0
        BY <3>1 DEF IInv, FreeOK
      <3> QED
        BY <2>1, <2>3, <3>2
    <2> QED
      BY <2>2, <2>3
  <1> QED
    BY <1>3, <1>4

LEMMA HandKept ==
    ASSUME IInv, NEW h \in Handlers, KeepsHand(h), UNCHANGED <<pending, landed, disputed>>
    PROVE  HandOK' /\ FreeOK'
  <1>1. HandShape(call'[h])
    BY DEF IInv, HandOK, HandShape, KeepsHand
  <1>2. call[h].action \in Actions \ disputed =>
          /\ pending[call[h].action] = "pending"
          /\ landed[call[h].action] = IF call[h].step = "resolve" THEN 1 ELSE 0
          /\ \A g \in Handlers : call[g].action = call[h].action => g = h
    BY DEF IInv, HandOK
  <1>3. call[h].action = call'[h].action /\ call[h].step # "resolve" /\ call'[h].step # "resolve"
    BY DEF KeepsHand
  <1> QED
    BY <1>1, <1>2, <1>3, HandStep DEF KeepsHand

\* A handler without an action goes on without one.
LEMMA HandEmpty ==
    ASSUME IInv, NEW h \in Handlers, OthersKeep(h), UNCHANGED <<pending, landed, disputed>>,
           call[h].action = None, call'[h].action = None,
           call'[h].kind # "resolve" \/ call'[h].step = "log", call'[h].step # "void"
    PROVE  HandOK' /\ FreeOK'
  <1>1. HandShape(call'[h]) /\ None \notin Actions
    BY DeskAssumption DEF HandShape
  <1> QED
    BY <1>1, HandStep

\* Nobody has an action in hand before its work or after it.
LEMMA EmptyHands ==
    ASSUME IInv, NEW h \in Handlers,
           \/ call[h].step \in {"rest", "log"}
           \/ call[h].kind \in {"override", "tune", "undo", "enemy"}
           \/ call[h].kind = "cancel" /\ call[h].step = "lock"
    PROVE  call[h].action = None
  <1>1. HandShape(call[h]) /\ TaskOf(call[h])
    BY DEF IInv, HandOK, HandShape, HandlersOK, KeptOf
  <1> QED
    BY <1>1 DEF HandShape, TaskOf

(***************************************************************************)
(* What has a type keeps it.                                               *)
(***************************************************************************)
LEMMA CountTyped ==
    ASSUME TypeOK, Counts
    PROVE  calls' \in 0..MaxCalls
  BY DeskAssumption DEF TypeOK, Counts

LEMMA FreeTyped ==
    ASSUME TypeOK, NEW h \in Handlers, Free(h)
    PROVE  lock' \in [Turns -> Handlers \cup {None}]
  BY DEF TypeOK, Free

LEMMA LocksTyped ==
    ASSUME TypeOK, NEW h \in Handlers, Locks(h)
    PROVE  lock' \in [Turns -> Handlers \cup {None}]
  BY DEF TypeOK, Locks

LEMMA NoteTyped ==
    ASSUME TypeOK,
           UNCHANGED log \/ (Len(log) < MaxLog /\ log' = Append(log, Note(turn)))
    PROVE  log' \in Seq(Entry) /\ Len(log') <= MaxLog
  <1>1. CASE UNCHANGED log
    BY <1>1 DEF TypeOK
  <1>2. CASE Len(log) < MaxLog /\ log' = Append(log, Note(turn))
    <2>1. log \in Seq(Entry) /\ Note(turn) \in Entry
      BY NoteFacts DEF TypeOK
    <2>2. log' \in Seq(Entry) /\ Len(log') = Len(log) + 1 /\ Len(log) \in Nat
      BY <1>2, <2>1, AppendFacts
    <2> QED
      BY <1>2, <2>2, DeskAssumption
  <1> QED
    BY <1>1, <1>2

LEMMA LongerTyped ==
    ASSUME TypeOK, Longer, Len(log) < MaxLog
    PROVE  log' \in Seq(Entry) /\ Len(log') <= MaxLog /\ loose' \subseteq Cells
  <1>1. Len(log) \in Nat
    BY DEF TypeOK
  <1> QED
    BY <1>1, DeskAssumption DEF Longer

LEMMA TouchTyped ==
    ASSUME TypeOK, NEW h, NEW c \in Combatants, NEW col \in Cols, NEW v, NEW k,
           Fits(col, v), Touch(h, c, col, v, k), call' \in [Handlers -> Call], calls' \in 0..MaxCalls,
           UNCHANGED <<turn, lock, pending, log, landed, disputed>>
    PROVE  TypeOK'
  <1>1. row' \in [Combatants -> Snapshot] /\ loose' \subseteq Cells
    BY TouchFacts
  <1> QED
    BY <1>1 DEF TypeOK

(***************************************************************************)
(* One lemma for each group of actions.                                    *)
(***************************************************************************)
\* A step that starts no work on any action and writes no column.
LEMMA Started ==
    ASSUME IInv, NEW h \in Handlers, At(h, "rest"), Counts, Frame, OthersKeep(h),
           call'[h].action = None, call'[h].kind # "resolve", call'[h].step # "void",
           UNCHANGED <<row, turn, lock, pending, log, history>>
    PROVE  IInv'
  <1>1. TypeOK'
    BY CountTyped DEF IInv, TypeOK, Frame, history
  <1>2. HandOK' /\ FreeOK'
    <2>1. call[h].action = None
      BY EmptyHands DEF At
    <2> QED
      BY <2>1, HandEmpty DEF history
  <1> QED
    BY <1>1, <1>2 DEF IInv, Frame

LEMMA Starts ==
    ASSUME IInv, NEW h \in Handlers,
           \/ \E c \in Combatants, col \in Cols, v \in Snapshot : Override(h, c, col, v)
           \/ \E c \in Combatants : OverrideExhaustion(h, c) \/ Cancel(h, c) \/ EnemyTurn(h, c)
           \/ \E e \in DOMAIN log : Undo(h, e)
    PROVE  IInv'
  <1>1. ASSUME NEW c \in Combatants, NEW col \in Cols, NEW v \in Snapshot, Override(h, c, col, v)
        PROVE  IInv'
    <2>1. At(h, "rest") /\ Counts /\ UNCHANGED <<row, turn, lock, pending, log, history>>
      BY <1>1 DEF Override, Begins
    <2> QED
      BY <1>1, <2>1, OverrideFrame, Started
  <1>2. ASSUME NEW c \in Combatants, OverrideExhaustion(h, c)
        PROVE  IInv'
    <2>1. At(h, "rest") /\ Counts /\ UNCHANGED <<row, turn, lock, pending, log, history>>
      BY <1>2 DEF OverrideExhaustion, Begins
    <2> QED
      BY <1>2, <2>1, ExhaustionFrame, Started
  <1>3. ASSUME NEW c \in Combatants, Cancel(h, c)
        PROVE  IInv'
    <2>1. At(h, "rest") /\ Counts /\ UNCHANGED <<row, turn, lock, pending, log, history>>
      BY <1>3 DEF Cancel, Begins
    <2> QED
      BY <1>3, <2>1, CancelFrame, Started
  <1>4. ASSUME NEW c \in Combatants, EnemyTurn(h, c)
        PROVE  IInv'
    <2>1. At(h, "rest") /\ Counts /\ UNCHANGED <<row, turn, lock, pending, log, history>>
      BY <1>4 DEF EnemyTurn, Begins
    <2> QED
      BY <1>4, <2>1, EnemyFrame, Started
  <1>5. ASSUME NEW e \in DOMAIN log, Undo(h, e)
        PROVE  IInv'
    <2>1. At(h, "rest") /\ Counts /\ UNCHANGED <<row, turn, lock, pending, log, history>>
      BY <1>5 DEF Undo, Begins
    <2> QED
      BY <1>5, <2>1, UndoFrame, Started
  <1> QED
    BY <1>1, <1>2, <1>3, <1>4, <1>5

\* An action comes into hand that nobody else has, or it is disputed.
LEMMA Taken ==
    ASSUME IInv, NEW h \in Handlers, NEW a \in Actions, pending[a] = "pending",
           call[h].action = None, OthersKeep(h), HandShape(call'[h]),
           call'[h].action = a, call'[h].step # "resolve",
           disputed' = IF InHand(a) = {} THEN disputed ELSE disputed \cup {a},
           UNCHANGED <<pending, landed>>
    PROVE  HandOK' /\ FreeOK' /\ disputed' \subseteq Actions
  <1>1. disputed' \subseteq Actions /\ disputed \subseteq disputed'
    BY DEF IInv, TypeOK
  <1>2. ASSUME a \notin disputed'
        PROVE  landed[a] = 0 /\ \A g \in Handlers \ {h} : call[g].action # a
    <2>1. InHand(a) = {} /\ a \notin disputed
      BY <1>2
    <2>2. landed[a] = 0
      BY <2>1 DEF IInv, FreeOK
    <2> QED
      BY <2>1, <2>2 DEF InHand
  <1>3. None \notin Actions
    BY DeskAssumption
  <1> QED
    BY <1>1, <1>2, <1>3, HandStep

LEMMA Resolves ==
    ASSUME IInv, NEW h \in Handlers, NEW a \in Actions, Resolve(h, a)
    PROVE  IInv'
  <1>1. /\ Frame /\ OthersKeep(h)
        /\ call'[h].action = a /\ call'[h].kind = "resolve" /\ call'[h].step = "lock"
    BY ResolveFrame
  <1>2. /\ pending[a] = "pending" /\ At(h, "rest") /\ Counts
        /\ disputed' = IF InHand(a) = {} THEN disputed ELSE disputed \cup {a}
        /\ UNCHANGED <<row, turn, lock, pending, log, loose, landed>>
    BY DEF Resolve, Begins
  <1>3. HandShape(call'[h]) /\ call[h].action = None
    BY <1>1, <1>2, EmptyHands DEF HandShape, At
  <1>4. HandOK' /\ FreeOK' /\ disputed' \subseteq Actions
    BY <1>1, <1>2, <1>3, Taken
  <1>5. TypeOK'
    BY <1>1, <1>2, <1>4, CountTyped DEF IInv, TypeOK, Frame
  <1> QED
    BY <1>1, <1>4, <1>5 DEF IInv, Frame

LEMMA Finds ==
    ASSUME IInv, NEW h \in Handlers, Find(h)
    PROVE  IInv'
  <1>1. /\ At(h, "lock") /\ call[h].kind = "cancel"
        /\ UNCHANGED <<row, turn, pending, log, loose, landed, calls>> /\ Locks(h)
    BY DEF Find, Granted
  <1>2. PICK a \in Asked(call[h].who) :
          /\ Goes(h, [call[h] EXCEPT !.step = "void", !.action = a])
          /\ disputed' = IF InHand(a) = {} THEN disputed ELSE disputed \cup {a}
    BY DEF Find
  <1>3. a \in Actions /\ pending[a] = "pending"
    BY DEF Asked
  <1>4. /\ Frame /\ OthersKeep(h)
        /\ call'[h].action = a /\ call'[h].kind = "cancel" /\ call'[h].step = "void"
    BY <1>1, <1>2, <1>3, FindFrame
  <1>5. HandShape(call'[h]) /\ call[h].action = None
    BY <1>1, <1>3, <1>4, EmptyHands DEF HandShape, At
  <1>6. HandOK' /\ FreeOK' /\ disputed' \subseteq Actions
    BY <1>1, <1>2, <1>3, <1>4, <1>5, Taken
  <1>7. TypeOK'
    BY <1>1, <1>4, <1>6, LocksTyped DEF IInv, TypeOK, Frame
  <1> QED
    BY <1>4, <1>6, <1>7 DEF IInv, Frame

LEMMA HandTask ==
    ASSUME IInv, NEW h \in Handlers
    PROVE  call[h].step = "resolve" => call[h].kind = "resolve"
  BY DEF IInv, HandlersOK, KeptOf, TaskOf

\* A handler ends with nothing in hand.
LEMMA Ends ==
    ASSUME IInv, NEW h \in Handlers, Refuse(h) \/ FindNone(h) \/ Fault(h) \/ Void(h)
    PROVE  IInv'
  <1>1. Goes(h, Rest) /\ UNCHANGED <<row, turn, log, loose, landed, calls>>
    BY DEF Refuse, FindNone, Fault, Void, history
  <1>2. lock' \in [Turns -> Handlers \cup {None}]
    BY FreeTyped DEF Refuse, FindNone, Fault, Void, IInv, TypeOK
  <1>3. Frame /\ OthersKeep(h) /\ call'[h] = Rest
    BY <1>1, RestFrame
  <1>4. HandShape(Rest) /\ Rest.action = None /\ None \notin Actions /\ Rest.kind = "none"
        /\ Rest.step = "rest"
    BY RestFields, DeskAssumption DEF HandShape
  <1>5. /\ HandShape(call[h])
        /\ call[h].action \in Actions \ disputed =>
             /\ pending[call[h].action] = "pending"
             /\ landed[call[h].action] = IF call[h].step = "resolve" THEN 1 ELSE 0
    BY DEF IInv, HandOK, HandShape
  <1>6. CASE Refuse(h) \/ FindNone(h)
    <2>1. UNCHANGED <<pending, landed, disputed>>
      BY <1>6 DEF Refuse, FindNone, history
    <2>2. call[h].action = None
      BY <1>6, EmptyHands DEF Refuse, FindNone, Granted, At
    <2>3. HandOK' /\ FreeOK'
      BY <1>3, <1>4, <2>1, <2>2, HandEmpty
    <2>4. TypeOK'
      BY <1>1, <1>2, <1>3, <2>1 DEF IInv, TypeOK, Frame
    <2> QED
      BY <1>3, <2>3, <2>4 DEF IInv, Frame
  <1>7. CASE Fault(h)
    <2>1. /\ UNCHANGED pending
          /\ disputed' = IF call[h].kind = "resolve" /\ ~(At(h, "lock") \/ At(h, "log"))
                         THEN disputed \cup {call[h].action} ELSE disputed
      BY <1>7 DEF Fault
    <2>2. disputed \subseteq disputed' /\ disputed' \subseteq Actions
      BY <1>5, <2>1 DEF HandShape, At, IInv, TypeOK
    <2>3. ASSUME call[h].action \in Actions \ disputed'
          PROVE  pending[call[h].action] = "pending" /\ landed[call[h].action] = 0
      <3>1. call[h].step # "resolve"
        BY <1>4, <1>5, <2>1, <2>3, HandTask DEF At
      <3> QED
        BY <1>5, <2>2, <2>3, <3>1
    <2>4. HandOK' /\ FreeOK'
      BY <1>1, <1>3, <1>4, <2>1, <2>2, <2>3, HandStep
    <2>5. TypeOK'
      BY <1>1, <1>2, <1>3, <2>1, <2>2 DEF IInv, TypeOK, Frame
    <2> QED
      BY <1>3, <2>4, <2>5 DEF IInv, Frame
  <1>8. CASE Void(h)
    <2>1. /\ call[h].step = "void" /\ disputed' = disputed
          /\ pending' = [pending EXCEPT ![call[h].action] = "cancelled"]
      BY <1>8 DEF Void, At, history
    <2>2. call[h].action \in Actions
      BY <1>5, <2>1 DEF HandShape
    <2>3. /\ pending' \in [Actions -> {"none", "pending", "resolved", "cancelled"}]
          /\ pending'[call[h].action] = "cancelled"
          /\ \A a \in Actions : a # call[h].action => pending'[a] = pending[a]
      BY <2>1, <2>2 DEF IInv, TypeOK
    <2>4. HandOK' /\ FreeOK'
      BY <1>1, <1>3, <1>4, <1>5, <2>1, <2>2, <2>3, HandStep
    <2>5. TypeOK'
      BY <1>1, <1>2, <1>3, <2>1, <2>3 DEF IInv, TypeOK, Frame
    <2> QED
      BY <1>3, <2>4, <2>5 DEF IInv, Frame
  <1> QED
    BY <1>6, <1>7, <1>8

\* Effects, and what is put back: the action in hand is the same.
LEMMA Works ==
    ASSUME IInv, NEW h \in Handlers, Frame, KeepsHand(h),
           UNCHANGED <<turn, pending, landed, disputed, calls>>,
           lock' \in [Turns -> Handlers \cup {None}],
           row' \in [Combatants -> Snapshot], loose' \subseteq Cells,
           log' \in Seq(Entry), Len(log') <= MaxLog
    PROVE  IInv'
  <1>1. HandOK' /\ FreeOK'
    BY HandKept
  <1>2. TypeOK'
    BY DEF IInv, TypeOK, Frame
  <1> QED
    BY <1>1, <1>2 DEF IInv, Frame

LEMMA Reads ==
    ASSUME IInv, NEW h \in Handlers, Read(h)
    PROVE  IInv'
  <1>1. Frame /\ KeepsHand(h)
    BY ReadFrame
  <1>2. Locks(h) /\ UNCHANGED <<row, turn, pending, log, history, calls>>
    BY DEF Read
  <1>3. lock' \in [Turns -> Handlers \cup {None}]
    BY <1>2, LocksTyped DEF IInv
  <1> QED
    BY <1>1, <1>2, <1>3, Works DEF IInv, TypeOK, history

\* What writes a group of columns.
LEMMA Touches ==
    ASSUME IInv, NEW h \in Handlers, Frame, KeepsHand(h),
           NEW c \in Combatants, NEW col \in Cols, NEW v, NEW k, Fits(col, v), Touch(h, c, col, v, k),
           UNCHANGED <<turn, lock, pending, log, landed, disputed, calls>>
    PROVE  IInv'
  <1>1. row' \in [Combatants -> Snapshot] /\ loose' \subseteq Cells
    BY TouchFacts DEF IInv
  <1> QED
    BY <1>1, Works DEF IInv, TypeOK

LEMMA PutsBack ==
    ASSUME IInv, NEW h \in Handlers, Damage(h) \/ Settle(h) \/ Place(h) \/ Conditions(h)
    PROVE  IInv'
  <1> DEFINE k == call[h]
  <1>1. k \in Call /\ KeptOf(k, log, row, loose)
    BY DEF IInv, TypeOK, HandlersOK
  <1>2. k.step \in {"hp", "settle", "place", "conds"}
    BY DEF Damage, Settle, Place, Conditions, At
  <1>3. k.who \in Combatants
    BY <1>1, <1>2, Working DEF KeptOf, Idle
  <1>4. /\ Fits("hp", k.value.hp) /\ Fits("place", k.value.place) /\ Fits("conds", k.value.conds)
        /\ Cols = {"hp", "place", "conds"}
    BY <1>1 DEF Fits, Call, Snapshot, Cols
  <1>5. UNCHANGED <<turn, lock, pending, log, landed, disputed, calls>>
    BY DEF Damage, Settle, Place, Conditions
  <1>6. Frame /\ KeepsHand(h)
    BY DamageFrame, SettleFrame, PlaceFrame, ConditionsFrame
  <1>7. CASE Damage(h)
    <2>1. PICK k2 : Touch(h, k.who, "hp", k.value.hp, k2)
      BY <1>7 DEF Damage
    <2> QED
      BY <1>3, <1>4, <1>5, <1>6, <2>1, Touches
  <1>8. CASE Settle(h)
    <2>1. PICK k2 : Touch(h, k.who, "hp", k.value.hp, k2)
      BY <1>8 DEF Settle
    <2> QED
      BY <1>3, <1>4, <1>5, <1>6, <2>1, Touches
  <1>9. CASE Place(h)
    <2>1. PICK k2 : Touch(h, k.who, "place", k.value.place, k2)
      BY <1>9 DEF Place
    <2> QED
      BY <1>3, <1>4, <1>5, <1>6, <2>1, Touches
  <1>10. CASE Conditions(h)
    <2>1. PICK k2 : Touch(h, k.who, "conds", k.value.conds, k2)
      BY <1>10 DEF Conditions
    <2> QED
      BY <1>3, <1>4, <1>5, <1>6, <2>1, Touches
  <1> QED
    BY <1>7, <1>8, <1>9, <1>10

LEMMA Strikes ==
    ASSUME IInv, NEW h \in Handlers,
           \/ Faint(h)
           \/ \E p \in Places : March(h, p) \/ Shift(h, p)
           \/ \E n \in 0..HpMax : Hurt(h, n)
           \/ \E a \in Ailments : Afflict(h, a)
    PROVE  IInv'
  <1> DEFINE k == call[h]
  <1>1. k \in Call /\ KeptOf(k, log, row, loose) /\ Cols = {"hp", "place", "conds"}
    BY DEF IInv, TypeOK, HandlersOK, Cols
  <1>2. CASE Faint(h)
    <2>1. k.at \in Combatants
      BY <1>1, <1>2 DEF Faint, At, KeptOf, TaskOf
    <2>2. PICK k2 : Touch(h, k.at, "conds", row[k.at].conds \cup {Out}, k2)
      BY <1>2 DEF Faint
    <2>3. Fits("conds", row[k.at].conds \cup {Out})
      BY <2>1, DeskAssumption DEF Fits, IInv, TypeOK, Snapshot
    <2>4. UNCHANGED <<turn, lock, pending, log, landed, disputed, calls>>
      BY <1>2 DEF Faint
    <2>5. Frame /\ KeepsHand(h)
      BY <1>2, FaintFrame
    <2> QED
      BY <1>1, <2>1, <2>2, <2>3, <2>4, <2>5, Touches
  <1>3. ASSUME NEW p \in Places, March(h, p)
        PROVE  IInv'
    <2>1. k.who \in Combatants
      BY <1>3, AtWork DEF March, At, Effecting
    <2>2. PICK k2 : Touch(h, k.who, "place", p, k2)
      BY <1>3 DEF March
    <2>3. UNCHANGED <<turn, lock, pending, log, landed, disputed, calls>> /\ Fits("place", p)
      BY <1>3 DEF March, Fits
    <2>4. Frame /\ KeepsHand(h)
      BY <1>3, MarchFrame
    <2> QED
      BY <1>1, <2>1, <2>2, <2>3, <2>4, Touches
  <1>4. ASSUME NEW p \in Places, Shift(h, p)
        PROVE  IInv'
    <2>1. k.at \in Combatants
      BY <1>4, AtWork DEF Shift, At, Effecting
    <2>2. PICK k2 : Touch(h, k.at, "place", p, k2)
      BY <1>4 DEF Shift
    <2>3. UNCHANGED <<turn, lock, pending, log, landed, disputed, calls>> /\ Fits("place", p)
      BY <1>4 DEF Shift, Fits
    <2>4. Frame /\ KeepsHand(h)
      BY <1>4, ShiftFrame
    <2> QED
      BY <1>1, <2>1, <2>2, <2>3, <2>4, Touches
  <1>5. ASSUME NEW n \in 0..HpMax, Hurt(h, n)
        PROVE  IInv'
    <2>1. k.at \in Combatants
      BY <1>5, AtWork DEF Hurt, At, Effecting
    <2>2. PICK k2 : Touch(h, k.at, "hp", n, k2)
      BY <1>5 DEF Hurt
    <2>3. UNCHANGED <<turn, lock, pending, log, landed, disputed, calls>> /\ Fits("hp", n)
      BY <1>5 DEF Hurt, Fits
    <2>4. Frame /\ KeepsHand(h)
      BY <1>5, HurtFrame
    <2> QED
      BY <1>1, <2>1, <2>2, <2>3, <2>4, Touches
  <1>6. ASSUME NEW a \in Ailments, Afflict(h, a)
        PROVE  IInv'
    <2>1. k.at \in Combatants
      BY <1>6, AtWork DEF Afflict, At, Effecting
    <2>2. PICK v \in {k.copy.conds \cup {a}, k.copy.conds \ {a}} : Touch(h, k.at, "conds", v, Again(k))
      BY <1>6 DEF Afflict
    <2>3. UNCHANGED <<turn, lock, pending, log, landed, disputed, calls>>
      BY <1>6 DEF Afflict
    <2>4. Fits("conds", v)
      BY <1>1, <2>2 DEF Fits, Call, Snapshot
    <2>5. Frame /\ KeepsHand(h)
      BY <1>6, AfflictFrame
    <2> QED
      BY <1>1, <2>1, <2>2, <2>3, <2>4, <2>5, Touches
  <1> QED
    BY <1>2, <1>3, <1>4, <1>5, <1>6

LEMMA Aims ==
    ASSUME IInv, NEW h \in Handlers,
           (\E t \in Combatants : Aim(h, t)) \/ Down(h) \/ ShiftUnlogged(h) \/ WriteShift(h)
    PROVE  IInv'
  <1>1. UNCHANGED <<row, turn, lock, pending, landed, disputed, calls>>
    BY DEF Aim, Down, ShiftUnlogged, WriteShift, history
  <1>2. CASE WriteShift(h)
    <2>1. Frame /\ KeepsHand(h) /\ Longer /\ Len(log) < MaxLog
      BY <1>2, WriteShiftFrame DEF WriteShift
    <2>2. log' \in Seq(Entry) /\ Len(log') <= MaxLog /\ loose' \subseteq Cells
      BY <2>1, LongerTyped DEF IInv
    <2> QED
      BY <1>1, <2>1, <2>2, Works DEF IInv, TypeOK
  <1>3. CASE Down(h)
    <2>1. Frame /\ KeepsHand(h)
      BY <1>3, DownFrame
    <2>2. UNCHANGED loose /\ (UNCHANGED log \/ (Len(log) < MaxLog /\ log' = Append(log, Note(turn))))
      BY <1>3 DEF Down, history
    <2>3. log' \in Seq(Entry) /\ Len(log') <= MaxLog
      BY <2>2, NoteTyped DEF IInv
    <2> QED
      BY <1>1, <2>1, <2>2, <2>3, Works DEF IInv, TypeOK
  <1>4. CASE (\E t \in Combatants : Aim(h, t)) \/ ShiftUnlogged(h)
    <2>1. Frame /\ KeepsHand(h)
      BY <1>4, AimFrame, ShiftUnloggedFrame
    <2>2. UNCHANGED <<log, loose>>
      BY <1>4 DEF Aim, ShiftUnlogged, history
    <2> QED
      BY <1>1, <2>1, <2>2, Works DEF IInv, TypeOK
  <1> QED
    BY <1>2, <1>3, <1>4

LEMMA Reviews ==
    ASSUME IInv, NEW h \in Handlers, Review(h)
    PROVE  IInv'
  <1> DEFINE k == call[h]
             a == k.action
  <1>1. /\ Frame /\ OthersKeep(h) /\ call'[h].action = a /\ call'[h].kind = k.kind
        /\ call'[h].step = IF k.kind = "resolve" THEN "resolve" ELSE "log"
    BY ReviewFrame
  <1>2. k.step \in {"effects", "march"} /\ UNCHANGED <<row, turn, lock, pending, log, loose, disputed, calls>>
    BY DEF Review, At
  <1>3. k.kind \in {"resolve", "enemy"}
    BY <1>2, AtWork DEF Effecting
  <1>4. landed' = IF k.kind = "resolve" /\ landed[a] < 2 THEN [landed EXCEPT ![a] = @ + 1] ELSE landed
    BY DEF Review
  <1>5. CASE k.kind = "enemy"
    <2>1. landed' = landed /\ call[h].action = None
      BY <1>4, <1>5, EmptyHands
    <2>2. HandOK' /\ FreeOK'
      BY <1>1, <1>2, <1>5, <2>1, HandEmpty
    <2>3. TypeOK'
      BY <1>1, <1>2, <2>1 DEF IInv, TypeOK, Frame
    <2> QED
      BY <1>1, <2>2, <2>3 DEF IInv, Frame
  <1>6. CASE k.kind = "resolve"
    <2>1. a \in Actions /\ a # None
      BY <1>2, <1>6, DeskAssumption DEF IInv, HandOK
    <2>2. landed \in [Actions -> 0..2]
      BY DEF IInv, TypeOK
    <2>3. /\ landed' \in [Actions -> 0..2]
          /\ \A b \in Actions : b # a => landed'[b] = landed[b]
          /\ landed[a] = 0 => landed'[a] = 1
      BY <1>4, <1>6, <2>1, <2>2
    <2>4. a \notin disputed =>
            /\ pending[a] = "pending" /\ landed[a] = 0
            /\ \A g \in Handlers : call[g].action = a => g = h
      BY <1>2, <2>1 DEF IInv, HandOK
    <2>5. HandShape(call'[h])
      BY <1>1, <1>6, <2>1 DEF HandShape
    <2>6. HandOK' /\ FreeOK'
      BY <1>1, <1>2, <1>6, <2>3, <2>4, <2>5, HandStep
    <2>7. TypeOK'
      BY <1>1, <1>2, <2>3 DEF IInv, TypeOK, Frame
    <2> QED
      BY <1>1, <2>6, <2>7 DEF IInv, Frame
  <1> QED
    BY <1>3, <1>5, <1>6

LEMMA Marks ==
    ASSUME IInv, NEW h \in Handlers, MarkResolved(h)
    PROVE  IInv'
  <1> DEFINE a == call[h].action
  <1>1. /\ Frame /\ OthersKeep(h)
        /\ call'[h].action = None /\ call'[h].kind = "resolve" /\ call'[h].step = "log"
        /\ call[h].kind = "resolve" /\ call[h].step = "resolve"
    BY MarkFrame
  <1>2. /\ pending' = [pending EXCEPT ![a] = "resolved"]
        /\ UNCHANGED <<row, turn, lock, log, loose, landed, disputed, calls>>
    BY DEF MarkResolved, history
  <1>3. a \in Actions /\ None \notin Actions /\ (a \notin disputed => landed[a] = 1)
    BY <1>1, DeskAssumption DEF IInv, HandOK
  <1>4. /\ pending' \in [Actions -> {"none", "pending", "resolved", "cancelled"}]
        /\ pending'[a] = "resolved" /\ \A b \in Actions : b # a => pending'[b] = pending[b]
    BY <1>2, <1>3 DEF IInv, TypeOK
  <1>5. HandShape(call'[h])
    BY <1>1 DEF HandShape
  <1>6. HandOK' /\ FreeOK'
    BY <1>1, <1>2, <1>3, <1>4, <1>5, HandStep
  <1>7. TypeOK'
    BY <1>1, <1>2, <1>4 DEF IInv, TypeOK, Frame
  <1> QED
    BY <1>1, <1>6, <1>7 DEF IInv, Frame

LEMMA Writes ==
    ASSUME IInv, NEW h \in Handlers, Write(h)
    PROVE  IInv'
  <1>1. Frame /\ OthersKeep(h) /\ call'[h] = Rest /\ Longer
    BY WriteFrame
  <1>2. /\ call[h].step = "log" /\ Len(log) < MaxLog /\ Free(h)
        /\ UNCHANGED <<row, turn, pending, landed, disputed, calls>>
    BY DEF Write, At
  <1>3. log' \in Seq(Entry) /\ Len(log') <= MaxLog /\ loose' \subseteq Cells
    BY <1>1, <1>2, LongerTyped DEF IInv
  <1>4. lock' \in [Turns -> Handlers \cup {None}]
    BY <1>2, FreeTyped DEF IInv
  <1>5. HandOK' /\ FreeOK'
    <2>1. call[h].action = None
      BY <1>2, EmptyHands
    <2> QED
      BY <1>1, <1>2, <2>1, RestFields, HandEmpty
  <1>6. TypeOK'
    BY <1>1, <1>2, <1>3, <1>4 DEF IInv, TypeOK, Frame
  <1> QED
    BY <1>1, <1>5, <1>6 DEF IInv, Frame

\* Whoever is not a handler of the desk.
LEMMA StandStill ==
    ASSUME IInv, UNCHANGED <<row, log, loose, call>>
    PROVE  Frame
  BY DEF IInv, TypeOK, Frame, HandlersOK, LogOK, ToldOK

LEMMA HandsApart ==
    ASSUME IInv, UNCHANGED <<pending, landed, disputed>>,
           \A g \in Handlers : /\ call'[g].action = call[g].action /\ call'[g].kind = call[g].kind
                               /\ call'[g].step = call[g].step
    PROVE  HandOK' /\ FreeOK'
  BY DEF IInv, HandOK, FreeOK, InHand

LEMMA OutsideSteps ==
    ASSUME IInv,
           \/ \E a \in Actions : Ask(a)
           \/ AdvanceTurn \/ Record
           \/ \E c \in Combatants : Lapse(c) \/ \E col \in Cols : Elsewhere(c, col)
           \/ UNCHANGED vars
    PROVE  IInv'
  <1>1. ASSUME NEW a \in Actions, Ask(a)
        PROVE  IInv'
    <2>1. /\ pending[a] = "none" /\ Counts /\ pending' = [pending EXCEPT ![a] = "pending"]
          /\ UNCHANGED log \/ (Len(log) < MaxLog /\ log' = Append(log, Note(turn)))
          /\ UNCHANGED <<row, turn, lock, call, loose, landed, disputed>>
      BY <1>1 DEF Ask, history
    <2>2. Frame
      BY <2>1, FrameNote, StandStill
    <2>3. /\ pending' \in [Actions -> {"none", "pending", "resolved", "cancelled"}]
          /\ pending'[a] = "pending" /\ \A b \in Actions : b # a => pending'[b] = pending[b]
      BY <2>1 DEF IInv, TypeOK
    <2>4. HandOK'
      BY <2>1, <2>3 DEF IInv, HandOK
    <2>5. FreeOK'
      <3> SUFFICES ASSUME NEW b \in Actions \ disputed, InHand(b) = {}
                   PROVE  IF pending'[b] = "resolved" THEN landed[b] = 1 ELSE landed[b] = 0
        BY <2>1 DEF FreeOK, InHand
      <3> QED
        BY <2>1, <2>3 DEF IInv, FreeOK
    <2>6. TypeOK'
      BY <2>1, <2>2, <2>3, CountTyped, NoteTyped DEF IInv, TypeOK, Frame
    <2> QED
      BY <2>2, <2>4, <2>5, <2>6 DEF IInv, Frame
  <1>2. ASSUME NEW c \in Combatants, Lapse(c)
        PROVE  IInv'
    <2>1. /\ Counts
          /\ pending' = [a \in Actions |-> IF a \in Asked(c) THEN "cancelled" ELSE pending[a]]
          /\ disputed' = disputed \cup {a \in Asked(c) : InHand(a) # {}}
          /\ UNCHANGED <<row, turn, lock, log, call, loose, landed>>
      BY <1>2 DEF Lapse
    <2>2. Frame
      BY <2>1, StandStill
    <2>3. /\ pending' \in [Actions -> {"none", "pending", "resolved", "cancelled"}]
          /\ disputed' \subseteq Actions /\ disputed \subseteq disputed'
      BY <2>1 DEF IInv, TypeOK, Asked
    <2>4. HandOK'
      <3>1. \A h \in Handlers : call[h].action \in Actions \ disputed' =>
              pending'[call[h].action] = pending[call[h].action]
        BY <2>1 DEF InHand
      <3> QED
        BY <2>1, <2>3, <3>1 DEF IInv, HandOK
    <2>5. FreeOK'
      <3> SUFFICES ASSUME NEW b \in Actions \ disputed', InHand(b) = {}
                   PROVE  IF pending'[b] = "resolved" THEN landed[b] = 1 ELSE landed[b] = 0
        BY <2>1 DEF FreeOK, InHand
      <3>1. IF pending[b] = "resolved" THEN landed[b] = 1 ELSE landed[b] = 0
        BY <2>3 DEF IInv, FreeOK
      <3>2. pending'[b] = IF b \in Asked(c) THEN "cancelled" ELSE pending[b]
        BY <2>1
      <3>3. b \in Asked(c) => pending[b] = "pending"
        BY DEF Asked
      <3> QED
        BY <3>1, <3>2, <3>3
    <2>6. TypeOK'
      BY <2>1, <2>2, <2>3, CountTyped DEF IInv, TypeOK, Frame
    <2> QED
      BY <2>2, <2>4, <2>5, <2>6 DEF IInv, Frame
  <1>3. CASE AdvanceTurn
    <2>1. Frame /\ HandOK' /\ FreeOK'
      BY <1>3, StandStill, HandsApart DEF AdvanceTurn, history
    <2>2. TypeOK'
      BY <1>3, CountTyped, DeskAssumption DEF AdvanceTurn, history, IInv, TypeOK, Turns
    <2> QED
      BY <2>1, <2>2 DEF IInv, Frame
  <1>4. CASE Record
    <2>1. Frame /\ HandOK' /\ FreeOK'
      BY <1>4, FrameNote, HandsApart DEF Record, history
    <2>2. TypeOK'
      BY <1>4, CountTyped, NoteTyped DEF Record, history, IInv, TypeOK
    <2> QED
      BY <2>1, <2>2 DEF IInv, Frame
  <1>5. ASSUME NEW c \in Combatants, NEW col \in Cols, Elsewhere(c, col)
        PROVE  IInv'
    <2>1. Frame /\ HandOK' /\ FreeOK'
      BY <1>5, ElsewhereFrame, HandsApart DEF Elsewhere
    <2>2. PICK s \in Snapshot : Touch(None, c, col, s[col], Rest)
      BY <1>5 DEF Elsewhere, Touch
    <2>3. Fits(col, s[col])
      BY <2>2 DEF Fits, Snapshot
    <2>4. Counts /\ UNCHANGED <<turn, lock, pending, log, landed, disputed>>
      BY <1>5 DEF Elsewhere
    <2>5. TypeOK'
      BY <2>1, <2>2, <2>3, <2>4, CountTyped, TouchTyped DEF IInv, Frame
    <2> QED
      BY <2>1, <2>5 DEF IInv, Frame
  <1>6. CASE UNCHANGED vars
    <2>1. Frame /\ HandOK' /\ FreeOK'
      BY <1>6, StandStill, HandsApart DEF vars, history
    <2>2. TypeOK'
      BY <1>6 DEF vars, history, IInv, TypeOK
    <2> QED
      BY <2>1, <2>2 DEF IInv, Frame
  <1> QED
    BY <1>1, <1>2, <1>3, <1>4, <1>5, <1>6

LEMMA HandlerSteps ==
    ASSUME IInv, NEW h \in Handlers, Handler(h)
    PROVE  IInv'
  <1>1. \A n \in 0..HpMax : [Blank EXCEPT !.hp = n] \in Snapshot
    BY DeskAssumption DEF Blank, Snapshot
  <1>2. \A p \in Places : [Blank EXCEPT !.place = p] \in Snapshot
    BY DeskAssumption DEF Blank, Snapshot
  <1>3. \A s \in SUBSET Ailments : [Blank EXCEPT !.conds = s] \in Snapshot
    BY DeskAssumption DEF Blank, Snapshot
  <1>4. \A c \in Combatants : \A n \in 0..HpMax : OverrideHp(h, c, n) => IInv'
    BY <1>1, Starts DEF OverrideHp, Cols
  <1>5. \A c \in Combatants : \A p \in Places : OverridePlace(h, c, p) => IInv'
    BY <1>2, Starts DEF OverridePlace, Cols
  <1>6. \A c \in Combatants : \A s \in SUBSET Ailments : OverrideConditions(h, c, s) => IInv'
    BY <1>3, Starts DEF OverrideConditions, Cols
  <1> QED
    BY <1>4, <1>5, <1>6, Starts, Resolves, Finds, Ends, Reads, PutsBack, Strikes, Aims, Reviews,
       Marks, Writes DEF Handler

LEMMA IInvStep ==
    ASSUME IInv, [Next]_vars
    PROVE  IInv'
  BY OutsideSteps, HandlerSteps DEF Next

LEMMA IInvInit ==
    ASSUME Init
    PROVE  IInv
  <1>1. PICK p \in Places : row = [c \in Combatants |-> [hp |-> HpMax, place |-> p, conds |-> {}]]
    BY DEF Init
  <1>2. TypeOK
    <2>1. row \in [Combatants -> Snapshot]
      BY <1>1, DeskAssumption DEF Snapshot
    <2>2. log \in Seq(Entry) /\ Len(log) <= MaxLog
      BY DeskAssumption DEF Init
    <2>3. call \in [Handlers -> Call]
      BY RestFields DEF Init
    <2>4. turn \in Turns /\ calls \in 0..MaxCalls
      BY DeskAssumption DEF Init, Turns
    <2>5. lock \in [Turns -> Handlers \cup {None}]
      BY DEF Init
    <2>6. landed \in [Actions -> 0..2] /\ loose \subseteq Cells /\ disputed \subseteq Actions
      BY DEF Init
    <2>7. pending \in [Actions -> {"none", "pending", "resolved", "cancelled"}]
      BY DEF Init
    <2> QED
      BY <2>1, <2>2, <2>3, <2>4, <2>5, <2>6, <2>7 DEF TypeOK
  <1>3. HandlersOK
    BY KeptRest DEF Init, HandlersOK
  <1>4. LogOK /\ ToldOK
    BY DEF Init, LogOK, ToldOK, Told
  <1>5. HandOK /\ FreeOK
    BY RestFields, DeskAssumption DEF Init, HandOK, FreeOK
  <1> QED
    BY <1>2, <1>3, <1>4, <1>5 DEF IInv

(***************************************************************************)
(* Theorems.                                                               *)
(***************************************************************************)
\* The desk keeps its invariant, whoever writes rows beside it and whatever
\* fails between two statements.
THEOREM DeskHolds == Spec => []IInv
  <1>1. Init => IInv
    BY IInvInit
  <1>2. IInv /\ [Next]_vars => IInv'
    BY IInvStep
  <1> QED
    BY <1>1, <1>2, PTL DEF Spec

\* Rows, log, locks and the locals of handlers keep their types
\* (dm_dashboard_handler.go, dm_dashboard_undo.go, turn_builder_handler.go).
THEOREM DeskTyped == Spec => []TypeOK
  <1>1. IInv => TypeOK
    BY DEF IInv
  <1> QED
    BY <1>1, DeskHolds, PTL

\* A cell nobody changed since the log last told it holds what the log told
\* (the overrides' and the undo's log rows, dm_dashboard_undo.go).
THEOREM LogIsTrue == Spec => []LogTellsTheRow
  <1>1. ASSUME IInv
        PROVE  LogTellsTheRow
    <2>1. \A c, col, k, n : IsNewest(k, n, c, col) => NewestIn(log, k, n, c, col)
      BY DEF IsNewest, NewestIn, Tells, TellsIn
    <2> QED
      BY <1>1, <2>1 DEF IInv, ToldOK, Told, LogTellsTheRow
  <1> QED
    BY <1>1, DeskHolds, PTL

\* Undoing a row takes a combatant back to what the log told before that row
\* (UndoLastAction, dm_dashboard_undo.go).
THEOREM UndoIsOneStep == Spec => []UndoTakesBackOne
  <1>1. ASSUME IInv
        PROVE  UndoTakesBackOne
    <2> SUFFICES ASSUME NEW k \in DOMAIN log, NEW i \in DOMAIN log, NEW col \in Cols,
                        log[k].undoes > 0, col \in log[log[k].undoes].sure,
                        IsNewest(i, log[k].undoes - 1, log[log[k].undoes].actor, col)
                 PROVE  log[k].after[col] = log[i].after[col]
      BY DEF UndoTakesBackOne
    <2> DEFINE e == log[k].undoes
    <2>1. log \in Seq(Entry) /\ k \in 1..Len(log) /\ Len(log) \in Nat /\ DOMAIN log = 1..Len(log)
      BY <1>1 DEF IInv, TypeOK
    <2>2. e \in Nat
      <3>1. log[k] \in Entry /\ MaxLog \in Nat
        BY <2>1, DeskAssumption
      <3>2. log[k].undoes \in 0..MaxLog
        BY <3>1 DEF Entry
      <3> QED
        BY <3>1, <3>2
    <2>3. /\ e < k /\ \A x \in log[e].knows : log[k].after[x] = log[e].before[x]
      BY <1>1 DEF IInv, LogOK, RowOf
    <2>4. e \in DOMAIN log
      BY <2>1, <2>2, <2>3
    <2>5. NewestIn(log, i, e - 1, log[e].actor, col)
      BY DEF IsNewest, NewestIn, Tells, TellsIn
    <2>6. col \in log[e].knows /\ log[e].before[col] = log[i].after[col]
      BY <1>1, <2>4, <2>5 DEF IInv, LogOK, RowOf
    <2> QED
      BY <2>3, <2>6
  <1> QED
    BY <1>1, DeskHolds, PTL

\* A freeform action takes effect once unless two handlers held it or one
\* failed half way (ResolvePendingAction, freeform_action.go).
THEOREM ActionsApplyOnce == Spec => []AppliedOnce
  <1>1. ASSUME IInv
        PROVE  AppliedOnce
    <2> SUFFICES ASSUME NEW a \in Actions \ disputed
                 PROVE  /\ landed[a] <= 1
                        /\ pending[a] = "cancelled" => landed[a] = 0
                        /\ landed[a] = 1 /\ InHand(a) = {} => pending[a] = "resolved"
      BY DEF AppliedOnce
    <2>1. CASE InHand(a) = {}
      BY <1>1, <2>1 DEF IInv, FreeOK
    <2>2. CASE InHand(a) # {}
      <3>1. PICK h \in Handlers : call[h].action = a
        BY <2>2 DEF InHand
      <3>2. pending[a] = "pending" /\ landed[a] = IF call[h].step = "resolve" THEN 1 ELSE 0
        BY <1>1, <3>1 DEF IInv, HandOK
      <3> QED
        BY <2>2, <3>2
    <2> QED
      BY <2>1, <2>2
  <1> QED
    BY <1>1, DeskHolds, PTL
=============================================================================
