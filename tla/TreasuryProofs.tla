--------------------------- MODULE TreasuryProofs ---------------------------
(***************************************************************************)
(* What holds of shops, loot and purses whatever overlaps and whatever     *)
(* fails, for any number of handlers, characters and items.                *)
(***************************************************************************)
EXTENDS Treasury, FiniteSetTheorems, SequenceTheorems, TLAPS

Typed == TypeOK /\ \A h \in Calls : KnowsItsRows(call[h], DOMAIN loot)

LEMMA FinitelyMany == IsFiniteSet(PCs) /\ IsFiniteSet(Npcs)
  BY TreasuryAssumption, FS_Subset DEF Chars

(***************************************************************************)
(* Lemmas about the helpers.                                               *)
(***************************************************************************)
LEMMA NewCallTyped == NewCall \in CallType /\ NewCall.step = "idle"
  BY DEF NewCall, CallType, Steps, Empty, NoCopies

\* Locals rewritten in several places at once keep their type.
Ways == Chars \cup (Npcs \X Items)

LEMMA ChargeReady ==
    ASSUME NEW c \in CallType, NEW p \in Chars, NEW i \in Items,
           NEW b \in [Items -> Int], NEW o \in [Items -> Int], NEW q \in Int
    PROVE  [c EXCEPT !.step = "charge", !.to = p, !.item = i, !.qty = q, !.theirs = b,
                     !.hand = o] \in CallType
  BY DEF CallType, Steps

LEMMA StowReady ==
    ASSUME NEW c \in CallType, NEW t \in SUBSET Ways, NEW k \in Int
    PROVE  [c EXCEPT !.step = "stow", !.todo = t, !.coin = k] \in CallType
  <1>1. "stow" \in Steps
    BY DEF Steps
  <1> QED BY <1>1 DEF CallType, Ways

\* A handler that is done knows nothing.
LEMMA NewCallKnows == \A rows : KnowsItsRows(NewCall, rows)
  BY DEF NewCall, KnowsItsRows

LEMMA PlusTyped ==
    ASSUME NEW b \in [Items -> Int], NEW i \in Items, NEW q \in Int
    PROVE  Plus(b, i, q) \in [Items -> Int] /\ Plus(b, i, -q) \in [Items -> Int]
  BY DEF Plus

LEMMA EmptyTyped == Empty \in [Items -> Int]
  BY DEF Empty

LEMMA BagRewritten ==
    ASSUME PeopleOK, NEW c \in Chars, NEW b \in [Items -> Int], gold' = gold,
           bag' = [bag EXCEPT ![c] = b]
    PROVE  PeopleOK'
  BY DEF PeopleOK

LEMMA GoldRewritten ==
    ASSUME PeopleOK, NEW c \in Chars, NEW v \in Nat, bag' = bag,
           gold' = [gold EXCEPT ![c] = v]
    PROVE  PeopleOK'
  BY DEF PeopleOK

LEMMA RowRewritten ==
    ASSUME LootOK, NEW r \in DOMAIN loot, NEW e \in Row, loot' = [loot EXCEPT ![r] = e]
    PROVE  loot' \in Seq(Row) /\ Len(loot') = Len(loot) /\ DOMAIN loot' = DOMAIN loot
  BY DEF LootOK

LEMMA WinnersRewritten ==
    ASSUME LootOK, NEW r \in DOMAIN loot, winners' = [winners EXCEPT ![r] = @ + 1]
    PROVE  winners' \in Seq(Nat) /\ Len(winners') = Len(winners)
  <1>1. r \in 1..Len(winners)
    BY DEF LootOK
  <1>2. winners[r] \in Nat
    BY <1>1 DEF LootOK
  <1>3. winners' = [winners EXCEPT ![r] = winners[r] + 1] /\ winners[r] + 1 \in Nat
    BY <1>2
  <1> QED BY <1>1, <1>3, ExceptSeq DEF LootOK

LEMMA RowAdded ==
    ASSUME LootOK, NEW i \in Items, NEW q \in Int, AddRow(i, q)
    PROVE  LootOK' /\ DOMAIN loot \subseteq DOMAIN loot'
  <1> DEFINE e == [item |-> i, qty |-> q, by |-> Nobody]
  <1>1. e \in Row
    BY DEF Row
  <1>2. /\ loot' \in Seq(Row) /\ Len(loot') = Len(loot) + 1
        /\ DOMAIN loot = 1..Len(loot) /\ DOMAIN loot' = 1..(Len(loot) + 1)
    BY <1>1 DEF LootOK, AddRow
  <1>3. winners' \in Seq(Nat) /\ Len(winners') = Len(winners) + 1
    BY DEF LootOK, AddRow
  <1> QED BY <1>2, <1>3 DEF LootOK

\* An even share of what the pool holds is a natural number.
LEMMA ShareTyped ==
    ASSUME NEW c, c.total \in Int, c.total > 0, PCs # {}
    PROVE  Share(c) \in Nat
  <1>1. Cardinality(PCs) \in Nat \ {0}
    BY FinitelyMany, FS_CardinalityType, FS_EmptySet
  <1>2. \A m \in Nat, n \in Nat \ {0} : m \div n \in Nat
    OBVIOUS
  <1> QED BY <1>1, <1>2 DEF Share

(***************************************************************************)
(* Lemmas about steps: what is left alone keeps its type, and a handler    *)
(* that changes its own locals keeps the others'.                          *)
(***************************************************************************)
LEMMA Kept ==
    ASSUME TypeOK
    PROVE  /\ UNCHANGED people => PeopleOK'
           /\ UNCHANGED chest => PoolOK' /\ LootOK'
           /\ UNCHANGED pool => PoolOK'
           /\ UNCHANGED <<loot, winners>> => LootOK'
           /\ UNCHANGED trade => TradeOK'
           /\ UNCHANGED edits => EditsOK'
           /\ UNCHANGED faults => FaultsOK'
  BY DEF TypeOK, PeopleOK, PoolOK, LootOK, TradeOK, EditsOK, FaultsOK,
         people, chest, trade, edits, faults

Counts == starts' = starts \/ (starts < MaxStarts /\ starts' = starts + 1)

LEMMA StartsTyped == ASSUME TypeOK, Counts PROVE starts' \in 0..MaxStarts
  BY TreasuryAssumption DEF TypeOK, CallsOK, Counts

LEMMA HandlerStep ==
    ASSUME Typed, NEW h \in Calls, NEW c \in CallType, call' = [call EXCEPT ![h] = c],
           KnowsItsRows(c, DOMAIN loot'), DOMAIN loot \subseteq DOMAIN loot', Counts
    PROVE  CallsOK' /\ \A g \in Calls : KnowsItsRows(call[g], DOMAIN loot)'
  <1>1. call' \in [Calls -> CallType] /\ call'[h] = c
    BY DEF Typed, TypeOK, CallsOK
  <1>2. ASSUME NEW g \in Calls, g # h PROVE KnowsItsRows(call[g], DOMAIN loot)'
    BY <1>2 DEF Typed, TypeOK, CallsOK, KnowsItsRows
  <1> QED BY <1>1, <1>2, StartsTyped DEF CallsOK, Typed

\* The same for a handler that returns.
LEMMA HandlerReturns ==
    ASSUME Typed, NEW h \in Calls, Done(h), DOMAIN loot \subseteq DOMAIN loot', Counts
    PROVE  CallsOK' /\ \A g \in Calls : KnowsItsRows(call[g], DOMAIN loot)'
  BY HandlerStep, NewCallTyped, NewCallKnows DEF Done, Goes

LEMMA FlagTyped ==
    ASSUME TypeOK, NEW a, NEW b, FromCopy(a, b), cutShort' = cutShort
    PROVE  FaultsOK'
  BY DEF TypeOK, FaultsOK, FromCopy

\* What the locals of a handler hold.
LEMMA LocalsTyped ==
    ASSUME Typed, NEW h \in Calls
    PROVE  /\ call[h] \in CallType /\ KnowsItsRows(call[h], DOMAIN loot)
           /\ call[h].qty \in Int /\ call[h].total \in Int /\ call[h].coin \in Int
           /\ call[h].row \in Nat
           /\ call[h].mine \in [Items -> Int] /\ call[h].theirs \in [Items -> Int]
           /\ call[h].hand \in [Items -> Int]
           /\ call[h].purses \in [Chars -> Nat]
           /\ call[h].copies \in [Chars -> [Items -> Int]]
  <1>1. call[h] \in CallType /\ KnowsItsRows(call[h], DOMAIN loot)
    BY DEF Typed, TypeOK, CallsOK
  <1> QED BY <1>1 DEF CallType

(***************************************************************************)
(* Every action keeps the types.                                           *)
(***************************************************************************)
LEMMA ClaimTyped ==
    ASSUME Typed, NEW h \in Calls,
           AskClaim(h) \/ TakeRow(h) \/ MissRow(h) \/ Grant(h)
    PROVE  Typed'
  <1> USE NewCallTyped, NewCallKnows
  <1>0. TypeOK /\ CallsOK /\ LootOK /\ PeopleOK
    BY DEF Typed, TypeOK
  <1>1. CASE AskClaim(h)
    <2>1. PICK c \in PCs, r \in DOMAIN loot :
             Begins(h, [NewCall EXCEPT !.step = "take", !.to = c, !.row = r])
      BY <1>1 DEF AskClaim
    <2> DEFINE d == [NewCall EXCEPT !.step = "take", !.to = c, !.row = r]
    <2>2. UNCHANGED <<people, chest, trade, edits, faults>>
      BY <1>1 DEF AskClaim
    <2>3. r \in Nat /\ DOMAIN loot' = DOMAIN loot
      BY <1>0, <2>2 DEF LootOK, chest
    <2>4. d \in CallType /\ KnowsItsRows(d, DOMAIN loot')
      BY ZenonT(40), <2>3 DEF NewCall, CallType, Steps, Chars, KnowsItsRows
    <2>5. call' = [call EXCEPT ![h] = d] /\ Counts
      BY <2>1 DEF Begins, Counts
    <2>6. CallsOK' /\ \A g \in Calls : KnowsItsRows(call[g], DOMAIN loot)'
      BY <2>3, <2>4, <2>5, HandlerStep
    <2> QED BY <1>0, <2>2, <2>6, Kept DEF Typed, TypeOK
  <1>2. CASE TakeRow(h)
    <2> DEFINE c == call[h]
               r == loot[c.row]
               d == [c EXCEPT !.step = "grant", !.item = r.item, !.qty = r.qty,
                              !.theirs = bag[c.to],
                              !.hand = Plus(Empty, r.item, r.qty)]
    <2>1. c \in CallType /\ c.row \in DOMAIN loot /\ c.to \in PCs
      BY <1>2, LocalsTyped DEF TakeRow, At, KnowsItsRows
    <2>2. r \in Row /\ r.item \in Items /\ r.qty \in Int
      <3>1. loot[c.row] \in Row
        BY <1>0, <2>1, ElementOfSeq DEF LootOK
      <3> QED BY <3>1 DEF Row
    <2>3. Plus(Empty, r.item, r.qty) \in [Items -> Int] /\ bag[c.to] \in [Items -> Int]
      BY <1>0, <2>1, <2>2, PlusTyped, EmptyTyped DEF PeopleOK, Chars
    <2>4. d \in CallType /\ d.step = "grant" /\ d.to = c.to /\ d.item = r.item
      BY <2>1, <2>2, <2>3 DEF CallType, Steps
    <2>5. KnowsItsRows(d, DOMAIN loot')
      BY <2>1, <2>2, <2>4 DEF KnowsItsRows
    <2>6. /\ [r EXCEPT !.by = c.to] \in Row
          /\ loot' = [loot EXCEPT ![c.row] = [r EXCEPT !.by = c.to]]
      BY <1>2, <2>1, <2>2 DEF TakeRow, Row
    <2>7. loot' \in Seq(Row) /\ Len(loot') = Len(loot) /\ DOMAIN loot' = DOMAIN loot
      BY <1>0, <2>1, <2>6, RowRewritten
    <2>8. winners' = [winners EXCEPT ![c.row] = @ + 1]
      BY <1>2 DEF TakeRow
    <2>9. winners' \in Seq(Nat) /\ Len(winners') = Len(winners)
      BY <1>0, <2>1, <2>8, WinnersRewritten
    <2>10. LootOK'
      BY <1>0, <2>7, <2>9 DEF LootOK
    <2>11. CallsOK' /\ \A g \in Calls : KnowsItsRows(call[g], DOMAIN loot)'
      BY <1>2, <2>4, <2>5, <2>7, HandlerStep DEF TakeRow, Goes, At, Counts
    <2>12. UNCHANGED <<pool, people, trade, edits, faults>>
      BY <1>2 DEF TakeRow
    <2> QED BY <1>0, <2>10, <2>11, <2>12, Kept DEF Typed, TypeOK
  <1>3. CASE MissRow(h)
    <2>1. UNCHANGED <<people, chest, trade, edits, faults>> /\ Counts /\ Done(h)
      BY <1>3 DEF MissRow, At, Counts
    <2> QED BY <1>0, <2>1, Kept, HandlerReturns DEF Typed, TypeOK, chest
  <1>4. CASE Grant(h)
    <2>1. UNCHANGED <<gold, cutShort, chest, trade, edits>> /\ Counts /\ Done(h)
      BY <1>4 DEF Grant, At, Counts
    <2>2. call[h].to \in Chars /\ call[h].item \in Items
      BY <1>4, LocalsTyped DEF Grant, At, KnowsItsRows, Chars
    <2>3. PeopleOK'
      BY <1>0, <1>4, <2>1, <2>2, LocalsTyped, PlusTyped, BagRewritten DEF Grant
    <2>4. FaultsOK'
      BY <1>0, <1>4, <2>1, FlagTyped DEF Grant
    <2> QED BY <1>0, <2>1, <2>3, <2>4, Kept, HandlerReturns DEF Typed, TypeOK, chest
  <1> QED BY <1>1, <1>2, <1>3, <1>4

LEMMA BuyTyped ==
    ASSUME Typed, NEW h \in Calls,
           Reserve(h) \/ Charge(h) \/ AbortBuy(h) \/ Restore(h)
    PROVE  Typed'
  <1>0. TypeOK /\ CallsOK /\ LootOK /\ PeopleOK /\ TradeOK
    BY DEF Typed, TypeOK
  <1>1. CASE Reserve(h)
    <2>1. PICK c \in PCs, w \in Wares :
             /\ InStock(w) /\ shelf' = [shelf EXCEPT ![w] = @ - 1]
             /\ Begins(h, [NewCall EXCEPT !.step = "charge", !.to = c, !.item = w,
                               !.qty = 1, !.theirs = bag[c], !.hand = Plus(Empty, w, 1)])
             /\ UNCHANGED <<sold, stocked, people, chest, edits, faults>>
      BY <1>1 DEF Reserve
    <2> DEFINE d == [NewCall EXCEPT !.step = "charge", !.to = c, !.item = w,
                               !.qty = 1, !.theirs = bag[c], !.hand = Plus(Empty, w, 1)]
    <2>2. w \in Items /\ bag[c] \in [Items -> Int] /\ Plus(Empty, w, 1) \in [Items -> Int]
      <3>1. w \in Items /\ bag[c] \in [Items -> Int]
        BY <1>0, TreasuryAssumption DEF PeopleOK, Chars
      <3>2. Plus(Empty, w, 1) \in [Items -> Int]
        BY <3>1, EmptyTyped DEF Plus
      <3> QED BY <3>1, <3>2
    <2>3. d \in CallType /\ KnowsItsRows(d, DOMAIN loot')
      <3>1. d \in CallType
        <4>1. 1 \in Int /\ c \in Chars
          BY DEF Chars
        <4> QED BY <2>2, <4>1, NewCallTyped, ChargeReady
      <3>2. d.step = "charge" /\ d.to = c /\ d.item = w
        BY DEF NewCall
      <3> QED BY <3>1, <3>2 DEF KnowsItsRows
    <2>4. call' = [call EXCEPT ![h] = d] /\ Counts
      BY <2>1 DEF Begins, Counts
    <2>5. TradeOK'
      BY <1>0, <2>1 DEF TradeOK, InStock
    <2> QED BY <1>0, <2>1, <2>3, <2>4, <2>5, HandlerStep, Kept DEF Typed, TypeOK, chest
  <1>2. CASE Charge(h)
    <2> DEFINE c == call[h]
    <2>1. c.to \in Chars /\ c.item \in Wares /\ c.item \in Items /\ c.theirs \in [Items -> Int]
      BY <1>2, LocalsTyped, TreasuryAssumption DEF Charge, At, KnowsItsRows, Chars
    <2>2. gold[c.to] - Price[c.item] \in Nat
      <3>1. gold[c.to] \in Nat /\ Price[c.item] \in Nat /\ gold[c.to] >= Price[c.item]
        BY <1>0, <1>2, <2>1, TreasuryAssumption DEF PeopleOK, Charge, CanPay
      <3> QED BY <3>1
    <2>3. Plus(c.theirs, c.item, 1) \in [Items -> Int]
      BY <2>1 DEF Plus
    <2>4. PeopleOK'
      BY <1>0, <1>2, <2>1, <2>2, <2>3 DEF PeopleOK, Charge
    <2>5. TradeOK' /\ FaultsOK'
      BY <1>0, <1>2, <2>1, FlagTyped DEF TradeOK, Charge
    <2>6. UNCHANGED <<chest, edits>> /\ Counts /\ Done(h)
      BY <1>2 DEF Charge, At, Counts
    <2> QED BY <1>0, <2>4, <2>5, <2>6, Kept, HandlerReturns DEF Typed, TypeOK, chest
  <1>3. CASE AbortBuy(h)
    <2> DEFINE d == [call[h] EXCEPT !.step = "restore"]
    <2>1. UNCHANGED <<people, chest, trade, edits, faults>> /\ Counts
          /\ call' = [call EXCEPT ![h] = d] /\ call[h].step = "charge"
      BY <1>3 DEF AbortBuy, At, Counts, Goes
    <2>2. call[h] \in CallType /\ call[h].to \in PCs /\ call[h].item \in Wares
      BY <2>1, LocalsTyped DEF KnowsItsRows
    <2>3. d \in CallType /\ d.step = "restore" /\ d.to = call[h].to /\ d.item = call[h].item
      BY <2>2 DEF CallType, Steps
    <2>4. KnowsItsRows(d, DOMAIN loot')
      BY <2>2, <2>3 DEF KnowsItsRows
    <2> QED BY <1>0, <2>1, <2>3, <2>4, Kept, HandlerStep DEF Typed, TypeOK, chest
  <1>4. CASE Restore(h)
    <2>1. UNCHANGED <<people, chest, edits, faults>> /\ Counts /\ Done(h)
          /\ sold' = sold /\ stocked' = stocked
      BY <1>4 DEF Restore, At, Counts, Restored, Done
    <2>2. call[h].item \in Wares
      BY <1>4, LocalsTyped DEF Restore, At, KnowsItsRows
    <2>3. TradeOK'
      BY <1>0, <1>4, <2>1, <2>2 DEF TradeOK, Restore
    <2> QED BY <1>0, <2>1, <2>3, Kept, HandlerReturns DEF Typed, TypeOK, chest
  <1> QED BY <1>1, <1>2, <1>3, <1>4

LEMMA GiftTyped ==
    ASSUME Typed, NEW h \in Calls,
           LookIntoBag(h) \/ MeetReceiver(h) \/ HandOver(h) \/ ReadBag(h) \/ Amend(h)
    PROVE  Typed'
  <1>0. TypeOK /\ CallsOK /\ PeopleOK /\ EditsOK /\ (\A q \in Parcels : q \in Int)
    BY TreasuryAssumption DEF Typed, TypeOK
  <1>1. CASE LookIntoBag(h)
    <2>1. PICK from \in PCs, to \in PCs, i \in Items, q \in Parcels :
             Begins(h, [NewCall EXCEPT !.step = "meet", !.from = from, !.to = to,
                            !.item = i, !.qty = q, !.mine = bag[from]])
      BY <1>1 DEF LookIntoBag
    <2> DEFINE d == [NewCall EXCEPT !.step = "meet", !.from = from, !.to = to,
                            !.item = i, !.qty = q, !.mine = bag[from]]
    <2>2. bag[from] \in [Items -> Int] /\ q \in Int
      BY <1>0 DEF PeopleOK, Chars
    <2>3. d \in CallType /\ KnowsItsRows(d, DOMAIN loot')
      BY ZenonT(40), <2>2, NewCallTyped DEF NewCall, CallType, Steps, Chars, KnowsItsRows
    <2>4. UNCHANGED <<people, chest, trade, edits, faults>> /\ Counts
          /\ call' = [call EXCEPT ![h] = d]
      BY <1>1, <2>1 DEF LookIntoBag, Begins, Counts
    <2> QED BY <1>0, <2>3, <2>4, Kept, HandlerStep DEF Typed, TypeOK, chest
  <1>2. CASE MeetReceiver(h)
    <2> DEFINE c == call[h]
               d == [c EXCEPT !.step = "hand", !.theirs = bag[c.to]]
    <2>1. UNCHANGED <<people, chest, trade, edits, faults>> /\ Counts
          /\ (Goes(h, d) \/ Done(h)) /\ c.step = "meet"
      BY <1>2 DEF MeetReceiver, At, Counts
    <2>2. bag[c.to] \in [Items -> Int]
      BY <1>0, <2>1, LocalsTyped DEF PeopleOK, KnowsItsRows, Chars
    <2>3. /\ c \in CallType /\ c.to \in PCs /\ c.item \in Items /\ c.from \in PCs
      BY <2>1, LocalsTyped DEF KnowsItsRows
    <2>4. /\ d \in CallType /\ d.step = "hand"
          /\ d.to = c.to /\ d.item = c.item /\ d.from = c.from
      BY <2>2, <2>3 DEF CallType, Steps
    <2>5. KnowsItsRows(d, DOMAIN loot')
      BY <2>3, <2>4 DEF KnowsItsRows
    <2> QED BY <1>0, <2>1, <2>4, <2>5, Kept, HandlerStep, HandlerReturns
            DEF Typed, TypeOK, chest, Goes
  <1>3. CASE HandOver(h)
    <2> DEFINE c == call[h]
    <2>1. UNCHANGED <<gold, cutShort, chest, trade, edits>> /\ Counts /\ Done(h)
      BY <1>3 DEF HandOver, At, Counts
    <2>2. c.from \in Chars /\ c.to \in Chars /\ c.item \in Items
      BY <1>3, LocalsTyped DEF HandOver, At, KnowsItsRows, Chars
    <2>3. /\ Plus(c.mine, c.item, -c.qty) \in [Items -> Int]
          /\ Plus(c.theirs, c.item, c.qty) \in [Items -> Int]
      BY <2>2, LocalsTyped, PlusTyped
    <2>4. PeopleOK'
      BY <1>0, <1>3, <2>1, <2>2, <2>3 DEF PeopleOK, HandOver
    <2>5. FaultsOK'
      BY <1>0, <1>3, <2>1, FlagTyped DEF HandOver
    <2> QED BY <1>0, <2>1, <2>4, <2>5, Kept, HandlerReturns DEF Typed, TypeOK, chest
  <1>4. CASE ReadBag(h)
    <2>1. PICK c \in PCs, i \in Items, q \in Int :
             Begins(h, [NewCall EXCEPT !.step = "amend", !.to = c, !.item = i,
                            !.qty = q, !.mine = bag[c]])
      <3>1. ASSUME NEW q \in Parcels PROVE q \in Int /\ -q \in Int
        BY <1>0
      <3> QED BY <3>1, <1>4 DEF ReadBag
    <2> DEFINE d == [NewCall EXCEPT !.step = "amend", !.to = c, !.item = i,
                            !.qty = q, !.mine = bag[c]]
    <2>2. bag[c] \in [Items -> Int]
      BY <1>0 DEF PeopleOK, Chars
    <2>3. d \in CallType /\ KnowsItsRows(d, DOMAIN loot')
      BY ZenonT(40), <2>2, NewCallTyped DEF NewCall, CallType, Steps, Chars, KnowsItsRows
    <2>4. UNCHANGED <<people, chest, trade, edits, faults>> /\ Counts
          /\ call' = [call EXCEPT ![h] = d]
      BY <1>4, <2>1 DEF ReadBag, Begins, Counts
    <2> QED BY <1>0, <2>3, <2>4, Kept, HandlerStep DEF Typed, TypeOK, chest
  <1>5. CASE Amend(h)
    <2> DEFINE c == call[h]
    <2>1. UNCHANGED <<gold, coined, cutShort, chest, trade>> /\ Counts /\ Done(h)
      BY <1>5 DEF Amend, At, Counts
    <2>2. c.to \in Chars /\ c.item \in Items /\ c.qty \in Int
      BY <1>5, LocalsTyped DEF Amend, At, KnowsItsRows, Chars
    <2>3. /\ Plus(c.mine, c.item, c.qty) \in [Items -> Int]
          /\ Plus(made, c.item, c.qty) \in [Items -> Int]
      BY <1>0, <2>2, LocalsTyped, PlusTyped DEF EditsOK
    <2>4. PeopleOK' /\ EditsOK'
      BY <1>0, <1>5, <2>1, <2>2, <2>3, BagRewritten DEF EditsOK, Amend
    <2>5. FaultsOK'
      BY <1>0, <1>5, <2>1, FlagTyped DEF Amend
    <2> QED BY <1>0, <2>1, <2>4, <2>5, Kept, HandlerReturns DEF Typed, TypeOK, chest
  <1> QED BY <1>1, <1>2, <1>3, <1>4, <1>5

LEMMA NextTyped ==
    ASSUME NEW c \in CallType, NEW x \in Npcs, c.todo \subseteq Npcs, NEW then \in Steps
    PROVE  LET d == Next1(c, x, then)
           IN  d \in CallType /\ d.todo \subseteq Npcs /\ d.step \in {c.step, then}
  BY DEF Next1, CallType, Chars

\* A read of one creature, come through or not.
ReadOf(b, n, c) ==
    /\ n \in b.todo /\ n \in Chars /\ n \in Npcs
    /\ c \in CallType
    /\ c.step = "gather" /\ b.step = "gather" /\ c.todo = b.todo /\ b.todo \subseteq Npcs
    /\ c.hand = b.hand /\ c.coin = b.coin /\ c.mine = b.mine /\ c.theirs = b.theirs
    /\ c.copies = b.copies \/ c.copies = [b.copies EXCEPT ![n] = bag[n]]

LEMMA GatherReads ==
    ASSUME Typed, NEW h \in Calls, Gather(h)
    PROVE  \E n \in Npcs, c \in CallType :
              ReadOf(call[h], n, c) /\ Goes(h, Next1(c, n, "stripGold"))
  <1> DEFINE b == call[h]
             All(n) == [b EXCEPT !.purses[n] = gold[n], !.copies[n] = bag[n]]
             Purse1(n) == [b EXCEPT !.purses[n] = gold[n], !.unread = @ \cup {n}]
             Blind(n) == [b EXCEPT !.unseen = @ \cup {n}, !.unread = @ \cup {n}]
  <1>1. PICK n \in b.todo :
           \/ Goes(h, Next1(All(n), n, "stripGold"))
           \/ Goes(h, Next1(Purse1(n), n, "stripGold"))
           \/ Goes(h, Next1(Blind(n), n, "stripGold"))
    BY DEF Gather
  <1>2. /\ b \in CallType /\ b.todo \subseteq Npcs /\ n \in Npcs /\ n \in Chars /\ b.step = "gather"
        /\ gold[n] \in Nat /\ bag[n] \in [Items -> Int]
    BY LocalsTyped DEF Gather, At, KnowsItsRows, Chars, Typed, TypeOK, PeopleOK
  <1>3. /\ b.unseen \cup {n} \in SUBSET Chars /\ b.unread \cup {n} \in SUBSET Chars
        /\ [b.purses EXCEPT ![n] = gold[n]] \in [Chars -> Nat]
        /\ [b.copies EXCEPT ![n] = bag[n]] \in [Chars -> [Items -> Int]]
    <2>1. b.unseen \in SUBSET Chars /\ b.unread \in SUBSET Chars
      BY <1>2 DEF CallType
    <2>2. b.purses \in [Chars -> Nat] /\ b.copies \in [Chars -> [Items -> Int]]
      BY LocalsTyped
    <2> QED BY <1>2, <2>1, <2>2
  <1>4. /\ All(n) \in CallType /\ All(n).step = b.step /\ All(n).todo = b.todo
        /\ All(n).hand = b.hand /\ All(n).coin = b.coin /\ All(n).mine = b.mine
        /\ All(n).theirs = b.theirs /\ All(n).copies = [b.copies EXCEPT ![n] = bag[n]]
    BY ZenonT(40), <1>2, <1>3 DEF CallType
  <1>5. /\ Purse1(n) \in CallType /\ Purse1(n).step = b.step /\ Purse1(n).todo = b.todo
        /\ Purse1(n).hand = b.hand /\ Purse1(n).coin = b.coin /\ Purse1(n).mine = b.mine
        /\ Purse1(n).theirs = b.theirs /\ Purse1(n).copies = b.copies
    BY ZenonT(40), <1>2, <1>3 DEF CallType
  <1>6. /\ Blind(n) \in CallType /\ Blind(n).step = b.step /\ Blind(n).todo = b.todo
        /\ Blind(n).hand = b.hand /\ Blind(n).coin = b.coin /\ Blind(n).mine = b.mine
        /\ Blind(n).theirs = b.theirs /\ Blind(n).copies = b.copies
    BY ZenonT(40), <1>2, <1>3 DEF CallType
  <1> HIDE DEF All, Purse1, Blind
  <1>7. ReadOf(b, n, All(n)) /\ ReadOf(b, n, Purse1(n)) /\ ReadOf(b, n, Blind(n))
    <2> HIDE DEF b
    <2> QED BY <1>1, <1>2, <1>4, <1>5, <1>6 DEF ReadOf
  <1> QED BY <1>1, <1>2, <1>4, <1>5, <1>6, <1>7

LEMMA PoolTyped ==
    ASSUME Typed, NEW h \in Calls,
           Survey(h) \/ Gather(h) \/ StripGold(h) \/ StripBag(h)
    PROVE  Typed'
  <1>0. TypeOK /\ CallsOK /\ PeopleOK
    BY DEF Typed, TypeOK
  <1>1. CASE Survey(h)
    <2> DEFINE d == [NewCall EXCEPT !.step = IF Npcs = {} THEN "found" ELSE "gather",
                                    !.todo = Npcs]
    <2>1. UNCHANGED <<people, chest, trade, edits, faults>> /\ Counts
          /\ call' = [call EXCEPT ![h] = d]
      BY <1>1 DEF Survey, Begins, Counts
    <2>2. d \in CallType /\ KnowsItsRows(d, DOMAIN loot')
      <3>1. d \in CallType
        <4>1. Npcs \in SUBSET (Chars \cup (Npcs \X Items))
          BY DEF Chars
        <4>2. (IF Npcs = {} THEN "found" ELSE "gather") \in Steps
          BY DEF Steps
        <4> QED BY <4>1, <4>2, NewCallTyped DEF CallType
      <3>2. d.step \in {"found", "gather"} /\ d.todo = Npcs
        BY DEF NewCall
      <3> QED BY <3>1, <3>2 DEF KnowsItsRows
    <2> QED BY <1>0, <2>1, <2>2, Kept, HandlerStep DEF Typed, TypeOK, chest
  <1>2. CASE Gather(h)
    <2>0. PICK n \in Npcs, c \in CallType :
             ReadOf(call[h], n, c) /\ Goes(h, Next1(c, n, "stripGold"))
      BY <1>2, GatherReads
    <2>1. /\ call' = [call EXCEPT ![h] = Next1(c, n, "stripGold")]
          /\ c.step = "gather" /\ c.todo \subseteq Npcs
      BY <2>0 DEF ReadOf, Goes
    <2> DEFINE d == Next1(c, n, "stripGold")
    <2>2. d \in CallType /\ d.todo \subseteq Npcs /\ d.step \in {"gather", "stripGold"}
      <3>1. "stripGold" \in Steps
        BY DEF Steps
      <3> QED BY <2>1, <3>1, NextTyped
    <2>3. KnowsItsRows(d, DOMAIN loot')
      BY <2>2 DEF KnowsItsRows
    <2>4. UNCHANGED <<people, chest, trade, edits, faults>> /\ Counts
          /\ call' = [call EXCEPT ![h] = d]
      BY <1>2, <2>1 DEF Gather, At, Counts
    <2> QED BY <1>0, <2>2, <2>3, <2>4, Kept, HandlerStep DEF Typed, TypeOK, chest
  <1>3. CASE StripGold(h)
    <2> DEFINE c == call[h]
    <2>1. PICK n \in c.todo :
             /\ gold' = [gold EXCEPT ![n] = 0]
             /\ IF n \in c.unseen
                THEN coined' = coined + c.purses[n] - gold[n] /\ UNCHANGED overwritten
                ELSE FromCopy(c.purses[n], gold[n]) /\ UNCHANGED coined
             /\ Goes(h, [c EXCEPT !.step = "stripBag", !.from = n, !.coin = @ + c.purses[n]])
      BY <1>3 DEF StripGold
    <2> DEFINE d == [c EXCEPT !.step = "stripBag", !.from = n, !.coin = @ + c.purses[n]]
    <2>2. n \in Npcs /\ n \in Chars /\ c.todo \subseteq Npcs
      BY <1>3, LocalsTyped DEF StripGold, At, KnowsItsRows, Chars
    <2>3. c.coin + c.purses[n] \in Int
      BY <2>2, LocalsTyped
    <2>4. d \in CallType /\ KnowsItsRows(d, DOMAIN loot')
      <3>1. c \in CallType
        BY LocalsTyped
      <3>2. d \in CallType /\ d.step = "stripBag" /\ d.from = n /\ d.todo = c.todo
        BY <2>2, <2>3, <3>1 DEF CallType, Steps, Chars
      <3> QED BY <2>2, <3>2 DEF KnowsItsRows
    <2>5. UNCHANGED <<bag, made, cutShort, chest, trade>> /\ Counts
          /\ call' = [call EXCEPT ![h] = d]
      BY <1>3, <2>1 DEF StripGold, At, Counts, Goes
    <2>6. PeopleOK'
      BY <1>0, <2>1, <2>2, <2>5, GoldRewritten
    <2>7. FaultsOK' /\ EditsOK'
      <3>1. c.purses[n] \in Int /\ gold[n] \in Int /\ coined \in Int /\ made \in [Items -> Int]
        BY <1>0, <2>2, LocalsTyped DEF TypeOK, PeopleOK, EditsOK
      <3>2. CASE n \in c.unseen
        BY <1>0, <2>1, <2>5, <3>1, <3>2 DEF TypeOK, FaultsOK, EditsOK
      <3>3. CASE n \notin c.unseen
        BY <1>0, <2>1, <2>5, <3>1, <3>3, FlagTyped DEF EditsOK
      <3> QED BY <3>2, <3>3
    <2> QED BY <1>0, <2>4, <2>5, <2>6, <2>7, Kept, HandlerStep DEF Typed, TypeOK, chest
  <1>4. CASE StripBag(h)
    <2> DEFINE n == call[h].from
               c == [call[h] EXCEPT !.step = "stripGold",
                                    !.hand = Both(call[h].hand, call[h].copies[n])]
               d == Next1(c, n, "found")
    <2>1. n \in Npcs /\ n \in Chars /\ call[h].todo \subseteq Npcs
      BY <1>4, LocalsTyped DEF StripBag, At, KnowsItsRows, Chars
    <2>2. Both(call[h].hand, call[h].copies[n]) \in [Items -> Int]
      BY <2>1, LocalsTyped DEF Both
    <2>3. c \in CallType /\ c.todo \subseteq Npcs /\ c.step = "stripGold"
      <3>1. call[h] \in CallType
        BY LocalsTyped
      <3> QED BY <2>1, <2>2, <3>1 DEF CallType, Steps
    <2>4. d \in CallType /\ d.todo \subseteq Npcs /\ d.step \in {"stripGold", "found"}
      <3>1. "found" \in Steps
        BY DEF Steps
      <3> HIDE DEF c
      <3> QED BY <2>1, <2>3, <3>1, NextTyped
    <2>5. KnowsItsRows(d, DOMAIN loot')
      BY <2>4 DEF KnowsItsRows
    <2>6. UNCHANGED <<gold, coined, cutShort, chest, trade>> /\ Counts
          /\ call' = [call EXCEPT ![h] = d]
      BY <1>4 DEF StripBag, At, Counts, Goes
    <2>7. bag' = [bag EXCEPT ![n] = Empty]
      BY <1>0, <1>4, <2>1 DEF StripBag, Cleared, PeopleOK
    <2>8. PeopleOK'
      BY <1>0, <2>1, <2>6, <2>7, BagRewritten, EmptyTyped
    <2>9. FaultsOK' /\ EditsOK'
      <3> DEFINE a == call[h]
      <3>1. Both(made, Less(a.copies[n], bag[n])) \in [Items -> Int]
        <4>1. /\ made \in [Items -> Int] /\ bag[n] \in [Items -> Int]
              /\ a.copies[n] \in [Items -> Int]
          BY <1>0, <2>1, LocalsTyped DEF TypeOK, PeopleOK, EditsOK
        <4> QED BY <4>1 DEF Both, Less
      <3>2. CASE n \in a.unread
        <4>1. made' = Both(made, Less(a.copies[n], bag[n])) /\ UNCHANGED overwritten
          BY <1>4, <3>2 DEF StripBag
        <4> QED BY <1>0, <2>6, <3>1, <4>1 DEF TypeOK, FaultsOK, EditsOK
      <3>3. CASE n \notin a.unread
        <4>1. FromCopy(a.copies[n], bag[n]) /\ UNCHANGED made
          BY <1>4, <3>3 DEF StripBag
        <4> QED BY <1>0, <2>6, <4>1, FlagTyped DEF TypeOK, EditsOK
      <3> QED BY <3>2, <3>3
    <2> QED BY <1>0, <2>4, <2>5, <2>6, <2>8, <2>9, Kept, HandlerStep DEF Typed, TypeOK, chest
  <1> QED BY <1>1, <1>2, <1>3, <1>4

LEMMA StowTyped ==
    ASSUME Typed, NEW h \in Calls, Found(h) \/ FoundTooLate(h) \/ Stow(h)
    PROVE  Typed'
  <1>0. TypeOK /\ CallsOK /\ LootOK /\ PoolOK /\ FaultsOK
    BY DEF Typed, TypeOK
  <1>1. CASE Found(h)
    <2> DEFINE c == call[h]
               d == [c EXCEPT !.step = "stow", !.todo = Finds(c), !.coin = 0]
    <2>1. UNCHANGED <<loot, winners, people, trade, edits, faults>> /\ Counts
          /\ (Goes(h, d) \/ Done(h)) /\ pool' = [status |-> "open", gold |-> c.coin]
      BY <1>1 DEF Found, At, Counts
    <2>2. PoolOK'
      BY <2>1, LocalsTyped DEF PoolOK
    <2>3. Finds(c) \subseteq Npcs \X Items
      BY DEF Finds
    <2>4. d \in CallType /\ KnowsItsRows(d, DOMAIN loot')
      <3>1. c \in CallType
        BY LocalsTyped
      <3>2. d \in CallType /\ d.step = "stow" /\ d.todo = Finds(c)
        <4>1. Finds(c) \in SUBSET Ways
          BY <2>3 DEF Ways
        <4>2. d \in CallType
          <5>1. 0 \in Int
            OBVIOUS
          <5> QED BY <3>1, <4>1, <5>1, StowReady
        <4> QED BY <3>1, <4>2 DEF CallType
      <3> QED BY <2>3, <3>2 DEF KnowsItsRows
    <2> QED BY <1>0, <2>1, <2>2, <2>4, Kept, HandlerStep, HandlerReturns DEF Typed, TypeOK, Goes
  <1>2. CASE FoundTooLate(h)
    <2>1. UNCHANGED <<overwritten, people, chest, trade, edits>> /\ Counts /\ Done(h)
          /\ cutShort' \in BOOLEAN
      BY <1>0, <1>2 DEF FoundTooLate, At, Counts, FaultsOK
    <2>2. FaultsOK'
      BY <1>0, <2>1 DEF FaultsOK
    <2> QED BY <1>0, <2>1, <2>2, Kept, HandlerReturns DEF Typed, TypeOK, chest
  <1>3. CASE Stow(h)
    <2> DEFINE c == call[h]
    <2>1. PICK f \in c.todo :
             /\ AddRow(f[2], c.copies[f[1]][f[2]])
             /\ \/ Done(h)
                \/ Goes(h, [c EXCEPT !.todo = @ \ {f},
                                     !.hand = Plus(@, f[2], -c.copies[f[1]][f[2]])])
      BY <1>3 DEF Stow
    <2> DEFINE q == c.copies[f[1]][f[2]]
               d == [c EXCEPT !.todo = @ \ {f}, !.hand = Plus(@, f[2], -q)]
    <2>2. f \in Npcs \X Items /\ c.todo \subseteq Npcs \X Items /\ c.step = "stow"
      BY <1>3, LocalsTyped DEF Stow, At, KnowsItsRows
    <2>3. f[1] \in Chars /\ f[2] \in Items
      BY <2>2 DEF Chars
    <2>4. q \in Int
      BY <2>3, LocalsTyped
    <2>5. LootOK' /\ DOMAIN loot \subseteq DOMAIN loot'
      BY <1>0, <2>1, <2>3, <2>4, RowAdded
    <2>6. Plus(c.hand, f[2], -q) \in [Items -> Int]
      BY <2>3, <2>4, LocalsTyped, PlusTyped
    <2>7. c \in CallType
      BY LocalsTyped
    <2>8. d \in CallType /\ KnowsItsRows(d, DOMAIN loot')
      BY <2>2, <2>6, <2>7 DEF CallType, KnowsItsRows
    <2>9. UNCHANGED <<pool, people, trade, edits, faults>> /\ Counts
      BY <1>3 DEF Stow, At, Counts
    <2> QED BY <1>0, <2>1, <2>5, <2>8, <2>9, Kept, HandlerStep, HandlerReturns
            DEF Typed, TypeOK, Goes
  <1> QED BY <1>1, <1>2, <1>3

LEMMA SplitTyped ==
    ASSUME Typed, NEW h \in Calls,
           AskSplit(h) \/ ListParty(h) \/ PayShare(h) \/ KeepRest(h)
    PROVE  Typed'
  <1>0. TypeOK /\ CallsOK /\ PeopleOK /\ PoolOK
    BY DEF Typed, TypeOK
  <1>1. CASE AskSplit(h)
    <2> DEFINE d == [NewCall EXCEPT !.step = "list", !.total = pool.gold]
    <2>1. UNCHANGED <<people, chest, trade, edits, faults>> /\ Counts
          /\ call' = [call EXCEPT ![h] = d] /\ pool.gold > 0
      BY <1>1 DEF AskSplit, Begins, Counts
    <2>2. pool.gold \in Int
      BY <1>0 DEF PoolOK
    <2>3. d \in CallType
      BY <2>2, NewCallTyped DEF CallType, Steps
    <2>4. d.step = "list" /\ d.total = pool.gold
      BY DEF NewCall
    <2>5. KnowsItsRows(d, DOMAIN loot')
      BY <2>1, <2>4 DEF KnowsItsRows
    <2> QED BY <1>0, <2>1, <2>3, <2>5, Kept, HandlerStep DEF Typed, TypeOK, chest
  <1>2. CASE ListParty(h)
    <2> DEFINE c == call[h]
               d == [c EXCEPT !.step = "pay", !.purses = gold, !.todo = PCs]
    <2>1. UNCHANGED <<people, chest, trade, edits, faults>> /\ Counts
          /\ call' = [call EXCEPT ![h] = d] /\ c.step = "list"
      BY <1>2 DEF ListParty, At, Counts, Goes
    <2>2. c \in CallType /\ c.total > 0 /\ gold \in [Chars -> Nat]
      BY <1>0, <2>1, LocalsTyped DEF KnowsItsRows, PeopleOK
    <2>3. d \in CallType /\ d.step = "pay" /\ d.todo = PCs /\ d.total = c.total
      BY ZenonT(40), <2>2 DEF CallType, Steps, Chars
    <2>4. KnowsItsRows(d, DOMAIN loot')
      BY <2>2, <2>3 DEF KnowsItsRows
    <2> QED BY <1>0, <2>1, <2>3, <2>4, Kept, HandlerStep DEF Typed, TypeOK, chest
  <1>3. CASE PayShare(h)
    <2> DEFINE c == call[h]
    <2>1. PICK p \in c.todo :
             /\ gold' = [gold EXCEPT ![p] = c.purses[p] + Share(c)]
             /\ FromCopy(c.purses[p], gold[p])
             /\ Goes(h, [c EXCEPT !.coin = @ - Share(c), !.todo = @ \ {p},
                                  !.step = IF c.todo = {p} THEN "rest" ELSE "pay"])
      BY <1>3 DEF PayShare
    <2> DEFINE d == [c EXCEPT !.coin = @ - Share(c), !.todo = @ \ {p},
                              !.step = IF c.todo = {p} THEN "rest" ELSE "pay"]
    <2>2. c \in CallType /\ c.total > 0 /\ c.total \in Int /\ c.todo \subseteq PCs /\ p \in PCs
      BY <1>3, LocalsTyped DEF PayShare, At, KnowsItsRows
    <2>3. Share(c) \in Nat /\ p \in Chars
      BY <2>2, ShareTyped DEF Chars
    <2>4. c.purses[p] + Share(c) \in Nat /\ c.coin - Share(c) \in Int
      <3>1. c.purses[p] \in Nat /\ c.coin \in Int
        BY <2>3, LocalsTyped
      <3> QED BY <2>3, <3>1
    <2>5. /\ d \in CallType /\ d.step \in {"rest", "pay"} /\ d.todo \subseteq PCs
          /\ d.total = c.total
      BY ZenonT(40), <2>2, <2>4 DEF CallType, Steps
    <2>6. KnowsItsRows(d, DOMAIN loot')
      BY <2>2, <2>5 DEF KnowsItsRows
    <2>7. UNCHANGED <<bag, cutShort, chest, trade, edits>> /\ Counts
          /\ call' = [call EXCEPT ![h] = d]
      BY <1>3, <2>1 DEF PayShare, At, Counts, Goes
    <2>8. PeopleOK' /\ FaultsOK'
      BY <1>0, <2>1, <2>3, <2>4, <2>7, GoldRewritten, FlagTyped
    <2> QED BY <1>0, <2>5, <2>6, <2>7, <2>8, Kept, HandlerStep DEF Typed, TypeOK, chest
  <1>4. CASE KeepRest(h)
    <2> DEFINE c == call[h]
    <2>1. UNCHANGED <<loot, winners, cutShort, people, trade, edits>> /\ Counts /\ Done(h)
      BY <1>4 DEF KeepRest, At, Counts
    <2>2. pool' = [pool EXCEPT !.gold = c.total % Cardinality(PCs)]
      BY <1>4 DEF KeepRest
    <2>3. c.total % Cardinality(PCs) \in Int
      <3>1. Cardinality(PCs) \in Nat
        BY FinitelyMany, FS_CardinalityType
      <3>2. Cardinality(PCs) # 0
        BY <1>4, <3>1, LocalsTyped, FinitelyMany, FS_EmptySet DEF KeepRest, At, KnowsItsRows
      <3> QED BY <3>1, <3>2, LocalsTyped
    <2>4. PoolOK' /\ FaultsOK'
      BY <1>0, <1>4, <2>1, <2>2, <2>3, FlagTyped DEF PoolOK, KeepRest
    <2> QED BY <1>0, <2>1, <2>4, Kept, HandlerReturns DEF Typed, TypeOK
  <1> QED BY <1>1, <1>2, <1>3, <1>4

LEMMA ThrownTyped == ASSUME NEW r \in Row PROVE Thrown(r) \in Row
  BY DEF Thrown, Row

LEMMA CurateTyped ==
    ASSUME Typed, NEW h \in Calls,
           AskCurate(h) \/ InsertRow(h) \/ DeleteRow(h) \/ ReviseRow(h)
    PROVE  Typed'
  <1>0. TypeOK /\ CallsOK /\ LootOK /\ EditsOK /\ (\A q \in {0} \cup Parcels : q \in Int)
    BY TreasuryAssumption DEF Typed, TypeOK
  <1>1. CASE AskCurate(h)
    <2>1. PICK r \in {0} \cup DOMAIN loot, i \in Items, q \in {0} \cup Parcels :
             Begins(h, [NewCall EXCEPT !.step = "curate", !.row = r, !.item = i, !.qty = q])
      BY <1>1 DEF AskCurate
    <2> DEFINE d == [NewCall EXCEPT !.step = "curate", !.row = r, !.item = i, !.qty = q]
    <2>2. r \in Nat /\ q \in Int
      BY <1>0 DEF LootOK
    <2>3. UNCHANGED <<people, chest, trade, edits, faults>> /\ Counts
          /\ call' = [call EXCEPT ![h] = d]
      BY <1>1, <2>1 DEF AskCurate, Begins, Counts
    <2>4. d \in CallType
      BY <2>2, NewCallTyped DEF CallType, Steps
    <2>5. d.step = "curate" /\ d.row = r /\ d.item = i
      BY DEF NewCall
    <2>6. KnowsItsRows(d, DOMAIN loot')
      BY <2>3, <2>5 DEF KnowsItsRows, chest
    <2> QED BY <1>0, <2>3, <2>4, <2>6, Kept, HandlerStep DEF Typed, TypeOK, chest
  <1>2. CASE InsertRow(h)
    <2> DEFINE c == call[h]
    <2>1. UNCHANGED <<pool, coined, people, trade, faults>> /\ Counts /\ Done(h)
      BY <1>2 DEF InsertRow, At, Counts
    <2>2. c.item \in Items /\ c.qty \in Int
      BY <1>2, LocalsTyped DEF InsertRow, At, KnowsItsRows
    <2>3. LootOK' /\ DOMAIN loot \subseteq DOMAIN loot'
      BY <1>0, <1>2, <2>2, RowAdded DEF InsertRow
    <2>4. EditsOK'
      BY <1>0, <1>2, <2>1, <2>2, PlusTyped DEF InsertRow, EditsOK
    <2> QED BY <1>0, <2>1, <2>3, <2>4, Kept, HandlerReturns DEF Typed, TypeOK
  <1>3. CASE DeleteRow(h)
    <2> DEFINE c == call[h]  e == Thrown(loot[c.row])
    <2>1. UNCHANGED <<pool, winners, edits, people, trade, faults>> /\ Counts /\ Done(h)
      BY <1>3 DEF DeleteRow, At, Counts
    <2>2. c.row \in DOMAIN loot
      BY <1>3, LocalsTyped DEF DeleteRow, At, KnowsItsRows
    <2>3. e \in Row /\ loot' = [loot EXCEPT ![c.row] = e]
      <3>1. loot[c.row] \in Row
        BY <1>0, <2>2, ElementOfSeq DEF LootOK
      <3> QED BY <1>3, <3>1, ThrownTyped DEF DeleteRow
    <2>4. LootOK' /\ DOMAIN loot' = DOMAIN loot
      BY <1>0, <2>1, <2>2, <2>3, RowRewritten DEF LootOK
    <2> QED BY <1>0, <2>1, <2>4, Kept, HandlerReturns DEF Typed, TypeOK
  <1>4. CASE ReviseRow(h)
    <2> DEFINE c == call[h]  r == loot[c.row]
               q == IF r.by = "deleted" THEN r.qty ELSE c.qty
               e == [r EXCEPT !.qty = q]
               more == IF r.by = Nobody THEN c.qty - r.qty ELSE 0
    <2>1. UNCHANGED <<pool, winners, coined, people, trade, faults>> /\ Counts /\ Done(h)
      BY <1>4 DEF ReviseRow, At, Counts
    <2>2. c.row \in DOMAIN loot /\ c.qty \in Int
      BY <1>4, LocalsTyped DEF ReviseRow, At, KnowsItsRows
    <2>3. r \in Row /\ r.item \in Items /\ r.qty \in Int
      <3>1. loot[c.row] \in Row
        BY <1>0, <2>2, ElementOfSeq DEF LootOK
      <3> QED BY <3>1 DEF Row
    <2>4. e \in Row /\ more \in Int
      BY <2>2, <2>3 DEF Row
    <2>5. loot' = [loot EXCEPT ![c.row] = e]
      BY <1>4, <2>2, <2>3 DEF ReviseRow, Row
    <2>6. LootOK' /\ DOMAIN loot' = DOMAIN loot
      BY <1>0, <2>1, <2>2, <2>4, <2>5, RowRewritten DEF LootOK
    <2>7. EditsOK'
      <3>1. made' = Plus(made, r.item, more)
        BY <1>4 DEF ReviseRow
      <3> HIDE DEF more, r
      <3> QED BY <1>0, <2>1, <2>3, <2>4, <3>1, PlusTyped DEF EditsOK
    <2> QED BY <1>0, <2>1, <2>6, <2>7, Kept, HandlerReturns DEF Typed, TypeOK
  <1> QED BY <1>1, <1>2, <1>3, <1>4

LEMMA ClearTyped ==
    ASSUME Typed, NEW h \in Calls, AskClear(h) \/ Sweep(h) \/ Close(h) \/ Drop(h)
    PROVE  Typed'
  <1>0. TypeOK /\ CallsOK /\ LootOK /\ PoolOK /\ FaultsOK
    BY DEF Typed, TypeOK
  <1>1. CASE AskClear(h)
    <2> DEFINE d == [NewCall EXCEPT !.step = "sweep"]
    <2>1. UNCHANGED <<people, chest, trade, edits, faults>> /\ Counts
          /\ call' = [call EXCEPT ![h] = d]
      BY <1>1 DEF AskClear, Begins, Counts
    <2>2. d \in CallType
      BY NewCallTyped DEF CallType, Steps
    <2>3. KnowsItsRows(d, DOMAIN loot')
      BY DEF KnowsItsRows, NewCall
    <2> QED BY <1>0, <2>1, <2>2, <2>3, Kept, HandlerStep DEF Typed, TypeOK, chest
  <1>2. CASE Sweep(h)
    <2> DEFINE d == [call[h] EXCEPT !.step = "close"]
    <2>1. UNCHANGED <<pool, winners, edits, people, trade, faults>> /\ Counts
          /\ call' = [call EXCEPT ![h] = d]
      BY <1>2 DEF Sweep, At, Counts, Goes
    <2>2. d \in CallType /\ d.step = "close"
      <3>1. call[h] \in CallType
        BY LocalsTyped
      <3> QED BY <3>1 DEF CallType, Steps
    <2>3. KnowsItsRows(d, DOMAIN loot')
      BY <2>2 DEF KnowsItsRows
    <2>4. loot' = [r \in DOMAIN loot |-> Thrown(loot[r])]
      BY <1>2 DEF Sweep
    <2>5. LootOK' /\ DOMAIN loot' = DOMAIN loot
      <3>1. DOMAIN loot = 1..Len(loot) /\ Len(loot) \in Nat
        BY <1>0 DEF LootOK
      <3>2. \A r \in 1..Len(loot) : Thrown(loot[r]) \in Row
        BY <1>0, <3>1, ElementOfSeq, ThrownTyped DEF LootOK
      <3>3. loot' \in [1..Len(loot) -> Row]
        BY <2>4, <3>1, <3>2
      <3>4. loot' \in Seq(Row) /\ Len(loot') = Len(loot)
        BY <3>1, <3>3, LenProperties, SeqDef
      <3> QED BY <1>0, <2>1, <3>1, <3>3, <3>4 DEF LootOK
    <2> QED BY <1>0, <2>1, <2>2, <2>3, <2>5, Kept, HandlerStep DEF Typed, TypeOK
  <1>3. CASE Close(h)
    <2>1. UNCHANGED <<loot, winners, people, trade, edits, faults>> /\ Counts /\ Done(h)
      BY <1>3 DEF Close, At, Counts
    <2>2. PoolOK'
      BY <1>0, <1>3 DEF Close, PoolOK
    <2> QED BY <1>0, <2>1, <2>2, Kept, HandlerReturns DEF Typed, TypeOK
  <1>4. CASE Drop(h)
    <2>1. UNCHANGED <<overwritten, people, chest, trade, edits>> /\ Counts /\ Done(h)
          /\ cutShort' \in BOOLEAN
      BY <1>0, <1>4 DEF Drop, Counts, FaultsOK
    <2>2. FaultsOK'
      BY <1>0, <2>1 DEF FaultsOK
    <2> QED BY <1>0, <2>1, <2>2, Kept, HandlerReturns DEF Typed, TypeOK, chest
  <1> QED BY <1>1, <1>2, <1>3, <1>4

\* The DM's single statements.
LEMMA EditTyped ==
    ASSUME Typed,
           (\E w \in Wares : Restock(w)) \/ (\E c \in PCs : SetCharacterGold(c)) \/ SetPoolGold
    PROVE  Typed'
  <1>0. TypeOK /\ TradeOK /\ EditsOK /\ PoolOK /\ PeopleOK
    BY DEF Typed, TypeOK
  <1>1. ASSUME UNCHANGED <<call, loot>>, Counts
        PROVE  CallsOK' /\ \A h \in Calls : KnowsItsRows(call[h], DOMAIN loot)'
    BY <1>1, StartsTyped DEF Typed, TypeOK, CallsOK
  <1>2. ASSUME NEW w \in Wares, Restock(w) PROVE Typed'
    <2>1. PICK q \in Parcels :
             /\ shelf' = [shelf EXCEPT ![w] = q]
             /\ stocked' = [stocked EXCEPT ![w] = @ + q - shelf[w]]
             /\ made' = Plus(made, w, q - shelf[w])
      BY <1>2 DEF Restock
    <2>2. UNCHANGED <<call, sold, coined, people, chest, faults>> /\ Counts
      BY <1>2 DEF Restock, Counts
    <2>3. q \in Nat /\ w \in Items /\ shelf[w] \in Nat /\ q - shelf[w] \in Int
      BY <1>0, TreasuryAssumption DEF TradeOK
    <2>4. EditsOK'
      BY <1>0, <2>1, <2>2, <2>3, PlusTyped DEF EditsOK
    <2>5. TradeOK'
      BY <1>0, <2>1, <2>2, <2>3 DEF TradeOK
    <2> QED BY <1>0, <1>1, <2>2, <2>4, <2>5, Kept DEF Typed, TypeOK, chest
  <1>3. ASSUME NEW c \in PCs, SetCharacterGold(c) PROVE Typed'
    <2>1. PICK v \in Sums \cap Nat :
             gold' = [gold EXCEPT ![c] = v] /\ coined' = coined + v - gold[c]
      BY <1>3 DEF SetCharacterGold
    <2>2. UNCHANGED <<bag, call, made, chest, trade, faults>> /\ Counts
      BY <1>3 DEF SetCharacterGold, Counts
    <2>3. PeopleOK' /\ EditsOK'
      BY <1>0, <2>1, <2>2 DEF PeopleOK, EditsOK, Chars
    <2> QED BY <1>0, <1>1, <2>2, <2>3, Kept DEF Typed, TypeOK, chest
  <1>4. CASE SetPoolGold
    <2>1. PICK v \in Sums : pool' = [pool EXCEPT !.gold = v] /\ coined' = coined + v - pool.gold
      BY <1>4 DEF SetPoolGold
    <2>2. UNCHANGED <<call, loot, winners, made, people, trade, faults>> /\ Counts
      BY <1>4 DEF SetPoolGold, Counts
    <2>3. v \in Int
      BY TreasuryAssumption
    <2>4. PoolOK' /\ EditsOK'
      BY <1>0, <2>1, <2>2, <2>3 DEF PoolOK, EditsOK
    <2> QED BY <1>0, <1>1, <2>2, <2>4, Kept DEF Typed, TypeOK
  <1> QED BY <1>2, <1>3, <1>4

LEMMA InitTyped == Init => Typed
  <1> SUFFICES ASSUME Init PROVE Typed
    OBVIOUS
  <1>1. PeopleOK /\ EditsOK
    <2>1. Belongings \in [Chars -> [Items -> Int]]
      <3>1. \A c \in Chars : Belongings[c] \in [Items -> Nat]
        BY TreasuryAssumption DEF Bag
      <3>2. \A c \in Chars : Belongings[c] \in [Items -> Int]
        BY <3>1
      <3> QED BY <3>2, TreasuryAssumption
    <2> QED BY <2>1, EmptyTyped, TreasuryAssumption DEF Init, PeopleOK, EditsOK
  <1>2. CallsOK /\ \A h \in Calls : KnowsItsRows(call[h], DOMAIN loot)
    BY NewCallTyped, NewCallKnows, TreasuryAssumption DEF Init, CallsOK
  <1>3. LootOK /\ PoolOK
    BY DEF Init, LootOK, PoolOK
  <1>4. TradeOK /\ FaultsOK
    <2>1. stocked \in [Wares -> Int] /\ shelf \in [Wares -> Nat]
      BY TreasuryAssumption DEF Init
    <2> QED BY <2>1 DEF Init, TradeOK, FaultsOK
  <1> QED BY <1>1, <1>2, <1>3, <1>4 DEF Typed, TypeOK

LEMMA StepTyped == Typed /\ [Next]_vars => Typed'
  <1> SUFFICES ASSUME Typed, [Next]_vars PROVE Typed'
    OBVIOUS
  <1>1. CASE UNCHANGED vars
    BY <1>1, Kept DEF vars, Typed, TypeOK, CallsOK, chest
  <1>2. CASE Next
    <2>1. ASSUME NEW h \in Calls,
                 \/ AskClaim(h) \/ TakeRow(h) \/ MissRow(h) \/ Grant(h)
                 \/ Reserve(h) \/ Charge(h) \/ AbortBuy(h) \/ Restore(h)
                 \/ LookIntoBag(h) \/ MeetReceiver(h) \/ HandOver(h)
                 \/ ReadBag(h) \/ Amend(h)
          PROVE  Typed'
      BY <2>1, ClaimTyped, BuyTyped, GiftTyped
    <2>2. ASSUME NEW h \in Calls,
                 \/ Survey(h) \/ Gather(h) \/ StripGold(h) \/ StripBag(h)
                 \/ Found(h) \/ FoundTooLate(h) \/ Stow(h)
                 \/ AskSplit(h) \/ ListParty(h) \/ PayShare(h) \/ KeepRest(h)
          PROVE  Typed'
      BY <2>2, PoolTyped, StowTyped, SplitTyped
    <2>3. ASSUME NEW h \in Calls,
                 \/ AskCurate(h) \/ InsertRow(h) \/ DeleteRow(h) \/ ReviseRow(h)
                 \/ AskClear(h) \/ Sweep(h) \/ Close(h) \/ Drop(h)
          PROVE  Typed'
      BY <2>3, CurateTyped, ClearTyped
    <2> QED BY <1>2, <2>1, <2>2, <2>3, EditTyped DEF Next
  <1> QED BY <1>1, <1>2

(***************************************************************************)
(* A row of the loot is won once.                                          *)
(***************************************************************************)
LEMMA ClaimedInit == Init => ClaimedOnce
  BY DEF Init, ClaimedOnce

\* Rows that are thrown out or revised keep whoever had them.
LEMMA ClaimedKept ==
    ASSUME Typed, ClaimedOnce, winners' = winners, DOMAIN loot' = DOMAIN loot,
           \A r \in DOMAIN loot : loot'[r].by = loot[r].by
                                  \/ (loot[r].by = Nobody /\ loot'[r].by = "deleted")
    PROVE  ClaimedOnce'
  <1>1. "deleted" # Nobody /\ "deleted" \notin PCs
    BY TreasuryAssumption DEF Chars
  <1>2. \A r \in DOMAIN loot : winners[r] \in Nat
    BY DEF Typed, TypeOK, LootOK
  <1> QED BY <1>1, <1>2 DEF ClaimedOnce

LEMMA ClaimedAdded ==
    ASSUME Typed, ClaimedOnce, NEW i, NEW q, AddRow(i, q)
    PROVE  ClaimedOnce'
  <1> DEFINE e == [item |-> i, qty |-> q, by |-> Nobody]
  <1>1. /\ LootOK /\ DOMAIN loot' = 1..(Len(loot) + 1) /\ loot'[Len(loot) + 1] = e
        /\ \A r \in 1..Len(loot) : loot'[r] = loot[r]
    BY DEF Typed, TypeOK, LootOK, AddRow
  <1>2. /\ winners'[Len(loot) + 1] = 0
        /\ \A r \in 1..Len(loot) : winners'[r] = winners[r]
    BY <1>1 DEF LootOK, AddRow
  <1>3. Nobody \notin PCs
    BY TreasuryAssumption DEF Chars
  <1>4. ASSUME NEW r \in DOMAIN loot', r # Len(loot) + 1
        PROVE  /\ winners'[r] <= 1
               /\ loot'[r].by = Nobody => winners'[r] = 0
               /\ loot'[r].by \in PCs => winners'[r] = 1
    <2>1. r \in 1..Len(loot) /\ r \in DOMAIN loot
      BY <1>1, <1>4 DEF LootOK
    <2> QED BY <1>1, <1>2, <2>1 DEF ClaimedOnce
  <1>5. e.by = Nobody
    OBVIOUS
  <1> QED BY <1>1, <1>2, <1>3, <1>4, <1>5 DEF ClaimedOnce

LEMMA ClaimedStep == Typed /\ ClaimedOnce /\ [Next]_vars => ClaimedOnce'
  <1> SUFFICES ASSUME Typed, ClaimedOnce, [Next]_vars PROVE ClaimedOnce'
    OBVIOUS
  <1>0. LootOK
    BY DEF Typed, TypeOK
  <1>1. ASSUME UNCHANGED <<loot, winners>> PROVE ClaimedOnce'
    BY <1>1 DEF ClaimedOnce
  <1>2. ASSUME NEW h \in Calls, TakeRow(h) PROVE ClaimedOnce'
    <2> DEFINE c == call[h]
    <2>1. c.row \in DOMAIN loot /\ c.to \in PCs /\ loot[c.row].by = Nobody
      BY <1>2, LocalsTyped DEF TakeRow, At, KnowsItsRows, Claimable
    <2>2. loot' = [loot EXCEPT ![c.row].by = c.to] /\ winners' = [winners EXCEPT ![c.row] = @ + 1]
      BY <1>2 DEF TakeRow
    <2>3. DOMAIN loot' = DOMAIN loot /\ DOMAIN loot = DOMAIN winners
      BY <1>0, <2>2 DEF LootOK
    <2>4. ASSUME NEW r \in DOMAIN loot, r # c.row
          PROVE  /\ winners'[r] <= 1
                 /\ loot'[r].by = Nobody => winners'[r] = 0
                 /\ loot'[r].by \in PCs => winners'[r] = 1
      BY <2>2, <2>3, <2>4 DEF ClaimedOnce
    <2>5. winners'[c.row] = 1
      BY <2>1, <2>2, <2>3 DEF ClaimedOnce
    <2>6. loot'[c.row].by # Nobody
      <3>1. loot[c.row] \in Row
        BY <1>0, <2>1, ElementOfSeq DEF LootOK
      <3>2. loot'[c.row].by = c.to
        BY <2>1, <2>2, <3>1 DEF Row
      <3> QED BY <2>1, <3>2, TreasuryAssumption DEF Chars
    <2> QED BY <2>3, <2>4, <2>5, <2>6 DEF ClaimedOnce
  <1>3. ASSUME NEW h \in Calls, Stow(h) \/ InsertRow(h) PROVE ClaimedOnce'
    BY <1>3, ClaimedAdded DEF Stow, InsertRow
  <1>4. ASSUME NEW h \in Calls, DeleteRow(h) \/ ReviseRow(h) \/ Sweep(h) PROVE ClaimedOnce'
    <2>1. \A r \in DOMAIN loot : loot[r] \in Row
      BY <1>0, ElementOfSeq DEF LootOK
    <2>2. ASSUME NEW r \in Row
          PROVE  Thrown(r).by = r.by \/ (r.by = Nobody /\ Thrown(r).by = "deleted")
      BY DEF Thrown, Row
    <2>3. CASE DeleteRow(h)
      <3>1. winners' = winners /\ loot' = [loot EXCEPT ![call[h].row] = Thrown(loot[call[h].row])]
        BY <2>3 DEF DeleteRow
      <3> QED BY <2>1, <2>2, <3>1, ClaimedKept
    <2>4. CASE ReviseRow(h)
      <3>1. PICK q : loot' = [loot EXCEPT ![call[h].row].qty = q]
        BY <2>4 DEF ReviseRow
      <3>2. winners' = winners
        BY <2>4 DEF ReviseRow
      <3>3. \A r \in DOMAIN loot : loot'[r].by = loot[r].by
        BY <2>1, <3>1 DEF Row
      <3> QED BY <3>1, <3>2, <3>3, ClaimedKept
    <2>5. CASE Sweep(h)
      <3>1. winners' = winners /\ loot' = [r \in DOMAIN loot |-> Thrown(loot[r])]
        BY <2>5 DEF Sweep
      <3> QED BY <2>1, <2>2, <3>1, ClaimedKept
    <2> QED BY <1>4, <2>3, <2>4, <2>5
  <1>5. CASE UNCHANGED vars
    BY <1>1, <1>5 DEF vars, chest
  <1>6. CASE Next
    <2>1. ASSUME NEW h \in Calls,
                 \/ AskClaim(h) \/ MissRow(h) \/ Grant(h)
                 \/ Reserve(h) \/ Charge(h) \/ AbortBuy(h) \/ Restore(h)
                 \/ LookIntoBag(h) \/ MeetReceiver(h) \/ HandOver(h)
                 \/ ReadBag(h) \/ Amend(h)
          PROVE  UNCHANGED <<loot, winners>>
      BY <2>1 DEF AskClaim, MissRow, Grant, Reserve, Charge, AbortBuy, Restore,
                  LookIntoBag, MeetReceiver, HandOver, ReadBag, Amend, chest
    <2>2. ASSUME NEW h \in Calls,
                 \/ Survey(h) \/ Gather(h) \/ StripGold(h) \/ StripBag(h)
                 \/ Found(h) \/ FoundTooLate(h)
                 \/ AskSplit(h) \/ ListParty(h) \/ PayShare(h) \/ KeepRest(h)
          PROVE  UNCHANGED <<loot, winners>>
      BY <2>2 DEF Survey, Gather, StripGold, StripBag, Found, FoundTooLate, AskSplit,
                  ListParty, PayShare, KeepRest, chest
    <2>3. ASSUME NEW h \in Calls, AskCurate(h) \/ AskClear(h) \/ Close(h) \/ Drop(h)
          PROVE  UNCHANGED <<loot, winners>>
      BY <2>3 DEF AskCurate, AskClear, Close, Drop, chest
    <2>4. ASSUME \/ \E w \in Wares : Restock(w)
                 \/ \E c \in PCs : SetCharacterGold(c)
                 \/ SetPoolGold
          PROVE  UNCHANGED <<loot, winners>>
      BY <2>4 DEF Restock, SetCharacterGold, SetPoolGold, chest
    <2> QED BY <1>1, <1>2, <1>3, <1>4, <1>6, <2>1, <2>2, <2>3, <2>4 DEF Next
  <1> QED BY <1>5, <1>6

(***************************************************************************)
(* The shelf never gives more than was put on it.                          *)
(***************************************************************************)
LEMMA ReservedFinite ==
    ASSUME NEW w
    PROVE  IsFiniteSet(Reserved(w)) /\ Cardinality(Reserved(w)) \in Nat
  <1>1. Reserved(w) \subseteq Calls
    BY DEF Reserved
  <1> QED BY <1>1, TreasuryAssumption, FS_Subset, FS_CardinalityType

\* A handler moves on by itself, and not to where a purchase is.
Free(h) == /\ \A g \in Calls \ {h} : call'[g] = call[g]
           /\ call'[h].step \notin {"charge", "restore"}

\* It has nothing reserved then.
LEMMA Released ==
    ASSUME Typed, NEW h \in Calls, Free(h), NEW w
    PROVE  /\ Reserved(w)' = Reserved(w) \ {h}
           /\ Cardinality(Reserved(w)') <= Cardinality(Reserved(w))
           /\ Cardinality(Reserved(w)') \in Nat
           /\ h \in Reserved(w) => Cardinality(Reserved(w)') = Cardinality(Reserved(w)) - 1
  <1>1. Reserved(w)' = Reserved(w) \ {h}
    BY DEF Reserved, Free
  <1>2. Cardinality(Reserved(w) \ {h})
            = IF h \in Reserved(w) THEN Cardinality(Reserved(w)) - 1
                                   ELSE Cardinality(Reserved(w))
    BY ReservedFinite, FS_RemoveElement
  <1>3. IsFiniteSet(Reserved(w) \ {h})
    BY ReservedFinite, FS_Subset
  <1> QED BY <1>1, <1>2, <1>3, ReservedFinite, FS_CardinalityType

LEMMA DoneFree == ASSUME Typed, NEW h \in Calls, Done(h) PROVE Free(h)
  BY NewCallTyped DEF Done, Goes, Free, Typed, TypeOK, CallsOK

LEMMA BeginsFree ==
    ASSUME Typed, NEW h \in Calls, NEW c, Begins(h, c), c.step \notin {"charge", "restore"}
    PROVE  Free(h)
  BY DEF Begins, Free, Typed, TypeOK, CallsOK

LEMMA NotBuying ==
    ASSUME Typed, NeverOversold, NEW h \in Calls, Free(h), UNCHANGED trade
    PROVE  NeverOversold'
  <1> SUFFICES ASSUME NEW w \in Wares
               PROVE  shelf[w] >= 0
                      /\ shelf[w] + sold[w] + Cardinality(Reserved(w)') <= stocked[w]
    BY DEF NeverOversold, trade
  <1>1. /\ shelf[w] >= 0
        /\ shelf[w] + sold[w] + Cardinality(Reserved(w)) <= stocked[w]
    BY DEF NeverOversold
  <1>2. shelf[w] \in Int /\ sold[w] \in Int /\ stocked[w] \in Int
    BY DEF Typed, TypeOK, TradeOK
  <1>3. Cardinality(Reserved(w)') <= Cardinality(Reserved(w))
    BY Released
  <1>4. Cardinality(Reserved(w)) \in Nat /\ Cardinality(Reserved(w)') \in Nat
    BY Released, ReservedFinite
  <1> QED BY <1>1, <1>2, <1>3, <1>4

LEMMA OversoldInit == Init => NeverOversold
  <1> SUFFICES ASSUME Init, NEW w \in Wares
               PROVE  shelf[w] >= 0 /\ shelf[w] + sold[w] + Cardinality(Reserved(w)) <= stocked[w]
    BY DEF NeverOversold
  <1>1. Reserved(w) = {}
    BY DEF Init, Reserved, NewCall
  <1>2. Cardinality(Reserved(w)) = 0
    BY <1>1, FS_EmptySet
  <1>3. Stock[w] \in Nat /\ shelf[w] = Stock[w] /\ sold[w] = 0 /\ stocked[w] = Stock[w]
    BY TreasuryAssumption DEF Init
  <1> QED BY <1>2, <1>3

\* What a purchase does to the shelf, at one ware and at the others.
LEMMA BuyBalanced ==
    ASSUME Typed, NeverOversold, NEW h \in Calls,
           Reserve(h) \/ Charge(h) \/ AbortBuy(h) \/ Restore(h)
    PROVE  NeverOversold'
  <1> SUFFICES ASSUME NEW w \in Wares
               PROVE  shelf'[w] >= 0
                      /\ shelf'[w] + sold'[w] + Cardinality(Reserved(w)') <= stocked'[w]
    BY DEF NeverOversold
  <1>0. /\ shelf[w] \in Nat /\ sold[w] \in Nat /\ stocked[w] \in Int
        /\ shelf[w] + sold[w] + Cardinality(Reserved(w)) <= stocked[w]
        /\ Cardinality(Reserved(w)) \in Nat /\ IsFiniteSet(Reserved(w))
        /\ call \in [Calls -> CallType]
        /\ shelf \in [Wares -> Nat] /\ sold \in [Wares -> Nat]
    BY ReservedFinite DEF Typed, TypeOK, TradeOK, CallsOK, NeverOversold
  <1>1. CASE Reserve(h)
    <2>1. PICK c \in PCs, v \in Wares :
             /\ InStock(v) /\ shelf' = [shelf EXCEPT ![v] = @ - 1]
             /\ Begins(h, [NewCall EXCEPT !.step = "charge", !.to = c, !.item = v,
                               !.qty = 1, !.theirs = bag[c], !.hand = Plus(Empty, v, 1)])
             /\ UNCHANGED <<sold, stocked>>
      BY <1>1 DEF Reserve
    <2> DEFINE d == [NewCall EXCEPT !.step = "charge", !.to = c, !.item = v,
                               !.qty = 1, !.theirs = bag[c], !.hand = Plus(Empty, v, 1)]
    <2>2. d.step = "charge" /\ d.item = v /\ call' = [call EXCEPT ![h] = d]
          /\ call[h].step = "idle"
      BY <2>1 DEF Begins, NewCall
    <2>3. h \notin Reserved(w)
      BY <2>2 DEF Reserved
    <2> HIDE DEF d
    <2>4. Reserved(w)' = IF w = v THEN Reserved(w) \cup {h} ELSE Reserved(w)
      BY <1>0, <2>2, <2>3 DEF Reserved
    <2>5. Cardinality(Reserved(w)') = Cardinality(Reserved(w)) + (IF w = v THEN 1 ELSE 0)
      <3>1. CASE w = v
        BY <1>0, <2>3, <2>4, <3>1, FS_AddElement
      <3>2. CASE w # v
        BY <1>0, <2>4, <3>2
      <3> QED BY <3>1, <3>2
    <2>6. shelf'[w] = (IF w = v THEN shelf[w] - 1 ELSE shelf[w]) /\ (w = v => shelf[w] > 0)
      BY <1>0, <2>1 DEF InStock
    <2> QED BY <1>0, <2>1, <2>5, <2>6
  <1>2. CASE Charge(h)
    <2>1. /\ sold' = [sold EXCEPT ![call[h].item] = @ + 1] /\ Done(h)
          /\ UNCHANGED <<shelf, stocked>> /\ call[h].step = "charge"
      BY <1>2 DEF Charge, At
    <2>2. h \in Reserved(w) <=> w = call[h].item
      BY <2>1 DEF Reserved
    <2>3. /\ Cardinality(Reserved(w)') <= Cardinality(Reserved(w))
          /\ w = call[h].item => Cardinality(Reserved(w)') = Cardinality(Reserved(w)) - 1
      BY <2>1, <2>2, Released, DoneFree
    <2>4. sold'[w] = sold[w] + (IF w = call[h].item THEN 1 ELSE 0)
      BY <1>0, <2>1
    <2>5. Cardinality(Reserved(w)') \in Nat
      BY <2>1, Released, DoneFree
    <2> QED BY <1>0, <2>1, <2>3, <2>4, <2>5
  <1>3. CASE AbortBuy(h)
    <2>1. call' = [call EXCEPT ![h] = [call[h] EXCEPT !.step = "restore"]]
          /\ call[h].step = "charge" /\ UNCHANGED trade
      BY <1>3 DEF AbortBuy, At, Goes
    <2>2. call[h] \in CallType
      BY <1>0
    <2>3. Reserved(w)' = Reserved(w)
      BY <1>0, <2>1, <2>2 DEF Reserved, CallType
    <2> QED BY <1>0, <2>1, <2>3 DEF trade
  <1>4. CASE Restore(h)
    <2>1. /\ shelf' = [shelf EXCEPT ![call[h].item] = @ + 1] /\ Done(h)
          /\ UNCHANGED <<sold, stocked>> /\ call[h].step = "restore"
      BY <1>4 DEF Restore, At, Restored, Done
    <2>2. h \in Reserved(w) <=> w = call[h].item
      BY <2>1 DEF Reserved
    <2>3. /\ Cardinality(Reserved(w)') <= Cardinality(Reserved(w))
          /\ w = call[h].item => Cardinality(Reserved(w)') = Cardinality(Reserved(w)) - 1
      BY <2>1, <2>2, Released, DoneFree
    <2>4. shelf'[w] = shelf[w] + (IF w = call[h].item THEN 1 ELSE 0)
      BY <1>0, <2>1
    <2>5. Cardinality(Reserved(w)') \in Nat
      BY <2>1, Released, DoneFree
    <2> QED BY <1>0, <2>1, <2>3, <2>4, <2>5
  <1> QED BY <1>1, <1>2, <1>3, <1>4

LEMMA RestockBalanced ==
    ASSUME Typed, NeverOversold, NEW v \in Wares, Restock(v)
    PROVE  NeverOversold'
  <1> SUFFICES ASSUME NEW w \in Wares
               PROVE  shelf'[w] >= 0
                      /\ shelf'[w] + sold'[w] + Cardinality(Reserved(w)') <= stocked'[w]
    BY DEF NeverOversold
  <1>1. PICK q \in Parcels : /\ shelf' = [shelf EXCEPT ![v] = q]
                             /\ stocked' = [stocked EXCEPT ![v] = @ + q - shelf[v]]
    BY DEF Restock
  <1>2. sold' = sold /\ Reserved(w)' = Reserved(w)
    BY DEF Restock, Reserved
  <1>3. /\ shelf[w] \in Nat /\ sold[w] \in Nat /\ stocked[w] \in Int /\ q \in Nat
        /\ shelf[w] + sold[w] + Cardinality(Reserved(w)) <= stocked[w]
        /\ Cardinality(Reserved(w)) \in Nat
        /\ shelf \in [Wares -> Nat] /\ stocked \in [Wares -> Int]
    BY ReservedFinite, TreasuryAssumption DEF Typed, TypeOK, TradeOK, NeverOversold
  <1>4. CASE w = v
    <2>1. shelf'[w] = q /\ stocked'[w] = stocked[w] + q - shelf[w]
      BY <1>1, <1>3, <1>4
    <2> QED BY <1>2, <1>3, <2>1
  <1>5. CASE w # v
    BY <1>1, <1>2, <1>3, <1>5
  <1> QED BY <1>4, <1>5

\* The steps of the other handlers: they leave the shelf alone and do not go
\* where a purchase is.
LEMMA Elsewhere ==
    ASSUME Typed, NEW h \in Calls,
           \/ AskClaim(h) \/ TakeRow(h) \/ MissRow(h) \/ Grant(h)
           \/ LookIntoBag(h) \/ MeetReceiver(h) \/ HandOver(h)
           \/ ReadBag(h) \/ Amend(h)
           \/ Survey(h) \/ Gather(h) \/ StripGold(h) \/ StripBag(h)
           \/ Found(h) \/ FoundTooLate(h) \/ Stow(h)
           \/ AskSplit(h) \/ ListParty(h) \/ PayShare(h) \/ KeepRest(h)
           \/ AskCurate(h) \/ InsertRow(h) \/ DeleteRow(h) \/ ReviseRow(h)
           \/ AskClear(h) \/ Sweep(h) \/ Close(h) \/ Drop(h)
    PROVE  /\ UNCHANGED trade
           /\ Free(h)
  <1>0. call[h] \in CallType /\ DOMAIN call = Calls
    BY DEF Typed, TypeOK, CallsOK
  <1>1. Done(h) => Free(h)
    BY DoneFree
  <1>2. CASE AskClaim(h) \/ TakeRow(h) \/ MissRow(h) \/ Grant(h)
    <2>1. UNCHANGED trade
      BY <1>2 DEF AskClaim, TakeRow, MissRow, Grant
    <2>2. AskClaim(h) => Free(h)
      BY BeginsFree DEF AskClaim, NewCall
    <2>3. TakeRow(h) => Free(h)
      BY <1>0 DEF Free, TakeRow, Goes, CallType
    <2>4. MissRow(h) \/ Grant(h) => Free(h)
      BY <1>1 DEF MissRow, Grant
    <2> QED BY <1>2, <2>1, <2>2, <2>3, <2>4
  <1>3. CASE LookIntoBag(h) \/ MeetReceiver(h) \/ HandOver(h) \/ ReadBag(h) \/ Amend(h)
    <2>1. UNCHANGED trade
      BY <1>3 DEF LookIntoBag, MeetReceiver, HandOver, ReadBag, Amend
    <2>2. LookIntoBag(h) => Free(h)
      <3> SUFFICES ASSUME LookIntoBag(h) PROVE Free(h)
        OBVIOUS
      <3>1. PICK from \in PCs, to \in PCs, i \in Items, q \in Parcels :
              Begins(h, [NewCall EXCEPT !.step = "meet", !.from = from, !.to = to,
                             !.item = i, !.qty = q, !.mine = bag[from]])
        BY DEF LookIntoBag
      <3> QED BY <3>1, BeginsFree DEF NewCall
    <2>3. ReadBag(h) => Free(h)
      <3> SUFFICES ASSUME ReadBag(h) PROVE Free(h)
        OBVIOUS
      <3>1. PICK c \in PCs, i \in Items, q \in Parcels :
              \/ Begins(h, [NewCall EXCEPT !.step = "amend", !.to = c, !.item = i,
                                !.qty = q, !.mine = bag[c]])
              \/ Begins(h, [NewCall EXCEPT !.step = "amend", !.to = c, !.item = i,
                                !.qty = -q, !.mine = bag[c]])
        BY DEF ReadBag
      <3> QED BY <3>1, BeginsFree DEF NewCall
    <2>4. MeetReceiver(h) => Free(h)
      BY ZenonT(40), <1>0, <1>1 DEF Free, MeetReceiver, Goes, CallType
    <2>5. HandOver(h) \/ Amend(h) => Free(h)
      BY <1>1 DEF HandOver, Amend
    <2> QED BY <1>3, <2>1, <2>2, <2>3, <2>4, <2>5
  <1>4. CASE Survey(h) \/ Gather(h) \/ StripGold(h) \/ StripBag(h)
    <2>1. UNCHANGED trade
      BY <1>4 DEF Survey, Gather, StripGold, StripBag
    <2>2. Survey(h) => Free(h)
      BY BeginsFree DEF Survey, NewCall
    <2>3. ASSUME NEW c \in CallType, c.step \notin {"charge", "restore"}, NEW n,
                 NEW then \in {"stripGold", "found"}
          PROVE  Next1(c, n, then).step \notin {"charge", "restore"}
      BY <2>3 DEF Next1, CallType
    <2>4. Gather(h) => Free(h)
      <3>1. ASSUME NEW n, NEW c \in CallType, c.step = "gather"
            PROVE  Next1(c, n, "stripGold").step \notin {"charge", "restore"}
        BY <3>1 DEF Next1, CallType
      <3>2. ASSUME Gather(h) PROVE Free(h)
        <4>1. PICK n \in Npcs, c \in CallType :
                 ReadOf(call[h], n, c) /\ Goes(h, Next1(c, n, "stripGold"))
          BY <3>2, GatherReads
        <4> DEFINE d == Next1(c, n, "stripGold")
        <4>2. d.step \notin {"charge", "restore"} /\ Goes(h, d)
          BY <3>1, <4>1 DEF ReadOf
        <4> HIDE DEF d
        <4> QED BY <1>0, <4>2 DEF Free, Goes
      <3> QED BY <3>2
    <2>5. StripGold(h) => Free(h)
      <3>1. ASSUME NEW n, NEW k
            PROVE  [call[h] EXCEPT !.step = "stripBag", !.from = n, !.coin = k].step = "stripBag"
        BY <1>0 DEF CallType
      <3>2. ASSUME StripGold(h) PROVE call'[h].step = "stripBag"
        <4>1. PICK n \in call[h].todo :
                 Goes(h, [call[h] EXCEPT !.step = "stripBag", !.from = n,
                                         !.coin = @ + call[h].purses[n]])
          BY <3>2 DEF StripGold
        <4> DEFINE k == call[h].coin + call[h].purses[n]
        <4>2. call'[h] = [call[h] EXCEPT !.step = "stripBag", !.from = n, !.coin = k]
          BY <1>0, <4>1 DEF Goes
        <4> HIDE DEF k
        <4> QED BY <3>1, <4>2
      <3> QED BY <1>0, <3>2 DEF Free, StripGold, Goes
    <2>6. StripBag(h) => Free(h)
      <3>1. LET c == [call[h] EXCEPT !.step = "stripGold",
                                     !.hand = Both(call[h].hand, call[h].copies[call[h].from])]
            IN  Next1(c, call[h].from, "found").step \notin {"charge", "restore"}
        BY <1>0 DEF Next1, CallType
      <3> QED BY <1>0, <3>1 DEF Free, StripBag, Goes
    <2> QED BY <1>4, <2>1, <2>2, <2>4, <2>5, <2>6
  <1>5. CASE Found(h) \/ FoundTooLate(h) \/ Stow(h)
    <2>1. UNCHANGED trade
      BY <1>5 DEF Found, FoundTooLate, Stow
    <2>2. Found(h) => Free(h)
      BY <1>0, <1>1 DEF Free, Found, Goes, CallType
    <2>3. FoundTooLate(h) => Free(h)
      BY <1>1 DEF FoundTooLate
    <2>4. Stow(h) => Free(h)
      <3>1. ASSUME NEW t, NEW b, call[h].step = "stow"
            PROVE  [call[h] EXCEPT !.todo = t, !.hand = b].step \notin {"charge", "restore"}
        BY <1>0, <3>1 DEF CallType
      <3> QED BY <1>0, <1>1, <3>1 DEF Free, Stow, Goes, At
    <2> QED BY <1>5, <2>1, <2>2, <2>3, <2>4
  <1>6. CASE AskSplit(h) \/ ListParty(h) \/ PayShare(h) \/ KeepRest(h)
    <2>1. UNCHANGED trade
      BY <1>6 DEF AskSplit, ListParty, PayShare, KeepRest
    <2>2. AskSplit(h) => Free(h)
      BY BeginsFree DEF AskSplit, NewCall
    <2>3. ListParty(h) => Free(h)
      BY <1>0 DEF Free, ListParty, Goes, CallType
    <2>4. PayShare(h) => Free(h)
      <3>1. ASSUME NEW k, NEW t, NEW s \in {"rest", "pay"}
            PROVE  [call[h] EXCEPT !.coin = k, !.todo = t, !.step = s].step = s
        BY <1>0 DEF CallType
      <3>2. ASSUME NEW s \in {"rest", "pay"}, call'[h].step = s
            PROVE  call'[h].step \notin {"charge", "restore"}
        BY <3>2
      <3>3. ASSUME PayShare(h) PROVE call'[h].step \in {"rest", "pay"}
        <4>1. PICK p \in call[h].todo :
                 Goes(h, [call[h] EXCEPT !.coin = @ - Share(call[h]), !.todo = @ \ {p},
                                         !.step = IF call[h].todo = {p} THEN "rest" ELSE "pay"])
          BY <3>3 DEF PayShare
        <4> DEFINE s == IF call[h].todo = {p} THEN "rest" ELSE "pay"
                   k == call[h].coin - Share(call[h])
                   t == call[h].todo \ {p}
        <4>2. call'[h] = [call[h] EXCEPT !.coin = k, !.todo = t, !.step = s]
          BY <1>0, <4>1 DEF Goes
        <4>3. s \in {"rest", "pay"}
          OBVIOUS
        <4> HIDE DEF s, k, t
        <4> QED BY <3>1, <4>2, <4>3
      <3> QED BY <1>0, <3>2, <3>3 DEF Free, PayShare, Goes
    <2>5. KeepRest(h) => Free(h)
      BY <1>1 DEF KeepRest
    <2> QED BY <1>6, <2>1, <2>2, <2>3, <2>4, <2>5
  <1>7. CASE AskCurate(h) \/ InsertRow(h) \/ DeleteRow(h) \/ ReviseRow(h)
    <2>1. UNCHANGED trade
      BY <1>7 DEF AskCurate, InsertRow, DeleteRow, ReviseRow
    <2>2. AskCurate(h) => Free(h)
      BY BeginsFree DEF AskCurate, NewCall
    <2>3. InsertRow(h) \/ DeleteRow(h) \/ ReviseRow(h) => Free(h)
      BY <1>1 DEF InsertRow, DeleteRow, ReviseRow
    <2> QED BY <1>7, <2>1, <2>2, <2>3
  <1>8. CASE AskClear(h) \/ Sweep(h) \/ Close(h) \/ Drop(h)
    <2>1. UNCHANGED trade
      BY <1>8 DEF AskClear, Sweep, Close, Drop
    <2>2. AskClear(h) => Free(h)
      BY BeginsFree DEF AskClear, NewCall
    <2>3. Sweep(h) => Free(h)
      BY <1>0 DEF Free, Sweep, Goes, CallType
    <2>4. Close(h) \/ Drop(h) => Free(h)
      BY <1>1 DEF Close, Drop
    <2> QED BY <1>8, <2>1, <2>2, <2>3, <2>4
  <1> QED BY <1>2, <1>3, <1>4, <1>5, <1>6, <1>7, <1>8

LEMMA OversoldStep == Typed /\ NeverOversold /\ [Next]_vars => NeverOversold'
  <1> SUFFICES ASSUME Typed, NeverOversold, [Next]_vars PROVE NeverOversold'
    OBVIOUS
  <1>1. ASSUME UNCHANGED <<trade, call>> PROVE NeverOversold'
    BY <1>1 DEF NeverOversold, Reserved, trade
  <1>2. CASE UNCHANGED vars
    BY <1>1, <1>2 DEF vars
  <1>3. ASSUME \/ \E c \in PCs : SetCharacterGold(c)
               \/ SetPoolGold
        PROVE  NeverOversold'
    BY <1>1, <1>3 DEF SetCharacterGold, SetPoolGold
  <1>4. CASE Next
    <2>1. ASSUME NEW h \in Calls,
                 \/ Reserve(h) \/ Charge(h) \/ AbortBuy(h) \/ Restore(h)
          PROVE  NeverOversold'
      BY <2>1, BuyBalanced
    <2>2. ASSUME NEW h \in Calls, UNCHANGED trade, Free(h)
          PROVE  NeverOversold'
      BY <2>2, NotBuying
    <2> QED BY <1>3, <1>4, <2>1, <2>2, Elsewhere, RestockBalanced DEF Next
  <1> QED BY <1>2, <1>4

(***************************************************************************)
(* Sums, counted unit by unit.                                             *)
(***************************************************************************)
LEMMA OneColumn ==
    ASSUME NEW x, NEW n \in Int
    PROVE  /\ IsFiniteSet({x} \X (1..n))
           /\ Cardinality({x} \X (1..n)) = IF n > 0 THEN n ELSE 0
<1>1. IsFiniteSet({x}) /\ Cardinality({x}) = 1
    BY FS_Singleton
<1>2. IsFiniteSet(1..n) /\ Cardinality(1..n) = IF n > 0 THEN n ELSE 0
    BY FS_Interval
<1> DEFINE k == Cardinality(1..n)
<1>3. IsFiniteSet({x} \X (1..n)) /\ Cardinality({x} \X (1..n)) = 1 * k
    BY <1>1, <1>2, FS_Product
<1>4. k \in Int
    BY <1>2
<1>5. 1 * k = k
    <2> HIDE DEF k
    <2> QED BY <1>4
<1> QED BY <1>2, <1>3, <1>5

LEMMA UnitsFinite ==
    ASSUME NEW D, IsFiniteSet(D), NEW f \in [D -> Int]
    PROVE  IsFiniteSet(Units(f)) /\ Cardinality(Units(f)) \in Nat
<1> DEFINE T == {{x} \X (1..f[x]) : x \in D}
           m == [x \in D |-> {x} \X (1..f[x])]
<1>1. m \in Surjection(D, T)
    BY DEF Surjection
<1>2. IsFiniteSet(T)
    <2> HIDE DEF T, m
    <2> QED BY <1>1, FS_Surjection
<1>3. \A t \in T : IsFiniteSet(t)
    <2>1. \A x \in D : f[x] \in Int
        OBVIOUS
    <2>2. \A x \in D : IsFiniteSet({x} \X (1..f[x]))
        BY <2>1, OneColumn
    <2> QED BY <2>2
<1>4. IsFiniteSet(UNION T)
    <2> HIDE DEF T
    <2> QED BY <1>2, <1>3, FS_UNION
<1>5. DOMAIN f = D
    OBVIOUS
<1>6. Units(f) = UNION T
    BY <1>5 DEF Units
<1> QED BY <1>4, <1>6, FS_CardinalityType

LEMMA UnitsSplit ==
    ASSUME NEW D, IsFiniteSet(D), NEW f \in [D -> Int], NEW x \in D
    PROVE  Cardinality(Units(f)) = Cardinality(Units([y \in D \ {x} |-> f[y]]))
                                    + IF f[x] > 0 THEN f[x] ELSE 0
<1> DEFINE g == [y \in D \ {x} |-> f[y]]
           A == Units(g)
           B == {x} \X (1..f[x])
<1>1. IsFiniteSet(D \ {x}) /\ g \in [D \ {x} -> Int]
    BY FS_RemoveElement
<1>2. IsFiniteSet(A) /\ Cardinality(A) \in Nat
    BY <1>1, UnitsFinite
<1>3. IsFiniteSet(B) /\ Cardinality(B) = IF f[x] > 0 THEN f[x] ELSE 0
    BY OneColumn
<1>4. Units(f) = A \cup B
    BY DEF Units
<1>5. A \cap B = {}
    BY DEF Units
<1>6. Cardinality(A \cap B) = 0
    BY <1>5, FS_EmptySet
<1>7. Cardinality(A \cup B) = Cardinality(A) + Cardinality(B) - Cardinality(A \cap B)
    BY <1>2, <1>3, FS_Union
<1> HIDE DEF A, B
<1> QED BY <1>2, <1>3, <1>4, <1>6, <1>7 DEF A

LEMMA TotalSplit ==
    ASSUME NEW D, IsFiniteSet(D), NEW f \in [D -> Int], NEW x \in D
    PROVE  /\ Total([y \in D \ {x} |-> f[y]]) \in Int
           /\ Total(f) = Total([y \in D \ {x} |-> f[y]]) + f[x]
<1> DEFINE g == [y \in D \ {x} |-> f[y]]
           n == [y \in D |-> -f[y]]
           m == [y \in D \ {x} |-> n[y]]
<1>1. n \in [D -> Int] /\ n[x] = -f[x] /\ f[x] \in Int
    OBVIOUS
<1>2. Cardinality(Units(f)) = Cardinality(Units(g)) + IF f[x] > 0 THEN f[x] ELSE 0
    BY UnitsSplit
<1>3. Cardinality(Units(n)) = Cardinality(Units(m)) + IF n[x] > 0 THEN n[x] ELSE 0
    <2> HIDE DEF n
    <2> QED BY <1>1, UnitsSplit
<1>4. m = [y \in DOMAIN g |-> -g[y]] /\ n = [y \in DOMAIN f |-> -f[y]]
    OBVIOUS
<1>5. Cardinality(Units(g)) \in Nat /\ Cardinality(Units(m)) \in Nat
    <2>1. IsFiniteSet(D \ {x}) /\ g \in [D \ {x} -> Int] /\ m \in [D \ {x} -> Int]
        BY FS_RemoveElement
    <2> HIDE DEF g, m
    <2> QED BY <2>1, UnitsFinite
<1> HIDE DEF g, n, m
<1>6. Total(g) = Cardinality(Units(g)) - Cardinality(Units(m))
      /\ Total(f) = Cardinality(Units(f)) - Cardinality(Units(n))
    BY <1>4 DEF Total
<1>7. Total(g) \in Int /\ Total(f) = Total(g) + f[x]
    BY <1>1, <1>2, <1>3, <1>5, <1>6
<1> QED BY <1>7 DEF g

LEMMA TotalTyped ==
    ASSUME NEW D, IsFiniteSet(D), NEW f \in [D -> Int]
    PROVE  Total(f) \in Int
<1> DEFINE n == [y \in D |-> -f[y]]
<1>1. n \in [D -> Int] /\ n = [y \in DOMAIN f |-> -f[y]]
    OBVIOUS
<1> HIDE DEF n
<1>2. Cardinality(Units(f)) \in Nat /\ Cardinality(Units(n)) \in Nat
    BY <1>1, UnitsFinite
<1> QED BY <1>1, <1>2 DEF Total

LEMMA TotalChanged ==
    ASSUME NEW D, IsFiniteSet(D), NEW f \in [D -> Int], NEW g \in [D -> Int], NEW x \in D,
           \A y \in D \ {x} : g[y] = f[y]
    PROVE  Total(g) = Total(f) - f[x] + g[x]
<1>1. [y \in D \ {x} |-> f[y]] = [y \in D \ {x} |-> g[y]]
    OBVIOUS
<1> DEFINE r == [y \in D \ {x} |-> f[y]]
<1>2. Total(r) \in Int /\ Total(f) = Total(r) + f[x]
    BY TotalSplit
<1>3. Total(g) = Total(r) + g[x]
    <2>1. Total(g) = Total([y \in D \ {x} |-> g[y]]) + g[x]
        BY TotalSplit
    <2> QED BY <1>1, <2>1
<1> HIDE DEF r
<1> QED BY <1>2, <1>3

LEMMA TotalGrown ==
    ASSUME NEW n \in Nat, NEW f \in [1..n -> Int], NEW g \in [1..(n + 1) -> Int],
           \A y \in 1..n : g[y] = f[y]
    PROVE  Total(g) = Total(f) + g[n + 1]
  <1>1. IsFiniteSet(1..(n + 1)) /\ n + 1 \in 1..(n + 1)
    BY FS_Interval
  <1>2. Total(g) = Total([y \in (1..(n + 1)) \ {n + 1} |-> g[y]]) + g[n + 1]
    BY <1>1, TotalSplit
  <1>3. (1..(n + 1)) \ {n + 1} = 1..n
    OBVIOUS
  <1>4. f = [y \in (1..(n + 1)) \ {n + 1} |-> g[y]]
    BY <1>3
  <1> QED BY <1>2, <1>4

LEMMA TotalOfNothing ==
    ASSUME NEW D, NEW f \in [D -> Int], \A x \in D : f[x] = 0
    PROVE  Total(f) = 0
<1> DEFINE n == [y \in DOMAIN f |-> -f[y]]
<1>1. Units(f) = {}
    BY DEF Units
<1>2. Units(n) = {}
    BY DEF Units
<1>3. Cardinality(Units(f)) = 0 /\ Cardinality(Units(n)) = 0
    BY <1>1, <1>2, FS_EmptySet
<1> HIDE DEF n
<1>4. Total(f) = Cardinality(Units(f)) - Cardinality(Units(n))
    BY DEF Total, n
<1> QED BY <1>3, <1>4

LEMMA TotalOfNats ==
    ASSUME NEW D, IsFiniteSet(D), NEW f \in [D -> Nat]
    PROVE  Total(f) \in Nat
<1> DEFINE n == [y \in DOMAIN f |-> -f[y]]
<1>1. Cardinality(Units(f)) \in Nat
    BY UnitsFinite
<1>2. Units(n) = {}
    BY DEF Units
<1>3. Cardinality(Units(n)) = 0
    BY <1>2, FS_EmptySet
<1> HIDE DEF n
<1>4. Total(f) = Cardinality(Units(f)) - Cardinality(Units(n))
    BY DEF Total, n
<1> QED BY <1>1, <1>3, <1>4

(***************************************************************************)
(* How the sums move with the rows.                                        *)
(***************************************************************************)
\* What a set of inventories holds of an item.
Carried(b, i) == Total([c \in Chars |-> b[c][i]])

LEMMA CarriedTyped ==
    ASSUME NEW b \in [Chars -> [Items -> Int]], NEW i \in Items
    PROVE  Carried(b, i) \in Int
  <1> DEFINE f == [c \in Chars |-> b[c][i]]
  <1>1. f \in [Chars -> Int]
    OBVIOUS
  <1> HIDE DEF f
  <1> QED BY <1>1, TreasuryAssumption, TotalTyped DEF Carried, f

LEMMA CarriedChanged ==
    ASSUME NEW b \in [Chars -> [Items -> Int]], NEW c \in Chars, NEW x \in [Items -> Int],
           NEW i \in Items
    PROVE  Carried([b EXCEPT ![c] = x], i) = Carried(b, i) - b[c][i] + x[i]
  <1> DEFINE a == [b EXCEPT ![c] = x]
             f == [d \in Chars |-> b[d][i]]
             g == [d \in Chars |-> a[d][i]]
  <1>1. f \in [Chars -> Int] /\ f[c] = b[c][i]
    OBVIOUS
  <1>2. g \in [Chars -> Int] /\ g[c] = x[i] /\ \A d \in Chars \ {c} : g[d] = f[d]
    OBVIOUS
  <1> HIDE DEF f, g
  <1>3. Total(g) = Total(f) - f[c] + g[c]
    BY <1>1, <1>2, TreasuryAssumption, TotalChanged
  <1> QED BY <1>1, <1>2, <1>3 DEF Carried, f, g

\* One handler's hand, and its purse.
Apart(h) == \A g \in Calls \ {h} : call'[g] = call[g]

LEMMA HandMoves ==
    ASSUME Typed, CallsOK', NEW h \in Calls, Apart(h), NEW i \in Items
    PROVE  Total(HandOf(i))' = Total(HandOf(i)) - call[h].hand[i] + call'[h].hand[i]
  <1> DEFINE f == [g \in Calls |-> call[g].hand[i]]
             k == [g \in Calls |-> call'[g].hand[i]]
  <1>1. \A g \in Calls : call[g].hand[i] \in Int
    BY LocalsTyped
  <1>2. \A g \in Calls : call'[g].hand[i] \in Int
    <2>1. \A g \in Calls : call'[g] \in CallType
      BY DEF CallsOK
    <2> QED BY <2>1 DEF CallType
  <1>3. f \in [Calls -> Int] /\ k \in [Calls -> Int] /\ f[h] = call[h].hand[i]
        /\ k[h] = call'[h].hand[i] /\ \A g \in Calls \ {h} : k[g] = f[g]
    BY <1>1, <1>2 DEF Apart
  <1>4. HandOf(i) = f /\ HandOf(i)' = k
    BY DEF HandOf
  <1> HIDE DEF f, k
  <1>5. Total(k) = Total(f) - f[h] + k[h]
    BY <1>3, TreasuryAssumption, TotalChanged
  <1> QED BY <1>3, <1>4, <1>5

Coins == [h \in Calls |-> call[h].coin]

LEMMA CoinMoves ==
    ASSUME Typed, CallsOK', NEW h \in Calls, Apart(h)
    PROVE  Total(Coins)' = Total(Coins) - call[h].coin + call'[h].coin
  <1> DEFINE f == [g \in Calls |-> call[g].coin]
             k == [g \in Calls |-> call'[g].coin]
  <1>1. \A g \in Calls : call[g].coin \in Int
    BY LocalsTyped
  <1>2. \A g \in Calls : call'[g].coin \in Int
    <2>1. \A g \in Calls : call'[g] \in CallType
      BY DEF CallsOK
    <2> QED BY <2>1 DEF CallType
  <1>3. f \in [Calls -> Int] /\ k \in [Calls -> Int] /\ f[h] = call[h].coin
        /\ k[h] = call'[h].coin /\ \A g \in Calls \ {h} : k[g] = f[g]
    BY <1>1, <1>2 DEF Apart
  <1>4. Coins = f /\ Coins' = k
    BY DEF Coins
  <1> HIDE DEF f, k
  <1>5. Total(k) = Total(f) - f[h] + k[h]
    BY <1>3, TreasuryAssumption, TotalChanged
  <1> QED BY <1>3, <1>4, <1>5

\* A row of the loot, for an item; what a pool's rows hold of it.
Left(r, i) == IF r.item = i /\ r.by \in {Nobody, "deleted"} THEN r.qty ELSE 0
Lying(l, i) == Total([r \in DOMAIN l |-> Left(l[r], i)])

LEMMA LootIsLying ==
    ASSUME NEW i
    PROVE  Total(LootOf(i)) = Lying(loot, i) /\ Total(LootOf(i))' = Lying(loot', i)
  <1>1. LootOf(i) = [r \in DOMAIN loot |-> Left(loot[r], i)]
        /\ LootOf(i)' = [r \in DOMAIN loot' |-> Left(loot'[r], i)]
    BY DEF LootOf, Left
  <1> QED BY <1>1 DEF Lying

LEMMA RowsTyped ==
    ASSUME NEW l \in Seq(Row), NEW i
    PROVE  /\ [r \in DOMAIN l |-> Left(l[r], i)] \in [DOMAIN l -> Int]
           /\ DOMAIN l = 1..Len(l) /\ Len(l) \in Nat /\ IsFiniteSet(DOMAIN l)
           /\ Lying(l, i) \in Int
  <1>1. \A r \in DOMAIN l : l[r] \in Row
    BY ElementOfSeq
  <1>2. \A r \in DOMAIN l : Left(l[r], i) \in Int
    BY <1>1 DEF Left, Row
  <1>3. DOMAIN l = 1..Len(l) /\ Len(l) \in Nat
    OBVIOUS
  <1>4. IsFiniteSet(DOMAIN l)
    BY <1>3, FS_Interval
  <1> DEFINE f == [r \in DOMAIN l |-> Left(l[r], i)]
  <1>5. f \in [DOMAIN l -> Int]
    BY <1>2
  <1>6. Total(f) \in Int
    <2> HIDE DEF f
    <2> QED BY <1>4, <1>5, TotalTyped
  <1> QED BY <1>3, <1>4, <1>5, <1>6 DEF Lying

LEMMA LyingChanged ==
    ASSUME NEW l \in Seq(Row), NEW x \in DOMAIN l, NEW e \in Row, NEW i
    PROVE  Lying([l EXCEPT ![x] = e], i) = Lying(l, i) - Left(l[x], i) + Left(e, i)
  <1> DEFINE D == DOMAIN l
             m == [l EXCEPT ![x] = e]
             f == [r \in D |-> Left(l[r], i)]
             g == [r \in DOMAIN m |-> Left(m[r], i)]
  <1>1. f \in [D -> Int] /\ IsFiniteSet(D)
    BY RowsTyped
  <1>2. m \in Seq(Row) /\ DOMAIN m = D
    OBVIOUS
  <1>3. g \in [D -> Int]
    <2>1. g \in [DOMAIN m -> Int]
      <3> HIDE DEF m
      <3> QED BY <1>2, RowsTyped
    <2> QED BY <1>2, <2>1
  <1>4. \A r \in D \ {x} : g[r] = f[r]
    OBVIOUS
  <1>5. g[x] = Left(e, i) /\ f[x] = Left(l[x], i)
    OBVIOUS
  <1>6. Lying(m, i) = Total(g) /\ Lying(l, i) = Total(f)
    BY DEF Lying
  <1> HIDE DEF D, f, g
  <1>7. x \in D
    BY DEF D
  <1>8. Total(g) = Total(f) - f[x] + g[x]
    BY <1>1, <1>3, <1>4, <1>7, TotalChanged
  <1> QED BY <1>5, <1>6, <1>8

LEMMA LyingAdded ==
    ASSUME NEW l \in Seq(Row), NEW e \in Row, NEW i
    PROVE  Lying(Append(l, e), i) = Lying(l, i) + Left(e, i)
  <1> DEFINE n == Len(l)
             m == Append(l, e)
             f == [r \in DOMAIN l |-> Left(l[r], i)]
             g == [r \in DOMAIN m |-> Left(m[r], i)]
  <1>1. f \in [DOMAIN l -> Int] /\ DOMAIN l = 1..n /\ n \in Nat
    BY RowsTyped
  <1>2. m \in Seq(Row) /\ DOMAIN m = 1..(n + 1) /\ m[n + 1] = e
        /\ \A r \in 1..n : m[r] = l[r]
    BY <1>1
  <1>3. g \in [DOMAIN m -> Int]
    <2> HIDE DEF m
    <2> QED BY <1>2, RowsTyped
  <1>4. \A r \in 1..n : g[r] = f[r]
    BY <1>1, <1>2
  <1>5. g[n + 1] = Left(e, i)
    BY <1>1, <1>2
  <1>6. Lying(m, i) = Total(g) /\ Lying(l, i) = Total(f)
    BY DEF Lying
  <1>7. f \in [1..n -> Int] /\ g \in [1..(n + 1) -> Int]
    BY <1>1, <1>2, <1>3
  <1> HIDE DEF n, m, f, g
  <1>8. Total(g) = Total(f) + g[n + 1]
    BY <1>1, <1>4, <1>7, TotalGrown
  <1> QED BY <1>5, <1>6, <1>8 DEF m

\* Rows that are thrown out, or of which only the claimed change, still count
\* the same.
LEMMA LyingKept ==
    ASSUME NEW l, NEW m, DOMAIN m = DOMAIN l, NEW i,
           \A r \in DOMAIN l : Left(m[r], i) = Left(l[r], i)
    PROVE  Lying(m, i) = Lying(l, i)
  BY DEF Lying

\* The purses, and what the shop has taken.
LEMMA PurseMoves ==
    ASSUME Typed, NEW c \in Chars, NEW v \in Nat
    PROVE  Total(gold) \in Int /\ Total([gold EXCEPT ![c] = v]) = Total(gold) - gold[c] + v
  <1> DEFINE g == [gold EXCEPT ![c] = v]
  <1>1. gold \in [Chars -> Int] /\ g \in [Chars -> Int]
    BY DEF Typed, TypeOK, PeopleOK
  <1>2. g[c] = v /\ \A d \in Chars \ {c} : g[d] = gold[d]
    BY <1>1
  <1> HIDE DEF g
  <1>3. Total(gold) \in Int /\ Total(g) = Total(gold) - gold[c] + g[c]
    BY <1>1, <1>2, TreasuryAssumption, TotalChanged, TotalTyped
  <1> QED BY <1>2, <1>3 DEF g

Takings == [w \in Wares |-> sold[w] * Price[w]]

LEMMA TakingsTyped == ASSUME TradeOK PROVE Takings \in [Wares -> Int]
  <1>1. \A w \in Wares : sold[w] \in Nat /\ Price[w] \in Nat
    BY TreasuryAssumption DEF TradeOK
  <1>2. \A m \in Nat, n \in Nat : m * n \in Int
    OBVIOUS
  <1>3. \A w \in Wares : sold[w] * Price[w] \in Int
    BY <1>1, <1>2
  <1> QED BY <1>3 DEF Takings

LEMMA TakingsMove ==
    ASSUME Typed, NEW v \in Wares, sold' = [sold EXCEPT ![v] = @ + 1]
    PROVE  Total(Takings)' = Total(Takings) + Price[v]
  <1> DEFINE f == Takings
             g == [w \in Wares |-> sold'[w] * Price[w]]
  <1>1. \A w \in Wares : sold[w] \in Nat /\ Price[w] \in Nat /\ sold'[w] \in Nat
    <2>1. sold \in [Wares -> Nat] /\ sold[v] + 1 \in Nat
      BY DEF Typed, TypeOK, TradeOK
    <2>2. sold' \in [Wares -> Nat]
      BY <2>1
    <2> QED BY <2>1, <2>2, TreasuryAssumption
  <1>2. f \in [Wares -> Int]
    BY TakingsTyped DEF Typed, TypeOK
  <1>3. g \in [Wares -> Int]
    <2>1. \A m \in Nat, n \in Nat : m * n \in Int
      OBVIOUS
    <2> QED BY <1>1, <2>1
  <1>4. \A w \in Wares \ {v} : g[w] = f[w]
    BY DEF Typed, TypeOK, TradeOK, Takings
  <1>5. g[v] = f[v] + Price[v]
    <2>1. sold'[v] = sold[v] + 1
      BY DEF Typed, TypeOK, TradeOK
    <2>2. \A m \in Nat, n \in Nat : (m + 1) * n = m * n + n
      OBVIOUS
    <2>3. g[v] = (sold[v] + 1) * Price[v] /\ f[v] = sold[v] * Price[v]
      BY <2>1 DEF Takings
    <2> QED BY <1>1, <2>2, <2>3
  <1>6. Takings' = g
    BY DEF Takings
  <1> HIDE DEF f, g
  <1>7. Total(g) = Total(f) - f[v] + g[v] /\ Total(f) \in Int
    BY <1>2, <1>3, <1>4, TreasuryAssumption, TotalChanged, TotalTyped
  <1>8. f[v] \in Int /\ Price[v] \in Int
    BY <1>1, <1>2
  <1> QED BY <1>5, <1>6, <1>7, <1>8 DEF f

(***************************************************************************)
(* What a step moves adds up.                                              *)
(***************************************************************************)
Accounted(c) == AccountsForItsHand(c) /\ CopiesAreBags(c)

Books ==
    /\ Typed
    /\ bag \in [Chars -> Bag]
    /\ \A r \in DOMAIN loot : loot[r].qty \in Nat
    /\ pool.status = "none" => pool.gold = 0
    /\ \A h \in Calls : Accounted(call[h])

Wealth == Total(gold) + pool.gold + Total(Coins) + Total(Takings)

ItemsEven == \A i \in Items : There(i)' - made'[i] = There(i) - made[i]
GoldEven == Wealth' - coined' = Wealth - coined

\* A step that neither fails nor loses an update.
Even == overwritten' \/ (ItemsEven /\ GoldEven)

LEMMA ShelfOfTyped == ASSUME Typed, NEW i PROVE ShelfOf(i) \in Int
  BY DEF Typed, TypeOK, TradeOK, ShelfOf

LEMMA HandsTyped ==
    ASSUME Typed
    PROVE  (\A i \in Items : Total(HandOf(i)) \in Int) /\ Total(Coins) \in Int
  <1>1. ASSUME NEW i \in Items PROVE Total(HandOf(i)) \in Int
    <2>1. \A g \in Calls : call[g].hand[i] \in Int
      BY LocalsTyped
    <2>2. HandOf(i) \in [Calls -> Int]
      BY <2>1 DEF HandOf
    <2> QED BY <2>2, TreasuryAssumption, TotalTyped
  <1>2. \A g \in Calls : call[g].coin \in Int
    BY LocalsTyped
  <1>3. Coins \in [Calls -> Int]
    BY <1>2 DEF Coins
  <1> QED BY <1>1, <1>3, TreasuryAssumption, TotalTyped

LEMMA ThereAdds ==
    ASSUME NEW i
    PROVE  /\ There(i) = Carried(bag, i) + Lying(loot, i) + Total(HandOf(i)) + ShelfOf(i)
           /\ There(i)' = Carried(bag', i) + Lying(loot', i) + Total(HandOf(i))' + ShelfOf(i)'
  <1>1. Total(BagOf(i)) = Carried(bag, i) /\ Total(BagOf(i))' = Carried(bag', i)
    BY DEF BagOf, Carried
  <1>2. Total(LootOf(i)) = Lying(loot, i) /\ Total(LootOf(i))' = Lying(loot', i)
    BY LootIsLying
  <1> QED BY <1>1, <1>2 DEF There

\* An item's count, given what the inventories, the loot, the shelf and the DM
\* add and what is in the hand of the handler that steps.
LEMMA ItemsAdd ==
    ASSUME Typed, Typed', NEW h \in Calls, Apart(h), NEW i \in Items,
           NEW x \in Int, NEW y \in Int, NEW u \in Int, NEW v \in Int,
           Carried(bag', i) = Carried(bag, i) + x,
           Lying(loot', i) = Lying(loot, i) + y,
           ShelfOf(i)' = ShelfOf(i) + u,
           made'[i] = made[i] + v,
           x + y + u + call'[h].hand[i] - call[h].hand[i] = v
    PROVE  There(i)' - made'[i] = There(i) - made[i]
  <1>1. bag \in [Chars -> [Items -> Int]] /\ loot \in Seq(Row) /\ made[i] \in Int
        /\ CallsOK'
    BY DEF Typed, TypeOK, PeopleOK, LootOK, EditsOK
  <1>2. Carried(bag, i) \in Int /\ Lying(loot, i) \in Int /\ Total(HandOf(i)) \in Int
        /\ ShelfOf(i) \in Int
    BY <1>1, CarriedTyped, RowsTyped, HandsTyped, ShelfOfTyped
  <1>3. call[h].hand[i] \in Int
    BY LocalsTyped
  <1>4. call'[h].hand[i] \in Int
    <2>1. call'[h] \in CallType
      BY <1>1 DEF CallsOK
    <2> QED BY <2>1 DEF CallType
  <1>5. Total(HandOf(i))' = Total(HandOf(i)) - call[h].hand[i] + call'[h].hand[i]
    BY <1>1, HandMoves
  <1> DEFINE a == Carried(bag, i)
             b == Lying(loot, i)
             c == Total(HandOf(i))
             d == ShelfOf(i)
             m == made[i]
             s == call[h].hand[i]
             t == call'[h].hand[i]
  <1>6. There(i) = a + b + c + d
        /\ There(i)' = (a + x) + (b + y) + (c - s + t) + (d + u)
        /\ made'[i] = m + v /\ made[i] = m /\ x + y + u + t - s = v
    BY <1>5, ThereAdds
  <1>7. a \in Int /\ b \in Int /\ c \in Int /\ d \in Int /\ m \in Int /\ s \in Int /\ t \in Int
    BY <1>1, <1>2, <1>3, <1>4
  <1> HIDE DEF a, b, c, d, m, s, t
  <1> QED BY <1>6, <1>7

\* The same of gold.
LEMMA GoldAdds ==
    ASSUME Typed, Typed', NEW h \in Calls, Apart(h),
           NEW x \in Int, NEW y \in Int, NEW u \in Int, NEW v \in Int,
           Total(gold') = Total(gold) + x,
           pool'.gold = pool.gold + y,
           Total(Takings)' = Total(Takings) + u,
           coined' = coined + v,
           x + y + u + call'[h].coin - call[h].coin = v
    PROVE  GoldEven
  <1>1. gold \in [Chars -> Int] /\ pool.gold \in Int /\ coined \in Int /\ CallsOK' /\ TradeOK
    BY DEF Typed, TypeOK, PeopleOK, PoolOK, EditsOK
  <1>2. Total(gold) \in Int /\ Total(Takings) \in Int /\ Total(Coins) \in Int
    BY <1>1, TotalTyped, TakingsTyped, HandsTyped, TreasuryAssumption
  <1>3. call[h].coin \in Int /\ call'[h].coin \in Int
    <2>1. call'[h] \in CallType
      BY <1>1 DEF CallsOK
    <2> QED BY <2>1, LocalsTyped DEF CallType
  <1>4. Total(Coins)' = Total(Coins) - call[h].coin + call'[h].coin
    BY <1>1, CoinMoves
  <1> DEFINE a == Total(gold)
             b == pool.gold
             c == Total(Coins)
             d == Total(Takings)
             m == coined
             s == call[h].coin
             t == call'[h].coin
  <1>5. Wealth = a + b + c + d
        /\ Wealth' = (a + x) + (b + y) + (c - s + t) + (d + u)
        /\ coined' = m + v /\ coined = m /\ x + y + u + t - s = v
    BY <1>4 DEF Wealth
  <1>6. a \in Int /\ b \in Int /\ c \in Int /\ d \in Int /\ m \in Int /\ s \in Int /\ t \in Int
    BY <1>1, <1>2, <1>3
  <1> HIDE DEF a, b, c, d, m, s, t
  <1> QED BY <1>5, <1>6 DEF GoldEven

LEMMA ItemsQuiet ==
    ASSUME Typed, Typed', NEW h \in Calls, Apart(h), UNCHANGED <<bag, loot, shelf, made>>,
           \A i \in Items : call'[h].hand[i] = call[h].hand[i]
    PROVE  ItemsEven
  <1> SUFFICES ASSUME NEW i \in Items PROVE There(i)' - made'[i] = There(i) - made[i]
    BY DEF ItemsEven
  <1>1. Total(HandOf(i))' = Total(HandOf(i))
    <2>1. \A g \in Calls : call'[g].hand[i] = call[g].hand[i]
      BY DEF Apart
    <2>2. HandOf(i)' = HandOf(i)
      BY <2>1 DEF HandOf
    <2> QED BY <2>2
  <1>2. ShelfOf(i)' = ShelfOf(i)
    BY DEF ShelfOf
  <1> QED BY <1>1, <1>2, ThereAdds

LEMMA GoldQuiet ==
    ASSUME Typed, Typed', NEW h \in Calls, Apart(h), UNCHANGED <<gold, sold, coined>>,
           pool'.gold = pool.gold, call'[h].coin = call[h].coin
    PROVE  GoldEven
  <1>1. \A g \in Calls : call'[g].coin = call[g].coin
    BY DEF Apart
  <1>2. Coins' = Coins
    BY <1>1 DEF Coins
  <1>3. Takings' = Takings
    BY DEF Takings
  <1> QED BY <1>2, <1>3 DEF GoldEven, Wealth

(***************************************************************************)
(* What a handler has in hand.                                             *)
(***************************************************************************)
Stripping == {"stripGold", "stripBag", "found", "stow"}
Plain == Steps \ (Stripping \cup {"grant", "charge", "restore"})

LEMMA HeldNothing ==
    ASSUME NEW c, c.step \notin Stripping, NEW i
    PROVE  Total(HeldCopies(c, i)) = 0
  <1> DEFINE f == HeldCopies(c, i)
  <1>1. f \in [Npcs -> Int] /\ \A n \in Npcs : f[n] = 0
    BY DEF HeldCopies, Holds, Stripping
  <1> HIDE DEF f
  <1> QED BY <1>1, TotalOfNothing DEF f

LEMMA HeldTyped ==
    ASSUME NEW c, CopiesAreBags(c), NEW i \in Items
    PROVE  HeldCopies(c, i) \in [Npcs -> Int] /\ Total(HeldCopies(c, i)) \in Nat
  <1> DEFINE f == HeldCopies(c, i)
  <1>1. \A n \in Npcs : c.copies[n][i] \in Nat
    BY DEF CopiesAreBags, Bag, Chars
  <1>2. f \in [Npcs -> Nat]
    BY <1>1 DEF HeldCopies
  <1> HIDE DEF f
  <1>3. Total(f) \in Nat
    BY <1>2, FinitelyMany, TotalOfNats
  <1>4. f \in [Npcs -> Int]
    BY <1>2
  <1> QED BY <1>3, <1>4 DEF f

\* With neither a unit nor a copy, nothing.
LEMMA PlainHand ==
    ASSUME NEW c \in CallType, Accounted(c), c.step \in Plain, NEW i \in Items
    PROVE  c.hand[i] = 0
  <1>1. Total(HeldCopies(c, i)) = 0
    BY HeldNothing DEF Plain
  <1>2. HeldUnits(c, i) = 0
    BY DEF Plain, HeldUnits
  <1>3. c.hand[i] = HeldUnits(c, i) + Total(HeldCopies(c, i))
    BY DEF Accounted, AccountsForItsHand
  <1> QED BY <1>1, <1>2, <1>3

LEMMA UnitHand ==
    ASSUME NEW c \in CallType, Accounted(c), c.step \in {"grant", "charge", "restore"},
           NEW i \in Items
    PROVE  c.hand[i] = (IF c.item = i THEN c.qty ELSE 0) /\ c.coin = 0
  <1>1. Total(HeldCopies(c, i)) = 0
    BY HeldNothing DEF Stripping
  <1>2. HeldUnits(c, i) = IF c.item = i THEN c.qty ELSE 0
    BY DEF HeldUnits
  <1>3. c.hand[i] = HeldUnits(c, i) + Total(HeldCopies(c, i)) /\ c.coin = 0
    BY DEF Accounted, AccountsForItsHand
  <1>4. c.qty \in Int
    BY DEF CallType
  <1> QED BY <1>1, <1>2, <1>3, <1>4

LEMMA NothingInHand ==
    ASSUME NEW c, c.step \in Plain \ {"pay", "rest"}, \A i \in Items : c.hand[i] = 0,
           c.coin = 0
    PROVE  AccountsForItsHand(c)
  <1>1. \A i \in Items : Total(HeldCopies(c, i)) = 0
    BY HeldNothing DEF Plain
  <1>2. \A i \in Items : HeldUnits(c, i) = 0
    BY DEF Plain, HeldUnits
  <1>3. c.step # "stripBag"
    BY DEF Plain, Stripping
  <1> QED BY <1>1, <1>2, <1>3 DEF AccountsForItsHand

LEMMA UnitInHand ==
    ASSUME NEW c, c.step \in {"grant", "charge", "restore"}, c.qty \in Int, c.coin = 0,
           \A i \in Items : c.hand[i] = IF c.item = i THEN c.qty ELSE 0
    PROVE  AccountsForItsHand(c)
  <1>1. \A i \in Items : Total(HeldCopies(c, i)) = 0
    BY HeldNothing DEF Stripping
  <1>2. \A i \in Items : HeldUnits(c, i) = IF c.item = i THEN c.qty ELSE 0
    BY DEF HeldUnits
  <1>3. ASSUME NEW i \in Items
        PROVE  c.hand[i] = HeldUnits(c, i) + Total(HeldCopies(c, i))
    BY <1>1, <1>2
  <1> QED BY <1>3 DEF AccountsForItsHand

LEMMA EmptyIsBag == Empty \in Bag /\ NoCopies \in [Chars -> Bag] /\ \A i \in Items : Empty[i] = 0
  BY DEF Empty, Bag, NoCopies

LEMMA NewCallAccounted ==
    /\ Accounted(NewCall) /\ NewCall.hand = Empty /\ NewCall.coin = 0
    /\ \A i \in Items : NewCall.hand[i] = 0
  <1>1. /\ NewCall.step = "idle" /\ NewCall.hand = Empty /\ NewCall.coin = 0
        /\ NewCall.mine = Empty /\ NewCall.theirs = Empty /\ NewCall.copies = NoCopies
    BY DEF NewCall
  <1>2. NewCall.step \in Plain \ {"pay", "rest"}
    BY <1>1 DEF Plain, Stripping, Steps
  <1>3. AccountsForItsHand(NewCall)
    BY <1>1, <1>2, EmptyIsBag, NothingInHand
  <1> QED BY <1>1, <1>3, EmptyIsBag DEF Accounted, CopiesAreBags

\* One handler moves on and the others are where they were.
LEMMA OneMoves ==
    ASSUME Books, NEW h \in Calls, NEW d, call' = [call EXCEPT ![h] = d], Accounted(d)
    PROVE  call'[h] = d /\ Apart(h) /\ \A g \in Calls : Accounted(call'[g])
  <1>1. call \in [Calls -> CallType]
    BY DEF Books, Typed, TypeOK, CallsOK
  <1>2. call'[h] = d /\ Apart(h)
    BY <1>1 DEF Apart
  <1> QED BY <1>2 DEF Books, Apart

LEMMA BagStays ==
    ASSUME Books, NEW c \in Chars, NEW x \in Bag, bag' = [bag EXCEPT ![c] = x]
    PROVE  /\ bag' \in [Chars -> Bag]
           /\ \A i \in Items : Carried(bag', i) = Carried(bag, i) - bag[c][i] + x[i]
  <1>1. bag \in [Chars -> [Items -> Int]] /\ x \in [Items -> Int]
    BY DEF Books, Typed, TypeOK, PeopleOK, Bag
  <1>2. bag \in [Chars -> Bag]
    BY DEF Books
  <1> QED BY <1>1, <1>2, CarriedChanged

EmptyHanded == Plain \ {"pay", "rest"}

LEMMA NothingHeld ==
    ASSUME Books, NEW h \in Calls, call[h].step \in EmptyHanded
    PROVE  (\A i \in Items : call[h].hand[i] = 0) /\ call[h].coin = 0
  <1>1. call[h] \in CallType /\ Accounted(call[h])
    BY LocalsTyped DEF Books
  <1>2. call[h].coin = 0
    BY <1>1 DEF EmptyHanded, Plain, Stripping, Accounted, AccountsForItsHand
  <1> QED BY <1>1, <1>2, PlainHand DEF EmptyHanded

\* Steps that only read.
LEMMA QuietStep ==
    ASSUME Books, Typed', NEW h \in Calls, NEW d, call' = [call EXCEPT ![h] = d],
           Accounted(d), UNCHANGED <<people, chest, trade, edits, faults>>,
           \A i \in Items : d.hand[i] = call[h].hand[i], d.coin = call[h].coin
    PROVE  Books' /\ Even
  <1>1. call'[h] = d /\ Apart(h) /\ \A g \in Calls : Accounted(call'[g])
    BY OneMoves
  <1>2. UNCHANGED <<gold, bag, pool, loot, shelf, sold, coined, made>>
    BY DEF people, chest, trade, edits
  <1>3. Books'
    BY <1>1, <1>2 DEF Books
  <1>4. ItemsEven
    BY <1>1, <1>2, ItemsQuiet DEF Books
  <1>5. GoldEven
    BY <1>1, <1>2, GoldQuiet DEF Books
  <1> QED BY <1>3, <1>4, <1>5 DEF Even

LEMMA QuietStart ==
    ASSUME Books, Typed', NEW h \in Calls, NEW d, Begins(h, d),
           d.step \in EmptyHanded, d.hand = Empty, d.coin = 0, CopiesAreBags(d),
           UNCHANGED <<people, chest, trade, edits, faults>>
    PROVE  Books' /\ Even
  <1>1. call[h].step = "idle" /\ call' = [call EXCEPT ![h] = d]
    BY DEF Begins
  <1>2. (\A i \in Items : call[h].hand[i] = 0) /\ call[h].coin = 0
    BY <1>1, NothingHeld DEF EmptyHanded, Plain, Steps, Stripping
  <1>3. \A i \in Items : d.hand[i] = 0
    BY EmptyIsBag
  <1>4. Accounted(d)
    BY <1>3, NothingInHand DEF EmptyHanded, Accounted
  <1> QED BY <1>1, <1>2, <1>3, <1>4, QuietStep

LEMMA QuietReturn ==
    ASSUME Books, Typed', NEW h \in Calls, Done(h), call[h].step \in EmptyHanded,
           UNCHANGED <<people, chest, trade, edits, faults>>
    PROVE  Books' /\ Even
  <1>1. call' = [call EXCEPT ![h] = NewCall]
    BY DEF Done, Goes
  <1>2. (\A i \in Items : call[h].hand[i] = 0) /\ call[h].coin = 0
    BY NothingHeld
  <1> QED BY <1>1, <1>2, NewCallAccounted, QuietStep

LEMMA CountsTyped ==
    ASSUME Typed, NEW i \in Items
    PROVE  /\ Lying(loot, i) \in Int /\ Carried(bag, i) \in Int
           /\ ShelfOf(i) \in Int /\ made[i] \in Int
  <1>1. loot \in Seq(Row) /\ bag \in [Chars -> [Items -> Int]] /\ made \in [Items -> Int]
    BY DEF Typed, TypeOK, LootOK, PeopleOK, EditsOK
  <1> QED BY <1>1, RowsTyped, CarriedTyped, ShelfOfTyped

\* A step that is not fooled by its copy.
LEMMA Unfooled ==
    ASSUME NEW a, NEW b, FromCopy(a, b)
    PROVE  overwritten' = TRUE \/ a = b
  BY DEF FromCopy

LEMMA PlusAt ==
    ASSUME NEW b \in [Items -> Int], NEW j \in Items, NEW q \in Int, NEW i \in Items
    PROVE  Plus(b, j, q)[i] = b[i] + (IF j = i THEN q ELSE 0)
  BY DEF Plus

LEMMA PlusBag ==
    ASSUME NEW b \in Bag, NEW j \in Items, NEW q \in Int, b[j] + q >= 0
    PROVE  Plus(b, j, q) \in Bag
  <1>1. b \in [Items -> Nat] /\ b[j] + q \in Nat
    BY DEF Bag
  <1> QED BY <1>1 DEF Plus, Bag

LEMMA EmptyPlusAt ==
    ASSUME NEW j \in Items, NEW q \in Int, NEW i \in Items
    PROVE  Plus(Empty, j, q)[i] = IF j = i THEN q ELSE 0
  BY DEF Plus, Empty

LEMMA ClaimBooks ==
    ASSUME Books, Typed', NEW h \in Calls,
           AskClaim(h) \/ TakeRow(h) \/ MissRow(h) \/ Grant(h)
    PROVE  Books' /\ Even
  <1>0. Typed /\ loot \in Seq(Row) /\ bag \in [Chars -> Bag] /\ bag \in [Chars -> [Items -> Int]]
    BY DEF Books, Typed, TypeOK, LootOK, PeopleOK
  <1>1. CASE AskClaim(h)
    <2>1. PICK c \in PCs, r \in DOMAIN loot :
             Begins(h, [NewCall EXCEPT !.step = "take", !.to = c, !.row = r])
      BY <1>1 DEF AskClaim
    <2> DEFINE d == [NewCall EXCEPT !.step = "take", !.to = c, !.row = r]
    <2>2. /\ d.step = "take" /\ d.hand = Empty /\ d.coin = 0 /\ d.mine = Empty
          /\ d.theirs = Empty /\ d.copies = NoCopies
      BY DEF NewCall
    <2>3. CopiesAreBags(d) /\ d.step \in EmptyHanded
      BY <2>2, EmptyIsBag DEF CopiesAreBags, EmptyHanded, Plain, Steps, Stripping
    <2>4. UNCHANGED <<people, chest, trade, edits, faults>>
      BY <1>1 DEF AskClaim
    <2> HIDE DEF d
    <2> QED BY <2>1, <2>2, <2>3, <2>4, QuietStart DEF d
  <1>2. CASE TakeRow(h)
    <2> DEFINE c == call[h]
               r == loot[c.row]
               e == [r EXCEPT !.by = c.to]
               d == [c EXCEPT !.step = "grant", !.item = r.item, !.qty = r.qty,
                              !.theirs = bag[c.to],
                              !.hand = Plus(Empty, r.item, r.qty)]
    <2>1. c \in CallType /\ c.row \in DOMAIN loot /\ c.to \in PCs /\ c.step = "take"
          /\ Accounted(c)
      BY <1>0, <1>2, LocalsTyped DEF TakeRow, At, KnowsItsRows, Books
    <2>2. r \in Row /\ r.item \in Items /\ r.qty \in Nat
      <3>1. loot[c.row] \in Row
        BY <1>0, <2>1, ElementOfSeq
      <3>2. r.qty \in Nat
        BY <2>1 DEF Books
      <3> QED BY <3>1, <3>2 DEF Row
    <2>3. (\A i \in Items : c.hand[i] = 0) /\ c.coin = 0
      BY <2>1, NothingHeld DEF EmptyHanded, Plain, Steps, Stripping
    <2>4. /\ d.step = "grant" /\ d.item = r.item /\ d.qty = r.qty
          /\ d.theirs = bag[c.to] /\ d.hand = Plus(Empty, r.item, r.qty)
          /\ d.coin = c.coin /\ d.mine = c.mine /\ d.copies = c.copies
      BY <2>1 DEF CallType
    <2>5. \A i \in Items : d.hand[i] = IF r.item = i THEN r.qty ELSE 0
      BY <2>2, <2>4, EmptyPlusAt
    <2>6. Accounted(d)
      <3>1. AccountsForItsHand(d)
        <4> HIDE DEF d
        <4>1. d.step = "grant" /\ d.coin = 0 /\ d.qty \in Int
              /\ \A i \in Items : d.hand[i] = IF d.item = i THEN d.qty ELSE 0
          BY <2>2, <2>3, <2>4, <2>5
        <4> QED BY <4>1, UnitInHand
      <3>2. bag[c.to] \in Bag
        BY <1>0, <2>1 DEF Chars
      <3>3. CopiesAreBags(d)
        BY <2>1, <2>2, <2>4, <3>2 DEF CopiesAreBags, Accounted
      <3> QED BY <3>1, <3>3 DEF Accounted
    <2>7. call' = [call EXCEPT ![h] = d] /\ UNCHANGED <<pool, people, trade, edits, faults>>
      BY <1>2 DEF TakeRow, Goes
    <2>8. loot' = [loot EXCEPT ![c.row] = e] /\ e \in Row /\ r.by = Nobody
      BY <1>2, <2>1, <2>2 DEF TakeRow, Row, Claimable
    <2>9. e.item = r.item /\ e.qty = r.qty /\ e.by = c.to
      BY <2>2 DEF Row
    <2> HIDE DEF d, e
    <2>10. call'[h] = d /\ Apart(h) /\ \A g \in Calls : Accounted(call'[g])
      BY <2>6, <2>7, OneMoves
    <2>11. UNCHANGED <<bag, shelf, made, gold, pool, sold, coined>>
      BY <2>7 DEF people, trade, edits
    <2>12. Books'
      <3>1. \A x \in DOMAIN loot' : loot'[x].qty \in Nat
        BY <2>1, <2>2, <2>8, <2>9 DEF Books
      <3> QED BY <2>10, <2>11, <3>1 DEF Books
    <2>13. ASSUME NEW i \in Items PROVE There(i)' - made'[i] = There(i) - made[i]
      <3> DEFINE y == IF r.item = i THEN r.qty ELSE 0
      <3>1. Left(e, i) = 0
        BY <2>1, <2>9, TreasuryAssumption DEF Left, Chars
      <3>2. Left(r, i) = y
        BY <2>8 DEF Left
      <3>3. Lying(loot', i) = Lying(loot, i) - y + 0
        <4> DEFINE k == c.row
        <4>1. k \in DOMAIN loot /\ loot[k] = r /\ loot' = [loot EXCEPT ![k] = e] /\ e \in Row
              /\ loot \in Seq(Row)
          BY <1>0, <2>1, <2>8
        <4> HIDE DEF k, r, y
        <4>2. Lying(loot', i) = Lying(loot, i) - Left(loot[k], i) + Left(e, i)
          BY <4>1, LyingChanged
        <4> QED BY <3>1, <3>2, <4>1, <4>2
      <3>4. /\ y \in Int /\ Lying(loot, i) \in Int /\ Carried(bag, i) \in Int
            /\ ShelfOf(i) \in Int /\ made[i] \in Int
        BY <1>0, <2>2, CountsTyped
      <3>5. call'[h].hand[i] = y /\ call[h].hand[i] = 0
        BY <2>3, <2>5, <2>10
      <3> HIDE DEF y
      <3>6. /\ Carried(bag', i) = Carried(bag, i) + 0 /\ Lying(loot', i) = Lying(loot, i) + (-y)
            /\ ShelfOf(i)' = ShelfOf(i) + 0 /\ made'[i] = made[i] + 0
        BY <2>11, <3>3, <3>4 DEF ShelfOf
      <3>7. 0 + (-y) + 0 + call'[h].hand[i] - call[h].hand[i] = 0 /\ -y \in Int
        BY <3>4, <3>5
      <3> QED BY <1>0, <2>10, <3>6, <3>7, ItemsAdd
    <2>14. GoldEven
      BY <1>0, <2>3, <2>4, <2>10, <2>11, GoldQuiet
    <2> QED BY <2>12, <2>13, <2>14 DEF Even, ItemsEven
  <1>3. CASE MissRow(h)
    <2>1. call[h].step \in EmptyHanded
      BY <1>3 DEF MissRow, At, EmptyHanded, Plain, Steps, Stripping
    <2> QED BY <1>3, <2>1, QuietReturn DEF MissRow
  <1>4. CASE Grant(h)
    <2> DEFINE c == call[h]
               b == Plus(c.theirs, c.item, c.qty)
    <2>1. c \in CallType /\ c.to \in Chars /\ c.item \in Items /\ c.step = "grant"
          /\ Accounted(c)
      BY <1>0, <1>4, LocalsTyped DEF Grant, At, KnowsItsRows, Books, Chars
    <2>2. c.theirs \in Bag /\ c.qty \in Nat /\ c.theirs \in [Items -> Int]
      BY <2>1 DEF Accounted, CopiesAreBags, Bag
    <2>3. c.theirs[c.item] + c.qty >= 0
      BY <2>1, <2>2 DEF Bag
    <2>4. b \in Bag
      BY <2>1, <2>2, <2>3, PlusBag
    <2>5. /\ bag' = [bag EXCEPT ![c.to] = b] /\ call' = [call EXCEPT ![h] = NewCall]
          /\ UNCHANGED <<gold, cutShort, chest, trade, edits>>
          /\ FromCopy(c.theirs, bag[c.to])
      BY <1>4 DEF Grant, Done, Goes
    <2>6. call'[h] = NewCall /\ Apart(h) /\ \A g \in Calls : Accounted(call'[g])
      BY <2>5, NewCallAccounted, OneMoves
    <2>7. /\ bag' \in [Chars -> Bag]
          /\ \A i \in Items : Carried(bag', i) = Carried(bag, i) - bag[c.to][i] + b[i]
      <3> HIDE DEF b
      <3> QED BY <2>1, <2>4, <2>5, BagStays
    <2>8. UNCHANGED <<loot, shelf, made, gold, pool, sold, coined>>
      BY <2>5 DEF chest, trade, edits
    <2>9. Books'
      BY <2>6, <2>7, <2>8 DEF Books
    <2>10. ASSUME c.theirs = bag[c.to], NEW i \in Items
           PROVE  There(i)' - made'[i] = There(i) - made[i]
      <3> DEFINE x == IF c.item = i THEN c.qty ELSE 0
      <3>1. b[i] = bag[c.to][i] + x
        BY <2>1, <2>2, <2>10, PlusAt
      <3>2. call[h].hand[i] = x /\ call'[h].hand[i] = 0
        BY <2>1, <2>6, UnitHand, NewCallAccounted
      <3>3. /\ x \in Int /\ Lying(loot, i) \in Int /\ Carried(bag, i) \in Int
            /\ ShelfOf(i) \in Int /\ made[i] \in Int /\ bag[c.to][i] \in Int
        BY <1>0, <2>1, <2>2, CountsTyped
      <3>4. Carried(bag', i) = Carried(bag, i) - bag[c.to][i] + b[i]
        BY <2>7
      <3> HIDE DEF x, b
      <3>5. /\ Carried(bag', i) = Carried(bag, i) + x /\ Lying(loot', i) = Lying(loot, i) + 0
            /\ ShelfOf(i)' = ShelfOf(i) + 0 /\ made'[i] = made[i] + 0
        BY <2>8, <3>1, <3>3, <3>4 DEF ShelfOf
      <3>6. x + 0 + 0 + call'[h].hand[i] - call[h].hand[i] = 0
        BY <3>2, <3>3
      <3> QED BY <1>0, <2>6, <3>3, <3>5, <3>6, ItemsAdd
    <2>11. GoldEven
      <3>1. call[h].coin = 0
        BY <2>1, UnitHand DEF Accounted, AccountsForItsHand
      <3> QED BY <1>0, <2>6, <2>8, <3>1, NewCallAccounted, GoldQuiet
    <2>12. overwritten' = TRUE \/ c.theirs = bag[c.to]
      BY <2>5, Unfooled
    <2> QED BY <2>9, <2>10, <2>11, <2>12 DEF Even, ItemsEven
  <1> QED BY <1>1, <1>2, <1>3, <1>4

LEMMA ShelfMoves ==
    ASSUME Typed, NEW w \in Wares, NEW q \in Int, NEW v, v = shelf[w] + q,
           shelf' = [shelf EXCEPT ![w] = v], NEW i
    PROVE  ShelfOf(i)' = ShelfOf(i) + (IF w = i THEN q ELSE 0)
  <1>1. shelf \in [Wares -> Nat]
    BY DEF Typed, TypeOK, TradeOK
  <1>2. CASE i = w
    BY <1>1, <1>2 DEF ShelfOf
  <1>3. CASE i # w /\ i \in Wares
    BY <1>1, <1>3 DEF ShelfOf
  <1>4. CASE i \notin Wares
    BY <1>4 DEF ShelfOf
  <1> QED BY <1>2, <1>3, <1>4

LEMMA BuyBooks ==
    ASSUME Books, Typed', NEW h \in Calls,
           Reserve(h) \/ Charge(h) \/ AbortBuy(h) \/ Restore(h)
    PROVE  Books' /\ Even
  <1>0. Typed /\ bag \in [Chars -> Bag] /\ Wares \subseteq Items
    BY TreasuryAssumption DEF Books
  <1>1. CASE Reserve(h)
    <2>1. PICK c \in PCs, w \in Wares :
             /\ shelf' = [shelf EXCEPT ![w] = @ - 1]
             /\ Begins(h, [NewCall EXCEPT !.step = "charge", !.to = c, !.item = w,
                               !.qty = 1, !.theirs = bag[c], !.hand = Plus(Empty, w, 1)])
             /\ UNCHANGED <<sold, stocked, people, chest, edits, faults>>
      BY <1>1 DEF Reserve
    <2> DEFINE d == [NewCall EXCEPT !.step = "charge", !.to = c, !.item = w,
                               !.qty = 1, !.theirs = bag[c], !.hand = Plus(Empty, w, 1)]
    <2>2. /\ d.step = "charge" /\ d.item = w /\ d.qty = 1 /\ d.theirs = bag[c]
          /\ d.hand = Plus(Empty, w, 1)
          /\ d.coin = 0 /\ d.mine = Empty /\ d.copies = NoCopies
      BY DEF NewCall
    <2>3. call' = [call EXCEPT ![h] = d] /\ call[h].step = "idle"
      BY <2>1 DEF Begins
    <2> HIDE DEF d
    <2>4. w \in Items /\ bag[c] \in Bag
      BY <1>0 DEF Chars
    <2>5. \A i \in Items : d.hand[i] = IF w = i THEN 1 ELSE 0
      BY <2>2, <2>4, EmptyPlusAt
    <2>6. Accounted(d)
      <3>1. d.step = "charge" /\ d.coin = 0 /\ d.qty \in Int
            /\ \A i \in Items : d.hand[i] = IF d.item = i THEN d.qty ELSE 0
        BY <2>2, <2>5
      <3>2. AccountsForItsHand(d)
        BY <3>1, UnitInHand
      <3> QED BY <2>2, <2>4, <3>2, EmptyIsBag DEF Accounted, CopiesAreBags
    <2>7. call'[h] = d /\ Apart(h) /\ \A g \in Calls : Accounted(call'[g])
      BY <2>3, <2>6, OneMoves
    <2>8. UNCHANGED <<bag, loot, made, gold, pool, sold, coined>>
      BY <2>1 DEF people, chest, edits
    <2>9. Books'
      BY <2>7, <2>8 DEF Books
    <2>10. (\A i \in Items : call[h].hand[i] = 0) /\ call[h].coin = 0
      BY <2>3, NothingHeld DEF EmptyHanded, Plain, Steps, Stripping
    <2>11. ASSUME NEW i \in Items PROVE There(i)' - made'[i] = There(i) - made[i]
      <3> DEFINE u == IF w = i THEN -1 ELSE 0
      <3>1. shelf[w] - 1 = shelf[w] + (-1) /\ -1 \in Int
        BY <1>0 DEF Typed, TypeOK, TradeOK
      <3>2. ShelfOf(i)' = ShelfOf(i) + u
        BY <1>0, <2>1, <3>1, ShelfMoves
      <3>3. call'[h].hand[i] = -u /\ call[h].hand[i] = 0 /\ u \in Int
        BY <2>5, <2>7, <2>10
      <3>4. /\ Lying(loot, i) \in Int /\ Carried(bag, i) \in Int
            /\ ShelfOf(i) \in Int /\ made[i] \in Int
        BY <1>0, CountsTyped
      <3> HIDE DEF u
      <3>5. /\ Carried(bag', i) = Carried(bag, i) + 0 /\ Lying(loot', i) = Lying(loot, i) + 0
            /\ made'[i] = made[i] + 0
        BY <2>8, <3>4
      <3>6. 0 + 0 + u + call'[h].hand[i] - call[h].hand[i] = 0
        BY <3>3
      <3> QED BY <1>0, <2>7, <3>2, <3>3, <3>5, <3>6, ItemsAdd
    <2>12. GoldEven
      BY <1>0, <2>2, <2>7, <2>8, <2>10, GoldQuiet
    <2> QED BY <2>9, <2>11, <2>12 DEF Even, ItemsEven
  <1>2. CASE Charge(h)
    <2> DEFINE c == call[h]
               b == Plus(c.theirs, c.item, 1)
               p == Price[c.item]
    <2>1. c \in CallType /\ c.to \in Chars /\ c.item \in Items /\ c.item \in Wares
          /\ c.step = "charge" /\ Accounted(c)
      BY <1>0, <1>2, LocalsTyped DEF Charge, At, KnowsItsRows, Books, Chars
    <2>2. c.theirs \in Bag /\ c.qty = 1 /\ c.theirs \in [Items -> Int]
      BY <2>1 DEF Accounted, CopiesAreBags, Bag
    <2>3. c.theirs[c.item] + 1 >= 0
      BY <2>1, <2>2 DEF Bag
    <2>4. b \in Bag
      BY <2>1, <2>2, <2>3, PlusBag
    <2>5. /\ bag' = [bag EXCEPT ![c.to] = b] /\ call' = [call EXCEPT ![h] = NewCall]
          /\ gold' = [gold EXCEPT ![c.to] = @ - p] /\ gold[c.to] >= p
          /\ sold' = [sold EXCEPT ![c.item] = @ + 1]
          /\ UNCHANGED <<shelf, stocked, cutShort, chest, edits>>
          /\ FromCopy(c.theirs, bag[c.to])
      BY <1>2 DEF Charge, Done, Goes, CanPay
    <2>6. call'[h] = NewCall /\ Apart(h) /\ \A g \in Calls : Accounted(call'[g])
      BY <2>5, NewCallAccounted, OneMoves
    <2>7. /\ bag' \in [Chars -> Bag]
          /\ \A i \in Items : Carried(bag', i) = Carried(bag, i) - bag[c.to][i] + b[i]
      <3> HIDE DEF b
      <3> QED BY <2>1, <2>4, <2>5, BagStays
    <2>8. UNCHANGED <<loot, shelf, made, pool, coined>>
      BY <2>5 DEF chest, edits
    <2>9. Books'
      BY <2>6, <2>7, <2>8 DEF Books
    <2>10. ASSUME c.theirs = bag[c.to], NEW i \in Items
           PROVE  There(i)' - made'[i] = There(i) - made[i]
      <3> DEFINE x == IF c.item = i THEN 1 ELSE 0
      <3>1. b[i] = bag[c.to][i] + x
        BY <2>1, <2>2, <2>10, PlusAt
      <3>2. call[h].hand[i] = x /\ call'[h].hand[i] = 0
        BY <2>1, <2>2, <2>6, UnitHand, NewCallAccounted
      <3>3. /\ x \in Int /\ Lying(loot, i) \in Int /\ Carried(bag, i) \in Int
            /\ ShelfOf(i) \in Int /\ made[i] \in Int /\ bag[c.to][i] \in Int
        BY <1>0, <2>1, <2>2, <2>10, CountsTyped
      <3>4. Carried(bag', i) = Carried(bag, i) - bag[c.to][i] + b[i]
        BY <2>7
      <3> HIDE DEF x, b
      <3>5. /\ Carried(bag', i) = Carried(bag, i) + x /\ Lying(loot', i) = Lying(loot, i) + 0
            /\ ShelfOf(i)' = ShelfOf(i) + 0 /\ made'[i] = made[i] + 0
        BY <2>8, <3>1, <3>3, <3>4 DEF ShelfOf
      <3>6. x + 0 + 0 + call'[h].hand[i] - call[h].hand[i] = 0
        BY <3>2, <3>3
      <3> QED BY <1>0, <2>6, <3>3, <3>5, <3>6, ItemsAdd
    <2>11. GoldEven
      <3>1. call[h].coin = 0 /\ call'[h].coin = 0
        BY <2>1, <2>6, UnitHand, NewCallAccounted DEF Accounted, AccountsForItsHand
      <3>2. gold \in [Chars -> Nat] /\ p \in Nat /\ gold[c.to] - p \in Nat /\ gold[c.to] \in Nat
        <4>1. gold \in [Chars -> Nat] /\ p \in Nat
          BY <1>0, <2>1, TreasuryAssumption DEF Typed, TypeOK, PeopleOK
        <4> QED BY <2>1, <2>5, <4>1
      <3>3. Total(gold) \in Int /\ Total(gold') = Total(gold) - gold[c.to] + (gold[c.to] - p)
        BY <1>0, <2>1, <2>5, <3>2, PurseMoves
      <3>4. Total(Takings)' = Total(Takings) + p
        BY <1>0, <2>1, <2>5, TakingsMove
      <3>5. pool.gold \in Int /\ coined \in Int
        BY <1>0 DEF Typed, TypeOK, PoolOK, EditsOK
      <3> HIDE DEF p
      <3>6. Total(gold') = Total(gold) + (-p) /\ -p \in Int /\ p \in Int
        BY <3>2, <3>3
      <3>7. pool'.gold = pool.gold + 0 /\ coined' = coined + 0
            /\ (-p) + 0 + p + call'[h].coin - call[h].coin = 0
        BY <2>8, <3>1, <3>5, <3>6
      <3> QED BY <1>0, <2>6, <3>4, <3>6, <3>7, GoldAdds
    <2>12. overwritten' = TRUE \/ c.theirs = bag[c.to]
      BY <2>5, Unfooled
    <2> QED BY <2>9, <2>10, <2>11, <2>12 DEF Even, ItemsEven
  <1>3. CASE AbortBuy(h)
    <2> DEFINE c == call[h]
               d == [c EXCEPT !.step = "restore"]
    <2>1. c \in CallType /\ c.item \in Wares /\ c.step = "charge" /\ Accounted(c)
      BY <1>0, <1>3, LocalsTyped DEF AbortBuy, At, KnowsItsRows, Books
    <2>2. /\ d.step = "restore" /\ d.hand = c.hand /\ d.coin = c.coin /\ d.item = c.item
          /\ d.qty = c.qty /\ d.mine = c.mine /\ d.theirs = c.theirs /\ d.copies = c.copies
      BY <2>1 DEF CallType
    <2>3. call' = [call EXCEPT ![h] = d] /\ UNCHANGED <<people, chest, trade, edits, faults>>
      BY <1>3 DEF AbortBuy, Goes
    <2> HIDE DEF d
    <2>4. c.coin = 0 /\ c.qty = 1 /\ \A i \in Items : c.hand[i] = IF c.item = i THEN c.qty ELSE 0
      BY <2>1, UnitHand DEF Accounted, CopiesAreBags, AccountsForItsHand
    <2>5. Accounted(d)
      <3>1. AccountsForItsHand(d)
        <4>1. d.step = "restore" /\ d.coin = 0 /\ d.qty \in Int
              /\ \A i \in Items : d.hand[i] = IF d.item = i THEN d.qty ELSE 0
          BY <2>2, <2>4
        <4> QED BY <4>1, UnitInHand
      <3> QED BY <2>1, <2>2, <2>4, <3>1 DEF Accounted, CopiesAreBags
    <2> QED BY <2>2, <2>3, <2>5, QuietStep
  <1>4. CASE Restore(h)
    <2> DEFINE c == call[h]
    <2>1. c \in CallType /\ c.item \in Items /\ c.item \in Wares
          /\ c.step = "restore" /\ Accounted(c)
      BY <1>0, <1>4, LocalsTyped DEF Restore, At, KnowsItsRows, Books
    <2>2. /\ shelf' = [shelf EXCEPT ![c.item] = @ + 1] /\ call' = [call EXCEPT ![h] = NewCall]
          /\ UNCHANGED <<sold, stocked, people, chest, edits, faults>>
      BY <1>4 DEF Restore, Restored, Goes
    <2>3. call'[h] = NewCall /\ Apart(h) /\ \A g \in Calls : Accounted(call'[g])
      BY <2>2, NewCallAccounted, OneMoves
    <2>4. UNCHANGED <<bag, loot, made, gold, pool, sold, coined>>
      BY <2>2 DEF people, chest, edits
    <2>5. Books'
      BY <2>3, <2>4 DEF Books
    <2>6. c.coin = 0 /\ c.qty = 1 /\ \A i \in Items : c.hand[i] = IF c.item = i THEN c.qty ELSE 0
      BY <2>1, UnitHand DEF Accounted, CopiesAreBags, AccountsForItsHand
    <2>7. ASSUME NEW i \in Items PROVE There(i)' - made'[i] = There(i) - made[i]
      <3> DEFINE u == IF c.item = i THEN 1 ELSE 0
      <3>1. ShelfOf(i)' = ShelfOf(i) + u
        <4> DEFINE w == c.item
        <4>1. w \in Wares /\ shelf' = [shelf EXCEPT ![w] = shelf[w] + 1] /\ 1 \in Int
          BY <2>1, <2>2
        <4>2. u = IF w = i THEN 1 ELSE 0
          OBVIOUS
        <4> HIDE DEF w, u
        <4> QED BY <1>0, <4>1, <4>2, ShelfMoves
      <3>2. call[h].hand[i] = u /\ call'[h].hand[i] = 0 /\ u \in Int
        BY <2>3, <2>6, NewCallAccounted
      <3>3. /\ Lying(loot, i) \in Int /\ Carried(bag, i) \in Int
            /\ ShelfOf(i) \in Int /\ made[i] \in Int
        BY <1>0, CountsTyped
      <3> HIDE DEF u
      <3>4. /\ Carried(bag', i) = Carried(bag, i) + 0 /\ Lying(loot', i) = Lying(loot, i) + 0
            /\ made'[i] = made[i] + 0
        BY <2>4, <3>3
      <3>5. 0 + 0 + u + call'[h].hand[i] - call[h].hand[i] = 0
        BY <3>2
      <3> QED BY <1>0, <2>3, <3>1, <3>2, <3>4, <3>5, ItemsAdd
    <2>8. GoldEven
      BY <1>0, <2>3, <2>4, <2>6, NewCallAccounted, GoldQuiet
    <2> QED BY <2>5, <2>7, <2>8 DEF Even, ItemsEven
  <1> QED BY <1>1, <1>2, <1>3, <1>4

LEMMA GiftBooks ==
    ASSUME Books, Typed', NEW h \in Calls,
           LookIntoBag(h) \/ MeetReceiver(h) \/ HandOver(h) \/ ReadBag(h) \/ Amend(h)
    PROVE  Books' /\ Even
  <1>0. /\ Typed /\ bag \in [Chars -> Bag] /\ PCs \subseteq Chars
        /\ \A q \in Parcels : q \in Nat
    BY TreasuryAssumption DEF Books, Chars
  <1>1. CASE LookIntoBag(h)
    <2>1. PICK from \in PCs, to \in PCs, i \in Items, q \in Parcels :
             Begins(h, [NewCall EXCEPT !.step = "meet", !.from = from, !.to = to,
                            !.item = i, !.qty = q, !.mine = bag[from]])
      BY <1>1 DEF LookIntoBag
    <2> DEFINE d == [NewCall EXCEPT !.step = "meet", !.from = from, !.to = to,
                            !.item = i, !.qty = q, !.mine = bag[from]]
    <2>2. /\ d.step = "meet" /\ d.hand = Empty /\ d.coin = 0 /\ d.mine = bag[from]
          /\ d.theirs = Empty /\ d.copies = NoCopies /\ d.qty = q
      BY DEF NewCall
    <2>3. UNCHANGED <<people, chest, trade, edits, faults>>
      BY <1>1 DEF LookIntoBag
    <2> HIDE DEF d
    <2>4. bag[from] \in Bag /\ q \in Nat
      BY <1>0
    <2>5. CopiesAreBags(d) /\ d.step \in EmptyHanded
      BY <2>2, <2>4, EmptyIsBag DEF CopiesAreBags, EmptyHanded, Plain, Steps, Stripping
    <2> QED BY <2>1, <2>2, <2>3, <2>5, QuietStart DEF d
  <1>2. CASE MeetReceiver(h)
    <2> DEFINE c == call[h]
               d == [c EXCEPT !.step = "hand", !.theirs = bag[c.to]]
    <2>1. c \in CallType /\ c.to \in PCs /\ c.step = "meet" /\ Accounted(c)
      BY <1>0, <1>2, LocalsTyped DEF MeetReceiver, At, KnowsItsRows, Books
    <2>2. /\ d.step = "hand" /\ d.hand = c.hand /\ d.coin = c.coin /\ d.item = c.item
          /\ d.qty = c.qty /\ d.mine = c.mine /\ d.theirs = bag[c.to] /\ d.copies = c.copies
      BY <2>1 DEF CallType
    <2>3. /\ \/ c.mine[c.item] >= c.qty /\ call' = [call EXCEPT ![h] = d]
             \/ Done(h)
          /\ UNCHANGED <<people, chest, trade, edits, faults>>
      BY <1>2 DEF MeetReceiver, Goes
    <2> HIDE DEF d
    <2>4. c.step \in EmptyHanded
      BY <2>1 DEF EmptyHanded, Plain, Steps, Stripping
    <2>5. (\A i \in Items : c.hand[i] = 0) /\ c.coin = 0
      BY <2>4, NothingHeld
    <2>6. CASE c.mine[c.item] >= c.qty /\ call' = [call EXCEPT ![h] = d]
      <3>1. AccountsForItsHand(d)
        <4>1. d.step \in EmptyHanded /\ d.coin = 0 /\ \A i \in Items : d.hand[i] = 0
          BY <2>2, <2>5 DEF EmptyHanded, Plain, Steps, Stripping
        <4> QED BY <4>1, NothingInHand DEF EmptyHanded
      <3>2. bag[c.to] \in Bag
        BY <1>0, <2>1
      <3>3. CopiesAreBags(d)
        BY <2>1, <2>2, <2>6, <3>2 DEF CopiesAreBags, Accounted
      <3> QED BY <2>2, <2>3, <2>6, <3>1, <3>3, QuietStep DEF Accounted
    <2>7. CASE Done(h)
      BY <2>3, <2>4, <2>7, QuietReturn
    <2> QED BY <2>3, <2>6, <2>7
  <1>3. CASE HandOver(h)
    <2> DEFINE c == call[h]
               a == Plus(c.mine, c.item, -c.qty)
               after == [bag EXCEPT ![c.from] = a]
               b == Plus(c.theirs, c.item, c.qty)
    <2>1. /\ c \in CallType /\ c.to \in Chars /\ c.from \in Chars /\ c.item \in Items
          /\ c.step = "hand" /\ Accounted(c)
      BY <1>0, <1>3, LocalsTyped DEF HandOver, At, KnowsItsRows, Books
    <2>2. /\ c.theirs \in Bag /\ c.qty \in Nat /\ c.theirs \in [Items -> Int]
          /\ c.mine \in Bag /\ c.mine \in [Items -> Int] /\ c.mine[c.item] >= c.qty
          /\ -c.qty \in Int
      BY <2>1 DEF Accounted, CopiesAreBags, Bag
    <2>3. c.theirs[c.item] + c.qty >= 0 /\ c.mine[c.item] + (-c.qty) >= 0
      BY <2>1, <2>2 DEF Bag
    <2>4. a \in Bag /\ b \in Bag
      BY <2>1, <2>2, <2>3, PlusBag
    <2>5. /\ bag' = [after EXCEPT ![c.to] = b] /\ call' = [call EXCEPT ![h] = NewCall]
          /\ UNCHANGED <<gold, cutShort, chest, trade, edits>>
          /\ FromCopy(<<c.mine, c.theirs>>, <<bag[c.from], after[c.to]>>)
      BY <1>3 DEF HandOver, Done, Goes
    <2>6. call'[h] = NewCall /\ Apart(h) /\ \A g \in Calls : Accounted(call'[g])
      BY <2>5, NewCallAccounted, OneMoves
    <2>7. /\ after \in [Chars -> Bag] /\ bag' \in [Chars -> Bag]
          /\ \A i \in Items : Carried(after, i) = Carried(bag, i) - bag[c.from][i] + a[i]
          /\ \A i \in Items : Carried(bag', i) = Carried(after, i) - after[c.to][i] + b[i]
      <3>1. after = [bag EXCEPT ![c.from] = a]
        OBVIOUS
      <3> HIDE DEF a, b, after
      <3>2. after \in [Chars -> Bag] /\ bag' \in [Chars -> Bag]
        BY <1>0, <2>4, <2>5, <3>1
      <3>3. /\ bag \in [Chars -> [Items -> Int]] /\ after \in [Chars -> [Items -> Int]]
            /\ a \in [Items -> Int] /\ b \in [Items -> Int]
        <4>1. Bag \subseteq [Items -> Int]
          BY DEF Bag
        <4> QED BY <1>0, <2>4, <3>2, <4>1
      <3>4. ASSUME NEW i \in Items
            PROVE  /\ Carried(after, i) = Carried(bag, i) - bag[c.from][i] + a[i]
                   /\ Carried(bag', i) = Carried(after, i) - after[c.to][i] + b[i]
        <4>1. Carried(after, i) = Carried(bag, i) - bag[c.from][i] + a[i]
          <5>1. Carried([bag EXCEPT ![c.from] = a], i) = Carried(bag, i) - bag[c.from][i] + a[i]
            BY <2>1, <3>3, CarriedChanged
          <5> QED BY <3>1, <5>1
        <4>2. Carried(bag', i) = Carried(after, i) - after[c.to][i] + b[i]
          BY <2>1, <2>5, <3>3, CarriedChanged
        <4> QED BY <4>1, <4>2
      <3> QED BY <3>2, <3>4
    <2>8. UNCHANGED <<loot, shelf, made, gold, pool, sold, coined>>
      BY <2>5 DEF chest, trade, edits
    <2>9. Books'
      BY <2>6, <2>7, <2>8 DEF Books
    <2>10. \A i \in Items : c.hand[i] = 0 /\ c.coin = 0
      BY <2>1, NothingHeld DEF EmptyHanded, Plain, Steps, Stripping
    <2>11. ASSUME c.mine = bag[c.from], c.theirs = after[c.to], NEW i \in Items
           PROVE  There(i)' - made'[i] = There(i) - made[i]
      <3> DEFINE x == IF c.item = i THEN c.qty ELSE 0
                 y == IF c.item = i THEN -c.qty ELSE 0
      <3>1. b[i] = after[c.to][i] + x /\ a[i] = bag[c.from][i] + y
        BY <2>1, <2>2, <2>11, PlusAt
      <3>2. x \in Int /\ y \in Int /\ x + y = 0
        BY <2>2
      <3>3. call[h].hand[i] = 0 /\ call'[h].hand[i] = 0
        BY <2>6, <2>10, NewCallAccounted
      <3>4. /\ Lying(loot, i) \in Int /\ Carried(bag, i) \in Int
            /\ ShelfOf(i) \in Int /\ made[i] \in Int
        BY <1>0, CountsTyped
      <3>5. bag[c.from][i] \in Int /\ after[c.to][i] \in Int
        <4> HIDE DEF after
        <4> QED BY <1>0, <2>1, <2>7 DEF Bag
      <3>6. Carried(after, i) = Carried(bag, i) - bag[c.from][i] + a[i]
            /\ Carried(bag', i) = Carried(after, i) - after[c.to][i] + b[i]
        BY <2>7
      <3> HIDE DEF x, y, a, b, after
      <3>7. Carried(bag', i) = Carried(bag, i) + 0
        BY <3>1, <3>2, <3>4, <3>5, <3>6
      <3>8. /\ Lying(loot', i) = Lying(loot, i) + 0
            /\ ShelfOf(i)' = ShelfOf(i) + 0 /\ made'[i] = made[i] + 0
        BY <2>8, <3>4 DEF ShelfOf
      <3>9. 0 + 0 + 0 + call'[h].hand[i] - call[h].hand[i] = 0
        BY <3>3
      <3> QED BY <1>0, <2>6, <3>7, <3>8, <3>9, ItemsAdd
    <2>12. GoldEven
      <3>1. c.coin = 0
        BY <2>1 DEF Accounted, AccountsForItsHand
      <3> QED BY <1>0, <2>6, <2>8, <3>1, NewCallAccounted, GoldQuiet
    <2>13. overwritten' = TRUE \/ (c.mine = bag[c.from] /\ c.theirs = after[c.to])
      <3>1. overwritten' = TRUE \/ <<c.mine, c.theirs>> = <<bag[c.from], after[c.to]>>
        BY <2>5, Unfooled
      <3> HIDE DEF after
      <3> QED BY <3>1
    <2> HIDE DEF after
    <2> QED BY <2>9, <2>11, <2>12, <2>13 DEF Even, ItemsEven
  <1>4. CASE ReadBag(h)
    <2>1. PICK c \in PCs, i \in Items, q \in Int :
             /\ bag[c][i] + q >= 0
             /\ Begins(h, [NewCall EXCEPT !.step = "amend", !.to = c, !.item = i,
                            !.qty = q, !.mine = bag[c]])
      <3>1. ASSUME NEW c \in PCs, NEW i \in Items, NEW q \in Parcels
            PROVE  /\ q \in Int /\ -q \in Int /\ bag[c][i] + q >= 0
                   /\ bag[c][i] >= q => bag[c][i] + (-q) >= 0
        <4>1. bag[c][i] \in Nat /\ q \in Nat
          BY <1>0 DEF Bag
        <4> QED BY <4>1
      <3> QED BY <3>1, <1>4 DEF ReadBag
    <2> DEFINE d == [NewCall EXCEPT !.step = "amend", !.to = c, !.item = i,
                            !.qty = q, !.mine = bag[c]]
    <2>2. /\ d.step = "amend" /\ d.hand = Empty /\ d.coin = 0 /\ d.mine = bag[c]
          /\ d.theirs = Empty /\ d.copies = NoCopies /\ d.qty = q /\ d.item = i
      BY DEF NewCall
    <2>3. UNCHANGED <<people, chest, trade, edits, faults>>
      BY <1>4 DEF ReadBag
    <2> HIDE DEF d
    <2>4. bag[c] \in Bag
      BY <1>0
    <2>5. CopiesAreBags(d) /\ d.step \in EmptyHanded
      BY <2>1, <2>2, <2>4, EmptyIsBag DEF CopiesAreBags, EmptyHanded, Plain, Steps, Stripping
    <2> QED BY <2>1, <2>2, <2>3, <2>5, QuietStart DEF d
  <1>5. CASE Amend(h)
    <2> DEFINE c == call[h]
               b == Plus(c.mine, c.item, c.qty)
    <2>1. c \in CallType /\ c.to \in Chars /\ c.item \in Items /\ c.step = "amend"
          /\ Accounted(c) /\ c.qty \in Int
      BY <1>0, <1>5, LocalsTyped DEF Amend, At, KnowsItsRows, Books
    <2>2. c.mine \in Bag /\ c.mine \in [Items -> Int] /\ c.mine[c.item] + c.qty >= 0
      BY <2>1 DEF Accounted, CopiesAreBags, Bag
    <2>3. b \in Bag
      BY <2>1, <2>2, PlusBag
    <2>4. /\ bag' = [bag EXCEPT ![c.to] = b] /\ call' = [call EXCEPT ![h] = NewCall]
          /\ made' = Plus(made, c.item, c.qty)
          /\ UNCHANGED <<gold, coined, cutShort, chest, trade>>
          /\ FromCopy(c.mine, bag[c.to])
      BY <1>5 DEF Amend, Done, Goes
    <2>5. call'[h] = NewCall /\ Apart(h) /\ \A g \in Calls : Accounted(call'[g])
      BY <2>4, NewCallAccounted, OneMoves
    <2>6. /\ bag' \in [Chars -> Bag]
          /\ \A i \in Items : Carried(bag', i) = Carried(bag, i) - bag[c.to][i] + b[i]
      <3> HIDE DEF b
      <3> QED BY <2>1, <2>3, <2>4, BagStays
    <2>7. UNCHANGED <<loot, shelf, gold, pool, sold, coined>>
      BY <2>4 DEF chest, trade
    <2>8. Books'
      BY <2>5, <2>6, <2>7 DEF Books
    <2>9. (\A i \in Items : c.hand[i] = 0) /\ c.coin = 0
      BY <2>1, NothingHeld DEF EmptyHanded, Plain, Steps, Stripping
    <2>10. ASSUME c.mine = bag[c.to], NEW i \in Items
           PROVE  There(i)' - made'[i] = There(i) - made[i]
      <3> DEFINE x == IF c.item = i THEN c.qty ELSE 0
      <3>1. b[i] = bag[c.to][i] + x
        BY <2>1, <2>2, <2>10, PlusAt
      <3>2. made'[i] = made[i] + x
        BY <1>0, <2>1, <2>4, PlusAt DEF Typed, TypeOK, EditsOK
      <3>3. call[h].hand[i] = 0 /\ call'[h].hand[i] = 0
        BY <2>5, <2>9, NewCallAccounted
      <3>4. /\ x \in Int /\ Lying(loot, i) \in Int /\ Carried(bag, i) \in Int
            /\ ShelfOf(i) \in Int /\ made[i] \in Int /\ bag[c.to][i] \in Int
        BY <1>0, <2>1, <2>2, <2>10, CountsTyped
      <3>5. Carried(bag', i) = Carried(bag, i) - bag[c.to][i] + b[i]
        BY <2>6
      <3> HIDE DEF x, b
      <3>6. /\ Carried(bag', i) = Carried(bag, i) + x /\ Lying(loot', i) = Lying(loot, i) + 0
            /\ ShelfOf(i)' = ShelfOf(i) + 0
        BY <2>7, <3>1, <3>4, <3>5 DEF ShelfOf
      <3>7. x + 0 + 0 + call'[h].hand[i] - call[h].hand[i] = x
        BY <3>3, <3>4
      <3> QED BY <1>0, <2>5, <3>2, <3>4, <3>6, <3>7, ItemsAdd
    <2>11. GoldEven
      BY <1>0, <2>5, <2>7, <2>9, NewCallAccounted, GoldQuiet
    <2>12. overwritten' = TRUE \/ c.mine = bag[c.to]
      BY <2>4, Unfooled
    <2> QED BY <2>8, <2>10, <2>11, <2>12 DEF Even, ItemsEven
  <1> QED BY <1>1, <1>2, <1>3, <1>4, <1>5

(***************************************************************************)
(* The copies a loot pool is made from.                                    *)
(***************************************************************************)
LEMMA NoneHeld ==
    ASSUME NEW c, NEW i, \A n \in Npcs : ~Holds(c, n, i)
    PROVE  Total(HeldCopies(c, i)) = 0
  <1> DEFINE f == HeldCopies(c, i)
  <1>1. f \in [Npcs -> Int] /\ \A n \in Npcs : f[n] = 0
    BY DEF HeldCopies
  <1> HIDE DEF f
  <1> QED BY <1>1, TotalOfNothing DEF f

LEMMA SameHeld ==
    ASSUME NEW c, NEW d, NEW i, d.copies = c.copies,
           \A n \in Npcs : Holds(d, n, i) <=> Holds(c, n, i)
    PROVE  HeldCopies(d, i) = HeldCopies(c, i)
  BY DEF HeldCopies

\* One more, or one less, is held of.
LEMMA OneMoreHeld ==
    ASSUME NEW c, NEW d, NEW i \in Items, CopiesAreBags(c), d.copies = c.copies,
           NEW n \in Npcs, ~Holds(c, n, i), Holds(d, n, i),
           \A m \in Npcs \ {n} : Holds(d, m, i) <=> Holds(c, m, i)
    PROVE  Total(HeldCopies(d, i)) = Total(HeldCopies(c, i)) + c.copies[n][i]
  <1> DEFINE f == HeldCopies(c, i)
             g == HeldCopies(d, i)
  <1>1. \A m \in Npcs : c.copies[m][i] \in Nat
    BY DEF CopiesAreBags, Bag, Chars
  <1>2. f \in [Npcs -> Int] /\ g \in [Npcs -> Int]
    BY <1>1 DEF HeldCopies
  <1>3. f[n] = 0 /\ g[n] = c.copies[n][i]
    BY DEF HeldCopies
  <1>4. \A m \in Npcs \ {n} : g[m] = f[m]
    BY DEF HeldCopies
  <1> HIDE DEF f, g
  <1>5. Total(g) = Total(f) - f[n] + g[n] /\ Total(f) \in Int
    BY <1>2, <1>4, FinitelyMany, TotalChanged, TotalTyped
  <1>6. c.copies[n][i] \in Int
    BY <1>1
  <1> QED BY <1>3, <1>5, <1>6 DEF f, g

LEMMA NextFields ==
    ASSUME NEW c \in CallType, NEW x, NEW then
    PROVE  LET d == Next1(c, x, then)
           IN  /\ d.hand = c.hand /\ d.coin = c.coin /\ d.mine = c.mine /\ d.theirs = c.theirs
               /\ d.copies = c.copies /\ d.from = c.from
               /\ c.todo = {x} => d.step = then /\ d.todo = Npcs
               /\ c.todo # {x} => d.step = c.step /\ d.todo = c.todo \ {x}
  BY DEF Next1, CallType

LEMMA SurveyBooks ==
    ASSUME Books, Typed', NEW h \in Calls, Survey(h)
    PROVE  Books' /\ Even
  <1> DEFINE d == [NewCall EXCEPT !.step = IF Npcs = {} THEN "found" ELSE "gather",
                                  !.todo = Npcs]
  <1>1. /\ d.step = (IF Npcs = {} THEN "found" ELSE "gather")
        /\ d.hand = Empty /\ d.coin = 0
        /\ d.mine = Empty /\ d.theirs = Empty /\ d.copies = NoCopies
    BY DEF NewCall
  <1>2. call' = [call EXCEPT ![h] = d] /\ call[h].step = "idle"
        /\ UNCHANGED <<people, chest, trade, edits, faults>>
    BY DEF Survey, Begins
  <1> HIDE DEF d
  <1>3. (\A i \in Items : call[h].hand[i] = 0) /\ call[h].coin = 0
    BY <1>2, NothingHeld DEF EmptyHanded, Plain, Steps, Stripping
  <1>4. AccountsForItsHand(d)
    <2>1. \A i \in Items : Total(HeldCopies(d, i)) = 0
      <3>1. \A i \in Items, n \in Npcs : ~Holds(d, n, i)
        BY <1>1 DEF Holds
      <3> QED BY <3>1, NoneHeld
    <2>2. \A i \in Items : HeldUnits(d, i) = 0
      BY <1>1 DEF HeldUnits
    <2> QED BY <1>1, <2>1, <2>2, EmptyIsBag DEF AccountsForItsHand
  <1>5. CopiesAreBags(d)
    BY <1>1, EmptyIsBag DEF CopiesAreBags
  <1>6. \A i \in Items : d.hand[i] = 0
    BY <1>1, EmptyIsBag
  <1> QED BY <1>1, <1>2, <1>3, <1>4, <1>5, <1>6, QuietStep DEF Accounted

LEMMA GatherBooks ==
    ASSUME Books, Typed', NEW h \in Calls, Gather(h)
    PROVE  Books' /\ Even
  <1>0. Typed /\ bag \in [Chars -> Bag] /\ gold \in [Chars -> Nat]
    BY DEF Books, Typed, TypeOK, PeopleOK
  <1> DEFINE b == call[h]
  <1>a. PICK n \in Npcs, c \in CallType :
           ReadOf(b, n, c) /\ Goes(h, Next1(c, n, "stripGold"))
    BY <1>0, GatherReads
  <1>1. /\ call' = [call EXCEPT ![h] = Next1(c, n, "stripGold")]
        /\ n \in Chars /\ c.step = "gather" /\ b.step = "gather"
        /\ c.hand = b.hand /\ c.coin = b.coin /\ c.mine = b.mine /\ c.theirs = b.theirs
        /\ c.copies = b.copies \/ c.copies = [b.copies EXCEPT ![n] = bag[n]]
    BY <1>a DEF ReadOf, Goes
  <1> DEFINE d == Next1(c, n, "stripGold")
  <1>2. b \in CallType /\ Accounted(b)
    BY <1>0, LocalsTyped DEF Books
  <1>5. c.copies \in [Chars -> Bag]
    BY <1>0, <1>1, <1>2 DEF Accounted, CopiesAreBags
  <1>6. call' = [call EXCEPT ![h] = d] /\ UNCHANGED <<people, chest, trade, edits, faults>>
    BY <1>1 DEF Gather
  <1>7. /\ d.hand = b.hand /\ d.coin = b.coin /\ d.mine = b.mine /\ d.theirs = b.theirs
        /\ d.copies = c.copies
        /\ \/ d.step = "gather"
           \/ d.step = "stripGold" /\ d.todo = Npcs
    <2> HIDE DEF d
    <2> QED BY <1>1, NextFields DEF d
  <1> HIDE DEF d
  <1>8. (\A i \in Items : b.hand[i] = 0) /\ b.coin = 0
    BY <1>1, NothingHeld DEF EmptyHanded, Plain, Steps, Stripping
  <1>9. AccountsForItsHand(d)
    <2>1. \A i \in Items : Total(HeldCopies(d, i)) = 0
      <3>1. \A i \in Items, m \in Npcs : ~Holds(d, m, i)
        BY <1>7 DEF Holds
      <3> QED BY <3>1, NoneHeld
    <2>2. \A i \in Items : HeldUnits(d, i) = 0
      BY <1>7 DEF HeldUnits
    <2> QED BY <1>7, <1>8, <2>1, <2>2 DEF AccountsForItsHand
  <1>10. CopiesAreBags(d)
    BY <1>2, <1>5, <1>7 DEF CopiesAreBags, Accounted
  <1> QED BY <1>6, <1>7, <1>9, <1>10, QuietStep DEF Accounted

LEMMA StripGoldBooks ==
    ASSUME Books, Typed', NEW h \in Calls, StripGold(h)
    PROVE  Books' /\ Even
  <1>0. Typed /\ gold \in [Chars -> Nat]
    BY DEF Books, Typed, TypeOK, PeopleOK
  <1> DEFINE c == call[h]
  <1>1. PICK n \in c.todo :
           /\ gold' = [gold EXCEPT ![n] = 0]
           /\ IF n \in c.unseen
              THEN coined' = coined + c.purses[n] - gold[n] /\ UNCHANGED overwritten
              ELSE FromCopy(c.purses[n], gold[n]) /\ UNCHANGED coined
           /\ Goes(h, [c EXCEPT !.step = "stripBag", !.from = n, !.coin = @ + c.purses[n]])
    BY DEF StripGold
  <1> DEFINE d == [c EXCEPT !.step = "stripBag", !.from = n, !.coin = @ + c.purses[n]]
  <1>2. c \in CallType /\ n \in Chars /\ c.step = "stripGold" /\ Accounted(c)
        /\ c.coin \in Int
    BY <1>0, LocalsTyped DEF StripGold, At, KnowsItsRows, Chars, Books
  <1>3. /\ d.step = "stripBag" /\ d.from = n /\ d.coin = c.coin + c.purses[n]
        /\ d.hand = c.hand /\ d.mine = c.mine /\ d.theirs = c.theirs /\ d.copies = c.copies
        /\ d.todo = c.todo
    BY <1>2 DEF CallType
  <1>4. call' = [call EXCEPT ![h] = d] /\ UNCHANGED <<bag, made, cutShort, chest, trade>>
    BY <1>1 DEF StripGold, Goes
  <1> HIDE DEF d
  <1>5. Accounted(d)
    <2>1. AccountsForItsHand(d)
      <3>1. ASSUME NEW i \in Items PROVE d.hand[i] = HeldUnits(d, i) + Total(HeldCopies(d, i))
        <4>1. \A m \in Npcs : Holds(d, m, i) <=> Holds(c, m, i)
          BY <1>2, <1>3 DEF Holds
        <4>2. HeldCopies(d, i) = HeldCopies(c, i)
          BY <1>3, <4>1, SameHeld
        <4>3. HeldUnits(d, i) = HeldUnits(c, i)
          BY <1>2, <1>3 DEF HeldUnits
        <4> QED BY <1>2, <1>3, <4>2, <4>3 DEF Accounted, AccountsForItsHand
      <3> QED BY <1>3, <3>1 DEF AccountsForItsHand
    <2>2. CopiesAreBags(d)
      BY <1>2, <1>3 DEF Accounted, CopiesAreBags
    <2> QED BY <2>1, <2>2 DEF Accounted
  <1>6. call'[h] = d /\ Apart(h) /\ \A g \in Calls : Accounted(call'[g])
    BY <1>4, <1>5, OneMoves
  <1>7. UNCHANGED <<bag, loot, shelf, made, pool, sold>>
    BY <1>4 DEF chest, trade
  <1>8. Books'
    BY <1>6, <1>7 DEF Books
  <1>9. ItemsEven
    BY <1>0, <1>3, <1>6, <1>7, ItemsQuiet
  <1>10. ASSUME coined' = coined + (c.purses[n] - gold[n]) PROVE GoldEven
    <2>1. Total(gold) \in Int /\ Total(gold') = Total(gold) - gold[n] + 0
      BY <1>0, <1>1, <1>2, PurseMoves
    <2>2. Takings' = Takings /\ Total(Takings) \in Int
      <3>1. Takings' = Takings
        BY <1>7 DEF Takings
      <3>2. Takings \in [Wares -> Int]
        BY <1>0, TakingsTyped DEF Typed, TypeOK
      <3> QED BY <3>1, <3>2, TreasuryAssumption, TotalTyped
    <2>3. /\ pool.gold \in Int /\ coined \in Int /\ gold[n] \in Int /\ -gold[n] \in Int
          /\ c.purses[n] \in Int /\ c.purses[n] - gold[n] \in Int
      BY <1>0, <1>2, LocalsTyped DEF Typed, TypeOK, PoolOK, EditsOK
    <2>4. Total(gold') = Total(gold) + (-gold[n]) /\ pool'.gold = pool.gold + 0
          /\ Total(Takings)' = Total(Takings) + 0
      BY <1>7, <2>1, <2>2, <2>3
    <2>5. (-gold[n]) + 0 + 0 + call'[h].coin - call[h].coin = c.purses[n] - gold[n]
      BY <1>2, <1>3, <1>6, <2>3
    <2> QED BY <1>0, <1>6, <1>10, <2>3, <2>4, <2>5, GoldAdds
  <1>11. overwritten' = TRUE \/ coined' = coined + (c.purses[n] - gold[n])
    <2>1. coined \in Int /\ gold[n] \in Int /\ c.purses[n] \in Int
      BY <1>0, <1>2, LocalsTyped DEF Typed, TypeOK, EditsOK
    <2>2. CASE n \in c.unseen
      BY <1>1, <2>1, <2>2
    <2>3. CASE n \notin c.unseen
      <3>1. overwritten' = TRUE \/ c.purses[n] = gold[n]
        BY <1>1, <2>3, Unfooled
      <3> QED BY <1>1, <2>1, <2>3, <3>1
    <2> QED BY <2>2, <2>3
  <1> QED BY <1>8, <1>9, <1>10, <1>11 DEF Even

LEMMA StripBagBooks ==
    ASSUME Books, Typed', NEW h \in Calls, StripBag(h)
    PROVE  Books' /\ Even
  <1> DEFINE a == call[h]
             n == a.from
             c == [a EXCEPT !.step = "stripGold", !.hand = Both(a.hand, a.copies[n])]
             d == Next1(c, n, "found")
  <1>0. Typed /\ bag \in [Chars -> Bag]
    BY DEF Books
  <1>1. /\ a \in CallType /\ n \in Chars /\ n \in Npcs /\ a.step = "stripBag" /\ Accounted(a)
        /\ a.hand \in [Items -> Int]
    BY <1>0, LocalsTyped DEF StripBag, At, KnowsItsRows, Chars, Books
  <1>2. n \in a.todo /\ CopiesAreBags(a) /\ a.copies[n] \in Bag
    BY <1>1 DEF Accounted, AccountsForItsHand, CopiesAreBags
  <1>3. c \in CallType
    <2>1. Both(a.hand, a.copies[n]) \in [Items -> Int]
      BY <1>1, <1>2 DEF Both, Bag
    <2> QED BY <1>1, <2>1 DEF CallType, Steps
  <1>4. /\ c.step = "stripGold" /\ c.hand = Both(a.hand, a.copies[n]) /\ c.coin = a.coin
        /\ c.mine = a.mine /\ c.theirs = a.theirs /\ c.copies = a.copies /\ c.todo = a.todo
    BY <1>1 DEF CallType
  <1>5. /\ call' = [call EXCEPT ![h] = d] /\ bag' = [bag EXCEPT ![n] = Empty]
        /\ UNCHANGED <<gold, coined, cutShort, chest, trade>>
        /\ IF n \in a.unread
           THEN made' = Both(made, Less(a.copies[n], bag[n])) /\ UNCHANGED overwritten
           ELSE FromCopy(a.copies[n], bag[n]) /\ UNCHANGED made
    BY <1>0, <1>1 DEF StripBag, Goes, Cleared
  <1> HIDE DEF c
  <1>6. /\ d.hand = Both(a.hand, a.copies[n]) /\ d.coin = a.coin /\ d.mine = a.mine
        /\ d.theirs = a.theirs /\ d.copies = a.copies
        /\ a.todo = {n} => d.step = "found"
        /\ a.todo # {n} => d.step = "stripGold" /\ d.todo = a.todo \ {n}
    <2> HIDE DEF d
    <2> QED BY <1>3, <1>4, NextFields DEF d
  <1> HIDE DEF d
  <1>7. \A i \in Items : d.hand[i] = a.hand[i] + a.copies[n][i]
    BY <1>6 DEF Both
  <1>8. Accounted(d)
    <2>1. ASSUME NEW i \in Items PROVE d.hand[i] = HeldUnits(d, i) + Total(HeldCopies(d, i))
      <3>1. ~Holds(a, n, i) /\ Holds(d, n, i)
        BY <1>1, <1>2, <1>6 DEF Holds
      <3>2. \A m \in Npcs \ {n} : Holds(d, m, i) <=> Holds(a, m, i)
        BY <1>1, <1>6 DEF Holds
      <3>3. Total(HeldCopies(d, i)) = Total(HeldCopies(a, i)) + a.copies[n][i]
        BY <1>1, <1>2, <1>6, <3>1, <3>2, OneMoreHeld
      <3>4. HeldUnits(d, i) = 0 /\ HeldUnits(a, i) = 0
        BY <1>1, <1>6 DEF HeldUnits
      <3>5. a.hand[i] = HeldUnits(a, i) + Total(HeldCopies(a, i))
        BY <1>1 DEF Accounted, AccountsForItsHand
      <3>6. Total(HeldCopies(a, i)) \in Nat /\ a.copies[n][i] \in Nat
        BY <1>2, HeldTyped DEF Bag
      <3> QED BY <1>7, <3>3, <3>4, <3>5, <3>6
    <2>2. d.step \in {"stripGold", "found"}
      BY <1>6
    <2>3. AccountsForItsHand(d)
      BY <2>1, <2>2 DEF AccountsForItsHand
    <2>4. CopiesAreBags(d)
      BY <1>2, <1>6, <2>2 DEF CopiesAreBags
    <2> QED BY <2>3, <2>4 DEF Accounted
  <1>9. call'[h] = d /\ Apart(h) /\ \A g \in Calls : Accounted(call'[g])
    BY <1>5, <1>8, OneMoves
  <1>10. /\ bag' \in [Chars -> Bag]
         /\ \A i \in Items : Carried(bag', i) = Carried(bag, i) - bag[n][i] + Empty[i]
    BY <1>1, <1>5, EmptyIsBag, BagStays
  <1>11. UNCHANGED <<loot, shelf, gold, pool, sold, coined>>
    BY <1>5 DEF chest, trade
  <1>12. Books'
    BY <1>9, <1>10, <1>11 DEF Books
  <1>13. ASSUME NEW i \in Items, made'[i] = made[i] + (a.copies[n][i] - bag[n][i])
         PROVE  There(i)' - made'[i] = There(i) - made[i]
    <2> DEFINE x == bag[n][i]
               y == a.copies[n][i]
    <2>1. /\ x \in Int /\ -x \in Int /\ Lying(loot, i) \in Int /\ Carried(bag, i) \in Int
          /\ ShelfOf(i) \in Int /\ made[i] \in Int /\ a.hand[i] \in Int
          /\ y \in Int /\ y - x \in Int
      BY <1>0, <1>1, <1>2, CountsTyped DEF Bag
    <2>2. call'[h].hand[i] = call[h].hand[i] + y
      BY <1>7, <1>9
    <2>3. Carried(bag', i) = Carried(bag, i) - x + 0
      BY <1>10, EmptyIsBag
    <2>4. made'[i] = made[i] + (y - x)
      BY <1>13
    <2> HIDE DEF x, y
    <2>5. /\ Carried(bag', i) = Carried(bag, i) + (-x) /\ Lying(loot', i) = Lying(loot, i) + 0
          /\ ShelfOf(i)' = ShelfOf(i) + 0
      BY <1>11, <2>1, <2>3 DEF ShelfOf
    <2>6. (-x) + 0 + 0 + call'[h].hand[i] - call[h].hand[i] = y - x
      BY <2>1, <2>2
    <2> QED BY <1>0, <1>9, <2>1, <2>4, <2>5, <2>6, ItemsAdd
  <1>14. GoldEven
    BY <1>0, <1>6, <1>9, <1>11, GoldQuiet
  <1>15. overwritten' = TRUE
         \/ \A i \in Items : made'[i] = made[i] + (a.copies[n][i] - bag[n][i])
    <2>1. \A i \in Items : made[i] \in Int /\ bag[n][i] \in Int /\ a.copies[n][i] \in Int
      BY <1>0, <1>1, <1>2 DEF Typed, TypeOK, EditsOK, Bag
    <2>2. CASE n \in a.unread
      <3>1. made' = Both(made, Less(a.copies[n], bag[n]))
        BY <1>5, <2>2
      <3> QED BY <2>1, <3>1 DEF Both, Less
    <2>3. CASE n \notin a.unread
      <3>1. overwritten' = TRUE \/ a.copies[n] = bag[n]
        BY <1>5, <2>3, Unfooled
      <3>2. made' = made
        BY <1>5, <2>3
      <3> QED BY <2>1, <3>1, <3>2
    <2> QED BY <2>2, <2>3
  <1> QED BY <1>12, <1>13, <1>14, <1>15 DEF Even, ItemsEven

LEMMA RowsGrow ==
    ASSUME Books, NEW j \in Items, NEW q \in Nat, AddRow(j, q)
    PROVE  /\ \A x \in DOMAIN loot' : loot'[x].qty \in Nat
           /\ \A i \in Items : Lying(loot', i) = Lying(loot, i) + (IF j = i THEN q ELSE 0)
  <1> DEFINE e == [item |-> j, qty |-> q, by |-> Nobody]
  <1>1. e \in Row /\ e.item = j /\ e.qty = q /\ e.by = Nobody
    BY DEF Row
  <1>2. loot \in Seq(Row) /\ loot' = Append(loot, e)
    BY DEF Books, Typed, TypeOK, LootOK, AddRow
  <1> HIDE DEF e
  <1>3. \A x \in DOMAIN loot' : loot'[x].qty \in Nat
    <2>1. /\ DOMAIN loot' = 1..(Len(loot) + 1) /\ DOMAIN loot = 1..Len(loot)
          /\ loot'[Len(loot) + 1] = e /\ \A x \in 1..Len(loot) : loot'[x] = loot[x]
          /\ Len(loot) \in Nat
      BY <1>1, <1>2
    <2>2. \A x \in 1..Len(loot) : loot[x].qty \in Nat
      BY <2>1 DEF Books
    <2>3. ASSUME NEW x \in DOMAIN loot' PROVE x = Len(loot) + 1 \/ x \in 1..Len(loot)
      BY <2>1
    <2> QED BY <1>1, <2>1, <2>2, <2>3
  <1>4. \A i \in Items : Left(e, i) = IF j = i THEN q ELSE 0
    BY <1>1 DEF Left
  <1>5. \A i \in Items : Lying(loot', i) = Lying(loot, i) + Left(e, i)
    BY <1>1, <1>2, LyingAdded
  <1> QED BY <1>3, <1>4, <1>5

LEMMA FoundBooks ==
    ASSUME Books, Typed', NEW h \in Calls, Found(h)
    PROVE  Books' /\ Even
  <1> DEFINE c == call[h]
             d == [c EXCEPT !.step = "stow", !.todo = Finds(c), !.coin = 0]
  <1>0. Typed
    BY DEF Books
  <1>1. c \in CallType /\ c.step = "found" /\ Accounted(c) /\ c.coin \in Int
    BY <1>0, LocalsTyped DEF Found, At, Books
  <1>2. CopiesAreBags(c) /\ \A n \in Npcs, i \in Items : c.copies[n][i] \in Nat
    BY <1>1 DEF Accounted, CopiesAreBags, Bag, Chars
  <1>3. /\ pool.status = "none" /\ pool' = [status |-> "open", gold |-> c.coin]
        /\ UNCHANGED <<loot, winners, people, trade, edits, faults>>
        /\ \/ Finds(c) = {} /\ call' = [call EXCEPT ![h] = NewCall]
           \/ call' = [call EXCEPT ![h] = d]
    BY DEF Found, At, Goes, Done
  <1>4. pool.gold = 0 /\ pool'.gold = c.coin /\ pool'.status = "open"
    BY <1>3 DEF Books
  <1>5. /\ d.step = "stow" /\ d.todo = Finds(c) /\ d.coin = 0 /\ d.hand = c.hand
        /\ d.mine = c.mine /\ d.theirs = c.theirs /\ d.copies = c.copies
    BY <1>1 DEF CallType
  <1> HIDE DEF d
  <1>6. ASSUME NEW i \in Items
        PROVE  /\ HeldCopies(d, i) = HeldCopies(c, i)
               /\ HeldUnits(d, i) = 0 /\ HeldUnits(c, i) = 0
               /\ c.hand[i] = HeldUnits(c, i) + Total(HeldCopies(c, i))
    <2>1. \A n \in Npcs : <<n, i>> \in Finds(c) <=> c.copies[n][i] # 0
      BY <1>2 DEF Finds
    <2>2. \A n \in Npcs : Holds(d, n, i) <=> c.copies[n][i] # 0
      BY <1>5, <2>1 DEF Holds
    <2>3. \A n \in Npcs : Holds(c, n, i)
      BY <1>1 DEF Holds
    <2>4. HeldCopies(d, i) = HeldCopies(c, i)
      BY <1>5, <2>2, <2>3 DEF HeldCopies
    <2>5. HeldUnits(d, i) = 0 /\ HeldUnits(c, i) = 0
      BY <1>1, <1>5 DEF HeldUnits
    <2> QED BY <1>1, <2>4, <2>5 DEF Accounted, AccountsForItsHand
  <1>7. Accounted(d)
    <2>1. AccountsForItsHand(d)
      BY <1>5, <1>6 DEF AccountsForItsHand
    <2> QED BY <1>2, <1>5, <2>1 DEF Accounted, CopiesAreBags
  <1>8. ASSUME Finds(c) = {}, NEW i \in Items PROVE c.hand[i] = 0
    <2>1. \A n \in Npcs : ~Holds(d, n, i)
      BY <1>5, <1>8 DEF Holds
    <2>2. Total(HeldCopies(d, i)) = 0
      BY <2>1, NoneHeld
    <2> QED BY <1>6, <2>2
  <1>9. PICK k : /\ call' = [call EXCEPT ![h] = k] /\ Accounted(k) /\ k.coin = 0
                 /\ \A i \in Items : k.hand[i] = c.hand[i]
    <2>1. CASE Finds(c) = {} /\ call' = [call EXCEPT ![h] = NewCall]
      BY <1>8, <2>1, NewCallAccounted
    <2>2. CASE call' = [call EXCEPT ![h] = d]
      BY <1>5, <1>7, <2>2
    <2> QED BY <1>3, <2>1, <2>2
  <1>10. call'[h] = k /\ Apart(h) /\ \A g \in Calls : Accounted(call'[g])
    BY <1>9, OneMoves
  <1>11. UNCHANGED <<bag, loot, shelf, made, gold, sold, coined>>
    BY <1>3 DEF people, trade, edits
  <1>12. Books'
    BY <1>4, <1>10, <1>11 DEF Books
  <1>13. ItemsEven
    BY <1>0, <1>9, <1>10, <1>11, ItemsQuiet
  <1>14. GoldEven
    <2>1. Total(gold) \in Int /\ Total(Takings) \in Int /\ coined \in Int
      <3>1. /\ gold \in [Chars -> Int] /\ coined \in Int /\ Takings \in [Wares -> Int]
        BY <1>0, TakingsTyped DEF Typed, TypeOK, PeopleOK, EditsOK
      <3> QED BY <3>1, TreasuryAssumption, TotalTyped
    <2>2. Takings' = Takings
      BY <1>11 DEF Takings
    <2>3. Total(gold') = Total(gold) + 0 /\ pool'.gold = pool.gold + c.coin
          /\ Total(Takings)' = Total(Takings) + 0 /\ coined' = coined + 0
      BY <1>1, <1>4, <1>11, <2>1, <2>2
    <2>4. 0 + c.coin + 0 + call'[h].coin - call[h].coin = 0
      BY <1>1, <1>9, <1>10
    <2> QED BY <1>0, <1>1, <1>10, <2>3, <2>4, GoldAdds
  <1> QED BY <1>12, <1>13, <1>14 DEF Even

LEMMA StowBooks ==
    ASSUME Books, Typed', NEW h \in Calls, Stow(h)
    PROVE  Books' /\ Even
  <1> DEFINE c == call[h]
  <1>0. Typed
    BY DEF Books
  <1>1. /\ c \in CallType /\ c.step = "stow" /\ Accounted(c) /\ c.todo \subseteq Npcs \X Items
        /\ c.hand \in [Items -> Int]
    BY <1>0, LocalsTyped DEF Stow, At, KnowsItsRows, Books
  <1>2. PICK f \in c.todo :
           /\ AddRow(f[2], c.copies[f[1]][f[2]])
           /\ IF c.todo = {f} THEN Done(h)
              ELSE Goes(h, [c EXCEPT !.todo = @ \ {f},
                                     !.hand = Plus(@, f[2], -c.copies[f[1]][f[2]])])
    BY DEF Stow
  <1> DEFINE n == f[1]
             j == f[2]
             q == c.copies[n][j]
             d == [c EXCEPT !.todo = @ \ {f}, !.hand = Plus(@, f[2], -q)]
  <1>3. n \in Npcs /\ j \in Items /\ f = <<n, j>>
    BY <1>1, <1>2
  <1>4. q \in Nat /\ CopiesAreBags(c) /\ c.coin = 0
    BY <1>1, <1>3 DEF Accounted, CopiesAreBags, AccountsForItsHand, Bag, Chars
  <1>5. /\ d.step = "stow" /\ d.todo = c.todo \ {f} /\ d.hand = Plus(c.hand, j, -q)
        /\ d.coin = c.coin /\ d.mine = c.mine /\ d.theirs = c.theirs /\ d.copies = c.copies
    BY <1>1 DEF CallType
  <1>6. /\ UNCHANGED <<pool, people, trade, edits, faults>> /\ AddRow(j, q)
        /\ \/ c.todo = {f} /\ call' = [call EXCEPT ![h] = NewCall]
           \/ call' = [call EXCEPT ![h] = d]
    BY <1>2 DEF Stow, Goes, Done
  <1> HIDE DEF d
  <1>7. \A i \in Items : d.hand[i] = c.hand[i] + (IF j = i THEN -q ELSE 0)
    <2>1. -q \in Int
      BY <1>4
    <2> HIDE DEF q, j
    <2> QED BY <1>1, <1>3, <1>5, <2>1, PlusAt
  <1>8. Accounted(d)
    <2>1. ASSUME NEW i \in Items PROVE d.hand[i] = HeldUnits(d, i) + Total(HeldCopies(d, i))
      <3>1. HeldUnits(d, i) = 0 /\ HeldUnits(c, i) = 0
        BY <1>1, <1>5 DEF HeldUnits
      <3>2. c.hand[i] = HeldUnits(c, i) + Total(HeldCopies(c, i))
        BY <1>1 DEF Accounted, AccountsForItsHand
      <3>3. CopiesAreBags(d)
        BY <1>4, <1>5 DEF CopiesAreBags
      <3>4. Total(HeldCopies(c, i)) \in Nat /\ Total(HeldCopies(d, i)) \in Nat
        BY <1>4, <3>3, HeldTyped
      <3>5. CASE i = j
        <4>1. ~Holds(d, n, j) /\ Holds(c, n, j)
          BY <1>1, <1>2, <1>3, <1>5 DEF Holds
        <4>2. \A m \in Npcs \ {n} : Holds(c, m, j) <=> Holds(d, m, j)
          BY <1>1, <1>3, <1>5 DEF Holds
        <4>3. Total(HeldCopies(c, j)) = Total(HeldCopies(d, j)) + d.copies[n][j]
          <5> HIDE DEF n, j
          <5> QED BY <1>3, <1>5, <3>3, <4>1, <4>2, OneMoreHeld
        <4>4. d.copies[n][j] = q
          BY <1>5
        <4> QED BY <1>4, <1>7, <3>1, <3>2, <3>4, <3>5, <4>3, <4>4
      <3>6. CASE i # j
        <4>1. \A m \in Npcs : Holds(d, m, i) <=> Holds(c, m, i)
          BY <1>1, <1>3, <1>5, <3>6 DEF Holds
        <4>2. HeldCopies(d, i) = HeldCopies(c, i)
          BY <1>5, <4>1, SameHeld
        <4> QED BY <1>7, <3>1, <3>2, <3>4, <3>6, <4>2
      <3> QED BY <3>5, <3>6
    <2>2. AccountsForItsHand(d)
      BY <1>4, <1>5, <2>1 DEF AccountsForItsHand
    <2> QED BY <1>4, <1>5, <2>2 DEF Accounted, CopiesAreBags
  <1>9. ASSUME c.todo = {f}, NEW i \in Items PROVE d.hand[i] = 0
    <2>1. \A m \in Npcs : ~Holds(d, m, i)
      BY <1>5, <1>9 DEF Holds
    <2>2. Total(HeldCopies(d, i)) = 0 /\ HeldUnits(d, i) = 0
      BY <1>5, <2>1, NoneHeld DEF HeldUnits
    <2> QED BY <1>8, <2>2 DEF Accounted, AccountsForItsHand
  <1>10. PICK k : /\ call' = [call EXCEPT ![h] = k] /\ Accounted(k) /\ k.coin = 0
                  /\ \A i \in Items : k.hand[i] = d.hand[i]
    <2>1. CASE c.todo = {f} /\ call' = [call EXCEPT ![h] = NewCall]
      BY <1>9, <2>1, NewCallAccounted
    <2>2. CASE call' = [call EXCEPT ![h] = d]
      BY <1>4, <1>5, <1>8, <2>2
    <2> QED BY <1>6, <2>1, <2>2
  <1>11. call'[h] = k /\ Apart(h) /\ \A g \in Calls : Accounted(call'[g])
    BY <1>10, OneMoves
  <1>12. UNCHANGED <<bag, shelf, made, pool, gold, sold, coined>>
    BY <1>6 DEF people, trade, edits
  <1>13. /\ \A x \in DOMAIN loot' : loot'[x].qty \in Nat
         /\ \A i \in Items : Lying(loot', i) = Lying(loot, i) + (IF j = i THEN q ELSE 0)
    <2> HIDE DEF q, j
    <2> QED BY <1>3, <1>4, <1>6, RowsGrow
  <1>14. Books'
    BY <1>11, <1>12, <1>13 DEF Books
  <1>15. ASSUME NEW i \in Items PROVE There(i)' - made'[i] = There(i) - made[i]
    <2> DEFINE y == IF j = i THEN q ELSE 0
    <2>1. y \in Int /\ -y \in Int /\ (IF j = i THEN -q ELSE 0) = -y
      BY <1>4
    <2>2. /\ Lying(loot, i) \in Int /\ Carried(bag, i) \in Int
          /\ ShelfOf(i) \in Int /\ made[i] \in Int /\ c.hand[i] \in Int
      BY <1>0, <1>1, CountsTyped
    <2>3. call'[h].hand[i] = call[h].hand[i] + (-y)
      BY <1>7, <1>10, <1>11, <2>1
    <2>4. Lying(loot', i) = Lying(loot, i) + y
      BY <1>13
    <2> HIDE DEF y
    <2>5. /\ Carried(bag', i) = Carried(bag, i) + 0
          /\ ShelfOf(i)' = ShelfOf(i) + 0 /\ made'[i] = made[i] + 0
      BY <1>12, <2>2 DEF ShelfOf
    <2>6. 0 + y + 0 + call'[h].hand[i] - call[h].hand[i] = 0
      BY <2>1, <2>2, <2>3
    <2> QED BY <1>0, <1>11, <2>1, <2>4, <2>5, <2>6, ItemsAdd
  <1>16. GoldEven
    BY <1>0, <1>4, <1>10, <1>11, <1>12, GoldQuiet
  <1> QED BY <1>14, <1>15, <1>16 DEF Even, ItemsEven

(***************************************************************************)
(* The gold that is split.                                                 *)
(***************************************************************************)
LEMMA PartyCounted ==
    ASSUME NEW todo, NEW p \in todo, todo \subseteq PCs
    PROVE  /\ Cardinality(PCs \ todo) \in Nat
           /\ Cardinality(PCs \ (todo \ {p})) = Cardinality(PCs \ todo) + 1
  <1>1. IsFiniteSet(PCs \ todo) /\ p \notin PCs \ todo
    BY FinitelyMany, FS_Subset
  <1>2. PCs \ (todo \ {p}) = (PCs \ todo) \cup {p}
    OBVIOUS
  <1> QED BY <1>1, <1>2, FS_AddElement, FS_CardinalityType

LEMMA ShareSplits ==
    ASSUME NEW c, c.total \in Int, c.total > 0, PCs # {}
    PROVE  /\ Share(c) \in Nat /\ Cardinality(PCs) \in Nat
           /\ Share(c) * Cardinality(PCs) \in Int
           /\ c.total % Cardinality(PCs) \in Int
           /\ c.total = Share(c) * Cardinality(PCs) + (c.total % Cardinality(PCs))
  <1> DEFINE n == Cardinality(PCs)
             t == c.total
  <1>1. n \in Nat \ {0} /\ t \in Int
    BY FinitelyMany, FS_CardinalityType, FS_EmptySet
  <1>2. Share(c) = t \div n /\ Share(c) \in Nat
    BY ShareTyped DEF Share
  <1> HIDE DEF n, t
  <1>3. \A a \in Int, b \in Nat \ {0} : a = b * (a \div b) + (a % b) /\ a % b \in Int
    OBVIOUS
  <1>4. \A a \in Int, b \in Int : a * b \in Int /\ a * b = b * a
    OBVIOUS
  <1>5. Share(c) * n \in Int /\ t % n \in Int /\ t = Share(c) * n + (t % n)
    BY <1>1, <1>2, <1>3, <1>4
  <1> QED BY <1>1, <1>2, <1>5 DEF n, t

LEMMA PayBooks ==
    ASSUME Books, Typed', NEW h \in Calls, PayShare(h)
    PROVE  Books' /\ Even
  <1>0. Typed /\ gold \in [Chars -> Nat]
    BY DEF Books, Typed, TypeOK, PeopleOK
  <1> DEFINE c == call[h]
             s == Share(c)
             k == Cardinality(PCs \ c.todo)
  <1>1. PICK p \in c.todo :
           /\ gold' = [gold EXCEPT ![p] = c.purses[p] + s]
           /\ FromCopy(c.purses[p], gold[p])
           /\ Goes(h, [c EXCEPT !.coin = @ - s, !.todo = @ \ {p},
                                !.step = IF c.todo = {p} THEN "rest" ELSE "pay"])
    BY DEF PayShare
  <1> DEFINE d == [c EXCEPT !.coin = @ - s, !.todo = @ \ {p},
                            !.step = IF c.todo = {p} THEN "rest" ELSE "pay"]
  <1>2. /\ c \in CallType /\ c.todo \subseteq PCs /\ p \in PCs /\ p \in Chars /\ c.step = "pay"
        /\ Accounted(c) /\ c.total > 0 /\ c.total \in Int /\ c.coin \in Int
        /\ c.purses[p] \in Nat
    BY <1>0, LocalsTyped DEF PayShare, At, KnowsItsRows, Chars, Books
  <1>3. s \in Nat
    BY <1>2, ShareTyped
  <1>4. /\ d.coin = c.coin - s /\ d.todo = c.todo \ {p} /\ d.total = c.total
        /\ d.step = (IF c.todo = {p} THEN "rest" ELSE "pay")
        /\ d.hand = c.hand /\ d.mine = c.mine /\ d.theirs = c.theirs /\ d.copies = c.copies
    BY <1>2 DEF CallType
  <1>5. call' = [call EXCEPT ![h] = d] /\ UNCHANGED <<bag, cutShort, chest, trade, edits>>
    BY <1>1 DEF PayShare, Goes
  <1> HIDE DEF d
  <1>6. Share(d) = s
    BY <1>4 DEF Share
  <1>7. d.coin = -(s * Cardinality(PCs \ d.todo))
    <2>1. k \in Nat /\ Cardinality(PCs \ d.todo) = k + 1
      BY <1>2, <1>4, PartyCounted
    <2>2. c.coin = -(s * k)
      BY <1>2 DEF Accounted, AccountsForItsHand
    <2>3. \A a \in Nat, b \in Nat : -(a * b) - a = -(a * (b + 1))
      OBVIOUS
    <2> HIDE DEF s, k
    <2>4. -(s * k) - s = -(s * (k + 1))
      BY <1>3, <2>1, <2>3
    <2> QED BY <1>4, <2>1, <2>2, <2>4
  <1>8. AccountsForItsHand(d)
    <2>1. d.step \in {"pay", "rest"}
      BY <1>4
    <2>2. ASSUME NEW i \in Items PROVE d.hand[i] = HeldUnits(d, i) + Total(HeldCopies(d, i))
      <3>1. Total(HeldCopies(d, i)) = 0 /\ HeldUnits(d, i) = 0
        BY <2>1, HeldNothing DEF Stripping, HeldUnits
      <3>2. c.hand[i] = 0
        BY <1>2, PlainHand DEF Plain, Steps, Stripping
      <3> QED BY <1>4, <3>1, <3>2
    <2>3. d.step = "rest" => PCs \ d.todo = PCs
      BY <1>4
    <2> QED BY <1>6, <1>7, <2>1, <2>2, <2>3 DEF AccountsForItsHand
  <1>9. Accounted(d)
    <2>1. CopiesAreBags(d)
      BY <1>2, <1>4 DEF Accounted, CopiesAreBags
    <2> QED BY <1>8, <2>1 DEF Accounted
  <1>10. call'[h] = d /\ Apart(h) /\ \A g \in Calls : Accounted(call'[g])
    BY <1>5, <1>9, OneMoves
  <1>11. UNCHANGED <<bag, loot, shelf, made, pool, sold, coined>>
    BY <1>5 DEF chest, trade, edits
  <1>12. Books'
    BY <1>10, <1>11 DEF Books
  <1>13. ItemsEven
    BY <1>0, <1>4, <1>10, <1>11, ItemsQuiet
  <1>14. ASSUME c.purses[p] = gold[p] PROVE GoldEven
    <2> HIDE DEF s
    <2>1. gold[p] + s \in Nat /\ gold[p] \in Nat
      BY <1>0, <1>2, <1>3
    <2>2. Total(gold) \in Int /\ Total(gold') = Total(gold) - gold[p] + (gold[p] + s)
      BY <1>0, <1>1, <1>2, <1>14, <2>1, PurseMoves
    <2>3. Takings' = Takings /\ Total(Takings) \in Int
      <3>1. Takings' = Takings
        BY <1>11 DEF Takings
      <3>2. Takings \in [Wares -> Int]
        BY <1>0, TakingsTyped DEF Typed, TypeOK
      <3> QED BY <3>1, <3>2, TreasuryAssumption, TotalTyped
    <2>4. pool.gold \in Int /\ coined \in Int /\ s \in Int
      BY <1>0, <1>3 DEF Typed, TypeOK, PoolOK, EditsOK
    <2>5. Total(gold') = Total(gold) + s /\ pool'.gold = pool.gold + 0
          /\ Total(Takings)' = Total(Takings) + 0 /\ coined' = coined + 0
      BY <1>11, <2>1, <2>2, <2>3, <2>4
    <2>6. s + 0 + 0 + call'[h].coin - call[h].coin = 0
      BY <1>2, <1>4, <1>10, <2>4
    <2> QED BY <1>0, <1>10, <2>4, <2>5, <2>6, GoldAdds
  <1>15. overwritten' = TRUE \/ c.purses[p] = gold[p]
    BY <1>1, Unfooled
  <1> QED BY <1>12, <1>13, <1>14, <1>15 DEF Even

LEMMA SplitBooks ==
    ASSUME Books, SplitsAPool, Typed', NEW h \in Calls,
           AskSplit(h) \/ ListParty(h) \/ PayShare(h) \/ KeepRest(h)
    PROVE  Books' /\ Even
  <1>0. Typed
    BY DEF Books
  <1>1. CASE AskSplit(h)
    <2> DEFINE d == [NewCall EXCEPT !.step = "list", !.total = pool.gold]
    <2>1. /\ d.step = "list" /\ d.hand = Empty /\ d.coin = 0 /\ d.mine = Empty
          /\ d.theirs = Empty /\ d.copies = NoCopies
      BY DEF NewCall
    <2>2. Begins(h, d) /\ UNCHANGED <<people, chest, trade, edits, faults>>
      BY <1>1 DEF AskSplit
    <2> HIDE DEF d
    <2>3. CopiesAreBags(d) /\ d.step \in EmptyHanded
      BY <2>1, EmptyIsBag DEF CopiesAreBags, EmptyHanded, Plain, Steps, Stripping
    <2> QED BY <2>1, <2>2, <2>3, QuietStart
  <1>2. CASE ListParty(h)
    <2> DEFINE c == call[h]
               d == [c EXCEPT !.step = "pay", !.purses = gold, !.todo = PCs]
    <2>1. c \in CallType /\ c.step = "list" /\ Accounted(c) /\ c.total > 0 /\ c.total \in Int
          /\ PCs # {}
      BY <1>0, <1>2, LocalsTyped DEF ListParty, At, KnowsItsRows, Books
    <2>2. /\ d.step = "pay" /\ d.todo = PCs /\ d.hand = c.hand /\ d.coin = c.coin
          /\ d.mine = c.mine /\ d.theirs = c.theirs /\ d.copies = c.copies /\ d.total = c.total
      BY <2>1 DEF CallType
    <2>3. call' = [call EXCEPT ![h] = d] /\ UNCHANGED <<people, chest, trade, edits, faults>>
      BY <1>2 DEF ListParty, Goes
    <2> HIDE DEF d
    <2>4. (\A i \in Items : c.hand[i] = 0) /\ c.coin = 0
      BY <2>1, NothingHeld DEF EmptyHanded, Plain, Steps, Stripping
    <2>5. Share(d) * Cardinality(PCs \ d.todo) = 0
      <3>1. PCs \ d.todo = {}
        BY <2>2
      <3>2. Cardinality(PCs \ d.todo) = 0
        BY <3>1, FS_EmptySet
      <3>3. Share(d) \in Nat
        BY <2>1, <2>2, ShareTyped
      <3>4. \A a \in Nat : a * 0 = 0
        OBVIOUS
      <3> QED BY <3>2, <3>3, <3>4
    <2>6. AccountsForItsHand(d)
      <3>1. \A i \in Items : Total(HeldCopies(d, i)) = 0
        BY <2>2, HeldNothing DEF Stripping
      <3>2. \A i \in Items : HeldUnits(d, i) = 0
        BY <2>2 DEF HeldUnits
      <3> QED BY <2>2, <2>4, <2>5, <3>1, <3>2 DEF AccountsForItsHand
    <2>7. CopiesAreBags(d)
      BY <2>1, <2>2 DEF Accounted, CopiesAreBags
    <2> QED BY <2>2, <2>3, <2>6, <2>7, QuietStep DEF Accounted
  <1>3. CASE PayShare(h)
    BY <1>3, PayBooks
  <1>4. CASE KeepRest(h)
    <2> DEFINE c == call[h]
               m == Share(c) * Cardinality(PCs)
               r == c.total % Cardinality(PCs)
    <2>1. /\ c \in CallType /\ c.step = "rest" /\ Accounted(c) /\ c.total > 0 /\ c.total \in Int
          /\ PCs # {} /\ c.coin \in Int
      BY <1>0, <1>4, LocalsTyped DEF KeepRest, At, KnowsItsRows, Books
    <2>2. m \in Int /\ r \in Int /\ c.total = m + r /\ c.coin = -m
      BY <2>1, ShareSplits DEF Accounted, AccountsForItsHand
    <2>3. /\ pool' = [pool EXCEPT !.gold = r] /\ call' = [call EXCEPT ![h] = NewCall]
          /\ FromCopy(c.total, pool.gold)
          /\ UNCHANGED <<loot, winners, cutShort, people, trade, edits>>
      BY <1>4 DEF KeepRest, Done, Goes
    <2>4. pool'.gold = r /\ pool'.status = pool.status /\ pool.status # "none"
      BY <1>0, <2>1, <2>3 DEF Typed, TypeOK, PoolOK, SplitsAPool
    <2>5. call'[h] = NewCall /\ Apart(h) /\ \A g \in Calls : Accounted(call'[g])
      BY <2>3, NewCallAccounted, OneMoves
    <2>6. UNCHANGED <<bag, loot, shelf, made, gold, sold, coined>>
      BY <2>3 DEF people, trade, edits
    <2>7. Books'
      BY <2>4, <2>5, <2>6 DEF Books
    <2>8. ItemsEven
      <3>1. \A i \in Items : c.hand[i] = 0
        BY <2>1, PlainHand DEF Plain, Steps, Stripping
      <3> QED BY <1>0, <2>5, <2>6, <3>1, NewCallAccounted, ItemsQuiet
    <2> HIDE DEF m, r
    <2>9. ASSUME c.total = pool.gold PROVE GoldEven
      <3>1. Takings' = Takings /\ Total(Takings) \in Int /\ Total(gold) \in Int /\ coined \in Int
        <4>1. Takings' = Takings
          BY <2>6 DEF Takings
        <4>2. Takings \in [Wares -> Int] /\ gold \in [Chars -> Int] /\ coined \in Int
          BY <1>0, TakingsTyped DEF Typed, TypeOK, PeopleOK, EditsOK
        <4> QED BY <4>1, <4>2, TreasuryAssumption, TotalTyped
      <3>2. pool'.gold = pool.gold + (-m) /\ -m \in Int
        BY <2>2, <2>4, <2>9
      <3>3. Total(gold') = Total(gold) + 0 /\ Total(Takings)' = Total(Takings) + 0
            /\ coined' = coined + 0
        BY <2>6, <3>1
      <3>4. 0 + (-m) + 0 + call'[h].coin - call[h].coin = 0
        BY <2>2, <2>5, NewCallAccounted
      <3> QED BY <1>0, <2>5, <3>2, <3>3, <3>4, GoldAdds
    <2>10. overwritten' = TRUE \/ c.total = pool.gold
      BY <2>3, Unfooled
    <2> QED BY <2>7, <2>8, <2>9, <2>10 DEF Even
  <1> QED BY <1>1, <1>2, <1>3, <1>4

(***************************************************************************)
(* The DM's edits of a pool.                                               *)
(***************************************************************************)
\* What is thrown out is still counted, and as much of it.
LEMMA ThrownCounts ==
    ASSUME NEW r \in Row, NEW i
    PROVE  Left(Thrown(r), i) = Left(r, i) /\ Thrown(r).qty = r.qty
  BY DEF Left, Thrown, Row

LEMMA CurateBooks ==
    ASSUME Books, Typed', NEW h \in Calls,
           AskCurate(h) \/ InsertRow(h) \/ DeleteRow(h) \/ ReviseRow(h)
    PROVE  Books' /\ Even
  <1>0. /\ Typed /\ loot \in Seq(Row) /\ made \in [Items -> Int]
        /\ \A q \in {0} \cup Parcels : q \in Nat
    BY TreasuryAssumption DEF Books, Typed, TypeOK, LootOK, EditsOK
  <1>1. CASE AskCurate(h)
    <2>1. PICK r \in {0} \cup DOMAIN loot, i \in Items, q \in {0} \cup Parcels :
             Begins(h, [NewCall EXCEPT !.step = "curate", !.row = r, !.item = i, !.qty = q])
      BY <1>1 DEF AskCurate
    <2> DEFINE d == [NewCall EXCEPT !.step = "curate", !.row = r, !.item = i, !.qty = q]
    <2>2. /\ d.step = "curate" /\ d.qty = q /\ d.hand = Empty /\ d.coin = 0 /\ d.mine = Empty
          /\ d.theirs = Empty /\ d.copies = NoCopies
      BY DEF NewCall
    <2>3. Begins(h, d) /\ UNCHANGED <<people, chest, trade, edits, faults>>
      BY <1>1, <2>1 DEF AskCurate
    <2> HIDE DEF d
    <2>4. q \in Nat
      BY <1>0
    <2>5. CopiesAreBags(d) /\ d.step \in EmptyHanded
      BY <2>2, <2>4, EmptyIsBag DEF CopiesAreBags, EmptyHanded, Plain, Steps, Stripping
    <2> QED BY <2>2, <2>3, <2>5, QuietStart
  <1> DEFINE c == call[h]
  <1>2. ASSUME c.step = "curate", Done(h)
        PROVE  /\ c \in CallType /\ c.qty \in Nat /\ c.item \in Items
               /\ c.row # 0 => c.row \in DOMAIN loot /\ loot[c.row] \in Row
                               /\ loot[c.row].qty \in Nat /\ loot[c.row].item \in Items
               /\ call'[h] = NewCall /\ Apart(h) /\ \A g \in Calls : Accounted(call'[g])
               /\ \A i \in Items : call[h].hand[i] = 0 /\ call'[h].hand[i] = 0
               /\ call[h].coin = 0 /\ call'[h].coin = 0
    <2>1. c \in CallType /\ KnowsItsRows(c, DOMAIN loot) /\ Accounted(c)
      BY <1>0, LocalsTyped DEF Books
    <2>2. c.qty \in Nat /\ c.item \in Items /\ c.row \in {0} \cup DOMAIN loot
      BY <1>2, <2>1 DEF KnowsItsRows, Accounted, CopiesAreBags
    <2>3. ASSUME c.row # 0
          PROVE  c.row \in DOMAIN loot /\ loot[c.row] \in Row
                 /\ loot[c.row].qty \in Nat /\ loot[c.row].item \in Items
      <3>1. c.row \in DOMAIN loot
        BY <2>2, <2>3
      <3>2. loot[c.row] \in Row
        BY <1>0, <3>1, ElementOfSeq
      <3> QED BY <3>1, <3>2 DEF Books, Row
    <2>4. call'[h] = NewCall /\ Apart(h) /\ \A g \in Calls : Accounted(call'[g])
      BY <1>2, NewCallAccounted, OneMoves DEF Done, Goes
    <2>5. (\A i \in Items : call[h].hand[i] = 0) /\ call[h].coin = 0
      BY <1>2, NothingHeld DEF EmptyHanded, Plain, Steps, Stripping
    <2> QED BY <2>1, <2>2, <2>3, <2>4, <2>5, NewCallAccounted
  <1>3. CASE InsertRow(h)
    <2>1. /\ c.step = "curate" /\ Done(h) /\ AddRow(c.item, c.qty)
          /\ made' = Plus(made, c.item, c.qty)
          /\ UNCHANGED <<bag, shelf, pool, gold, sold, coined>>
      BY <1>3 DEF InsertRow, At, people, trade
    <2>2. Books'
      BY <1>2, <2>1, RowsGrow DEF Books
    <2>3. ASSUME NEW i \in Items PROVE There(i)' - made'[i] = There(i) - made[i]
      <3> DEFINE y == IF c.item = i THEN c.qty ELSE 0
      <3>1. c.item \in Items /\ c.qty \in Nat /\ c.qty \in Int /\ Apart(h)
            /\ call[h].hand[i] = 0 /\ call'[h].hand[i] = 0
        BY <1>2, <2>1
      <3>2. Lying(loot', i) = Lying(loot, i) + y
        BY <2>1, <3>1, RowsGrow
      <3>3. made'[i] = made[i] + y
        BY <1>0, <2>1, <3>1, PlusAt
      <3>4. y \in Int /\ Carried(bag, i) \in Int /\ ShelfOf(i) \in Int
        BY <1>0, <3>1, CountsTyped
      <3> HIDE DEF y
      <3>5. Carried(bag', i) = Carried(bag, i) + 0 /\ ShelfOf(i)' = ShelfOf(i) + 0
        BY <2>1, <3>4 DEF ShelfOf
      <3>6. 0 + y + 0 + call'[h].hand[i] - call[h].hand[i] = y
        BY <3>1, <3>4
      <3>7. Apart(h) /\ 0 \in Int
        BY <3>1
      <3> QED BY <1>0, <3>2, <3>3, <3>4, <3>5, <3>6, <3>7, ItemsAdd
    <2>4. GoldEven
      BY <1>0, <1>2, <2>1, GoldQuiet
    <2> QED BY <2>2, <2>3, <2>4 DEF Even, ItemsEven
  <1>4. CASE DeleteRow(h)
    <2> DEFINE r == loot[c.row]
    <2>1. /\ c.step = "curate" /\ Done(h) /\ c.row # 0
          /\ loot' = [loot EXCEPT ![c.row] = Thrown(r)]
          /\ UNCHANGED <<bag, made, shelf, pool, gold, sold, coined>>
      BY <1>4 DEF DeleteRow, At, people, trade, edits
    <2>2. \A x \in DOMAIN loot : loot[x] \in Row
      BY <1>0, ElementOfSeq
    <2>3. DOMAIN loot' = DOMAIN loot
          /\ \A x \in DOMAIN loot : loot'[x] = loot[x] \/ loot'[x] = Thrown(loot[x])
      BY <1>2, <2>1
    <2>4. Books'
      <3>1. \A x \in DOMAIN loot' : loot'[x].qty \in Nat
        <4>1. \A x \in DOMAIN loot : loot[x].qty \in Nat /\ Thrown(loot[x]).qty = loot[x].qty
          BY <2>2, ThrownCounts DEF Books
        <4> QED BY <2>3, <4>1
      <3> QED BY <1>2, <2>1, <3>1 DEF Books
    <2>5. ASSUME NEW i \in Items PROVE There(i)' - made'[i] = There(i) - made[i]
      <3>1. \A x \in DOMAIN loot : Left(loot'[x], i) = Left(loot[x], i)
        BY <2>2, <2>3, ThrownCounts
      <3>2. Lying(loot', i) = Lying(loot, i)
        BY <2>3, <3>1, LyingKept
      <3>3. /\ Lying(loot, i) \in Int /\ Carried(bag, i) \in Int /\ ShelfOf(i) \in Int
            /\ made[i] \in Int
        BY <1>0, CountsTyped
      <3>4. /\ Carried(bag', i) = Carried(bag, i) + 0 /\ Lying(loot', i) = Lying(loot, i) + 0
            /\ ShelfOf(i)' = ShelfOf(i) + 0 /\ made'[i] = made[i] + 0
        BY <2>1, <3>2, <3>3 DEF ShelfOf
      <3>5. 0 + 0 + 0 + call'[h].hand[i] - call[h].hand[i] = 0
        BY <1>2, <2>1
      <3>6. Apart(h)
        BY <1>2, <2>1
      <3> QED BY <1>0, <3>4, <3>5, <3>6, ItemsAdd
    <2>6. GoldEven
      BY <1>0, <1>2, <2>1, GoldQuiet
    <2> QED BY <2>4, <2>5, <2>6 DEF Even, ItemsEven
  <1>5. CASE ReviseRow(h)
    <2> DEFINE r == loot[c.row]
               q == IF r.by = "deleted" THEN r.qty ELSE c.qty
               e == [r EXCEPT !.qty = q]
               more == IF r.by = Nobody THEN c.qty - r.qty ELSE 0
    <2>1. /\ c.step = "curate" /\ Done(h) /\ c.row # 0
          /\ made' = Plus(made, r.item, more)
          /\ UNCHANGED <<bag, shelf, pool, gold, sold, coined>>
      BY <1>5 DEF ReviseRow, At, people, trade
    <2>2. /\ c.row \in DOMAIN loot /\ r \in Row /\ r.qty \in Nat /\ r.item \in Items
          /\ c.qty \in Nat /\ q \in Nat /\ more \in Int
      BY <1>2, <2>1
    <2>3. e \in Row /\ e.qty = q /\ e.item = r.item /\ e.by = r.by
      BY <2>2 DEF Row
    <2>4. loot' = [loot EXCEPT ![c.row] = e]
      BY <1>5, <2>2 DEF ReviseRow, Row
    <2>5. Books'
      <3>1. \A x \in DOMAIN loot : loot[x].qty \in Nat
        BY DEF Books
      <3>2. DOMAIN loot' = DOMAIN loot /\ \A x \in DOMAIN loot : loot'[x] = loot[x] \/ loot'[x] = e
        BY <1>0, <2>2, <2>4
      <3>3. \A x \in DOMAIN loot' : loot'[x].qty \in Nat
        BY <2>2, <2>3, <3>1, <3>2
      <3> QED BY <1>2, <2>1, <3>3 DEF Books
    <2>6. ASSUME NEW i \in Items PROVE There(i)' - made'[i] = There(i) - made[i]
      <3> DEFINE y == IF r.item = i THEN more ELSE 0
      <3>1. Lying(loot', i) = Lying(loot, i) - Left(r, i) + Left(e, i)
        <4> HIDE DEF e
        <4> QED BY <1>0, <2>2, <2>3, <2>4, LyingChanged
      <3>2. Left(e, i) = Left(r, i) + y /\ Left(r, i) \in Int /\ y \in Int
        <4>1. CASE r.by = Nobody
          <5>1. "deleted" # Nobody
            BY TreasuryAssumption
          <5> QED BY <2>2, <2>3, <4>1, <5>1 DEF Left
        <4>2. CASE r.by = "deleted"
          <5>1. "deleted" # Nobody
            BY TreasuryAssumption
          <5> QED BY <2>2, <2>3, <4>2, <5>1 DEF Left
        <4>3. CASE r.by \notin {Nobody, "deleted"}
          BY <2>2, <2>3, <4>3 DEF Left
        <4> QED BY <4>1, <4>2, <4>3
      <3>3. made'[i] = made[i] + y
        <4> HIDE DEF more, r
        <4> QED BY <1>0, <2>1, <2>2, PlusAt
      <3>4. /\ Lying(loot, i) \in Int /\ Carried(bag, i) \in Int /\ ShelfOf(i) \in Int
            /\ made[i] \in Int
        BY <1>0, CountsTyped
      <3> HIDE DEF y, e
      <3>5. /\ Carried(bag', i) = Carried(bag, i) + 0 /\ Lying(loot', i) = Lying(loot, i) + y
            /\ ShelfOf(i)' = ShelfOf(i) + 0
        BY <2>1, <3>1, <3>2, <3>4 DEF ShelfOf
      <3>6. 0 + y + 0 + call'[h].hand[i] - call[h].hand[i] = y
        BY <1>2, <2>1, <3>2
      <3>7. Apart(h)
        BY <1>2, <2>1
      <3> QED BY <1>0, <3>2, <3>3, <3>5, <3>6, <3>7, ItemsAdd
    <2>7. GoldEven
      BY <1>0, <1>2, <2>1, GoldQuiet
    <2> QED BY <2>5, <2>6, <2>7 DEF Even, ItemsEven
  <1> QED BY <1>1, <1>3, <1>4, <1>5

LEMMA ClearBooks ==
    ASSUME Books, Typed', NEW h \in Calls, AskClear(h) \/ Sweep(h) \/ Close(h)
    PROVE  Books' /\ Even
  <1>0. Typed /\ loot \in Seq(Row)
    BY DEF Books, Typed, TypeOK, LootOK
  <1>1. CASE AskClear(h)
    <2> DEFINE d == [NewCall EXCEPT !.step = "sweep"]
    <2>1. /\ d.step = "sweep" /\ d.hand = Empty /\ d.coin = 0 /\ d.mine = Empty
          /\ d.theirs = Empty /\ d.copies = NoCopies
      BY DEF NewCall
    <2>2. Begins(h, d) /\ UNCHANGED <<people, chest, trade, edits, faults>>
      BY <1>1 DEF AskClear
    <2> HIDE DEF d
    <2>3. CopiesAreBags(d) /\ d.step \in EmptyHanded
      BY <2>1, EmptyIsBag DEF CopiesAreBags, EmptyHanded, Plain, Steps, Stripping
    <2> QED BY <2>1, <2>2, <2>3, QuietStart
  <1>2. CASE Sweep(h)
    <2> DEFINE c == call[h]
               d == [c EXCEPT !.step = "close"]
    <2>1. c \in CallType /\ c.step = "sweep" /\ Accounted(c)
      BY <1>0, <1>2, LocalsTyped DEF Sweep, At, Books
    <2>2. /\ d.step = "close" /\ d.hand = c.hand /\ d.coin = c.coin /\ d.mine = c.mine
          /\ d.theirs = c.theirs /\ d.copies = c.copies
      BY <2>1 DEF CallType
    <2>3. /\ call' = [call EXCEPT ![h] = d] /\ loot' = [r \in DOMAIN loot |-> Thrown(loot[r])]
          /\ UNCHANGED <<bag, made, shelf, pool, gold, sold, coined>>
      BY <1>2 DEF Sweep, Goes, people, trade, edits
    <2> HIDE DEF d
    <2>4. (\A i \in Items : c.hand[i] = 0) /\ c.coin = 0
      BY <2>1, NothingHeld DEF EmptyHanded, Plain, Steps, Stripping
    <2>5. Accounted(d)
      <3>1. d.step \in Plain \ {"pay", "rest"} /\ (\A i \in Items : d.hand[i] = 0) /\ d.coin = 0
        BY <2>2, <2>4 DEF Plain, Steps, Stripping
      <3>2. CopiesAreBags(d)
        BY <2>1, <2>2 DEF Accounted, CopiesAreBags
      <3> QED BY <3>1, <3>2, NothingInHand DEF Accounted
    <2>6. call'[h] = d /\ Apart(h) /\ \A g \in Calls : Accounted(call'[g])
      BY <2>3, <2>5, OneMoves
    <2>7. \A x \in DOMAIN loot : loot[x] \in Row
      BY <1>0, ElementOfSeq
    <2>8. Books'
      <3>1. \A x \in DOMAIN loot' : loot'[x].qty \in Nat
        BY <2>3, <2>7, ThrownCounts DEF Books
      <3> QED BY <2>3, <2>6, <3>1 DEF Books
    <2>9. ASSUME NEW i \in Items PROVE There(i)' - made'[i] = There(i) - made[i]
      <3>1. DOMAIN loot' = DOMAIN loot
            /\ \A x \in DOMAIN loot : Left(loot'[x], i) = Left(loot[x], i)
        BY <2>3, <2>7, ThrownCounts
      <3>2. Lying(loot', i) = Lying(loot, i)
        BY <3>1, LyingKept
      <3>3. /\ Lying(loot, i) \in Int /\ Carried(bag, i) \in Int /\ ShelfOf(i) \in Int
            /\ made[i] \in Int
        BY <1>0, CountsTyped
      <3>4. /\ Carried(bag', i) = Carried(bag, i) + 0 /\ Lying(loot', i) = Lying(loot, i) + 0
            /\ ShelfOf(i)' = ShelfOf(i) + 0 /\ made'[i] = made[i] + 0
        BY <2>3, <3>2, <3>3 DEF ShelfOf
      <3>5. 0 + 0 + 0 + call'[h].hand[i] - call[h].hand[i] = 0
        BY <2>2, <2>4, <2>6
      <3> QED BY <1>0, <2>6, <3>4, <3>5, ItemsAdd
    <2>10. GoldEven
      BY <1>0, <2>2, <2>3, <2>6, GoldQuiet
    <2> QED BY <2>8, <2>9, <2>10 DEF Even, ItemsEven
  <1>3. CASE Close(h)
    <2>1. /\ call' = [call EXCEPT ![h] = NewCall] /\ call[h].step = "close"
          /\ pool' = [pool EXCEPT !.status = "closed"]
          /\ UNCHANGED <<bag, loot, made, shelf, gold, sold, coined>>
      BY <1>3 DEF Close, At, Done, Goes, people, trade, edits
    <2>2. pool'.status = "closed" /\ pool'.gold = pool.gold
      BY <1>0, <2>1 DEF Typed, TypeOK, PoolOK
    <2>3. call'[h] = NewCall /\ Apart(h) /\ \A g \in Calls : Accounted(call'[g])
      BY <2>1, NewCallAccounted, OneMoves
    <2>4. (\A i \in Items : call[h].hand[i] = 0) /\ call[h].coin = 0
      BY <2>1, NothingHeld DEF EmptyHanded, Plain, Steps, Stripping
    <2>5. Books'
      BY <2>1, <2>2, <2>3 DEF Books
    <2>6. ItemsEven
      BY <1>0, <2>1, <2>3, <2>4, NewCallAccounted, ItemsQuiet
    <2>7. GoldEven
      BY <1>0, <2>1, <2>2, <2>3, <2>4, NewCallAccounted, GoldQuiet
    <2> QED BY <2>5, <2>6, <2>7 DEF Even
  <1> QED BY <1>1, <1>2, <1>3

(***************************************************************************)
(* A pool is only split once there is one: the other handlers do not go    *)
(* where a split is, and none takes a pool away.                           *)
(***************************************************************************)
Splitting == {"list", "pay", "rest"}
Unsplit(h) == Apart(h) /\ call'[h].step \notin Splitting

LEMMA DoneUnsplit == ASSUME Typed, NEW h \in Calls, Done(h) PROVE Unsplit(h)
  BY NewCallTyped DEF Done, Goes, Unsplit, Apart, Splitting, Typed, TypeOK, CallsOK

LEMMA GoesUnsplit ==
    ASSUME Typed, NEW h \in Calls, NEW d, Begins(h, d) \/ Goes(h, d), d.step \notin Splitting
    PROVE  Unsplit(h)
  BY DEF Begins, Goes, Unsplit, Apart, Typed, TypeOK, CallsOK

LEMMA NotSplitting ==
    ASSUME Typed, NEW h \in Calls,
           \/ AskClaim(h) \/ TakeRow(h) \/ MissRow(h) \/ Grant(h)
           \/ Reserve(h) \/ Charge(h) \/ AbortBuy(h) \/ Restore(h)
           \/ LookIntoBag(h) \/ MeetReceiver(h) \/ HandOver(h)
           \/ ReadBag(h) \/ Amend(h)
           \/ Survey(h) \/ Gather(h) \/ StripGold(h) \/ StripBag(h)
           \/ Found(h) \/ FoundTooLate(h) \/ Stow(h)
           \/ AskCurate(h) \/ InsertRow(h) \/ DeleteRow(h) \/ ReviseRow(h)
           \/ AskClear(h) \/ Sweep(h) \/ Close(h) \/ Drop(h)
    PROVE  Unsplit(h)
  <1> DEFINE c == call[h]
  <1>0. c \in CallType
    BY LocalsTyped
  <1>1. ASSUME NEW s, s \notin Splitting, NEW d, d.step = s, Begins(h, d) \/ Goes(h, d)
        PROVE  Unsplit(h)
    BY <1>1, GoesUnsplit
  <1>2. CASE \/ MissRow(h) \/ Grant(h) \/ Charge(h) \/ HandOver(h) \/ Amend(h)
             \/ FoundTooLate(h) \/ InsertRow(h) \/ DeleteRow(h) \/ ReviseRow(h)
             \/ Close(h) \/ Drop(h)
    <2>1. Done(h)
      BY <1>2 DEF MissRow, Grant, Charge, HandOver, Amend, FoundTooLate, InsertRow, DeleteRow,
                  ReviseRow, Close, Drop
    <2> QED BY <2>1, DoneUnsplit
  <1>3. CASE AskClaim(h)
    <2>1. PICK p \in PCs, r \in DOMAIN loot :
             Begins(h, [NewCall EXCEPT !.step = "take", !.to = p, !.row = r])
      BY <1>3 DEF AskClaim
    <2> DEFINE d == [NewCall EXCEPT !.step = "take", !.to = p, !.row = r]
    <2>2. d.step = "take" /\ Begins(h, d)
      BY <2>1 DEF NewCall
    <2> HIDE DEF d
    <2> QED BY <2>2, <1>1 DEF Splitting
  <1>4. CASE TakeRow(h)
    <2> DEFINE r == loot[c.row]
               d == [c EXCEPT !.step = "grant", !.item = r.item, !.qty = r.qty,
                              !.theirs = bag[c.to], !.hand = Plus(Empty, r.item, r.qty)]
    <2>1. d.step = "grant"
      BY <1>0 DEF CallType
    <2>2. Goes(h, d)
      BY <1>4 DEF TakeRow
    <2> HIDE DEF d
    <2> QED BY <1>1, <2>1, <2>2 DEF Splitting
  <1>5. CASE Reserve(h)
    <2>1. PICK p \in PCs, w \in Wares :
             Begins(h, [NewCall EXCEPT !.step = "charge", !.to = p, !.item = w,
                               !.qty = 1, !.theirs = bag[p], !.hand = Plus(Empty, w, 1)])
      BY <1>5 DEF Reserve
    <2> DEFINE d == [NewCall EXCEPT !.step = "charge", !.to = p, !.item = w,
                               !.qty = 1, !.theirs = bag[p], !.hand = Plus(Empty, w, 1)]
    <2>2. d.step = "charge" /\ Begins(h, d)
      BY <2>1 DEF NewCall
    <2> HIDE DEF d
    <2> QED BY <2>2, <1>1 DEF Splitting
  <1>6. CASE AbortBuy(h)
    <2> DEFINE d == [c EXCEPT !.step = "restore"]
    <2>1. d.step = "restore" /\ Goes(h, d)
      BY <1>0, <1>6 DEF CallType, AbortBuy
    <2> HIDE DEF d
    <2> QED BY <1>1, <2>1 DEF Splitting
  <1>7. CASE Restore(h)
    <2>1. Done(h)
      BY <1>7 DEF Restore, Restored, Done
    <2> QED BY <2>1, DoneUnsplit
  <1>8. CASE LookIntoBag(h)
    <2>1. PICK from \in PCs, to \in PCs, i \in Items, q \in Parcels :
             Begins(h, [NewCall EXCEPT !.step = "meet", !.from = from, !.to = to,
                            !.item = i, !.qty = q, !.mine = bag[from]])
      BY <1>8 DEF LookIntoBag
    <2> DEFINE d == [NewCall EXCEPT !.step = "meet", !.from = from, !.to = to,
                            !.item = i, !.qty = q, !.mine = bag[from]]
    <2>2. d.step = "meet" /\ Begins(h, d)
      BY <2>1 DEF NewCall
    <2> HIDE DEF d
    <2> QED BY <2>2, <1>1 DEF Splitting
  <1>9. CASE MeetReceiver(h)
    <2> DEFINE d == [c EXCEPT !.step = "hand", !.theirs = bag[c.to]]
    <2>1. d.step = "hand"
      BY <1>0 DEF CallType
    <2>2. Goes(h, d) \/ Done(h)
      BY <1>9 DEF MeetReceiver
    <2> HIDE DEF d
    <2> QED BY <1>1, <2>1, <2>2, DoneUnsplit DEF Splitting
  <1>10. CASE ReadBag(h)
    <2>1. PICK p \in PCs, i \in Items, q \in Parcels :
             \/ Begins(h, [NewCall EXCEPT !.step = "amend", !.to = p, !.item = i,
                               !.qty = q, !.mine = bag[p]])
             \/ Begins(h, [NewCall EXCEPT !.step = "amend", !.to = p, !.item = i,
                               !.qty = -q, !.mine = bag[p]])
      BY <1>10 DEF ReadBag
    <2> DEFINE d(k) == [NewCall EXCEPT !.step = "amend", !.to = p, !.item = i,
                                       !.qty = k, !.mine = bag[p]]
    <2>2. d(q).step = "amend" /\ d(-q).step = "amend"
      BY DEF NewCall
    <2>3. Begins(h, d(q)) \/ Begins(h, d(-q))
      BY <2>1
    <2> HIDE DEF d
    <2> QED BY <2>2, <2>3, <1>1 DEF Splitting
  <1>11. CASE Survey(h)
    <2> DEFINE d == [NewCall EXCEPT !.step = IF Npcs = {} THEN "found" ELSE "gather",
                                    !.todo = Npcs]
    <2>1. d.step \in {"found", "gather"} /\ Begins(h, d)
      BY <1>11 DEF NewCall, Survey
    <2> HIDE DEF d
    <2> QED BY <1>1, <2>1 DEF Splitting
  <1>12. CASE Gather(h)
    <2>1. PICK n \in Npcs, e \in CallType :
             ReadOf(c, n, e) /\ Goes(h, Next1(e, n, "stripGold"))
      BY <1>12, GatherReads
    <2> DEFINE d == Next1(e, n, "stripGold")
    <2>2. d.step \in {"stripGold", "gather"}
      BY <2>1 DEF Next1, CallType, ReadOf
    <2>3. Goes(h, d)
      BY <2>1
    <2> HIDE DEF d
    <2> QED BY <1>1, <2>2, <2>3 DEF Splitting
  <1>13. CASE StripGold(h)
    <2>1. PICK n \in c.todo :
             Goes(h, [c EXCEPT !.step = "stripBag", !.from = n, !.coin = @ + c.purses[n]])
      BY <1>13 DEF StripGold
    <2> DEFINE d == [c EXCEPT !.step = "stripBag", !.from = n, !.coin = @ + c.purses[n]]
    <2>2. d.step = "stripBag" /\ Goes(h, d)
      BY <1>0, <2>1 DEF CallType
    <2> HIDE DEF d
    <2> QED BY <1>1, <2>2 DEF Splitting
  <1>14. CASE StripBag(h)
    <2> DEFINE e == [c EXCEPT !.step = "stripGold", !.hand = Both(c.hand, c.copies[c.from])]
               d == Next1(e, c.from, "found")
    <2>1. d.step \in {"stripGold", "found"}
      BY <1>0 DEF Next1, CallType
    <2>2. Goes(h, d)
      BY <1>14 DEF StripBag
    <2> HIDE DEF d
    <2> QED BY <1>1, <2>1, <2>2 DEF Splitting
  <1>15. CASE Found(h)
    <2> DEFINE d == [c EXCEPT !.step = "stow", !.todo = Finds(c), !.coin = 0]
    <2>1. d.step = "stow"
      BY <1>0 DEF CallType
    <2>2. Goes(h, d) \/ Done(h)
      BY <1>15 DEF Found
    <2> HIDE DEF d
    <2> QED BY <1>1, <2>1, <2>2, DoneUnsplit DEF Splitting
  <1>16. CASE Stow(h)
    <2>1. PICK f \in c.todo :
             \/ Done(h)
             \/ Goes(h, [c EXCEPT !.todo = @ \ {f},
                                  !.hand = Plus(@, f[2], -c.copies[f[1]][f[2]])])
      BY <1>16 DEF Stow
    <2> DEFINE d == [c EXCEPT !.todo = @ \ {f},
                              !.hand = Plus(@, f[2], -c.copies[f[1]][f[2]])]
    <2>2. d.step = "stow"
      BY <1>0, <1>16 DEF CallType, Stow, At
    <2>3. Goes(h, d) \/ Done(h)
      BY <2>1
    <2> HIDE DEF d
    <2> QED BY <1>1, <2>2, <2>3, DoneUnsplit DEF Splitting
  <1>17. CASE AskCurate(h)
    <2>1. PICK r \in {0} \cup DOMAIN loot, i \in Items, q \in {0} \cup Parcels :
             Begins(h, [NewCall EXCEPT !.step = "curate", !.row = r, !.item = i, !.qty = q])
      BY <1>17 DEF AskCurate
    <2> DEFINE d == [NewCall EXCEPT !.step = "curate", !.row = r, !.item = i, !.qty = q]
    <2>2. d.step = "curate" /\ Begins(h, d)
      BY <2>1 DEF NewCall
    <2> HIDE DEF d
    <2> QED BY <1>1, <2>2 DEF Splitting
  <1>18. CASE AskClear(h)
    <2> DEFINE d == [NewCall EXCEPT !.step = "sweep"]
    <2>1. d.step = "sweep" /\ Begins(h, d)
      BY <1>18 DEF NewCall, AskClear
    <2> HIDE DEF d
    <2> QED BY <1>1, <2>1 DEF Splitting
  <1>19. CASE Sweep(h)
    <2> DEFINE d == [c EXCEPT !.step = "close"]
    <2>1. d.step = "close" /\ Goes(h, d)
      BY <1>0, <1>19 DEF CallType, Sweep
    <2> HIDE DEF d
    <2> QED BY <1>1, <2>1 DEF Splitting
  <1> QED BY <1>2, <1>3, <1>4, <1>5, <1>6, <1>7, <1>8, <1>9, <1>10, <1>11, <1>12, <1>13, <1>14,
             <1>15, <1>16, <1>17, <1>18, <1>19

LEMMA PoolStays ==
    ASSUME Typed, [Next]_vars, pool.status # "none"
    PROVE  pool'.status # "none"
  <1>0. pool \in [status : {"none", "open", "closed"}, gold : Int]
    BY DEF Typed, TypeOK, PoolOK
  <1>1. CASE UNCHANGED vars
    BY <1>1 DEF vars, chest
  <1>2. ASSUME NEW h \in Calls,
               \/ AskClaim(h) \/ TakeRow(h) \/ MissRow(h) \/ Grant(h)
               \/ Reserve(h) \/ Charge(h) \/ AbortBuy(h) \/ Restore(h)
               \/ LookIntoBag(h) \/ MeetReceiver(h) \/ HandOver(h)
               \/ ReadBag(h) \/ Amend(h)
        PROVE  pool' = pool
    BY <1>2 DEF AskClaim, TakeRow, MissRow, Grant, Reserve, Charge, AbortBuy, Restore,
                LookIntoBag, MeetReceiver, HandOver, ReadBag, Amend, chest
  <1>3. ASSUME NEW h \in Calls,
               \/ Survey(h) \/ Gather(h) \/ StripGold(h) \/ StripBag(h)
               \/ FoundTooLate(h) \/ Stow(h)
               \/ AskSplit(h) \/ ListParty(h) \/ PayShare(h)
               \/ AskCurate(h) \/ InsertRow(h) \/ DeleteRow(h) \/ ReviseRow(h)
               \/ AskClear(h) \/ Sweep(h) \/ Drop(h)
        PROVE  pool' = pool
    BY <1>3 DEF Survey, Gather, StripGold, StripBag, FoundTooLate, Stow, AskSplit, ListParty,
                PayShare, AskCurate, InsertRow, DeleteRow, ReviseRow, AskClear, Sweep, Drop, chest
  <1>4. ASSUME NEW h \in Calls, Found(h) \/ KeepRest(h) \/ Close(h)
        PROVE  pool'.status # "none"
    BY <1>0, <1>4 DEF Found, KeepRest, Close
  <1>5. ASSUME NEW w \in Wares, Restock(w) PROVE pool' = pool
    BY <1>5 DEF Restock, chest
  <1>6. ASSUME NEW c \in PCs, SetCharacterGold(c) PROVE pool' = pool
    BY <1>6 DEF SetCharacterGold, chest
  <1>7. CASE SetPoolGold
    BY <1>0, <1>7 DEF SetPoolGold
  <1> QED BY <1>1, <1>2, <1>3, <1>4, <1>5, <1>6, <1>7 DEF Next

LEMMA SplitMoves ==
    ASSUME Typed, NEW h \in Calls,
           AskSplit(h) \/ ListParty(h) \/ PayShare(h) \/ KeepRest(h)
    PROVE  Apart(h) /\ (PoolIsOpen \/ call[h].step \in Splitting)
  <1>1. call \in [Calls -> CallType]
    BY DEF Typed, TypeOK, CallsOK
  <1>2. AskSplit(h) => PoolIsOpen
    BY DEF AskSplit
  <1>3. ListParty(h) \/ PayShare(h) \/ KeepRest(h) => call[h].step \in Splitting
    BY DEF ListParty, PayShare, KeepRest, At, Splitting
  <1>4. AskSplit(h) => Apart(h)
    BY <1>1 DEF AskSplit, Begins, Apart
  <1>5. KeepRest(h) => Apart(h)
    BY <1>1 DEF KeepRest, Done, Goes, Apart
  <1>6. ASSUME NEW d, Goes(h, d) PROVE Apart(h)
    BY <1>1, <1>6 DEF Goes, Apart
  <1>7. ListParty(h) => Apart(h)
    BY <1>6 DEF ListParty
  <1>8. PayShare(h) => Apart(h)
    BY <1>6 DEF PayShare
  <1> QED BY <1>2, <1>3, <1>4, <1>5, <1>7, <1>8

LEMMA SplitsStep ==
    ASSUME Typed, SplitsAPool, [Next]_vars
    PROVE  SplitsAPool'
  <1>1. CASE call' = call
    BY <1>1, PoolStays DEF SplitsAPool
  <1>2. ASSUME NEW h \in Calls, Unsplit(h) PROVE SplitsAPool'
    BY <1>2, PoolStays DEF SplitsAPool, Unsplit, Apart, Splitting
  <1>3. ASSUME NEW h \in Calls, Apart(h), PoolIsOpen \/ call[h].step \in Splitting
        PROVE  SplitsAPool'
    BY <1>3, PoolStays DEF SplitsAPool, Apart, PoolIsOpen, Splitting
  <1>4. CASE UNCHANGED vars
    BY <1>1, <1>4 DEF vars
  <1>5. ASSUME \/ \E w \in Wares : Restock(w)
               \/ \E c \in PCs : SetCharacterGold(c)
               \/ SetPoolGold
        PROVE  SplitsAPool'
    <2>1. call' = call
      BY <1>5 DEF Restock, SetCharacterGold, SetPoolGold
    <2> QED BY <1>1, <2>1
  <1> QED BY <1>2, <1>3, <1>4, <1>5, NotSplitting, SplitMoves DEF Next

(***************************************************************************)
(* Failures lose what was in hand; the DM's single statements say what     *)
(* they make.                                                              *)
(***************************************************************************)
LEMMA InHand ==
    ASSUME Books, NEW h \in Calls, NEW i \in Items
    PROVE  call[h].hand[i] \in Nat
  <1> DEFINE c == call[h]
  <1>1. c.hand[i] = HeldUnits(c, i) + Total(HeldCopies(c, i)) /\ CopiesAreBags(c)
    BY DEF Books, Accounted, AccountsForItsHand
  <1>2. HeldUnits(c, i) \in Nat
    BY <1>1 DEF HeldUnits, CopiesAreBags
  <1>3. Total(HeldCopies(c, i)) \in Nat
    BY <1>1, HeldTyped
  <1> HIDE DEF c
  <1>4. \A m \in Nat, n \in Nat : m + n \in Nat
    OBVIOUS
  <1> QED BY <1>1, <1>2, <1>3, <1>4 DEF c

LEMMA LossBooks ==
    ASSUME Books, Typed', NEW h \in Calls, FoundTooLate(h) \/ Drop(h)
    PROVE  /\ Books' /\ (cutShort' \/ Even)
           /\ \A i \in Items : There(i)' - made'[i] <= There(i) - made[i]
  <1>0. Typed /\ CallsOK'
    BY DEF Books, Typed, TypeOK
  <1>1. /\ call' = [call EXCEPT ![h] = NewCall] /\ cutShort' = (cutShort \/ Holding(h))
        /\ UNCHANGED <<bag, loot, pool, shelf, made, gold, sold, coined>>
    BY DEF FoundTooLate, Drop, Done, Goes, people, chest, trade, edits
  <1>2. call'[h] = NewCall /\ Apart(h) /\ \A g \in Calls : Accounted(call'[g])
    BY <1>1, NewCallAccounted, OneMoves
  <1>3. Books'
    BY <1>1, <1>2 DEF Books
  <1>4. ASSUME Holding(h) PROVE cutShort'
    BY Zenon, <1>1, <1>4
  <1>5. ASSUME ~Holding(h) PROVE Even
    <2>1. (\A i \in Items : call[h].hand[i] = 0) /\ call[h].coin = 0
      BY <1>5, EmptyIsBag DEF Holding
    <2>2. ItemsEven
      BY <1>0, <1>1, <1>2, <2>1, NewCallAccounted, ItemsQuiet
    <2>3. GoldEven
      BY <1>0, <1>1, <1>2, <2>1, NewCallAccounted, GoldQuiet
    <2> QED BY <2>2, <2>3 DEF Even
  <1>6. ASSUME NEW i \in Items PROVE There(i)' - made'[i] <= There(i) - made[i]
    <2> DEFINE a == Carried(bag, i)
               b == Lying(loot, i)
               t == Total(HandOf(i))
               e == ShelfOf(i)
               m == made[i]
               s == call[h].hand[i]
    <2>1. Total(HandOf(i))' = t - s + call'[h].hand[i]
      BY <1>0, <1>2, HandMoves
    <2>2. call'[h].hand[i] = 0
      BY <1>2, NewCallAccounted
    <2>3. a \in Int /\ b \in Int /\ e \in Int /\ m \in Int /\ t \in Int /\ s \in Nat
      BY <1>0, CountsTyped, HandsTyped, InHand
    <2>4. ShelfOf(i)' = e
      BY <1>1 DEF ShelfOf
    <2>5. There(i) = a + b + t + e /\ There(i)' = a + b + (t - s + 0) + e /\ made'[i] = m
      BY <1>1, <2>1, <2>2, <2>4, ThereAdds
    <2> HIDE DEF a, b, t, e, m, s
    <2>6. (a + b + (t - s + 0) + e) - m <= (a + b + t + e) - m
      BY <2>3
    <2> QED BY <2>5, <2>6 DEF m
  <1> QED BY <1>3, <1>4, <1>5, <1>6

LEMMA EditBooks ==
    ASSUME Books, Typed',
           (\E w \in Wares : Restock(w)) \/ (\E c \in PCs : SetCharacterGold(c)) \/ SetPoolGold
    PROVE  Books' /\ Even
  <1>0. Typed /\ made \in [Items -> Int]
    BY DEF Books, Typed, TypeOK, EditsOK
  <1>1. ASSUME UNCHANGED <<call, bag, loot, shelf, made>> PROVE ItemsEven
    <2>1. \A i \in Items : HandOf(i)' = HandOf(i) /\ ShelfOf(i)' = ShelfOf(i)
      BY <1>1 DEF HandOf, ShelfOf
    <2> QED BY <1>1, <2>1, ThereAdds DEF ItemsEven
  <1>2. ASSUME NEW w \in Wares, Restock(w) PROVE Books' /\ Even
    <2>1. PICK q \in Parcels :
             shelf' = [shelf EXCEPT ![w] = q] /\ made' = Plus(made, w, q - shelf[w])
      BY <1>2 DEF Restock
    <2>2. UNCHANGED <<call, bag, loot, pool, gold, sold, coined>>
      BY <1>2 DEF Restock, people, chest
    <2>3. Books'
      BY <2>2 DEF Books
    <2>4. GoldEven
      <3>1. Coins' = Coins /\ Takings' = Takings
        BY <2>2 DEF Coins, Takings
      <3> QED BY <2>2, <3>1 DEF GoldEven, Wealth
    <2>5. ASSUME NEW i \in Items PROVE There(i)' - made'[i] = There(i) - made[i]
      <3> DEFINE k == q - shelf[w]
                 u == IF w = i THEN k ELSE 0
      <3>1. k \in Int /\ q = shelf[w] + k /\ w \in Items
        BY <1>0, TreasuryAssumption DEF Typed, TypeOK, TradeOK
      <3>2. made'[i] = made[i] + u
        <4> HIDE DEF k
        <4> QED BY <1>0, <2>1, <3>1, PlusAt DEF k
      <3>3. ShelfOf(i)' = ShelfOf(i) + u
        <4> HIDE DEF k
        <4> QED BY <1>0, <2>1, <3>1, ShelfMoves
      <3>4. HandOf(i)' = HandOf(i)
        BY <2>2 DEF HandOf
      <3>5. /\ Carried(bag, i) \in Int /\ Lying(loot, i) \in Int /\ ShelfOf(i) \in Int
            /\ made[i] \in Int /\ Total(HandOf(i)) \in Int /\ u \in Int
        BY <1>0, <3>1, CountsTyped, HandsTyped
      <3> DEFINE a == Carried(bag, i)
                 b == Lying(loot, i)
                 t == Total(HandOf(i))
                 e == ShelfOf(i)
                 m == made[i]
      <3>6. There(i) = a + b + t + e /\ There(i)' = a + b + t + (e + u) /\ made'[i] = m + u
        BY <2>2, <3>2, <3>3, <3>4, ThereAdds
      <3>7. a \in Int /\ b \in Int /\ t \in Int /\ e \in Int /\ m \in Int /\ u \in Int
        BY <3>5
      <3> HIDE DEF a, b, t, e, m, u
      <3>8. (a + b + t + (e + u)) - (m + u) = (a + b + t + e) - m
        BY <3>7
      <3> QED BY <3>6, <3>8 DEF m
    <2> QED BY <2>3, <2>4, <2>5 DEF Even, ItemsEven
  <1> DEFINE x == Total(gold)
             y == pool.gold
             t == Total(Coins)
             k == Total(Takings)
             n == coined
  <1>3. x \in Int /\ y \in Int /\ t \in Int /\ k \in Int /\ n \in Int
    <2>1. /\ gold \in [Chars -> Int] /\ Takings \in [Wares -> Int] /\ pool.gold \in Int
          /\ coined \in Int
      BY <1>0, TakingsTyped DEF Typed, TypeOK, PeopleOK, PoolOK, EditsOK
    <2> QED BY <1>0, <2>1, TreasuryAssumption, TotalTyped, HandsTyped
  <1>4. ASSUME NEW c \in PCs, SetCharacterGold(c) PROVE Books' /\ Even
    <2>1. PICK v \in Sums \cap Nat :
             gold' = [gold EXCEPT ![c] = v] /\ coined' = coined + v - gold[c]
      BY <1>4 DEF SetCharacterGold
    <2>2. UNCHANGED <<call, bag, loot, pool, shelf, sold, made>>
      BY <1>4 DEF SetCharacterGold, chest, trade
    <2>3. Books'
      BY <2>2 DEF Books
    <2>4. c \in Chars /\ v \in Nat /\ gold[c] \in Nat
      BY <1>0 DEF Chars, Typed, TypeOK, PeopleOK
    <2>5. Total(gold') = x - gold[c] + v
      BY <1>0, <2>1, <2>4, PurseMoves
    <2>6. Coins' = Coins /\ Takings' = Takings
      BY <2>2 DEF Coins, Takings
    <2> DEFINE o == gold[c]
    <2>7. Wealth = x + y + t + k /\ Wealth' = (x - o + v) + y + t + k /\ coined' = n + v - o
      BY <2>1, <2>2, <2>5, <2>6 DEF Wealth
    <2>8. o \in Int /\ v \in Int
      BY <2>4
    <2> HIDE DEF x, y, t, k, n, o
    <2>9. ((x - o + v) + y + t + k) - (n + v - o) = (x + y + t + k) - n
      BY <1>3, <2>8
    <2>10. GoldEven
      BY <2>7, <2>9 DEF GoldEven, n
    <2> QED BY <1>1, <2>2, <2>3, <2>10 DEF Even
  <1>5. CASE SetPoolGold
    <2>1. PICK v \in Sums : pool' = [pool EXCEPT !.gold = v] /\ coined' = coined + v - pool.gold
      BY <1>5 DEF SetPoolGold
    <2>2. UNCHANGED <<call, bag, gold, loot, shelf, sold, made>> /\ pool.status = "open"
      BY <1>5 DEF SetPoolGold, people, trade, PoolIsOpen
    <2>3. pool'.status = "open" /\ pool'.gold = v /\ v \in Int
      BY <1>0, <2>1, <2>2, TreasuryAssumption DEF Typed, TypeOK, PoolOK
    <2>4. Books'
      BY <2>2, <2>3 DEF Books
    <2>5. Coins' = Coins /\ Takings' = Takings
      BY <2>2 DEF Coins, Takings
    <2>6. Wealth = x + y + t + k /\ Wealth' = x + v + t + k /\ coined' = n + v - y
      BY <2>1, <2>2, <2>3, <2>5 DEF Wealth
    <2> HIDE DEF x, y, t, k, n
    <2>7. (x + v + t + k) - (n + v - y) = (x + y + t + k) - n
      BY <1>3, <2>3
    <2>8. GoldEven
      BY <2>6, <2>7 DEF GoldEven, n
    <2> QED BY <1>1, <2>2, <2>4, <2>8 DEF Even
  <1> QED BY <1>2, <1>4, <1>5

(***************************************************************************)
(* The books, step by step.                                                *)
(***************************************************************************)
\* What went wrong stays in the record.
Stay == (overwritten => overwritten') /\ (cutShort => cutShort')

LEMMA FaultsStay ==
    ASSUME [Next]_vars
    PROVE  Stay
  <1>1. ASSUME UNCHANGED faults PROVE Stay
    <2>1. overwritten' = overwritten /\ cutShort' = cutShort
      BY <1>1 DEF faults
    <2> QED BY Zenon, <2>1 DEF Stay
  <1>2. ASSUME NEW a, NEW b, FromCopy(a, b), cutShort' = cutShort PROVE Stay
    BY Zenon, <1>2 DEF FromCopy, Stay
  <1>3. ASSUME NEW x, cutShort' = (cutShort \/ x), overwritten' = overwritten
        PROVE  Stay
    BY Zenon, <1>3 DEF Stay
  <1>4. CASE UNCHANGED vars
    BY <1>1, <1>4 DEF vars
  <1>5. ASSUME NEW h \in Calls,
               \/ AskClaim(h) \/ TakeRow(h) \/ MissRow(h)
               \/ Reserve(h) \/ AbortBuy(h) \/ Restore(h)
               \/ LookIntoBag(h) \/ MeetReceiver(h) \/ ReadBag(h)
               \/ Survey(h) \/ Gather(h) \/ Found(h) \/ Stow(h)
               \/ AskSplit(h) \/ ListParty(h)
               \/ AskCurate(h) \/ InsertRow(h) \/ DeleteRow(h) \/ ReviseRow(h)
               \/ AskClear(h) \/ Sweep(h) \/ Close(h)
        PROVE  Stay
    <2>1. UNCHANGED faults
      BY <1>5 DEF AskClaim, TakeRow, MissRow, Reserve, AbortBuy, Restore, LookIntoBag,
                  MeetReceiver, ReadBag, Survey, Gather, Found, Stow, AskSplit, ListParty,
                  AskCurate, InsertRow, DeleteRow, ReviseRow, AskClear, Sweep, Close
    <2> QED BY <1>1, <2>1
  <1>6. ASSUME NEW h \in Calls, Grant(h) \/ Charge(h) \/ HandOver(h) \/ Amend(h) \/ KeepRest(h)
        PROVE  Stay
    BY Zenon, <1>2, <1>6 DEF Grant, Charge, HandOver, Amend, KeepRest
  <1>7. ASSUME NEW h \in Calls, StripGold(h) \/ StripBag(h) \/ PayShare(h) PROVE Stay
    <2>1. CASE PayShare(h)
      BY Zenon, <1>2, <2>1 DEF PayShare
    <2>2. ASSUME UNCHANGED <<overwritten, cutShort>> PROVE Stay
      BY Zenon, <2>2 DEF Stay
    <2>3. CASE StripGold(h)
      BY Zenon, <1>2, <2>2, <2>3 DEF StripGold
    <2>4. CASE StripBag(h)
      BY Zenon, <1>2, <2>2, <2>4 DEF StripBag
    <2> QED BY <1>7, <2>1, <2>3, <2>4
  <1>8. ASSUME NEW h \in Calls, FoundTooLate(h) \/ Drop(h) PROVE Stay
    BY Zenon, <1>3, <1>8 DEF FoundTooLate, Drop
  <1>9. ASSUME \/ \E w \in Wares : Restock(w)
               \/ \E c \in PCs : SetCharacterGold(c)
               \/ SetPoolGold
        PROVE  Stay
    BY <1>1, <1>9 DEF Restock, SetCharacterGold, SetPoolGold
  <1> QED BY Zenon, <1>4, <1>5, <1>6, <1>7, <1>8, <1>9 DEF Next

LEMMA BooksStep ==
    ASSUME Books, SplitsAPool, [Next]_vars, Typed'
    PROVE  /\ Books'
           /\ cutShort' \/ Even
           /\ Even \/ \A i \in Items : There(i)' - made'[i] <= There(i) - made[i]
  <1>1. CASE UNCHANGED vars
    <2>1. UNCHANGED <<call, bag, loot, pool, shelf, made, gold, sold, coined>>
      BY <1>1 DEF vars, people, chest, trade, edits
    <2>2. Books'
      BY <2>1 DEF Books
    <2>3. ItemsEven
      <3>1. \A i \in Items : HandOf(i)' = HandOf(i) /\ ShelfOf(i)' = ShelfOf(i)
        BY <2>1 DEF HandOf, ShelfOf
      <3> QED BY <2>1, <3>1, ThereAdds DEF ItemsEven
    <2>4. GoldEven
      <3>1. Coins' = Coins /\ Takings' = Takings
        BY <2>1 DEF Coins, Takings
      <3> QED BY <2>1, <3>1 DEF GoldEven, Wealth
    <2> QED BY <2>2, <2>3, <2>4 DEF Even
  <1>2. ASSUME NEW h \in Calls,
               \/ AskClaim(h) \/ TakeRow(h) \/ MissRow(h) \/ Grant(h)
               \/ Reserve(h) \/ Charge(h) \/ AbortBuy(h) \/ Restore(h)
               \/ LookIntoBag(h) \/ MeetReceiver(h) \/ HandOver(h)
               \/ ReadBag(h) \/ Amend(h)
        PROVE  Books' /\ Even
    BY <1>2, ClaimBooks, BuyBooks, GiftBooks
  <1>3. ASSUME NEW h \in Calls,
               \/ Survey(h) \/ Gather(h) \/ StripGold(h) \/ StripBag(h)
               \/ Found(h) \/ Stow(h)
        PROVE  Books' /\ Even
    BY <1>3, SurveyBooks, GatherBooks, StripGoldBooks, StripBagBooks, FoundBooks, StowBooks
  <1>4. ASSUME NEW h \in Calls,
               \/ AskSplit(h) \/ ListParty(h) \/ PayShare(h) \/ KeepRest(h)
               \/ AskCurate(h) \/ InsertRow(h) \/ DeleteRow(h) \/ ReviseRow(h)
               \/ AskClear(h) \/ Sweep(h) \/ Close(h)
        PROVE  Books' /\ Even
    BY <1>4, SplitBooks, CurateBooks, ClearBooks
  <1>5. CASE Next
    BY <1>2, <1>3, <1>4, <1>5, LossBooks, EditBooks DEF Next
  <1> QED BY <1>1, <1>5

LEMMA SumsTyped == Typed => (\A i \in Items : There(i) \in Int) /\ Wealth \in Int
  <1> SUFFICES ASSUME Typed PROVE (\A i \in Items : There(i) \in Int) /\ Wealth \in Int
    OBVIOUS
  <1>1. ASSUME NEW i \in Items PROVE There(i) \in Int
    BY <1>1, ThereAdds, CountsTyped, HandsTyped
  <1>2. Wealth \in Int
    <2>1. /\ gold \in [Chars -> Int] /\ Takings \in [Wares -> Int] /\ pool.gold \in Int
      BY TakingsTyped DEF Typed, TypeOK, PeopleOK, PoolOK
    <2>2. Total(gold) \in Int /\ Total(Takings) \in Int /\ Total(Coins) \in Int
      BY <2>1, TreasuryAssumption, TotalTyped, HandsTyped
    <2> QED BY <2>1, <2>2 DEF Wealth
  <1> QED BY <1>1, <1>2

LEMMA SumsTypedNext == Typed' => (\A i \in Items : There(i)' \in Int) /\ Wealth' \in Int
  <1>1. (Typed => (\A i \in Items : There(i) \in Int) /\ Wealth \in Int)'
    BY SumsTyped, PTL
  <1> QED BY <1>1

\* What there was to begin with.
AtFirst(i) == Carried(Belongings, i) + IF i \in Wares THEN Stock[i] ELSE 0

LEMMA DueAdds ==
    ASSUME NEW i \in Items
    PROVE  /\ AtFirst(i) \in Int
           /\ made \in [Items -> Int] => Due(i) = AtFirst(i) + made[i]
           /\ made' \in [Items -> Int] => Due(i)' = AtFirst(i) + made'[i]
  <1>1. Carried(Belongings, i) \in Int
    <2>1. \A c \in Chars : Belongings[c] \in [Items -> Int]
      BY TreasuryAssumption DEF Bag
    <2>2. Belongings \in [Chars -> [Items -> Int]]
      BY <2>1, TreasuryAssumption
    <2> QED BY <2>2, CarriedTyped
  <1> DEFINE s == IF i \in Wares THEN Stock[i] ELSE 0
             b == Carried(Belongings, i)
  <1>2. s \in Int
    BY TreasuryAssumption
  <1>3. Due(i) = b + made[i] + s /\ Due(i)' = b + made'[i] + s
    BY DEF Due, Carried
  <1>4. AtFirst(i) = b + s
    BY DEF AtFirst
  <1> HIDE DEF s, b
  <1>5. b \in Int
    BY <1>1 DEF b
  <1> QED BY <1>2, <1>3, <1>4, <1>5

Balanced == ItemsConserved /\ GoldConserved /\ FailuresDoNotCopyItems

LEMMA BalanceKept ==
    ASSUME Typed, Typed', Balanced,
           overwritten => overwritten', cutShort => cutShort',
           cutShort' \/ Even,
           Even \/ \A i \in Items : There(i)' - made'[i] <= There(i) - made[i]
    PROVE  Balanced'
  <1>0. /\ made \in [Items -> Int] /\ made' \in [Items -> Int]
        /\ coined \in Int /\ coined' \in Int
    BY DEF Typed, TypeOK, EditsOK
  <1>1. /\ \A i \in Items : There(i) \in Int /\ There(i)' \in Int
        /\ Wealth \in Int /\ Wealth' \in Int
    BY SumsTyped, SumsTypedNext
  <1>2. \A i \in Items :
           /\ AtFirst(i) \in Int /\ made[i] \in Int /\ made'[i] \in Int
           /\ Due(i) = AtFirst(i) + made[i] /\ Due(i)' = AtFirst(i) + made'[i]
    BY <1>0, DueAdds
  <1>3. ASSUME ~overwritten', ~cutShort', NEW i \in Items PROVE There(i)' = Due(i)'
    <2>1. There(i) = Due(i)
      BY <1>3 DEF Balanced, ItemsConserved
    <2>2. There(i)' - made'[i] = There(i) - made[i]
      BY <1>3 DEF Even, ItemsEven
    <2> QED BY <1>1, <1>2, <2>1, <2>2
  <1>4. ASSUME ~overwritten', NEW i \in Items PROVE There(i)' <= Due(i)'
    <2>1. There(i) <= Due(i)
      BY <1>4 DEF Balanced, FailuresDoNotCopyItems
    <2>2. \/ There(i)' - made'[i] = There(i) - made[i]
          \/ There(i)' - made'[i] <= There(i) - made[i]
      BY <1>4 DEF Even, ItemsEven
    <2> QED BY <1>1, <1>2, <2>1, <2>2
  <1>5. /\ GoldConserved <=> (~overwritten /\ ~cutShort => Wealth = Total(Purse) + coined)
        /\ GoldConserved' <=> (~overwritten' /\ ~cutShort' => Wealth' = Total(Purse) + coined')
    BY DEF GoldConserved, Wealth, Coins, Takings
  <1>6. ASSUME ~overwritten', ~cutShort' PROVE Wealth' = Total(Purse) + coined'
    <2>1. Wealth = Total(Purse) + coined
      BY <1>5, <1>6 DEF Balanced
    <2>2. Wealth' - coined' = Wealth - coined
      BY <1>6 DEF Even, GoldEven
    <2>3. Total(Purse) \in Int
      <3>1. Purse \in [Chars -> Int]
        BY TreasuryAssumption
      <3> QED BY <3>1, TreasuryAssumption, TotalTyped
    <2> QED BY <1>0, <1>1, <2>1, <2>2, <2>3
  <1> QED BY <1>3, <1>4, <1>5, <1>6 DEF Balanced, ItemsConserved, FailuresDoNotCopyItems

LEMMA BooksInit == Init => Books /\ SplitsAPool /\ Balanced
  <1> SUFFICES ASSUME Init PROVE Books /\ SplitsAPool /\ Balanced
    OBVIOUS
  <1>1. /\ Typed /\ bag = Belongings /\ gold = Purse /\ loot = <<>> /\ pool.gold = 0
        /\ pool.status = "none" /\ shelf = Stock /\ coined = 0 /\ made = Empty
        /\ \A h \in Calls : call[h] = NewCall
        /\ sold = [w \in Wares |-> 0]
    BY InitTyped DEF Init
  <1>2. Books
    <2>1. bag \in [Chars -> Bag]
      BY <1>1, TreasuryAssumption
    <2>2. \A r \in DOMAIN loot : loot[r].qty \in Nat
      BY <1>1
    <2> QED BY <1>1, <2>1, <2>2, NewCallAccounted DEF Books
  <1>3. SplitsAPool
    BY <1>1, NewCallTyped DEF SplitsAPool
  <1>4. ASSUME NEW i \in Items PROVE There(i) = Due(i)
    <2>1. Total(HandOf(i)) = 0
      <3>1. HandOf(i) \in [Calls -> Int] /\ \A h \in Calls : HandOf(i)[h] = 0
        BY <1>1, NewCallAccounted DEF HandOf
      <3> QED BY <3>1, TotalOfNothing
    <2>2. Lying(loot, i) = 0
      <3> DEFINE f == [r \in DOMAIN loot |-> Left(loot[r], i)]
      <3>1. f \in [{} -> Int] /\ \A r \in {} : f[r] = 0
        BY <1>1
      <3> HIDE DEF f
      <3>2. Total(f) = 0
        BY <3>1, TotalOfNothing
      <3> QED BY <3>2 DEF Lying, f
    <2>3. made[i] = 0 /\ made \in [Items -> Int]
      BY <1>1, EmptyIsBag, EmptyTyped
    <2>4. AtFirst(i) \in Int /\ Due(i) = AtFirst(i) + made[i]
      BY <2>3, DueAdds
    <2>5. There(i) = Carried(bag, i) + Lying(loot, i) + Total(HandOf(i)) + ShelfOf(i)
      BY ThereAdds
    <2> DEFINE b == Carried(Belongings, i)
               s == IF i \in Wares THEN Stock[i] ELSE 0
    <2>6. b \in Int /\ s \in Int
      <3>1. Carried(bag, i) \in Int /\ ShelfOf(i) \in Int
        BY <1>1, CountsTyped
      <3> QED BY <1>1, <3>1 DEF ShelfOf
    <2>7. Carried(bag, i) = b /\ ShelfOf(i) = s /\ AtFirst(i) = b + s
      BY <1>1 DEF ShelfOf, AtFirst
    <2> HIDE DEF b, s
    <2> QED BY <2>1, <2>2, <2>3, <2>4, <2>5, <2>6, <2>7
  <1>5. Wealth = Total(Purse) + coined
    <2>1. Total(Coins) = 0
      <3>1. Coins \in [Calls -> Int] /\ \A h \in Calls : Coins[h] = 0
        BY <1>1, NewCallAccounted DEF Coins
      <3> QED BY <3>1, TotalOfNothing
    <2>2. Total(Takings) = 0
      <3>1. \A n \in Nat : 0 * n = 0
        OBVIOUS
      <3>2. \A w \in Wares : Takings[w] = 0
        BY <1>1, <3>1, TreasuryAssumption DEF Takings
      <3>3. Takings \in [Wares -> Int]
        BY <3>2 DEF Takings
      <3> QED BY <3>2, <3>3, TotalOfNothing
    <2>3. Total(Purse) \in Int
      <3>1. Purse \in [Chars -> Int]
        BY TreasuryAssumption
      <3> QED BY <3>1, TreasuryAssumption, TotalTyped
    <2> QED BY <1>1, <2>1, <2>2, <2>3 DEF Wealth
  <1>6. ItemsConserved
    BY <1>4 DEF ItemsConserved
  <1>7. GoldConserved
    BY <1>5 DEF GoldConserved, Wealth, Coins, Takings
  <1>8. FailuresDoNotCopyItems
    <2>1. \A i \in Items : There(i) \in Int
      BY <1>1, SumsTyped
    <2> QED BY <1>4, <2>1 DEF FailuresDoNotCopyItems
  <1> QED BY <1>2, <1>3, <1>6, <1>7, <1>8 DEF Balanced

(***************************************************************************)
(* The theorems.                                                           *)
(***************************************************************************)
LEMMA TreasuryInductive == (Init => TreasuryInv) /\ (TreasuryInv /\ [Next]_vars => TreasuryInv')
  BY InitTyped, StepTyped, ClaimedInit, ClaimedStep, OversoldInit, OversoldStep
     DEF TreasuryInv, Typed

\* Whatever overlaps and whatever fails, the columns have their types (no purse
\* and no shelf below zero), the shelf balances and no claim is given twice.
THEOREM TreasuryHolds == Spec => []TreasuryInv
  BY TreasuryInductive, PTL DEF Spec

\* Racing buyers do not oversell the shelf.
THEOREM ShelfNeverOversold == Spec => []NeverOversold
  <1>1. TreasuryInv => NeverOversold
    BY DEF TreasuryInv
  <1> QED BY TreasuryHolds, <1>1, PTL

\* Nobody spends gold that is not there.
THEOREM PursesNeverOverdrawn == Spec => []NoOverdraft
  <1>1. TreasuryInv => NoOverdraft
    BY DEF TreasuryInv, TypeOK, PeopleOK, NoOverdraft
  <1> QED BY TreasuryHolds, <1>1, PTL

\* A row of the loot goes to one claimant.
THEOREM LootClaimedOnce == Spec => []ClaimedOnce
  <1>1. TreasuryInv => ClaimedOnce
    BY DEF TreasuryInv
  <1> QED BY TreasuryHolds, <1>1, PTL

LEMMA TreasuryBooksAre ==
    TreasuryBooks <=> TreasuryInv /\ Books /\ SplitsAPool /\ Balanced
  BY DEF TreasuryBooks, TreasuryInv, Typed, Books, Balanced, Accounted

LEMMA BooksInductive ==
    (Init => TreasuryBooks) /\ (TreasuryBooks /\ [Next]_vars => TreasuryBooks')
  <1>1. Init => TreasuryBooks
    BY TreasuryInductive, BooksInit, TreasuryBooksAre
  <1>2. ASSUME TreasuryBooks, [Next]_vars PROVE TreasuryBooks'
    <2>1. TreasuryInv /\ Books /\ SplitsAPool /\ Balanced /\ Typed
      BY <1>2, TreasuryBooksAre DEF Books
    <2>2. TreasuryInv' /\ Typed'
      BY <1>2, <2>1, TreasuryInductive, StepTyped
    <2>3. /\ Books' /\ (cutShort' \/ Even)
          /\ Even \/ \A i \in Items : There(i)' - made'[i] <= There(i) - made[i]
      BY <1>2, <2>1, <2>2, BooksStep
    <2>4. SplitsAPool'
      BY <1>2, <2>1, SplitsStep
    <2>5. Balanced'
      <3>1. (overwritten => overwritten') /\ (cutShort => cutShort')
        BY <1>2, FaultsStay DEF Stay
      <3> QED BY <2>1, <2>2, <2>3, <3>1, BalanceKept
    <2>6. (TreasuryInv /\ Books /\ SplitsAPool /\ Balanced => TreasuryBooks)'
      BY TreasuryBooksAre, PTL
    <2> QED BY <2>2, <2>3, <2>4, <2>5, <2>6
  <1> QED BY <1>1, <1>2

\* The books balance whatever overlaps and whatever fails, for any number of
\* handlers, characters, items and wares.
THEOREM BooksBalance == Spec => []TreasuryBooks
  BY BooksInductive, PTL DEF Spec

\* ClaimItem, Buy, CreateLootPool, /give and the DM's editor neither lose nor
\* make an item, as long as no handler wrote from a copy that was out of date
\* or was cut short with something in hand.
THEOREM ItemsAreConserved == Spec => []ItemsConserved
  <1>1. TreasuryBooks => ItemsConserved
    BY DEF TreasuryBooks
  <1> QED BY BooksBalance, <1>1, PTL

\* Nor gold: what left the purses is in the pool, in the split or with the shop.
THEOREM GoldIsConserved == Spec => []GoldConserved
  <1>1. TreasuryBooks => GoldConserved
    BY DEF TreasuryBooks
  <1> QED BY BooksBalance, <1>1, PTL

\* A failure between two statements of a handler never makes an item.
THEOREM FailuresOnlyLose == Spec => []FailuresDoNotCopyItems
  <1>1. TreasuryBooks => FailuresDoNotCopyItems
    BY DEF TreasuryBooks
  <1> QED BY BooksBalance, <1>1, PTL
=============================================================================
