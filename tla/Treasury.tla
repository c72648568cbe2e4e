------------------------------ MODULE Treasury ------------------------------
(***************************************************************************)
(* Gold and items: the loot pool of an encounter (internal/loot), the shop *)
(* (internal/shops), gifts (/give) and the DM's inventory editor           *)
(* (internal/inventory).                                                   *)
(*                                                                         *)
(* Every handler moves things between rows with separate statements.  Most *)
(* write a whole column (the inventory, the gold) computed from a copy     *)
(* read earlier; the claim of a loot item, the reservation of a shop's     *)
(* unit and the charge for it are conditional single statements.  No       *)
(* handler holds a lock.  A statement may fail and the process may die     *)
(* between any two of them.                                                *)
(*                                                                         *)
(* An inventory is a function from items to quantities: equipment slots,   *)
(* charges and descriptions do not matter to what moves.                   *)
(***************************************************************************)
EXTENDS Integers, Sequences, FiniteSets

CONSTANTS
    Calls,      \* handlers that can be in flight at a time
    PCs,        \* approved player characters of the campaign
    Npcs,       \* defeated creatures that have a character sheet
    Items,      \* what can be carried
    Wares,      \* shop_items, one for each item the shop sells
    Price,      \* shop_items.price_gp
    Purse,      \* gold every character starts with
    Belongings, \* inventory every character starts with
    Stock,      \* shop_items.quantity at the start
    Parcels,    \* quantities a request may name
    Sums,       \* amounts the DM may set gold to
    MaxStarts,  \* bound: handlers that ever start
    Nobody      \* claimed_by IS NULL; no character

Chars == PCs \cup Npcs
Bag == [Items -> Nat]
Empty == [i \in Items |-> 0]

ASSUME TreasuryAssumption ==
    /\ Wares \subseteq Items
    /\ Price \in [Wares -> Nat]
    /\ Purse \in [Chars -> Nat]
    /\ Belongings \in [Chars -> Bag]
    /\ Stock \in [Wares -> Nat]
    /\ Parcels \subseteq Nat \ {0}
    /\ Sums \subseteq Int
    /\ MaxStarts \in Nat
    /\ Nobody \notin Chars \cup {"deleted"}
    /\ "deleted" \notin Chars
    /\ IsFiniteSet(Calls) /\ IsFiniteSet(Chars) /\ IsFiniteSet(Wares)

VARIABLES
    gold,    \* characters.gold
    bag,     \* characters.inventory
    pool,    \* the encounter's row in loot_pools
    loot,    \* loot_pool_items, by id; by = "deleted" once it was thrown out
    shelf,   \* shop_items.quantity
    call,    \* locals of the handlers
    starts,  \* how many have started
    sold,    \* history: units sold, for each ware
    stocked, \* history: units the DM ever put on the shelf
    winners, \* history: for each loot row, the claims that got it
    coined,  \* history: gold and items the DM or the use of an item made or
    made,    \*   unmade, less those cleared from a sheet that was not read
    overwritten, \* history: a column was written from a copy that was not
                 \*   what the row held any more
    cutShort \* history: a handler ended holding what it had not put down

people == <<gold, bag>>
chest == <<pool, loot, winners>>
trade == <<shelf, sold, stocked>>
edits == <<coined, made>>
faults == <<overwritten, cutShort>>
vars == <<people, chest, trade, edits, faults, call, starts>>

(***************************************************************************)
(* call[h].hand and .coin are what the handler has taken from one row and  *)
(* not yet written to another (negative: written before it was taken).     *)
(***************************************************************************)
Steps == {"idle", "take", "grant", "charge", "restore", "meet", "hand", "amend",
          "gather", "stripGold", "stripBag", "found", "stow", "list", "pay",
          "rest", "curate", "sweep", "close"}

NoCopies == [c \in Chars |-> Empty]

NewCall == [step |-> "idle", from |-> Nobody, to |-> Nobody, row |-> 0,
            item |-> Nobody, qty |-> 0, mine |-> Empty, theirs |-> Empty,
            copies |-> NoCopies, purses |-> [c \in Chars |-> 0],
            unseen |-> {}, unread |-> {}, total |-> 0, todo |-> {}, hand |-> Empty, coin |-> 0]

CallType ==
    [step : Steps, from : Chars \cup {Nobody}, to : Chars \cup {Nobody}, row : Nat,
     item : Items \cup {Nobody}, qty : Int, mine : [Items -> Int],
     theirs : [Items -> Int], copies : [Chars -> [Items -> Int]],
     purses : [Chars -> Nat], unseen : SUBSET Chars, unread : SUBSET Chars, total : Int,
     todo : SUBSET (Chars \cup (Npcs \X Items)), hand : [Items -> Int], coin : Int]

Row == [item : Items, qty : Int, by : PCs \cup {Nobody, "deleted"}]

PeopleOK == gold \in [Chars -> Nat] /\ bag \in [Chars -> [Items -> Int]]
PoolOK == pool \in [status : {"none", "open", "closed"}, gold : Int]
LootOK == loot \in Seq(Row) /\ winners \in Seq(Nat) /\ Len(winners) = Len(loot)
TradeOK == shelf \in [Wares -> Nat] /\ sold \in [Wares -> Nat] /\ stocked \in [Wares -> Int]
EditsOK == coined \in Int /\ made \in [Items -> Int]
FaultsOK == overwritten \in BOOLEAN /\ cutShort \in BOOLEAN
CallsOK == call \in [Calls -> CallType] /\ starts \in 0..MaxStarts

TypeOK == PeopleOK /\ PoolOK /\ LootOK /\ TradeOK /\ EditsOK /\ FaultsOK /\ CallsOK

Init ==
    /\ gold = Purse
    /\ bag = Belongings
    /\ pool = [status |-> "none", gold |-> 0]
    /\ loot = << >>
    /\ shelf = Stock
    /\ call = [h \in Calls |-> NewCall]
    /\ starts = 0
    /\ sold = [w \in Wares |-> 0]
    /\ stocked = Stock
    /\ winners = << >>
    /\ coined = 0
    /\ made = Empty
    /\ overwritten = FALSE
    /\ cutShort = FALSE

(***************************************************************************)
(* Helpers.                                                                *)
(***************************************************************************)
\* AddItemQuantity; decrementItem is the same with a negative quantity, after
\* the check that so many are there.
Plus(b, i, q) == [b EXCEPT ![i] = @ + q]

Both(a, b) == [i \in Items |-> a[i] + b[i]]
Less(a, b) == [i \in Items |-> a[i] - b[i]]

Begins(h, c) ==
    /\ call[h].step = "idle"
    /\ starts < MaxStarts
    /\ starts' = starts + 1
    /\ call' = [call EXCEPT ![h] = c]

At(h, step) == call[h].step = step /\ UNCHANGED starts
Goes(h, c) == call' = [call EXCEPT ![h] = c]
Done(h) == Goes(h, NewCall)

Holding(h) == call[h].hand # Empty \/ call[h].coin # 0

\* The copy a whole column is written from, against what the column holds.
FromCopy(copy, now) == overwritten' = (overwritten \/ copy # now)

PoolIsOpen == pool.status = "open"

(***************************************************************************)
(* LootService.ClaimItem: the status of the pool, ClaimLootPoolItem with   *)
(* claimed_by IS NULL, then the inventory.  GetCharacter is read together  *)
(* with the claim: no other statement touches both.                        *)
(***************************************************************************)
AskClaim(h) ==
    /\ PoolIsOpen
    /\ \E c \in PCs, r \in DOMAIN loot :
          Begins(h, [NewCall EXCEPT !.step = "take", !.to = c, !.row = r])
    /\ UNCHANGED <<people, chest, trade, edits, faults>>

\* WHERE id = $1 AND claimed_by IS NULL; mutant: without the second half.
ClaimableAgain(r) == r.by # "deleted"
Claimable(r) == r.by = Nobody

TakeRow(h) ==
    LET c == call[h]  r == loot[c.row] IN
    /\ At(h, "take")
    /\ Claimable(r)
    /\ loot' = [loot EXCEPT ![c.row].by = c.to]
    /\ winners' = [winners EXCEPT ![c.row] = @ + 1]
    /\ Goes(h, [c EXCEPT !.step = "grant", !.item = r.item, !.qty = r.qty,
                         !.theirs = bag[c.to], !.hand = Plus(Empty, r.item, r.qty)])
    /\ UNCHANGED <<pool, people, trade, edits, faults>>

\* ErrItemAlreadyClaimed: no row matched.
MissRow(h) ==
    /\ At(h, "take")
    /\ loot[call[h].row].by # Nobody
    /\ Done(h)
    /\ UNCHANGED <<people, chest, trade, edits, faults>>

Grant(h) ==
    LET c == call[h] IN
    /\ At(h, "grant")
    /\ bag' = [bag EXCEPT ![c.to] = Plus(c.theirs, c.item, c.qty)]
    /\ FromCopy(c.theirs, bag[c.to])
    /\ Done(h)
    /\ UNCHANGED <<gold, cutShort, chest, trade, edits>>

(***************************************************************************)
(* ShopService.Buy: ReserveShopItemStock, then the inventory is read, then *)
(* DeductCharacterGoldAndSetInventory; whatever fails after the            *)
(* reservation ends in abortBuy, whose own statement may fail (Drop).      *)
(***************************************************************************)
\* AND quantity > 0; mutant: an empty shelf sells one more.
InStockOnPaper(w) == shelf[w] >= 0
InStock(w) == shelf[w] > 0

Reserve(h) ==
    \E c \in PCs, w \in Wares :
        /\ InStock(w)
        /\ shelf' = [shelf EXCEPT ![w] = @ - 1]
        /\ Begins(h, [NewCall EXCEPT !.step = "charge", !.to = c, !.item = w,
                          !.qty = 1, !.theirs = bag[c], !.hand = Plus(Empty, w, 1)])
        /\ UNCHANGED <<sold, stocked, people, chest, edits, faults>>

\* AND gold >= price_gp
CanPay(purse, price) == purse >= price

Charge(h) ==
    LET c == call[h] IN
    /\ At(h, "charge")
    /\ CanPay(gold[c.to], Price[c.item])
    /\ gold' = [gold EXCEPT ![c.to] = @ - Price[c.item]]
    /\ bag' = [bag EXCEPT ![c.to] = Plus(c.theirs, c.item, 1)]
    /\ FromCopy(c.theirs, bag[c.to])
    /\ sold' = [sold EXCEPT ![c.item] = @ + 1]
    /\ Done(h)
    /\ UNCHANGED <<shelf, stocked, cutShort, chest, edits>>

\* Mutant: the failed purchase returns without putting the unit back.
AbortBuyAndKeep(h) ==
    /\ At(h, "charge")
    /\ Done(h)
    /\ UNCHANGED <<people, chest, trade, edits, faults>>

\* ErrInsufficientGold, or an error on the way there.
AbortBuy(h) ==
    /\ At(h, "charge")
    /\ Goes(h, [call[h] EXCEPT !.step = "restore"])
    /\ UNCHANGED <<people, chest, trade, edits, faults>>

Restored(c) == NewCall

Restore(h) ==
    /\ At(h, "restore")
    /\ shelf' = [shelf EXCEPT ![call[h].item] = @ + 1]
    /\ Goes(h, Restored(call[h]))
    /\ UNCHANGED <<sold, stocked, people, chest, edits, faults>>

\* UpdateShopItem: the quantity of the DM's form.
Restock(w) ==
    /\ starts < MaxStarts
    /\ starts' = starts + 1
    /\ \E q \in Parcels :
          /\ shelf' = [shelf EXCEPT ![w] = q]
          /\ stocked' = [stocked EXCEPT ![w] = @ + q - shelf[w]]
          /\ made' = Plus(made, w, q - shelf[w])
    /\ UNCHANGED <<call, sold, coined, people, chest, faults>>

(***************************************************************************)
(* /give (one unit) and HandleTransferItem: one inventory, then the other, *)
(* then both in the transaction of UpdateTwoCharacterInventories, the      *)
(* giver's first.  Nothing keeps giver and receiver apart.                 *)
(***************************************************************************)
LookIntoBag(h) ==
    /\ \E from, to \in PCs, i \in Items, q \in Parcels :
          Begins(h, [NewCall EXCEPT !.step = "meet", !.from = from, !.to = to,
                         !.item = i, !.qty = q, !.mine = bag[from]])
    /\ UNCHANGED <<people, chest, trade, edits, faults>>

MeetReceiver(h) ==
    LET c == call[h] IN
    /\ At(h, "meet")
    /\ IF c.mine[c.item] >= c.qty
       THEN Goes(h, [c EXCEPT !.step = "hand", !.theirs = bag[c.to]])
       ELSE Done(h)
    /\ UNCHANGED <<people, chest, trade, edits, faults>>

HandOver(h) ==
    LET c == call[h]
        after == [bag EXCEPT ![c.from] = Plus(c.mine, c.item, -c.qty)] IN
    /\ At(h, "hand")
    /\ bag' = [after EXCEPT ![c.to] = Plus(c.theirs, c.item, c.qty)]
    /\ FromCopy(<<c.mine, c.theirs>>, <<bag[c.from], after[c.to]>>)
    /\ Done(h)
    /\ UNCHANGED <<gold, cutShort, chest, trade, edits>>

(***************************************************************************)
(* HandleAddItem, HandleRemoveItem and the inventory of /use: read, then   *)
(* write.  HandleSetGold writes the amount it was sent.                    *)
(***************************************************************************)
ReadBag(h) ==
    /\ \E c \in PCs, i \in Items, q \in Parcels :
          \/ Begins(h, [NewCall EXCEPT !.step = "amend", !.to = c, !.item = i,
                            !.qty = q, !.mine = bag[c]])
          \/ /\ bag[c][i] >= q
             /\ Begins(h, [NewCall EXCEPT !.step = "amend", !.to = c, !.item = i,
                               !.qty = -q, !.mine = bag[c]])
    /\ UNCHANGED <<people, chest, trade, edits, faults>>

Amend(h) ==
    LET c == call[h] IN
    /\ At(h, "amend")
    /\ bag' = [bag EXCEPT ![c.to] = Plus(c.mine, c.item, c.qty)]
    /\ made' = Plus(made, c.item, c.qty)
    /\ FromCopy(c.mine, bag[c.to])
    /\ Done(h)
    /\ UNCHANGED <<gold, coined, cutShort, chest, trade>>

SetCharacterGold(c) ==
    /\ starts < MaxStarts
    /\ starts' = starts + 1
    /\ \E v \in Sums \cap Nat :
          /\ gold' = [gold EXCEPT ![c] = v]
          /\ coined' = coined + v - gold[c]
    /\ UNCHANGED <<bag, call, made, chest, trade, faults>>

(***************************************************************************)
(* LootService.CreateLootPool: no pool yet, then one read for each         *)
(* defeated creature, then its gold and its inventory are cleared, then    *)
(* the pool is inserted (one for an encounter, by the UNIQUE constraint)   *)
(* and the items one by one.  A creature whose sheet cannot be read, or    *)
(* whose inventory cannot be parsed, is passed over by the first loop and  *)
(* cleared by the second all the same: nobody gets what it had.            *)
(***************************************************************************)
Survey(h) ==
    /\ pool.status = "none"
    /\ Begins(h, [NewCall EXCEPT !.step = IF Npcs = {} THEN "found" ELSE "gather",
                             !.todo = Npcs])
    /\ UNCHANGED <<people, chest, trade, edits, faults>>

\* The loop goes on with `then` once the last of todo is done.
Next1(c, x, then) == IF c.todo = {x} THEN [c EXCEPT !.todo = Npcs, !.step = then]
                                     ELSE [c EXCEPT !.todo = @ \ {x}]

Gather(h) ==
    LET c == call[h] IN
    /\ At(h, "gather")
    /\ \E n \in c.todo :
          \/ Goes(h, Next1([c EXCEPT !.purses[n] = gold[n], !.copies[n] = bag[n]], n, "stripGold"))
          \/ Goes(h, Next1([c EXCEPT !.purses[n] = gold[n], !.unread = @ \cup {n}], n, "stripGold"))
          \/ Goes(h, Next1([c EXCEPT !.unseen = @ \cup {n}, !.unread = @ \cup {n}], n, "stripGold"))
    /\ UNCHANGED <<people, chest, trade, edits, faults>>

StripGold(h) ==
    LET c == call[h] IN
    /\ At(h, "stripGold")
    /\ \E n \in c.todo :
          /\ gold' = [gold EXCEPT ![n] = 0]
          /\ IF n \in c.unseen
             THEN coined' = coined + c.purses[n] - gold[n] /\ UNCHANGED overwritten
             ELSE FromCopy(c.purses[n], gold[n]) /\ UNCHANGED coined
          /\ Goes(h, [c EXCEPT !.step = "stripBag", !.from = n, !.coin = @ + c.purses[n]])
    /\ UNCHANGED <<bag, made, cutShort, chest, trade>>

\* Mutant: the inventory is listed and not cleared.
Uncleared(b) == b
Cleared(b) == Empty

StripBag(h) ==
    LET c == call[h]  n == c.from IN
    /\ At(h, "stripBag")
    /\ bag' = [bag EXCEPT ![n] = Cleared(@)]
    /\ IF n \in c.unread
       THEN made' = Both(made, Less(c.copies[n], bag[n])) /\ UNCHANGED overwritten
       ELSE FromCopy(c.copies[n], bag[n]) /\ UNCHANGED made
    /\ Goes(h, Next1([c EXCEPT !.step = "stripGold",
                               !.hand = Both(c.hand, c.copies[n])],
                     n, "found"))
    /\ UNCHANGED <<gold, coined, cutShort, chest, trade>>

\* What is still to be stowed: an item of a creature, once for each.
Finds(c) == {f \in Npcs \X Items : c.copies[f[1]][f[2]] > 0}

Found(h) ==
    LET c == call[h] IN
    /\ At(h, "found")
    /\ pool.status = "none"
    /\ pool' = [status |-> "open", gold |-> c.coin]
    /\ IF Finds(c) = {} THEN Done(h)
       ELSE Goes(h, [c EXCEPT !.step = "stow", !.todo = Finds(c), !.coin = 0])
    /\ UNCHANGED <<loot, winners, people, trade, edits, faults>>

\* The insert fails: somebody else's pool is there by now.
FoundTooLate(h) ==
    /\ At(h, "found")
    /\ pool.status # "none"
    /\ Done(h)
    /\ cutShort' = (cutShort \/ Holding(h))
    /\ UNCHANGED <<overwritten, people, chest, trade, edits>>

AddRow(i, q) ==
    /\ loot' = Append(loot, [item |-> i, qty |-> q, by |-> Nobody])
    /\ winners' = Append(winners, 0)

Stow(h) ==
    LET c == call[h] IN
    /\ At(h, "stow")
    /\ \E f \in c.todo :
          LET q == c.copies[f[1]][f[2]] IN
          /\ AddRow(f[2], q)
          /\ IF c.todo = {f} THEN Done(h)
             ELSE Goes(h, [c EXCEPT !.todo = @ \ {f}, !.hand = Plus(@, f[2], -q)])
    /\ UNCHANGED <<pool, people, trade, edits, faults>>

(***************************************************************************)
(* LootService.SplitGold: the pool, then the party, then each member's     *)
(* gold from the copy, then the remainder.                                 *)
(***************************************************************************)
AskSplit(h) ==
    /\ PoolIsOpen
    /\ pool.gold > 0
    /\ Begins(h, [NewCall EXCEPT !.step = "list", !.total = pool.gold])
    /\ UNCHANGED <<people, chest, trade, edits, faults>>

ListParty(h) ==
    /\ At(h, "list")
    /\ PCs # {}
    /\ Goes(h, [call[h] EXCEPT !.step = "pay", !.purses = gold, !.todo = PCs])
    /\ UNCHANGED <<people, chest, trade, edits, faults>>

\* Mutant: rounded up.
ShareRoundedUp(c) == (c.total + Cardinality(PCs) - 1) \div Cardinality(PCs)
Share(c) == c.total \div Cardinality(PCs)

PayShare(h) ==
    LET c == call[h] IN
    /\ At(h, "pay")
    /\ \E p \in c.todo :
          /\ gold' = [gold EXCEPT ![p] = c.purses[p] + Share(c)]
          /\ FromCopy(c.purses[p], gold[p])
          /\ Goes(h, [c EXCEPT !.coin = @ - Share(c), !.todo = @ \ {p},
                               !.step = IF c.todo = {p} THEN "rest" ELSE "pay"])
    /\ UNCHANGED <<bag, cutShort, chest, trade, edits>>

KeepRest(h) ==
    LET c == call[h] IN
    /\ At(h, "rest")
    /\ pool' = [pool EXCEPT !.gold = c.total % Cardinality(PCs)]
    /\ FromCopy(c.total, pool.gold)
    /\ Done(h)
    /\ UNCHANGED <<loot, winners, cutShort, people, trade, edits>>

(***************************************************************************)
(* The DM's edits of an open pool (AddItem, RemoveItem, UpdateItem,        *)
(* SetGold): its status, then one statement.  ClearPool: its status, the   *)
(* unclaimed rows, the status.                                             *)
(***************************************************************************)
AskCurate(h) ==
    /\ PoolIsOpen
    /\ \E r \in {0} \cup DOMAIN loot, i \in Items, q \in {0} \cup Parcels :
          /\ r = 0 => q > 0
          /\ Begins(h, [NewCall EXCEPT !.step = "curate", !.row = r, !.item = i, !.qty = q])
    /\ UNCHANGED <<people, chest, trade, edits, faults>>

InsertRow(h) ==
    LET c == call[h] IN
    /\ At(h, "curate")
    /\ c.row = 0
    /\ AddRow(c.item, c.qty)
    /\ made' = Plus(made, c.item, c.qty)
    /\ Done(h)
    /\ UNCHANGED <<pool, coined, people, trade, faults>>

\* To what follows a claimed row that is gone is like one that stays.
Thrown(r) == IF r.by = Nobody THEN [r EXCEPT !.by = "deleted"] ELSE r

DeleteRow(h) ==
    LET c == call[h] IN
    /\ At(h, "curate")
    /\ c.row # 0 /\ c.qty = 0
    /\ loot' = [loot EXCEPT ![c.row] = Thrown(@)]
    /\ Done(h)
    /\ UNCHANGED <<pool, winners, edits, people, trade, faults>>

ReviseRow(h) ==
    LET c == call[h]  r == loot[c.row] IN
    /\ At(h, "curate")
    /\ c.row # 0 /\ c.qty > 0
    /\ loot' = [loot EXCEPT ![c.row].qty = IF r.by = "deleted" THEN @ ELSE c.qty]
    /\ made' = Plus(made, r.item, IF r.by = Nobody THEN c.qty - r.qty ELSE 0)
    /\ Done(h)
    /\ UNCHANGED <<pool, winners, coined, people, trade, faults>>

SetPoolGold ==
    /\ PoolIsOpen
    /\ starts < MaxStarts
    /\ starts' = starts + 1
    /\ \E v \in Sums : pool' = [pool EXCEPT !.gold = v] /\ coined' = coined + v - pool.gold
    /\ UNCHANGED <<call, loot, winners, made, people, trade, faults>>

AskClear(h) ==
    /\ PoolIsOpen
    /\ Begins(h, [NewCall EXCEPT !.step = "sweep"])
    /\ UNCHANGED <<people, chest, trade, edits, faults>>

Sweep(h) ==
    /\ At(h, "sweep")
    /\ loot' = [r \in DOMAIN loot |-> Thrown(loot[r])]
    /\ Goes(h, [call[h] EXCEPT !.step = "close"])
    /\ UNCHANGED <<pool, winners, edits, people, trade, faults>>

Close(h) ==
    /\ At(h, "close")
    /\ pool' = [pool EXCEPT !.status = "closed"]
    /\ Done(h)
    /\ UNCHANGED <<loot, winners, people, trade, edits, faults>>

(***************************************************************************)
(* A statement fails, or the process dies (then every call drops).         *)
(***************************************************************************)
Drop(h) ==
    /\ call[h].step # "idle"
    /\ Done(h)
    /\ cutShort' = (cutShort \/ Holding(h))
    /\ UNCHANGED <<starts, overwritten, people, chest, trade, edits>>

Next ==
    \/ \E h \in Calls :
          \/ AskClaim(h) \/ TakeRow(h) \/ MissRow(h) \/ Grant(h)
          \/ Reserve(h) \/ Charge(h) \/ AbortBuy(h) \/ Restore(h)
          \/ LookIntoBag(h) \/ MeetReceiver(h) \/ HandOver(h)
          \/ ReadBag(h) \/ Amend(h)
          \/ Survey(h) \/ Gather(h) \/ StripGold(h) \/ StripBag(h)
          \/ Found(h) \/ FoundTooLate(h) \/ Stow(h)
          \/ AskSplit(h) \/ ListParty(h) \/ PayShare(h) \/ KeepRest(h)
          \/ AskCurate(h) \/ InsertRow(h) \/ DeleteRow(h) \/ ReviseRow(h)
          \/ AskClear(h) \/ Sweep(h) \/ Close(h)
          \/ Drop(h)
    \/ \E w \in Wares : Restock(w)
    \/ \E c \in PCs : SetCharacterGold(c)
    \/ SetPoolGold

Spec == Init /\ [][Next]_vars

(***************************************************************************)
(* Properties.                                                             *)
(***************************************************************************)
\* The sum of a function's values, counted unit by unit: one element for each
\* unit it holds, less those for each unit it owes.
Units(f) == UNION {{x} \X (1..f[x]) : x \in DOMAIN f}
Total(f) == Cardinality(Units(f)) - Cardinality(Units([x \in DOMAIN f |-> -f[x]]))

HandOf(i) == [h \in Calls |-> call[h].hand[i]]
BagOf(i) == [c \in Chars |-> bag[c][i]]
LootOf(i) == [r \in DOMAIN loot |->
                IF loot[r].item = i /\ loot[r].by \in {Nobody, "deleted"}
                THEN loot[r].qty ELSE 0]
ShelfOf(i) == IF i \in Wares THEN shelf[i] ELSE 0

\* What there is of an item: carried, in the pool (or thrown out of it), on the
\* shelf, in hand.
There(i) == Total(BagOf(i)) + Total(LootOf(i)) + Total(HandOf(i)) + ShelfOf(i)

\* What there should be.
Due(i) == Total([c \in Chars |-> Belongings[c][i]]) + made[i]
              + (IF i \in Wares THEN Stock[i] ELSE 0)

\* Handlers may overlap and fail: as long as none has written a column from a
\* copy that was out of date, and none was cut short with something in hand,
\* no item is lost and none appears, but for those the DM, their use, or
\* CreateLootPool with a sheet it could not read did away with.  (ClaimItem, Buy,
\* CreateLootPool, /give and the DM's editor move items between four kinds of rows.)
ItemsConserved == ~overwritten /\ ~cutShort => \A i \in Items : There(i) = Due(i)

\* The same of gold; what buyers paid has left the game.
GoldConserved ==
    ~overwritten /\ ~cutShort =>
        Total(gold) + pool.gold + Total([h \in Calls |-> call[h].coin])
            + Total([w \in Wares |-> sold[w] * Price[w]])
          = Total(Purse) + coined

\* A failure in the middle of a handler only ever loses items: what is put
\* down somewhere was taken from somewhere else first, or in one transaction.
FailuresDoNotCopyItems == ~overwritten => \A i \in Items : There(i) <= Due(i)

\* The comment on Buy: racing buyers, or two clicks on the button, cannot
\* oversell the shelf (this one) or spend the same gold twice (the next).
\* Whatever overlaps or fails.
Reserved(w) == {h \in Calls : call[h].step \in {"charge", "restore"} /\ call[h].item = w}
NeverOversold ==
    \A w \in Wares :
        shelf[w] >= 0 /\ shelf[w] + sold[w] + Cardinality(Reserved(w)) <= stocked[w]

NoOverdraft == \A c \in Chars : gold[c] >= 0

\* "Each item can only be claimed once": whatever overlaps or fails, a row of
\* the pool goes to one claimant at most, and never back.
ClaimedOnce ==
    \A r \in DOMAIN loot :
        /\ winners[r] <= 1
        /\ loot[r].by = Nobody => winners[r] = 0
        /\ loot[r].by \in PCs => winners[r] = 1

\* What a handler knows of the rows it is going to write, given those of the
\* loot there are.
KnowsItsRows(c, rows) ==
    /\ c.step \in {"take", "grant", "charge", "restore", "meet", "hand", "amend"} => c.to \in PCs
    /\ c.step \in {"grant", "meet", "hand", "amend", "curate"} => c.item \in Items
    /\ c.step \in {"charge", "restore"} => c.item \in Wares
    /\ c.step \in {"meet", "hand"} => c.from \in PCs
    /\ c.step = "take" => c.row \in rows
    /\ c.step = "curate" => c.row \in {0} \cup rows
    /\ c.step \in {"gather", "stripGold", "stripBag"} => c.todo \subseteq Npcs
    /\ c.step = "stripBag" => c.from \in Npcs
    /\ c.step = "stow" => c.todo \subseteq Npcs \X Items
    /\ c.step = "pay" => c.todo \subseteq PCs
    /\ c.step = "rest" => PCs # {}
    /\ c.step \in {"list", "pay", "rest"} => c.total > 0

\* The inductive invariant of the proofs: the columns have their types, so that
\* neither gold nor stock is ever negative, every handler knows its rows, the
\* shelf balances and no claim is given twice.
TreasuryInv ==
    /\ TypeOK
    /\ \A h \in Calls : KnowsItsRows(call[h], DOMAIN loot)
    /\ NeverOversold
    /\ ClaimedOnce

\* What a handler has in hand, of units and of the copies it made: those of the
\* creatures it has stripped, then those it has not stowed.
HeldUnits(c, i) ==
    IF c.step \in {"grant", "charge", "restore"} /\ c.item = i THEN c.qty ELSE 0
Holds(c, n, i) ==
    \/ c.step \in {"stripGold", "stripBag"} /\ n \notin c.todo
    \/ c.step = "found"
    \/ c.step = "stow" /\ <<n, i>> \in c.todo
HeldCopies(c, i) == [n \in Npcs |-> IF Holds(c, n, i) THEN c.copies[n][i] ELSE 0]

AccountsForItsHand(c) ==
    /\ \A i \in Items : c.hand[i] = HeldUnits(c, i) + Total(HeldCopies(c, i))
    /\ c.step = "stripBag" => c.from \in c.todo
    /\ c.step = "pay" => c.coin = -(Share(c) * Cardinality(PCs \ c.todo))
    /\ c.step = "rest" => c.coin = -(Share(c) * Cardinality(PCs))
    /\ c.step \notin {"stripGold", "stripBag", "found", "pay", "rest"} => c.coin = 0

\* Its copies are of inventories, and it takes out no more than they hold.
CopiesAreBags(c) ==
    /\ c.mine \in Bag /\ c.theirs \in Bag /\ c.copies \in [Chars -> Bag]
    /\ c.step \in {"grant", "meet", "hand", "curate"} => c.qty \in Nat
    /\ c.step \in {"charge", "restore"} => c.qty = 1
    /\ c.step = "hand" => c.mine[c.item] >= c.qty
    /\ c.step = "amend" => c.mine[c.item] + c.qty >= 0

\* A pool is only split once there is one.
SplitsAPool == \A h \in Calls : call[h].step \in {"list", "pay", "rest"} => pool.status # "none"

\* The inductive invariant of the sums.
TreasuryBooks ==
    /\ TreasuryInv
    /\ bag \in [Chars -> Bag]
    /\ \A r \in DOMAIN loot : loot[r].qty \in Nat
    /\ pool.status = "none" => pool.gold = 0
    /\ \A h \in Calls : AccountsForItsHand(call[h]) /\ CopiesAreBags(call[h])
    /\ SplitsAPool
    /\ ItemsConserved /\ GoldConserved /\ FailuresDoNotCopyItems
=============================================================================
