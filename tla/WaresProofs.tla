---------------------------- MODULE WaresProofs ----------------------------
(* Theorems about the players' goods (Goods, Stalls, Trade and Wares) for  *)
(* every set of players and kinds, all sizes and all limits.               *)
EXTENDS Wares, SequenceFacts

Inventories == {bag \in [Slot -> Stacks] : \A s \in Slot : Placed(bag[s], s)}
Storages    == {chest \in [Cell -> Stacks] : \A c \in Cell : WellFormed(chest[c])}

\* Stacks that somebody hands over: at least one piece.
Goodly == {item \in Stacks : WellFormed(item) /\ item # Empty}

\* Statements under way, of the three tables.
ItemSaves  == {w \in [table : {"items"}, owner : Player, at : Slot, value : Stacks] :
                 Placed(w.value, w.at)}
CellSaves  == {w \in [table : {"storage"}, owner : Player, at : Cell, value : Stacks] :
                 WellFormed(w.value)}
ZulySaves  == [table : {"accounts"}, owner : Player, at : {NoSlot}, value : Nat]
Statements == ItemSaves \cup CellSaves \cup ZulySaves

Row    == [slot : Slot, kind : Kind, count : Nat, price : Nat]
Wish   == [kind : Kind, count : Nat \ {0}, price : Nat]
Offer  == [slot : Slot, count : Nat \ {0}]
Laid   == Goodly \cup [kind : {NoKind}, count : Nat]

HeldType ==
  /\ stage \in [Player -> {"off", "in", "leaving"}]
  /\ inv \in [Player -> Inventories] /\ store \in [Player -> Storages]
  /\ zulies \in [Player -> Nat] /\ storeZuly \in [Player -> Nat]
  /\ unsaved \in [Player -> SUBSET Slot]
  /\ refused \subseteq Player /\ astray \subseteq Player

RowType ==
  /\ rows \in [Player -> Inventories] /\ cells \in [Player -> Storages]
  /\ purse \in [Player -> Nat] /\ safe \in [Player -> Nat]

SaveType == writes \in Seq(Statements)

StallType ==
  /\ open \in [Player -> BOOLEAN]
  /\ selling \in [Player -> [SellRow -> Row \cup {NoRow}]]
  /\ buying \in [Player -> [WantRow -> Wish \cup {NoWish}]]
  /\ swapped \subseteq Player /\ late \subseteq Player

TradeType ==
  /\ target \in [Player -> Player \cup {NoPlayer}]
  /\ status \in [Player -> 0..6]
  /\ offer \in [Player -> [TradeRow -> Offer \cup {NoOffer}]]
  /\ pay \in [Player -> Nat]

TypeInv == HeldType /\ RowType /\ SaveType /\ StallType /\ TradeType /\ ground \in Seq(Laid)

-----------------------------------------------------------------------------
(* Slots and stacks. *)

\* Slots and cells are numbers, and none of them is NoSlot.
LEMMA SizesAreNat ==
  /\ Slot \subseteq Nat /\ Cell \subseteq Nat /\ NoSlot \notin Slot /\ NoSlot \notin Cell
  /\ \A k \in Kind : Tab[k] \subseteq Slot /\ Wear[k] \subseteq Slot
BY GoodsConstants DEF Slot, Cell, NoSlot

\* The first of a set of slots is one of them.
LEMMA FirstFound ==
  ASSUME NEW S \in SUBSET Nat
  PROVE  /\ S # {} => First(S) \in S
         /\ S = {} => First(S) = NoSlot
<1>1. ASSUME S # {} PROVE First(S) \in S
  <2>1. \E m \in S : \A n \in S : m <= n
    BY <1>1, LeastExists
  <2> QED
    BY <1>1, <2>1 DEF First, Min
<1> QED
  BY <1>1 DEF First

\* The limits of a stack.
LEMMA GoodlyStack ==
  /\ \A k \in Kind, n \in Nat :
       1 <= n /\ n <= (IF k \in Stackable THEN MaxStack ELSE 1) => Stack(k, n) \in Goodly
  /\ \A item \in Goodly :
       /\ item.kind \in Kind /\ item.count \in Nat /\ 1 <= item.count
       /\ item.count <= (IF item.kind \in Stackable THEN MaxStack ELSE 1)
       /\ item = Stack(item.kind, item.count) /\ item # Empty /\ item.kind # NoKind
  /\ \A item \in Stacks : item = Empty \/ item \in Goodly <=> WellFormed(item)
  /\ Empty \in Stacks /\ WellFormed(Empty) /\ Empty.kind = NoKind /\ Empty.count = 0
<1>1. NoKind \notin Kind /\ MaxStack \in Nat
  BY GoodsConstants
<1>2. ASSUME NEW k \in Kind, NEW n \in Nat, 1 <= n,
             n <= (IF k \in Stackable THEN MaxStack ELSE 1)
      PROVE  Stack(k, n) \in Goodly
  BY <1>1, <1>2 DEF Stack, Goodly, WellFormed, Stacks, Empty
<1>3. ASSUME NEW item \in Goodly
      PROVE  /\ item.kind \in Kind /\ item.count \in Nat /\ 1 <= item.count
             /\ item.count <= (IF item.kind \in Stackable THEN MaxStack ELSE 1)
             /\ item = Stack(item.kind, item.count) /\ item # Empty /\ item.kind # NoKind
  BY <1>1 DEF Stack, Goodly, WellFormed, Stacks, Empty
<1>4. \A item \in Stacks : item = Empty \/ item \in Goodly <=> WellFormed(item)
  BY DEF Goodly, WellFormed
<1>5. Empty \in Stacks /\ WellFormed(Empty) /\ Empty.kind = NoKind /\ Empty.count = 0
  BY DEF Stack, WellFormed, Stacks, Empty
<1> QED
  BY <1>2, <1>3, <1>4, <1>5

\* What a slot that GetNewItemSlot names can take.
LEMMA SlotFound ==
  ASSUME NEW bag \in Inventories, NEW item \in Goodly,
         NewItemSlot(bag, item) # NoSlot
  PROVE  LET s == NewItemSlot(bag, item)
         IN  /\ s \in Slot /\ s \in Tab[item.kind]
             /\ bag[s] = Empty \/ bag[s].kind = item.kind
             /\ More(bag[s], item) \in Goodly /\ Placed(More(bag[s], item), s)
<1> DEFINE s    == NewItemSlot(bag, item)
           own  == Joins(bag, Tab[item.kind], item)
           free == {t \in Tab[item.kind] : bag[t] = Empty}
<1>1. /\ item.kind \in Kind /\ item.count \in Nat /\ item.count >= 1 /\ MaxStack \in Nat
      /\ item.count <= IF item.kind \in Stackable THEN MaxStack ELSE 1
  BY GoodsConstants DEF Goodly, WellFormed, Stacks
<1>2. Tab[item.kind] \subseteq Slot /\ Slot \subseteq Nat
  BY <1>1, SizesAreNat
<1>3. own \in SUBSET Nat /\ free \in SUBSET Nat
  BY <1>2 DEF Joins
<1>4. \/ item.kind \in Stackable /\ s \in own
      \/ s \in free
  <2>1. CASE item.kind \in Stackable /\ own # {}
    <3>1. s = First(own)
      BY <2>1 DEF NewItemSlot
    <3> QED
      BY <1>3, <2>1, <3>1, FirstFound
  <2>2. CASE ~(item.kind \in Stackable /\ own # {})
    <3>1. s = First(free)
      BY <2>2 DEF NewItemSlot
    <3> QED
      BY <1>3, <3>1, FirstFound
  <2> QED
    BY <2>1, <2>2
<1>5. s \in Tab[item.kind] /\ s \in Slot
  BY <1>2, <1>4 DEF Joins
<1>6. bag[s] \in Stacks /\ bag[s].count \in Nat
  BY <1>5 DEF Inventories, Stacks
<1>0. s = NewItemSlot(bag, item)
  OBVIOUS
<1> HIDE DEF s
<1> DEFINE all == bag[s].count + item.count
<1>7. CASE item.kind \in Stackable /\ s \in own
  <2>1. bag[s].kind = item.kind /\ all < MaxStack
    BY <1>1, <1>6, <1>7 DEF Joins
  <2>2. Stack(item.kind, all) \in Goodly
    BY <1>1, <1>6, <1>7, <2>1, GoodlyStack
  <2> QED
    BY <1>0, <1>5, <2>1, <2>2 DEF More, Goodly, Placed, Stack
<1>8. CASE s \in free
  <2>1. bag[s] = Empty /\ all = item.count
    BY <1>1, <1>8, GoodlyStack
  <2>2. More(bag[s], item) = item
    BY <2>1, GoodlyStack DEF More
  <2> QED
    BY <1>0, <1>5, <2>1, <2>2 DEF Goodly, Placed
<1> QED
  BY <1>4, <1>7, <1>8

\* The same for the storage.
LEMMA CellFound ==
  ASSUME NEW chest \in Storages, NEW item \in Goodly,
         NewStorageItemSlot(chest, item) # NoSlot
  PROVE  LET c == NewStorageItemSlot(chest, item)
         IN  /\ c \in Cell
             /\ More(chest[c], item) \in Goodly
<1> DEFINE c    == NewStorageItemSlot(chest, item)
           own  == Joins(chest, Cell, item)
           free == {d \in Cell : chest[d] = Empty}
<1>1. /\ item.kind \in Kind /\ item.count \in Nat /\ item.count >= 1 /\ MaxStack \in Nat
      /\ item.count <= IF item.kind \in Stackable THEN MaxStack ELSE 1
  BY GoodsConstants DEF Goodly, WellFormed, Stacks
<1>2. Cell \subseteq Nat /\ StacksStored \subseteq Stackable
  BY SizesAreNat, GoodsConstants
<1>3. own \in SUBSET Nat /\ free \in SUBSET Nat
  BY <1>2 DEF Joins
<1>4. \/ item.kind \in Stackable /\ c \in own
      \/ c \in free
  <2>1. CASE item.kind \in StacksStored /\ own # {}
    <3>1. c = First(own)
      BY <2>1 DEF NewStorageItemSlot
    <3> QED
      BY <1>2, <1>3, <2>1, <3>1, FirstFound
  <2>2. CASE ~(item.kind \in StacksStored /\ own # {})
    <3>1. c = First(free)
      BY <2>2 DEF NewStorageItemSlot
    <3> QED
      BY <1>3, <3>1, FirstFound
  <2> QED
    BY <2>1, <2>2
<1>5. c \in Cell
  BY <1>4 DEF Joins
<1>6. chest[c] \in Stacks /\ chest[c].count \in Nat
  BY <1>5 DEF Storages, Stacks
<1>0. c = NewStorageItemSlot(chest, item)
  OBVIOUS
<1> HIDE DEF c
<1> DEFINE all == chest[c].count + item.count
<1>7. CASE item.kind \in Stackable /\ c \in own
  <2>1. all < MaxStack
    BY <1>1, <1>6, <1>7 DEF Joins
  <2>2. Stack(item.kind, all) \in Goodly
    BY <1>1, <1>6, <1>7, <2>1, GoodlyStack
  <2> QED
    BY <1>0, <1>5, <2>2 DEF More
<1>8. CASE c \in free
  <2>1. chest[c] = Empty /\ all = item.count
    BY <1>1, <1>8, GoodlyStack
  <2>2. More(chest[c], item) = item
    BY <2>1, GoodlyStack DEF More
  <2> QED
    BY <1>0, <1>5, <2>2
<1> QED
  BY <1>4, <1>7, <1>8

\* Part of a stack, and what is left of it.
LEMMA PartLeft ==
  ASSUME NEW item \in Stacks, WellFormed(item), NEW n \in Nat
  PROVE  /\ Less(item, n) \in Stacks /\ WellFormed(Less(item, n))
         /\ Less(item, n) # Empty => Less(item, n).kind = item.kind
         /\ 1 <= n /\ n <= item.count => Stack(item.kind, n) \in Goodly
<1>1. /\ item.count \in Nat /\ item.kind \in Kind \cup {NoKind} /\ MaxStack \in Nat
      /\ NoKind \notin Kind
  BY GoodsConstants DEF Stacks
<1>2. CASE item = Empty
  BY <1>1, <1>2 DEF Empty, Stack, Less, WellFormed, Stacks, Goodly
<1>3. CASE item # Empty
  <2>1. /\ item.kind \in Kind /\ item.count >= 1
        /\ item.count <= IF item.kind \in Stackable THEN MaxStack ELSE 1
    BY <1>1, <1>3 DEF WellFormed
  <2>2. CASE item.count <= n
    BY <1>1, <2>1, <2>2 DEF Empty, Stack, Less, WellFormed, Stacks, Goodly
  <2>3. CASE ~(item.count <= n)
    <3>1. /\ item.count - n \in Nat /\ item.count - n >= 1 /\ item.count - n <= item.count
          /\ Less(item, n) = Stack(item.kind, item.count - n)
      BY <1>1, <2>3 DEF Less
    <3>2. 1 <= n => Stack(item.kind, n) \in Goodly
      BY <1>1, <2>1, <2>3 DEF Stack, WellFormed, Stacks, Goodly, Empty
    <3> QED
      BY <1>1, <2>1, <2>3, <3>1, <3>2 DEF Stack, WellFormed, Stacks, Empty
  <2> QED
    BY <1>1, <2>2, <2>3
<1> QED
  BY <1>2, <1>3

\* Changing one slot or cell.
LEMMA Put ==
  /\ \A bag \in Inventories, s \in Slot, item \in Stacks :
       Placed(item, s) => [bag EXCEPT ![s] = item] \in Inventories
  /\ \A chest \in Storages, c \in Cell, item \in Stacks :
       WellFormed(item) => [chest EXCEPT ![c] = item] \in Storages
  /\ \A bag \in Inventories, s \in Slot :
       bag[s] \in Stacks /\ WellFormed(bag[s]) /\ Placed(bag[s], s)
  /\ \A chest \in Storages, c \in Cell : chest[c] \in Stacks /\ WellFormed(chest[c])
BY DEF Inventories, Storages, Placed

\* Taking from a slot.
LEMMA Taken ==
  ASSUME NEW bag \in Inventories, NEW s \in Slot, NEW n \in Nat
  PROVE  /\ Less(bag[s], n) \in Stacks /\ Placed(Less(bag[s], n), s)
         /\ [bag EXCEPT ![s] = Less(bag[s], n)] \in Inventories
         /\ 1 <= n /\ n <= bag[s].count => Stack(bag[s].kind, n) \in Goodly
<1>1. bag[s] \in Stacks /\ WellFormed(bag[s]) /\ Placed(bag[s], s)
  BY Put
<1>2. /\ Less(bag[s], n) \in Stacks /\ WellFormed(Less(bag[s], n))
      /\ Less(bag[s], n) # Empty => Less(bag[s], n).kind = bag[s].kind
      /\ 1 <= n /\ n <= bag[s].count => Stack(bag[s].kind, n) \in Goodly
  BY <1>1, PartLeft
<1>3. Less(bag[s], n) # Empty => bag[s] # Empty
  BY DEF Less, Empty, Stack
<1>4. Placed(Less(bag[s], n), s)
  BY <1>1, <1>2, <1>3 DEF Placed
<1> QED
  BY <1>2, <1>4, Put

\* Changing one slot or cell of one player.
LEMMA PutOf ==
  /\ \A bags \in [Player -> Inventories], p \in Player, s \in Slot, item \in Stacks :
       Placed(item, s) => [bags EXCEPT ![p][s] = item] \in [Player -> Inventories]
  /\ \A chests \in [Player -> Storages], p \in Player, c \in Cell, item \in Stacks :
       WellFormed(item) => [chests EXCEPT ![p][c] = item] \in [Player -> Storages]
BY Put

\* The statements that save a slot, a cell and the money stored.
LEMMA Statement ==
  /\ \A p \in Player, s \in Slot, bag \in Inventories : SaveSlot41(p, s, bag) \in ItemSaves
  /\ \A p \in Player, c \in Cell, chest \in Storages : SaveSlotStorage(p, c, chest) \in CellSaves
  /\ \A p \in Player, n \in Nat : SaveZulyStorage(p, n) \in ZulySaves
  /\ ItemSaves \subseteq Statements /\ CellSaves \subseteq Statements /\ ZulySaves \subseteq Statements
<1>1. \A p \in Player, s \in Slot, bag \in Inventories : SaveSlot41(p, s, bag) \in ItemSaves
  BY Put DEF SaveSlot41, ItemSaves
<1>2. \A p \in Player, c \in Cell, chest \in Storages : SaveSlotStorage(p, c, chest) \in CellSaves
  BY Put DEF SaveSlotStorage, CellSaves
<1>3. \A p \in Player, n \in Nat : SaveZulyStorage(p, n) \in ZulySaves
  BY DEF SaveZulyStorage, ZulySaves
<1> QED
  BY <1>1, <1>2, <1>3 DEF Statements

-----------------------------------------------------------------------------
(* Types: sessions and statements. *)

\* Savedata writes rows that are in their places.
LEMMA SavedataTypes ==
  ASSUME HeldType, RowType, NEW p \in Player, Savedata(p)
  PROVE  RowType' /\ unsaved' \in [Player -> SUBSET Slot]
<1> DEFINE saved == [s \in Slot |-> IF s \in unsaved[p] THEN inv[p][s] ELSE rows[p][s]]
<1>1. inv[p] \in Inventories /\ rows[p] \in Inventories
  BY DEF HeldType, RowType
<1>2. saved \in Inventories
  BY <1>1 DEF Inventories
<1>3. rows' = [rows EXCEPT ![p] = saved]
  BY DEF Savedata
<1> HIDE DEF saved
<1> QED
  BY <1>2, <1>3 DEF HeldType, RowType, Savedata

\* A CPlayer that is deleted leaves nothing behind.
LEMMA FreedTypes ==
  ASSUME HeldType, NEW P \in SUBSET Player, Freed(P), UNCHANGED refused,
         stage' \in [Player -> {"off", "in", "leaving"}]
  PROVE  HeldType'
<1>1. [s \in Slot |-> Empty] \in Inventories /\ [c \in Cell |-> Empty] \in Storages
  BY GoodlyStack DEF Inventories, Storages, Placed
<1> QED
  BY <1>1 DEF HeldType, Freed

\* Nor does its stall or its table.
LEMMA ForgetTypes ==
  ASSUME StallType, TradeType, NEW P \in SUBSET Player, Forget(P)
  PROVE  StallType' /\ TradeType'
<1>1. StallType'
  BY DEF Forget, StallType
<1>2. TradeType'
  BY DEF Forget, TradeType, NoOffers
<1> QED
  BY <1>1, <1>2

\* Coming, saving and going.
LEMMA SessionTypes ==
  ASSUME TypeInv, NEW p \in Player, Sessions(p)
  PROVE  TypeInv'
<1>1. CASE Enter(p)
  BY <1>1 DEF Sessions, Enter, Login, TypeInv, HeldType, RowType, SaveType, StallType, TradeType,
              savedVars, stallVars, tradeVars
<1>2. CASE Save(p) \/ ToSelect(p)
  <2>1. Savedata(p) /\ UNCHANGED <<heldVars, writes, missVars, stallVars, tradeVars, ground>>
    BY <1>2 DEF Sessions, Save, ToSelect, Autosave, CharSelect
  <2>2. stage' \in [Player -> {"off", "in", "leaving"}]
    BY <1>2 DEF Save, ToSelect, Autosave, CharSelect, TypeInv, HeldType
  <2>3. RowType' /\ unsaved' \in [Player -> SUBSET Slot]
    BY <2>1, SavedataTypes DEF TypeInv
  <2> QED
    BY <2>1, <2>2, <2>3 DEF TypeInv, HeldType, SaveType, StallType, TradeType,
                            heldVars, missVars, stallVars, tradeVars
<1>3. CASE Leave(p)
  <2>1. /\ Freed({p}) /\ Forget({p}) /\ UNCHANGED <<writes, refused, ground>>
        /\ stage' = [stage EXCEPT ![p] = "off"]
        /\ IF stage[p] = "in" THEN Savedata(p) ELSE UNCHANGED savedVars
    BY <1>3 DEF Sessions, Leave, Deleted
  <2>2. RowType'
    BY <2>1, SavedataTypes DEF TypeInv, RowType, savedVars
  <2>3. HeldType'
    BY <2>1, FreedTypes DEF TypeInv, HeldType
  <2>4. StallType' /\ TradeType'
    BY <2>1, ForgetTypes DEF TypeInv
  <2> QED
    BY <2>1, <2>2, <2>3, <2>4 DEF TypeInv, SaveType
<1> QED
  BY <1>1, <1>2, <1>3 DEF Sessions

\* The server dies and is started again.
LEMMA RestartTypes ==
  ASSUME TypeInv, Restart
  PROVE  TypeInv'
<1>1. /\ Freed(Player) /\ Forget(Player) /\ UNCHANGED <<savedVars, refused>>
      /\ stage' = [p \in Player |-> "off"] /\ writes' = <<>> /\ ground' = <<>>
  BY DEF Restart, Die, Crash
<1>2. HeldType'
  BY <1>1, FreedTypes DEF TypeInv
<1>3. StallType' /\ TradeType'
  BY <1>1, ForgetTypes DEF TypeInv
<1> QED
  BY <1>1, <1>2, <1>3 DEF TypeInv, SaveType, RowType, savedVars

\* A statement that is executed puts a sound value into its table.
LEMMA WrittenTypes ==
  ASSUME TypeInv, Written
  PROVE  TypeInv'
<1> DEFINE w == Head(writes)
<1>1. w \in Statements /\ Tail(writes) \in Seq(Statements)
  BY HeadTailProperties DEF Written, WriteRow, Execute, TypeInv, SaveType
<1>2. /\ rows'  = IF w.table = "items" THEN [rows EXCEPT ![w.owner][w.at] = w.value] ELSE rows
      /\ cells' = IF w.table = "storage" THEN [cells EXCEPT ![w.owner][w.at] = w.value] ELSE cells
      /\ safe'  = IF w.table = "accounts" THEN [safe EXCEPT ![w.owner] = w.value] ELSE safe
      /\ unsaved' = IF w.table = "items" THEN [unsaved EXCEPT ![w.owner] = @ \ {w.at}] ELSE unsaved
      /\ writes' = Tail(writes)
      /\ UNCHANGED <<stage, heldVars, purse, missVars, stallVars, tradeVars, ground>>
  BY DEF Written, WriteRow, Execute
<1> HIDE DEF w
<1>3. w.owner \in Player
  BY <1>1 DEF Statements, ItemSaves, CellSaves, ZulySaves
<1>4. /\ w.table = "items" => w.at \in Slot /\ w.value \in Stacks /\ Placed(w.value, w.at)
      /\ w.table = "storage" => w.at \in Cell /\ w.value \in Stacks /\ WellFormed(w.value)
      /\ w.table = "accounts" => w.value \in Nat
  BY <1>1 DEF Statements, ItemSaves, CellSaves, ZulySaves
<1>5. rows' \in [Player -> Inventories] /\ cells' \in [Player -> Storages]
  BY <1>2, <1>3, <1>4, PutOf DEF TypeInv, RowType
<1>6. RowType' /\ unsaved' \in [Player -> SUBSET Slot]
  BY <1>2, <1>3, <1>4, <1>5 DEF TypeInv, HeldType, RowType
<1> QED
  BY <1>1, <1>2, <1>6 DEF TypeInv, HeldType, SaveType, StallType, TradeType,
                          heldVars, missVars, stallVars, tradeVars

-----------------------------------------------------------------------------
(* Types: the storage. *)

\* Part of a slot goes into the storage, for a fee he can pay.
LEMMA DepositTypes ==
  ASSUME TypeInv, NEW p \in Player, NEW s \in Slot, NEW n \in 1..inv[p][s].count, Deposit(p, s, n)
  PROVE  HeldType' /\ SaveType'
<1> DEFINE item == Stack(inv[p][s].kind, n)
           c    == NewStorageItemSlot(store[p], item)
<1>1. inv[p] \in Inventories /\ store[p] \in Storages
  BY DEF TypeInv, HeldType
<1>2. inv[p][s].count \in Nat /\ n \in Nat /\ 1 <= n /\ n <= inv[p][s].count
  BY <1>1, Put DEF Stacks
<1>3. /\ item \in Goodly
      /\ Less(inv[p][s], n) \in Stacks /\ Placed(Less(inv[p][s], n), s)
  BY <1>1, <1>2, Taken
<1>4. c # NoSlot
  BY DEF Deposit
<1>5. c \in Cell /\ More(store[p][c], item) \in Stacks /\ WellFormed(More(store[p][c], item))
  BY <1>1, <1>3, <1>4, CellFound DEF Goodly
<1>6. /\ inv' = [inv EXCEPT ![p][s] = Less(inv[p][s], n)]
      /\ store' = [store EXCEPT ![p][c] = More(store[p][c], item)]
      /\ writes' = <<SaveSlot41(p, s, inv'[p]), SaveSlotStorage(p, c, store'[p]),
                     SaveSlot41(p, s, inv'[p])>>
  BY DEF Deposit, Saves
<1>7. /\ zulies' = [zulies EXCEPT ![p] = @ - n * Fee] /\ n * Fee <= zulies[p]
      /\ UNCHANGED <<stage, storeZuly, unsaved, missVars>>
  BY DEF Deposit, Saves
<1> HIDE DEF item, c
<1>8. inv' \in [Player -> Inventories] /\ store' \in [Player -> Storages]
  BY <1>3, <1>5, <1>6, PutOf DEF TypeInv, HeldType
<1>9. zulies' \in [Player -> Nat]
  <2>1. n * Fee \in Nat /\ zulies[p] \in Nat
    BY <1>2, GoodsConstants DEF TypeInv, HeldType
  <2>2. zulies[p] - n * Fee \in Nat
    BY <1>7, <2>1
  <2> QED
    BY <1>7, <2>2 DEF TypeInv, HeldType
<1>10. writes' \in Seq(Statements)
  <2>1. SaveSlot41(p, s, inv'[p]) \in Statements /\ SaveSlotStorage(p, c, store'[p]) \in Statements
    BY <1>5, <1>8, Statement
  <2> QED
    BY <1>6, <2>1
<1> QED
  BY <1>7, <1>8, <1>9, <1>10 DEF TypeInv, HeldType, SaveType, missVars

\* The storage as pakChangeStorage reads it again.
LEMMA FreshTypes ==
  ASSUME HeldType, RowType, NEW p \in Player, NEW c \in Cell
  PROVE  GetSlotStorage(p, c) \in Storages
BY Put DEF HeldType, RowType, GetSlotStorage

\* Part of a cell comes out of the storage, or the cell keeps what was asked for.
LEMMA WithdrawTypes ==
  ASSUME TypeInv, NEW p \in Player, NEW c \in Cell,
         NEW n \in 1..GetSlotStorage(p, c)[c].count, Withdraw(p, c, n)
  PROVE  HeldType' /\ SaveType'
<1> DEFINE fresh == GetSlotStorage(p, c)
           item  == Stack(fresh[c].kind, n)
           s     == NewItemSlot(inv[p], item)
<1>1. inv[p] \in Inventories /\ fresh \in Storages
  BY FreshTypes DEF TypeInv, HeldType
<1>2. /\ fresh[c] \in Stacks /\ WellFormed(fresh[c]) /\ fresh[c].count \in Nat
      /\ n \in Nat /\ 1 <= n /\ n <= fresh[c].count
  BY <1>1, Put DEF Stacks
<1>3. item \in Goodly /\ Less(fresh[c], n) \in Stacks /\ WellFormed(Less(fresh[c], n))
  BY <1>2, PartLeft
<1>4. UNCHANGED <<stage, zulies, storeZuly, unsaved, astray>>
  BY DEF Withdraw, Saves
<1>5. CASE s = NoSlot
  <2>1. /\ store' = [store EXCEPT ![p] = PutBack(fresh, c, n)] /\ refused' = refused \cup {p}
        /\ UNCHANGED <<inv, writes>>
    BY <1>5 DEF Withdraw
  <2>2. PutBack(fresh, c, n) \in Storages
    <3>1. PutBack(fresh, c, n) = [fresh EXCEPT ![c] = item]
      BY DEF PutBack
    <3>2. item \in Stacks /\ WellFormed(item)
      BY <1>3 DEF Goodly
    <3> HIDE DEF fresh, item
    <3> QED
      BY <1>1, <3>1, <3>2, Put
  <2> HIDE DEF fresh
  <2> QED
    BY <1>4, <2>1, <2>2 DEF TypeInv, HeldType, SaveType
<1>6. CASE s # NoSlot
  <2>1. /\ store' = [store EXCEPT ![p] = [fresh EXCEPT ![c] = Less(fresh[c], n)]]
        /\ inv' = [inv EXCEPT ![p][s] = More(inv[p][s], item)]
        /\ writes' = <<SaveSlotStorage(p, c, store'[p]), SaveSlot41(p, s, inv'[p])>>
        /\ UNCHANGED refused
    BY <1>6 DEF Withdraw, Saves
  <2>2. s \in Slot /\ More(inv[p][s], item) \in Stacks /\ Placed(More(inv[p][s], item), s)
    BY <1>1, <1>3, <1>6, SlotFound DEF Goodly
  <2> HIDE DEF fresh, item, s
  <2>3. [fresh EXCEPT ![c] = Less(fresh[c], n)] \in Storages
    BY <1>1, <1>3, Put
  <2>4. inv' \in [Player -> Inventories] /\ store' \in [Player -> Storages]
    BY <2>1, <2>2, <2>3, PutOf DEF TypeInv, HeldType
  <2>5. SaveSlotStorage(p, c, store'[p]) \in Statements /\ SaveSlot41(p, s, inv'[p]) \in Statements
    BY <2>2, <2>4, Statement
  <2>6. writes' \in Seq(Statements)
    BY <2>1, <2>5
  <2> QED
    BY <1>4, <2>1, <2>4, <2>6 DEF TypeInv, HeldType, SaveType
<1> QED
  BY <1>5, <1>6

\* All packets of the storage.
LEMMA StoreTypes ==
  ASSUME TypeInv, NEW p \in Player, Store(p)
  PROVE  TypeInv'
<1>1. HeldType' /\ SaveType'
  <2>1. CASE \E s \in Slot : \E n \in 1..inv[p][s].count : Deposit(p, s, n)
    BY <2>1, DepositTypes
  <2>2. CASE \E c \in Cell : \E n \in 1..GetSlotStorage(p, c)[c].count : Withdraw(p, c, n)
    BY <2>2, WithdrawTypes
  <2>3. CASE DepositZuly(p, 1)
    <3>1. /\ zulies' = [zulies EXCEPT ![p] = @ - 1] /\ 1 <= zulies[p]
          /\ storeZuly' = [storeZuly EXCEPT ![p] = @ + 1]
          /\ writes' = <<SaveZulyStorage(p, storeZuly'[p])>>
          /\ UNCHANGED <<stage, inv, store, unsaved, missVars>>
      BY <2>3 DEF DepositZuly, Saves
    <3>2. zulies' \in [Player -> Nat] /\ storeZuly' \in [Player -> Nat]
      BY <3>1 DEF TypeInv, HeldType
    <3>3. SaveZulyStorage(p, storeZuly'[p]) \in Statements
      BY <3>2, Statement
    <3> QED
      BY <3>1, <3>2, <3>3 DEF TypeInv, HeldType, SaveType, missVars
  <2>4. CASE WithdrawZuly(p, 1)
    <3>1. /\ zulies' = [zulies EXCEPT ![p] = @ + 1] /\ 1 <= safe[p]
          /\ storeZuly' = [storeZuly EXCEPT ![p] = safe[p] - 1]
          /\ writes' = <<SaveZulyStorage(p, storeZuly'[p])>>
          /\ UNCHANGED <<stage, inv, store, unsaved, missVars>>
      BY <2>4 DEF WithdrawZuly, Saves
    <3>2. zulies' \in [Player -> Nat] /\ storeZuly' \in [Player -> Nat]
      BY <3>1 DEF TypeInv, HeldType, RowType
    <3>3. SaveZulyStorage(p, storeZuly'[p]) \in Statements
      BY <3>2, Statement
    <3> QED
      BY <3>1, <3>2, <3>3 DEF TypeInv, HeldType, SaveType, missVars
  <2> QED
    BY <2>1, <2>2, <2>3, <2>4 DEF Store, StorageOps
<1>2. UNCHANGED savedVars
  BY DEF Store, StorageOps, Deposit, Withdraw, DepositZuly, WithdrawZuly
<1>3. /\ UNCHANGED <<open, selling, buying, late, tradeVars, ground>>
      /\ swapped' \subseteq swapped \cup {p}
  BY DEF Store
<1>4. StallType' /\ TradeType'
  BY <1>3 DEF TypeInv, StallType, TradeType, tradeVars
<1> QED
  BY <1>1, <1>2, <1>3, <1>4 DEF TypeInv, RowType, savedVars

-----------------------------------------------------------------------------
(* Types: stalls. *)

\* What a row of a list says.
LEMMA ListingFound ==
  ASSUME TypeInv, NEW p \in Player, NEW list \in Listings(p), NEW r \in DOMAIN list
  PROVE  /\ list[r][1] \in Slot /\ list[r][2] \in Nat /\ 1 <= list[r][2]
         /\ list[r][2] <= inv[p][list[r][1]].count
         /\ inv[p][list[r][1]] \in Goodly
<1> DEFINE e == list[r]
<1>1. e \in Slot \X (1..MaxStack) /\ e[2] <= inv[p][e[1]].count
  <2> DEFINE E == {x \in Slot \X (1..MaxStack) : x[2] <= inv[p][x[1]].count}
  <2>1. PICK i \in {0} \cup SellRow : list \in [1..i -> E]
    BY DEF Listings
  <2>2. e \in E
    BY <2>1
  <2> QED
    BY <2>2
<1> HIDE DEF e
<1>2. e[1] \in Slot /\ e[2] \in Nat /\ 1 <= e[2]
  BY <1>1, GoodsConstants
<1>3. inv[p] \in Inventories
  BY DEF TypeInv, HeldType
<1>4. inv[p][e[1]] \in Stacks /\ WellFormed(inv[p][e[1]]) /\ inv[p][e[1]].count \in Nat
  BY <1>2, <1>3, Put DEF Stacks
<1>5. inv[p][e[1]] # Empty
  BY <1>1, <1>2, <1>4, GoodlyStack
<1> QED
  BY <1>1, <1>2, <1>4, <1>5 DEF e, Goodly

\* The rows of a stall that opens are sound.
LEMMA OpenTypes ==
  ASSUME TypeInv, NEW p \in Player, NEW list \in Listings(p), NEW wish \in Wishes, NEW price \in Price,
         OpenShop(p, list, wish, price)
  PROVE  StallType'
<1>1. price \in Nat
  BY StallConstants
<1>2. \A r \in DOMAIN list : RowOf(p, list[r][1], list[r][2], price) \in Row
  <2> SUFFICES ASSUME NEW r \in DOMAIN list
               PROVE  RowOf(p, list[r][1], list[r][2], price) \in Row
    OBVIOUS
  <2>1. list[r][1] \in Slot /\ list[r][2] \in Nat /\ inv[p][list[r][1]].kind \in Kind
    BY ListingFound, GoodlyStack
  <2> QED
    BY <1>1, <2>1 DEF RowOf, Row
<1>3. \A r \in DOMAIN wish : wish[r].kind \in Kind /\ wish[r].count = 2
  <2> DEFINE E == {Stack(k, 2) : k \in Sought}
  <2>1. PICK i \in {0} \cup WantRow : wish \in [1..i -> E]
    BY DEF Wishes
  <2>2. \A r \in DOMAIN wish : wish[r] \in E
    BY <2>1
  <2>3. \A x \in E : x.kind \in Kind /\ x.count = 2
    BY StallConstants DEF Stack
  <2> QED
    BY <2>2, <2>3
<1>4. /\ selling' = [selling EXCEPT ![p] = [r \in SellRow |->
            IF r \in DOMAIN list THEN RowOf(p, list[r][1], list[r][2], price) ELSE selling[p][r]]]
      /\ buying' = [buying EXCEPT ![p] = [r \in WantRow |->
            IF r \in DOMAIN wish
            THEN [kind |-> wish[r].kind, price |-> price,
                  count |-> IF wish[r].kind \in Stackable THEN wish[r].count ELSE 1]
            ELSE buying[p][r]]]
      /\ open' = [open EXCEPT ![p] = TRUE] /\ swapped' = swapped \ {p} /\ UNCHANGED late
  BY DEF OpenShop
<1>5. [r \in SellRow |-> IF r \in DOMAIN list THEN RowOf(p, list[r][1], list[r][2], price)
                         ELSE selling[p][r]] \in [SellRow -> Row \cup {NoRow}]
  BY <1>2 DEF TypeInv, StallType
<1>6. [r \in WantRow |->
            IF r \in DOMAIN wish
            THEN [kind |-> wish[r].kind, price |-> price,
                  count |-> IF wish[r].kind \in Stackable THEN wish[r].count ELSE 1]
            ELSE buying[p][r]] \in [WantRow -> Wish \cup {NoWish}]
  BY <1>1, <1>3 DEF TypeInv, StallType, Wish
<1> QED
  BY <1>4, <1>5, <1>6 DEF TypeInv, StallType

\* Nobody pays more than he has.
LEMMA PaysTypes ==
  ASSUME HeldType, NEW b \in Player, NEW a \in Player, a # b, NEW sum \in Nat, sum <= zulies[b]
  PROVE  Pays(b, a, sum) \in [Player -> Nat]
BY DEF HeldType, Pays

\* A customer buys from a row.
LEMMA BuyTypes ==
  ASSUME TypeInv, NEW b \in Player, NEW a \in Player, NEW r \in SellRow,
         NEW n \in 1..selling[a][r].count, BuyShop(b, a, r, n)
  PROVE  HeldType' /\ SaveType' /\ StallType'
<1> DEFINE row  == selling[a][r]
           item == inv[a][row.slot]
           part == Stack(item.kind, n)
           t    == NewItemSlot(inv[b], part)
<1>1. /\ a # b /\ row.slot # NoSlot /\ item # Empty /\ n * row.price <= zulies[b] /\ t # NoSlot
      /\ zulies' = Pays(b, a, n * row.price) /\ NoteLate(a)
      /\ UNCHANGED <<stage, store, storeZuly, missVars, open, buying, swapped>>
  BY DEF BuyShop
<1>2. row \in Row
  BY <1>1 DEF TypeInv, StallType, NoRow
<1>3. /\ row.slot \in Slot /\ row.count \in Nat /\ row.price \in Nat
      /\ n \in Nat /\ 1 <= n /\ n <= row.count
  BY <1>2 DEF Row
<1>4. inv[a] \in Inventories /\ inv[b] \in Inventories
  BY DEF TypeInv, HeldType
<1>5. item \in Stacks /\ item.count \in Nat
  BY <1>3, <1>4, Put DEF Stacks
<1>6. zulies' \in [Player -> Nat]
  <2>1. n * row.price \in Nat
    BY <1>3
  <2> QED
    BY <1>1, <2>1, PaysTypes DEF TypeInv
<1>7. late' \subseteq Player
  BY <1>1 DEF NoteLate, TypeInv, StallType
<1>8. CASE item.count < n
  <2>1. /\ selling' = [selling EXCEPT ![a][r].count = item.count]
        /\ UNCHANGED <<inv, unsaved, writes>>
    BY <1>8 DEF BuyShop
  <2>2. [row EXCEPT !.count = item.count] \in Row
    BY <1>2, <1>5 DEF Row
  <2>3. selling' \in [Player -> [SellRow -> Row \cup {NoRow}]]
    BY <2>1, <2>2 DEF TypeInv, StallType
  <2> QED
    BY <1>1, <1>6, <1>7, <2>1, <2>3 DEF TypeInv, HeldType, SaveType, StallType, missVars
<1>9. CASE ~(item.count < n)
  <2>1. /\ selling' = [selling EXCEPT ![a][r] = RowAfter(row, item, n)]
        /\ inv' = [inv EXCEPT ![a][row.slot] = Less(item, n), ![b][t] = More(inv[b][t], part)]
        /\ Saves("buy", BuyWrites(b, t, a, row.slot))
    BY <1>9 DEF BuyShop
  <2>2. /\ Less(item, n) \in Stacks /\ Placed(Less(item, n), row.slot)
        /\ part \in Goodly
    <3>1. n <= item.count
      BY <1>3, <1>5, <1>9
    <3> QED
      BY <1>3, <1>4, <3>1, Taken
  <2>3. t \in Slot /\ More(inv[b][t], part) \in Stacks /\ Placed(More(inv[b][t], part), t)
    BY <1>1, <1>4, <2>2, SlotFound DEF Goodly
  <2>4. RowAfter(row, item, n) \in Row \cup {NoRow}
    BY <1>2, <1>3, <1>5 DEF RowAfter, Row
  <2> HIDE DEF row, item, part, t
  <2>5. inv' \in [Player -> Inventories]
    <3>1. [inv EXCEPT ![a][row.slot] = Less(item, n)] \in [Player -> Inventories]
      BY <1>3, <2>2, PutOf DEF TypeInv, HeldType
    <3> QED
      BY <2>1, <2>3, <3>1, PutOf
  <2>6. selling' \in [Player -> [SellRow -> Row \cup {NoRow}]]
    BY <2>1, <2>4 DEF TypeInv, StallType
  <2>7. writes' \in Seq(Statements) /\ UNCHANGED unsaved
    <3>1. SaveSlot41(b, t, inv'[b]) \in Statements /\ SaveSlot41(a, row.slot, inv'[a]) \in Statements
      BY <1>3, <2>3, <2>5, Statement
    <3> QED
      BY <2>1, <3>1 DEF Saves, BuyWrites
  <2> QED
    BY <1>1, <1>6, <1>7, <2>5, <2>6, <2>7 DEF TypeInv, HeldType, SaveType, StallType, missVars
<1> QED
  BY <1>8, <1>9

\* A customer sells what the owner asks for.
LEMMA SellTypes ==
  ASSUME TypeInv, NEW b \in Player, NEW a \in Player, NEW s \in Slot, NEW r \in WantRow,
         NEW n \in 1..inv[b][s].count, SellShop(b, a, s, r, n)
  PROVE  HeldType' /\ SaveType' /\ StallType'
<1> DEFINE wish == buying[a][r]
           item == inv[b][s]
           m    == IF n > wish.count THEN wish.count ELSE n
           part == Stack(item.kind, m)
           t    == NewItemSlot(inv[a], part)
           rest == WishAfter(wish, item, m)
<1>1. /\ a # b /\ item # Empty /\ item.kind = wish.kind /\ m * wish.price <= zulies[a] /\ t # NoSlot
      /\ zulies' = Pays(a, b, m * wish.price) /\ NoteLate(a)
      /\ inv' = [inv EXCEPT ![b][s] = Less(item, m), ![a][t] = More(inv[a][t], part)]
      /\ writes' = <<SaveSlot41(b, s, inv'[b]), SaveSlot41(a, t, inv'[a])>>
      /\ UNCHANGED <<stage, store, storeZuly, unsaved, missVars, open, selling, swapped>>
  BY DEF SellShop, Saves
<1>0. buying' = [buying EXCEPT ![a][r] = rest]
  BY DEF SellShop
<1>2. inv[a] \in Inventories /\ inv[b] \in Inventories
  BY DEF TypeInv, HeldType
<1>3. item \in Goodly
  BY <1>1, <1>2, Put DEF Goodly
<1>4. item.kind \in Kind /\ item.kind # NoKind /\ item.count \in Nat
  BY <1>3, GoodlyStack
<1>5. wish \in Wish
  <2>1. wish \in Wish \cup {NoWish}
    BY DEF TypeInv, StallType
  <2>2. wish.kind # NoKind
    BY <1>1, <1>4
  <2> HIDE DEF wish
  <2> QED
    BY <2>1, <2>2 DEF NoWish
<1>6. /\ wish.count \in Nat /\ 1 <= wish.count /\ wish.price \in Nat
      /\ m \in Nat /\ 1 <= m /\ m <= item.count
  BY <1>4, <1>5 DEF Wish
<1>7. /\ Less(item, m) \in Stacks /\ Placed(Less(item, m), s)
      /\ part \in Goodly
  BY <1>2, <1>6, Taken
<1>8. t \in Slot /\ More(inv[a][t], part) \in Stacks /\ Placed(More(inv[a][t], part), t)
  BY <1>1, <1>2, <1>7, SlotFound DEF Goodly
<1>9. rest \in Wish \cup {NoWish}
  BY <1>5, <1>6 DEF Wish, WishAfter
<1> HIDE DEF wish, item, m, part, t, rest
<1>10. inv' \in [Player -> Inventories]
  <2>1. [inv EXCEPT ![b][s] = Less(item, m)] \in [Player -> Inventories]
    BY <1>7, PutOf DEF TypeInv, HeldType
  <2> QED
    BY <1>1, <1>8, <2>1, PutOf
<1>11. zulies' \in [Player -> Nat]
  <2>1. m * wish.price \in Nat
    BY <1>6
  <2> QED
    BY <1>1, <2>1, PaysTypes DEF TypeInv
<1>12. buying' \in [Player -> [WantRow -> Wish \cup {NoWish}]]
  BY <1>0, <1>9 DEF TypeInv, StallType
<1>13. writes' \in Seq(Statements)
  <2>1. SaveSlot41(b, s, inv'[b]) \in Statements /\ SaveSlot41(a, t, inv'[a]) \in Statements
    BY <1>8, <1>10, Statement
  <2> QED
    BY <1>1, <2>1
<1>14. late' \subseteq Player
  BY <1>1 DEF NoteLate, TypeInv, StallType
<1> QED
  BY <1>1, <1>10, <1>11, <1>12, <1>13, <1>14 DEF TypeInv, HeldType, SaveType, StallType, missVars

\* All packets of a stall.
LEMMA VendTypes ==
  ASSUME TypeInv, NEW p \in Player, Vend(p)
  PROVE  TypeInv'
<1>1. HeldType' /\ SaveType' /\ StallType'
  <2>1. CASE \E list \in Listings(p), wish \in Wishes, price \in Price : OpenShop(p, list, wish, price)
    <3>1. PICK list \in Listings(p), wish \in Wishes, price \in Price : OpenShop(p, list, wish, price)
      BY <2>1
    <3>2. StallType'
      BY <3>1, OpenTypes
    <3>3. UNCHANGED goodsVars
      BY <3>1 DEF OpenShop
    <3> QED
      BY <3>2, <3>3 DEF TypeInv, HeldType, SaveType, goodsVars, heldVars, missVars
  <2>2. CASE CloseShop(p)
    <3>1. Closed(p) /\ UNCHANGED <<goodsVars, swapped, late>>
      BY <2>2 DEF CloseShop
    <3>2. StallType'
      BY <3>1 DEF Closed, TypeInv, StallType
    <3> QED
      BY <3>1, <3>2 DEF TypeInv, HeldType, SaveType, goodsVars, heldVars, missVars
  <2>3. CASE \E a \in Player, r \in SellRow : \E n \in 1..selling[a][r].count : BuyShop(p, a, r, n)
    BY <2>3, BuyTypes
  <2>4. CASE \E a \in Player, s \in Slot, r \in WantRow :
               \E n \in 1..inv[p][s].count : SellShop(p, a, s, r, n)
    BY <2>4, SellTypes
  <2> QED
    BY <2>1, <2>2, <2>3, <2>4 DEF Vend, StallOps
<1>2. UNCHANGED <<savedVars, tradeVars, ground>>
  <2>1. UNCHANGED <<tradeVars, ground>> /\ StallOps(p)
    BY DEF Vend
  <2>2. UNCHANGED savedVars
    <3>1. UNCHANGED goodsVars => UNCHANGED savedVars
      BY DEF goodsVars
    <3>2. \A list, wish, price : OpenShop(p, list, wish, price) => UNCHANGED savedVars
      BY <3>1 DEF OpenShop
    <3>3. CloseShop(p) => UNCHANGED savedVars
      BY <3>1 DEF CloseShop
    <3>4. \A a, r, n : BuyShop(p, a, r, n) => UNCHANGED savedVars
      <4> SUFFICES ASSUME NEW a, NEW r, NEW n, BuyShop(p, a, r, n) PROVE UNCHANGED savedVars
        OBVIOUS
      <4> QED
        BY DEF BuyShop
    <3>5. \A a, s, r, n : SellShop(p, a, s, r, n) => UNCHANGED savedVars
      <4> SUFFICES ASSUME NEW a, NEW s, NEW r, NEW n, SellShop(p, a, s, r, n)
                   PROVE  UNCHANGED savedVars
        OBVIOUS
      <4> QED
        BY DEF SellShop
    <3> QED
      BY <2>1, <3>2, <3>3, <3>4, <3>5 DEF StallOps
  <2> QED
    BY <2>1, <2>2
<1> QED
  BY <1>1, <1>2 DEF TypeInv, RowType, TradeType, savedVars, tradeVars

-----------------------------------------------------------------------------
(* The exchange, row by row. *)

Deals == [bags : [Player -> Inventories], saves : Seq(Statements), stuck : BOOLEAN]

\* What row x of p's table offers is still in its slot.
Able(bags, p, x) ==
  offer[p][x] # NoOffer =>
    LET s == offer[p][x].slot
    IN  bags[p][s].kind = inv[p][s].kind /\ bags[p][s].count >= offer[p][x].count

\* No row of p's table shares its slot with a later one.
Apart(p) ==
  \A r, x \in TradeRow : r # x /\ offer[p][r] # NoOffer => offer[p][r].slot # offer[p][x].slot

\* A row of a table names a slot and a number.
LEMMA OfferFound ==
  ASSUME TypeInv, NEW p \in Player, NEW r \in TradeRow, offer[p][r] # NoOffer
  PROVE  /\ offer[p][r].slot \in Slot /\ offer[p][r].count \in Nat /\ 1 <= offer[p][r].count
<1>1. offer[p][r] \in Offer
  BY DEF TypeInv, TradeType
<1> QED
  BY <1>1 DEF Offer

\* Row r of p's table is on top of what q has in slot t.
HandedOver(deal, p, q, r, t) ==
  LET o    == offer[p][r]
      next == Passed(deal.bags, p, o.slot, q, t, o.count)
  IN  /\ t \in Slot /\ next \in [Player -> Inventories]
      /\ next = [u \in Player |->
            IF u = p THEN [deal.bags[p] EXCEPT ![o.slot] = Less(deal.bags[p][o.slot], o.count)]
            ELSE IF u = q
            THEN [deal.bags[q] EXCEPT ![t] = More(deal.bags[q][t],
                                                  Stack(deal.bags[p][o.slot].kind, o.count))]
            ELSE deal.bags[u]]
      /\ deal.bags[q][t] = Empty \/ deal.bags[q][t].kind = deal.bags[p][o.slot].kind
      /\ Hand(deal, p, q, r) =
           [deal EXCEPT !.bags = next,
                        !.saves = deal.saves \o <<SaveSlot41(q, t, next[q]),
                                                  SaveSlot41(p, o.slot, next[p])>>]

\* Handing a row over, where there is room for it.
LEMMA HandStep ==
  ASSUME TypeInv, NEW p \in Player, NEW q \in Player, p # q, NEW r \in TradeRow,
         NEW deal \in Deals, Able(deal.bags, p, r), offer[p][r] # NoOffer,
         NewItemSlot(deal.bags[q], deal.bags[p][offer[p][r].slot]) # NoSlot
  PROVE  HandedOver(deal, p, q, r, NewItemSlot(deal.bags[q], deal.bags[p][offer[p][r].slot]))
<1> DEFINE o    == offer[p][r]
           bags == deal.bags
           item == bags[p][o.slot]
           part == Stack(item.kind, o.count)
           t    == NewItemSlot(bags[q], item)
           next == Passed(bags, p, o.slot, q, t, o.count)
<1>1. o.slot \in Slot /\ o.count \in Nat /\ 1 <= o.count
  BY OfferFound
<1>2. bags \in [Player -> Inventories] /\ bags[p] \in Inventories /\ bags[q] \in Inventories
  BY DEF Deals
<1>3. item.count >= o.count /\ item \in Stacks /\ WellFormed(item) /\ item.count \in Nat
  BY <1>1, <1>2, Put DEF Able, Stacks
<1>4. item \in Goodly
  <2>1. item # Empty
    <3> HIDE DEF item
    <3> QED
      BY <1>1, <1>3, GoodlyStack
  <2> QED
    BY <1>3, <2>1 DEF Goodly
<1>5. /\ part \in Goodly
      /\ Less(item, o.count) \in Stacks /\ Placed(Less(item, o.count), o.slot)
  BY <1>1, <1>2, <1>3, Taken
<1>6. /\ t \in Slot /\ t \in Tab[item.kind]
      /\ bags[q][t] = Empty \/ bags[q][t].kind = item.kind
      /\ More(bags[q][t], item) \in Goodly
  BY <1>2, <1>4, SlotFound
<1>7. More(bags[q][t], part) \in Goodly /\ Placed(More(bags[q][t], part), t)
  <2>1. bags[q][t] \in Stacks /\ bags[q][t].count \in Nat
    BY <1>2, <1>6, Put DEF Stacks
  <2>2. part.kind = item.kind /\ part.count = o.count
    BY DEF Stack
  <2>3. /\ More(bags[q][t], item).kind = item.kind
        /\ More(bags[q][t], item).count = bags[q][t].count + item.count
        /\ More(bags[q][t], part) = Stack(item.kind, bags[q][t].count + o.count)
    BY <2>2 DEF More, Stack
  <2> HIDE DEF t, item, part
  <2>4. Stack(item.kind, bags[q][t].count + o.count) \in Goodly
    <3>1. /\ item.kind \in Kind
          /\ bags[q][t].count + item.count <= (IF item.kind \in Stackable THEN MaxStack ELSE 1)
      BY <1>4, <1>6, <2>3, GoodlyStack
    <3>2. /\ bags[q][t].count + o.count \in Nat /\ 1 <= bags[q][t].count + o.count
          /\ bags[q][t].count + o.count <= bags[q][t].count + item.count
          /\ bags[q][t].count + item.count \in Nat
      BY <1>1, <1>3, <2>1
    <3>3. bags[q][t].count + o.count <= (IF item.kind \in Stackable THEN MaxStack ELSE 1)
      BY <3>1, <3>2, GoodsConstants
    <3> QED
      BY <3>1, <3>2, <3>3, GoodlyStack
  <2>5. Stack(item.kind, bags[q][t].count + o.count).kind = item.kind
    BY DEF Stack
  <2> QED
    BY <1>6, <2>3, <2>4, <2>5 DEF Goodly, Placed
<1>8. Hand(deal, p, q, r) =
        [deal EXCEPT !.bags = next,
                     !.saves = deal.saves \o <<SaveSlot41(q, t, next[q]), SaveSlot41(p, o.slot, next[p])>>]
  BY DEF Hand
<1> HIDE DEF o, bags, item, part, t
<1>9. next = [u \in Player |-> IF u = p THEN [bags[p] EXCEPT ![o.slot] = Less(item, o.count)]
                               ELSE IF u = q THEN [bags[q] EXCEPT ![t] = More(bags[q][t], part)]
                               ELSE bags[u]]
  <2>1. next = [bags EXCEPT ![p] = [bags[p] EXCEPT ![o.slot] = Less(item, o.count)],
                            ![q] = [bags[q] EXCEPT ![t] = More(bags[q][t], part)]]
    BY <1>2 DEF Passed, item, part
  <2> QED
    BY <1>2, <2>1
<1>10. next \in [Player -> Inventories]
  <2>1. /\ [bags[p] EXCEPT ![o.slot] = Less(item, o.count)] \in Inventories
        /\ [bags[q] EXCEPT ![t] = More(bags[q][t], part)] \in Inventories
    BY <1>1, <1>2, <1>5, <1>6, <1>7, Put DEF Goodly
  <2> QED
    BY <1>2, <1>9, <2>1
<1> QED
  BY <1>6, <1>8, <1>9, <1>10 DEF o, bags, item, part, t, HandedOver

\* One row: the giver's other slots stay, and nothing of the taker gets less.
LEMMA Handed ==
  ASSUME TypeInv, NEW p \in Player, NEW q \in Player, p # q, NEW r \in TradeRow,
         NEW deal \in Deals, Able(deal.bags, p, r)
  PROVE  LET d == Hand(deal, p, q, r)
         IN  /\ d \in Deals
             /\ \A u \in Player \ {p, q} : d.bags[u] = deal.bags[u]
             /\ \A s \in Slot : offer[p][r] = NoOffer \/ s # offer[p][r].slot
                                  => d.bags[p][s] = deal.bags[p][s]
             /\ \A s \in Slot : deal.bags[q][s] # Empty
                  => /\ d.bags[q][s].kind = deal.bags[q][s].kind
                     /\ d.bags[q][s].count >= deal.bags[q][s].count
<1> DEFINE d == Hand(deal, p, q, r)
           o == offer[p][r]
           t == NewItemSlot(deal.bags[q], deal.bags[p][o.slot])
           next == Passed(deal.bags, p, o.slot, q, t, o.count)
<1>0. d = Hand(deal, p, q, r)
  OBVIOUS
<1>1. /\ deal.bags \in [Player -> Inventories] /\ deal.saves \in Seq(Statements)
      /\ \A u \in Player, s \in Slot : deal.bags[u][s].count \in Nat
  BY Put DEF Deals, Stacks
<1>2. CASE o = NoOffer
  <2>1. d = deal
    BY <1>2 DEF Hand
  <2> HIDE DEF d
  <2> QED
    BY <1>0, <1>1, <2>1
<1>3. CASE o # NoOffer /\ t = NoSlot
  <2>1. d = [deal EXCEPT !.stuck = TRUE]
    BY <1>3 DEF Hand
  <2>2. d \in Deals /\ d.bags = deal.bags
    BY <2>1 DEF Deals
  <2> HIDE DEF d
  <2> QED
    BY <1>0, <1>1, <2>2
<1>4. CASE o # NoOffer /\ t # NoSlot
  <2>1. /\ t \in Slot /\ next \in [Player -> Inventories]
        /\ next = [u \in Player |->
              IF u = p THEN [deal.bags[p] EXCEPT ![o.slot] = Less(deal.bags[p][o.slot], o.count)]
              ELSE IF u = q
              THEN [deal.bags[q] EXCEPT ![t] = More(deal.bags[q][t], Stack(deal.bags[p][o.slot].kind, o.count))]
              ELSE deal.bags[u]]
        /\ deal.bags[q][t] = Empty \/ deal.bags[q][t].kind = deal.bags[p][o.slot].kind
        /\ d = [deal EXCEPT !.bags = next,
                            !.saves = deal.saves \o <<SaveSlot41(q, t, next[q]),
                                                      SaveSlot41(p, o.slot, next[p])>>]
    <3>1. HandedOver(deal, p, q, r, t)
      BY <1>4, HandStep
    <3> QED
      BY <3>1 DEF HandedOver
  <2>2. o.slot \in Slot /\ o.count \in Nat
    BY <1>4, OfferFound
  <2> HIDE DEF d, t, next, o
  <2>3. d.bags = next
    BY <2>1 DEF Deals
  <2>4. d \in Deals
    <3>1. SaveSlot41(q, t, next[q]) \in Statements /\ SaveSlot41(p, o.slot, next[p]) \in Statements
      BY <2>1, <2>2, Statement
    <3>2. deal.saves \o <<SaveSlot41(q, t, next[q]), SaveSlot41(p, o.slot, next[p])>> \in Seq(Statements)
      BY <1>1, <3>1
    <3> QED
      BY <2>1, <3>2 DEF Deals
  <2>5. ASSUME NEW s \in Slot, s # o.slot
        PROVE  next[p][s] = deal.bags[p][s]
    BY <1>1, <2>1, <2>5 DEF Inventories
  <2>7. \A u \in Player \ {p, q} : next[u] = deal.bags[u]
    BY <2>1
  <2>6. ASSUME NEW s \in Slot, deal.bags[q][s] # Empty
        PROVE  /\ next[q][s].kind = deal.bags[q][s].kind
               /\ next[q][s].count >= deal.bags[q][s].count
    <3>1. next[q] = [deal.bags[q] EXCEPT ![t] = More(deal.bags[q][t], Stack(deal.bags[p][o.slot].kind, o.count))]
      BY <2>1
    <3>2. deal.bags[q] \in [Slot -> Stacks]
      BY <1>1 DEF Inventories
    <3>3. CASE s = t
      <4>1. next[q][s] = Stack(deal.bags[p][o.slot].kind, deal.bags[q][s].count + o.count)
        BY <3>1, <3>2, <3>3 DEF More, Stack
      <4>2. deal.bags[q][s].kind = deal.bags[p][o.slot].kind
        BY <2>1, <2>6, <3>3
      <4> QED
        BY <1>1, <2>2, <4>1, <4>2 DEF Stack
    <3>4. CASE s # t
      <4>1. next[q][s] = deal.bags[q][s]
        BY <3>1, <3>2, <3>4
      <4> QED
        BY <1>1, <4>1
    <3> QED
      BY <3>3, <3>4
  <2> QED
    BY <1>4, <2>3, <2>4, <2>5, <2>6, <2>7 DEF d, o
<1> QED
  BY <1>2, <1>3, <1>4

\* Rows from r on, of a table whose rows are apart, can still be handed over.
LEMMA StillAble ==
  ASSUME TypeInv, NEW p \in Player, NEW q \in Player, p # q, NEW r \in TradeRow, NEW x \in TradeRow,
         NEW deal \in Deals, Able(deal.bags, p, r)
  PROVE  LET d == Hand(deal, p, q, r)
         IN  /\ Able(deal.bags, p, x) /\ r # x /\ Apart(p) => Able(d.bags, p, x)
             /\ Able(deal.bags, q, x) => Able(d.bags, q, x)
<1> DEFINE d == Hand(deal, p, q, r)
<1>1. /\ d \in Deals
      /\ \A s \in Slot : offer[p][r] = NoOffer \/ s # offer[p][r].slot
                           => d.bags[p][s] = deal.bags[p][s]
      /\ \A s \in Slot : deal.bags[q][s] # Empty
           => /\ d.bags[q][s].kind = deal.bags[q][s].kind
              /\ d.bags[q][s].count >= deal.bags[q][s].count
  BY Handed
<1>2. \A u \in Player, s \in Slot : d.bags[u][s].count \in Nat /\ deal.bags[u][s].count \in Nat
  BY <1>1, Put DEF Deals, Stacks
<1> HIDE DEF d
<1>3. ASSUME Able(deal.bags, p, x), r # x, Apart(p) PROVE Able(d.bags, p, x)
  <2>1. SUFFICES ASSUME offer[p][x] # NoOffer PROVE Able(d.bags, p, x)
    BY DEF Able
  <2>2. offer[p][x].slot \in Slot
    BY <2>1, OfferFound
  <2>3. d.bags[p][offer[p][x].slot] = deal.bags[p][offer[p][x].slot]
    BY <1>1, <1>3, <2>2 DEF Apart
  <2> QED
    BY <1>3, <2>3 DEF Able
<1>4. ASSUME Able(deal.bags, q, x) PROVE Able(d.bags, q, x)
  <2>1. SUFFICES ASSUME offer[q][x] # NoOffer PROVE Able(d.bags, q, x)
    BY DEF Able
  <2> DEFINE s == offer[q][x].slot
             c == offer[q][x].count
  <2>2. s \in Slot /\ c \in Nat /\ 1 <= c
    BY <2>1, OfferFound
  <2>3. deal.bags[q][s].kind = inv[q][s].kind /\ deal.bags[q][s].count >= c
    BY <1>4, <2>1 DEF Able
  <2> HIDE DEF s, c
  <2>4. deal.bags[q][s] # Empty
    BY <1>2, <2>2, <2>3, GoodlyStack
  <2>5. d.bags[q][s].kind = inv[q][s].kind /\ d.bags[q][s].count >= c
    BY <1>1, <1>2, <2>2, <2>3, <2>4
  <2> QED
    BY <2>5 DEF Able, s, c
<1> QED
  BY <1>3, <1>4 DEF d

-----------------------------------------------------------------------------
(* Statements that save what is held. *)

Same(v, w) == v.table = w.table /\ v.owner = w.owner /\ v.at = w.at

Final(w, bags, chests) ==
  /\ w.table = "items" => w.value = bags[w.owner][w.at]
  /\ w.table = "storage" => w.value = chests[w.owner][w.at]

\* Every statement writes what is held, or a later one of the same place does.
Settles(list, bags, chests) ==
  \A i \in 1..Len(list) :
    Final(list[i], bags, chests) \/ \E j \in 1..Len(list) : i < j /\ Same(list[j], list[i])

Saved(list, name, u, s) ==
  \E i \in 1..Len(list) : list[i].table = name /\ list[i].owner = u /\ list[i].at = s

\* A slot that changed from was to bags has a statement.
Covered(list, was, bags) ==
  \A u \in Player, s \in Slot : bags[u][s] # was[u][s] => Saved(list, "items", u, s)

\* The statements of an exchange under way save its changes.
Tracked(deal) ==
  /\ deal.saves \in Seq(ItemSaves)
  /\ Settles(deal.saves, deal.bags, store) /\ Covered(deal.saves, inv, deal.bags)

\* Two more statements, for the two slots that change.
LEMMA TwoMore ==
  ASSUME NEW list \in Seq(ItemSaves), NEW a \in ItemSaves, NEW b \in ItemSaves,
         NEW bags, NEW next, NEW chests, NEW was,
         Settles(list, bags, chests), Covered(list, was, bags),
         Final(a, next, chests), Final(b, next, chests),
         \A u \in Player, s \in Slot :
           next[u][s] # bags[u][s] => (u = a.owner /\ s = a.at) \/ (u = b.owner /\ s = b.at)
  PROVE  LET more == list \o <<a, b>>
         IN  /\ more \in Seq(ItemSaves)
             /\ Settles(more, next, chests) /\ Covered(more, was, next)
<1> DEFINE more == list \o <<a, b>>
           n    == Len(list)
<1>1. /\ more \in Seq(ItemSaves) /\ n \in Nat /\ Len(more) = n + 2
      /\ \A i \in 1..n : more[i] = list[i]
      /\ more[n + 1] = a /\ more[n + 2] = b
  BY LenProperties
<1>2. /\ \A w \in ItemSaves : w.table = "items" /\ w.owner \in Player /\ w.at \in Slot
      /\ \A i \in 1..n : list[i] \in ItemSaves
  BY ElementOfSeq DEF ItemSaves
<1> HIDE DEF more, n
<1>3. ASSUME NEW i \in 1..Len(more)
      PROVE  Final(more[i], next, chests) \/ \E j \in 1..Len(more) : i < j /\ Same(more[j], more[i])
  <2>1. CASE i \in 1..n
    <3> DEFINE w == list[i]
    <3>1. w \in ItemSaves /\ more[i] = w
      BY <1>1, <1>2, <2>1
    <3>2. CASE Final(w, bags, chests)
      <4>1. CASE next[w.owner][w.at] = bags[w.owner][w.at]
        <5>1. w.table = "items"
          BY <1>2, <3>1
        <5> QED
          BY <3>1, <3>2, <4>1, <5>1 DEF Final
      <4>2. CASE next[w.owner][w.at] # bags[w.owner][w.at]
        <5>1. Same(a, w) \/ Same(b, w)
          BY <1>2, <3>1, <4>2 DEF Same
        <5>2. n + 1 \in 1..Len(more) /\ n + 2 \in 1..Len(more) /\ i < n + 1 /\ i < n + 2
          BY <1>1, <2>1
        <5> QED
          BY <1>1, <3>1, <5>1, <5>2
      <4> QED
        BY <4>1, <4>2
    <3>3. CASE \E j \in 1..n : i < j /\ Same(list[j], list[i])
      BY <1>1, <2>1, <3>3
    <3> QED
      BY <2>1, <3>2, <3>3 DEF Settles, n
  <2>2. CASE i \notin 1..n
    BY <1>1, <2>2
  <2> QED
    BY <2>1, <2>2
<1>4. ASSUME NEW u \in Player, NEW s \in Slot, next[u][s] # was[u][s]
      PROVE  Saved(more, "items", u, s)
  <2>1. CASE next[u][s] = bags[u][s]
    <3>1. PICK i \in 1..n : list[i].table = "items" /\ list[i].owner = u /\ list[i].at = s
      BY <1>4, <2>1 DEF Covered, Saved, n
    <3> QED
      BY <1>1, <3>1 DEF Saved
  <2>2. CASE next[u][s] # bags[u][s]
    <3>1. n + 1 \in 1..Len(more) /\ n + 2 \in 1..Len(more)
      BY <1>1
    <3>2. (u = a.owner /\ s = a.at /\ a.table = "items") \/ (u = b.owner /\ s = b.at /\ b.table = "items")
      BY <1>2, <2>2
    <3> QED
      BY <1>1, <3>1, <3>2 DEF Saved
  <2> QED
    BY <2>1, <2>2
<1>5. Settles(more, next, chests) /\ Covered(more, was, next)
  BY <1>3, <1>4 DEF Settles, Covered
<1> QED
  BY <1>1, <1>5 DEF more

\* Handing a row over saves the two slots it changes.
LEMMA HandTracked ==
  ASSUME TypeInv, NEW p \in Player, NEW q \in Player, p # q, NEW r \in TradeRow,
         NEW deal \in Deals, Able(deal.bags, p, r), Tracked(deal)
  PROVE  Tracked(Hand(deal, p, q, r))
<1> DEFINE d == Hand(deal, p, q, r)
           o == offer[p][r]
           t == NewItemSlot(deal.bags[q], deal.bags[p][o.slot])
           next == Passed(deal.bags, p, o.slot, q, t, o.count)
           a == SaveSlot41(q, t, next[q])
           b == SaveSlot41(p, o.slot, next[p])
<1>1. CASE o = NoOffer
  <2>1. d = deal
    BY <1>1 DEF Hand
  <2> QED
    BY <2>1
<1>2. CASE o # NoOffer /\ t = NoSlot
  <2>1. Hand(deal, p, q, r) = [deal EXCEPT !.stuck = TRUE]
    BY <1>2 DEF Hand
  <2> QED
    BY <2>1 DEF Deals, Tracked
<1>3. CASE o # NoOffer /\ t # NoSlot
  <2>1. HandedOver(deal, p, q, r, t)
    BY <1>3, HandStep
  <2>2. /\ t \in Slot /\ next \in [Player -> Inventories]
        /\ next = [u \in Player |->
              IF u = p THEN [deal.bags[p] EXCEPT ![o.slot] = Less(deal.bags[p][o.slot], o.count)]
              ELSE IF u = q
              THEN [deal.bags[q] EXCEPT ![t] = More(deal.bags[q][t], Stack(deal.bags[p][o.slot].kind, o.count))]
              ELSE deal.bags[u]]
        /\ Hand(deal, p, q, r) = [deal EXCEPT !.bags = next, !.saves = deal.saves \o <<a, b>>]
    BY <2>1 DEF HandedOver
  <2>3. o.slot \in Slot
    BY <1>3, OfferFound
  <2> HIDE DEF t, next, o
  <2>4. /\ a \in ItemSaves /\ a.owner = q /\ a.at = t /\ a.value = next[q][t] /\ a.table = "items"
        /\ b \in ItemSaves /\ b.owner = p /\ b.at = o.slot /\ b.value = next[p][o.slot] /\ b.table = "items"
    <3>1. a \in ItemSaves /\ b \in ItemSaves
      BY <2>2, <2>3, Statement
    <3> QED
      BY <3>1 DEF SaveSlot41
  <2> HIDE DEF a, b
  <2>5. Final(a, next, store) /\ Final(b, next, store)
    BY <2>4 DEF Final
  <2>6. \A u \in Player, s \in Slot :
          next[u][s] # deal.bags[u][s] => (u = a.owner /\ s = a.at) \/ (u = b.owner /\ s = b.at)
    <3>1. SUFFICES ASSUME NEW u \in Player, NEW s \in Slot,
                          ~(u = q /\ s = t), ~(u = p /\ s = o.slot)
                   PROVE  next[u][s] = deal.bags[u][s]
      BY <2>4
    <3>2. deal.bags[p] \in [Slot -> Stacks] /\ deal.bags[q] \in [Slot -> Stacks]
      BY DEF Deals, Inventories
    <3> QED
      BY <2>2, <3>1, <3>2
  <2>7. /\ deal.saves \o <<a, b>> \in Seq(ItemSaves)
        /\ Settles(deal.saves \o <<a, b>>, next, store)
        /\ Covered(deal.saves \o <<a, b>>, inv, next)
    <3>1. deal.saves \in Seq(ItemSaves) /\ Settles(deal.saves, deal.bags, store) /\ Covered(deal.saves, inv, deal.bags)
      BY DEF Tracked
    <3> QED
      BY <2>4, <2>5, <2>6, <3>1, TwoMore
  <2>8. Hand(deal, p, q, r).bags = next /\ Hand(deal, p, q, r).saves = deal.saves \o <<a, b>>
    BY <2>2 DEF Deals
  <2> QED
    BY <2>7, <2>8 DEF Tracked
<1> QED
  BY <1>1, <1>2, <1>3

-----------------------------------------------------------------------------
(* The exchange as a whole. *)

Deal0 == [bags |-> inv, saves |-> <<>>, stuck |-> FALSE]

\* The exchange after r rows: sound, saved, and the rest can be handed over.
Underway(deal, p, q, r) ==
  /\ deal \in Deals /\ Tracked(deal)
  /\ \A u \in Player \ {p, q} : deal.bags[u] = inv[u]
  /\ \A x \in TradeRow : r < x => Able(deal.bags, p, x) /\ Able(deal.bags, q, x)

\* Both rows of a line handed over, from what holds before the line to after it.
LEMMA BothHanded ==
  ASSUME TypeInv, NEW p \in Player, NEW q \in Player, p # q, Apart(p), Apart(q),
         NEW r \in 1..NRow, NEW deal, Underway(deal, p, q, r - 1)
  PROVE  Underway(HandBoth(deal, p, q, r), p, q, r)
<1> DEFINE there == Hand(deal, p, q, r)
           back  == IF there.stuck THEN there ELSE Hand(there, q, p, r)
<1>1. r \in TradeRow /\ r \in Nat /\ NRow \in Nat /\ TradeRow \subseteq Nat
  BY TradeConstants DEF TradeRow
<1>2. /\ deal \in Deals /\ Tracked(deal)
      /\ \A u \in Player \ {p, q} : deal.bags[u] = inv[u]
      /\ \A x \in TradeRow : r <= x => Able(deal.bags, p, x) /\ Able(deal.bags, q, x)
  BY <1>1 DEF Underway
<1>3. Able(deal.bags, p, r) /\ Able(deal.bags, q, r)
  BY <1>1, <1>2
<1>4. /\ there \in Deals /\ Tracked(there) /\ Able(there.bags, q, r)
      /\ \A u \in Player \ {p, q} : there.bags[u] = inv[u]
      /\ \A x \in TradeRow : r < x => Able(there.bags, p, x) /\ Able(there.bags, q, x)
  <2>1. /\ there \in Deals /\ Tracked(there)
        /\ \A u \in Player \ {p, q} : there.bags[u] = inv[u]
    BY <1>1, <1>2, <1>3, Handed, HandTracked
  <2>2. \A x \in TradeRow : /\ Able(deal.bags, p, x) /\ r # x => Able(there.bags, p, x)
                            /\ Able(deal.bags, q, x) => Able(there.bags, q, x)
    BY <1>1, <1>2, <1>3, StillAble
  <2> HIDE DEF there
  <2> QED
    BY <1>1, <1>2, <1>3, <2>1, <2>2
<1> HIDE DEF there
<1>5. /\ back \in Deals /\ Tracked(back)
      /\ \A u \in Player \ {p, q} : back.bags[u] = inv[u]
      /\ \A x \in TradeRow : r < x => Able(back.bags, p, x) /\ Able(back.bags, q, x)
  <2>1. CASE there.stuck
    BY <1>4, <2>1
  <2>2. CASE ~there.stuck
    <3> DEFINE after == Hand(there, q, p, r)
    <3>1. /\ after \in Deals /\ Tracked(after)
          /\ \A u \in Player \ {p, q} : after.bags[u] = inv[u]
      BY <1>1, <1>4, Handed, HandTracked
    <3>2. \A x \in TradeRow : /\ Able(there.bags, q, x) /\ r # x => Able(after.bags, q, x)
                              /\ Able(there.bags, p, x) => Able(after.bags, p, x)
      BY <1>1, <1>4, StillAble
    <3>3. back = after
      BY <2>2
    <3> HIDE DEF after, back
    <3> QED
      BY <1>1, <1>4, <3>1, <3>2, <3>3
  <2> QED
    BY <2>1, <2>2
<1>6. HandBoth(deal, p, q, r) = [back EXCEPT !.stuck = FALSE]
  BY DEF HandBoth, there
<1> HIDE DEF back
<1>7. /\ HandBoth(deal, p, q, r) \in Deals
      /\ HandBoth(deal, p, q, r).bags = back.bags /\ HandBoth(deal, p, q, r).saves = back.saves
  BY <1>5, <1>6 DEF Deals
<1> QED
  BY <1>5, <1>7 DEF Underway, Tracked

\* The rows of the exchange, one after the other.
LEMMA ExchangedSteps ==
  ASSUME NEW p, NEW q
  PROVE  \E after : /\ after = [r \in 0..NRow |-> IF r = 0 THEN Deal0 ELSE HandBoth(after[r - 1], p, q, r)]
                    /\ Exchanged(p, q) = after[NRow]
<1> DEFINE Steps(f, n) == f = [r \in 0..n |-> IF r = 0 THEN Deal0 ELSE HandBoth(f[r - 1], p, q, r)]
           bad == {n \in 0..NRow : ~ \E f : Steps(f, n)}
<1>1. NRow \in Nat
  BY TradeConstants
<1>2. bad = {}
  <2>1. SUFFICES ASSUME bad # {} PROVE FALSE
    OBVIOUS
  <2>2. PICK n \in bad : \A m \in bad : n <= m
    <3>1. bad \in SUBSET Nat
      BY <1>1
    <3> QED
      BY <2>1, <3>1, LeastExists
  <2>3. n # 0
    <3>1. Steps([r \in 0..0 |-> Deal0], 0)
      OBVIOUS
    <3> QED
      BY <2>2, <3>1
  <2>4. n \in Nat /\ n - 1 \in 0..NRow /\ n - 1 \notin bad
    BY <1>1, <2>2, <2>3
  <2>5. PICK f : Steps(f, n - 1)
    BY <2>4
  <2> DEFINE g == [r \in 0..n |-> IF r = n THEN HandBoth(f[n - 1], p, q, n) ELSE f[r]]
  <2>6. Steps(g, n)
    <3>1. \A r \in 0..n : g[r] = IF r = 0 THEN Deal0 ELSE HandBoth(g[r - 1], p, q, r)
      <4> SUFFICES ASSUME NEW r \in 0..n
                   PROVE  g[r] = IF r = 0 THEN Deal0 ELSE HandBoth(g[r - 1], p, q, r)
        OBVIOUS
      <4>1. CASE r = n
        BY <2>3, <2>4, <4>1
      <4>2. CASE r # n
        <5>1. r \in 0..n - 1 /\ g[r] = f[r]
          BY <2>4, <4>2
        <5>2. f[r] = IF r = 0 THEN Deal0 ELSE HandBoth(f[r - 1], p, q, r)
          BY <2>5, <5>1
        <5>3. r # 0 => g[r - 1] = f[r - 1]
          BY <2>4, <4>2
        <5> QED
          BY <5>1, <5>2, <5>3
      <4> QED
        BY <4>1, <4>2
    <3>2. g = [r \in 0..n |-> g[r]]
      OBVIOUS
    <3> HIDE DEF g
    <3> QED
      BY <3>1, <3>2
  <2> QED
    BY <2>2, <2>6
<1>3. \E f : Steps(f, NRow)
  <2>1. NRow \in 0..NRow /\ NRow \notin bad
    BY <1>1, <1>2
  <2> QED
    BY <2>1
<1> DEFINE after == CHOOSE f : Steps(f, NRow)
<1>4. Steps(after, NRow)
  BY <1>3
<1>5. Exchanged(p, q) = after[NRow]
  BY DEF Exchanged, Deal0
<1> QED
  BY <1>4, <1>5

\* A table that covers what it offers is as before at the start.
LEMMA Covered0 ==
  ASSUME TypeInv, NEW p \in Player, NEW q \in Player, Covers(p), Covers(q)
  PROVE  Apart(p) /\ Apart(q) /\ Underway(Deal0, p, q, 0)
<1>1. Apart(p) /\ Apart(q)
  BY DEF Covers, Apart
<1>2. Deal0 \in Deals /\ Deal0.bags = inv /\ Deal0.saves = <<>>
  BY DEF Deal0, Deals, TypeInv, HeldType
<1>3. Tracked(Deal0)
  BY <1>2 DEF Tracked, Settles, Covered
<1>4. \A x \in TradeRow : Able(inv, p, x) /\ Able(inv, q, x)
  BY DEF Covers, Able
<1> QED
  BY <1>1, <1>2, <1>3, <1>4 DEF Underway

\* What an exchange leaves is sound and saved.
LEMMA ExchangedSound ==
  ASSUME TypeInv, NEW p \in Player, NEW q \in Player, p # q, Covers(p), Covers(q)
  PROVE  /\ Exchanged(p, q) \in Deals /\ Tracked(Exchanged(p, q))
         /\ \A u \in Player \ {p, q} : Exchanged(p, q).bags[u] = inv[u]
<1>1. PICK after : /\ after = [r \in 0..NRow |-> IF r = 0 THEN Deal0 ELSE HandBoth(after[r - 1], p, q, r)]
                   /\ Exchanged(p, q) = after[NRow]
  BY ExchangedSteps
<1>2. NRow \in Nat
  BY TradeConstants
<1>3. Apart(p) /\ Apart(q) /\ Underway(Deal0, p, q, 0)
  BY Covered0
<1> DEFINE bad == {r \in 0..NRow : ~Underway(after[r], p, q, r)}
<1>4. bad = {}
  <2>1. SUFFICES ASSUME bad # {} PROVE FALSE
    OBVIOUS
  <2>2. PICK n \in bad : \A m \in bad : n <= m
    <3>1. bad \in SUBSET Nat
      BY <1>2
    <3> QED
      BY <2>1, <3>1, LeastExists
  <2>3. n # 0
    <3>1. after[0] = Deal0
      BY <1>1, <1>2
    <3> QED
      BY <1>3, <2>2, <3>1
  <2>4. n \in 1..NRow /\ n - 1 \in 0..NRow /\ n - 1 \notin bad
    BY <1>2, <2>2, <2>3
  <2>5. Underway(after[n - 1], p, q, n - 1) /\ after[n] = HandBoth(after[n - 1], p, q, n)
    BY <1>1, <2>4
  <2>6. Underway(after[n], p, q, n)
    BY <1>3, <2>4, <2>5, BothHanded
  <2> QED
    BY <2>2, <2>6
<1>5. Underway(after[NRow], p, q, NRow)
  BY <1>2, <1>4
<1> QED
  BY <1>1, <1>5 DEF Underway

-----------------------------------------------------------------------------
(* Types: trade. *)

\* The exchange itself.
LEMMA CompleteTypes ==
  ASSUME TypeInv, NEW p \in Player, NEW q \in Player, Complete(p, q)
  PROVE  HeldType' /\ SaveType' /\ StallType' /\ TradeType'
<1>1. /\ p # q /\ Covers(p) /\ Covers(q)
      /\ inv' = Exchanged(p, q).bags /\ writes' = Exchanged(p, q).saves
      /\ zulies' = [zulies EXCEPT ![p] = @ - pay[p] + pay[q], ![q] = @ - pay[q] + pay[p]]
      /\ status' = [status EXCEPT ![p] = 0, ![q] = 0]
      /\ target' = [target EXCEPT ![p] = q]
      /\ swapped' = (IF open[q] THEN swapped \cup {q} ELSE swapped)
      /\ NoteLate(q)
      /\ UNCHANGED <<unsaved, stage, store, storeZuly, missVars, open, selling, buying, offer, pay>>
  BY DEF Complete, Addressed, Saves
<1>2. inv' \in [Player -> Inventories] /\ writes' \in Seq(Statements)
  BY <1>1, ExchangedSound DEF Deals
<1>3. zulies' \in [Player -> Nat]
  <2>1. pay[p] <= zulies[p] /\ pay[q] <= zulies[q]
    BY <1>1 DEF Covers
  <2>2. /\ zulies[p] \in Nat /\ zulies[q] \in Nat /\ pay[p] \in Nat /\ pay[q] \in Nat
        /\ zulies \in [Player -> Nat]
    BY DEF TypeInv, HeldType, TradeType
  <2>3. zulies[p] - pay[p] + pay[q] \in Nat /\ zulies[q] - pay[q] + pay[p] \in Nat
    BY <2>1, <2>2
  <2> QED
    BY <1>1, <2>2, <2>3
<1>4. StallType'
  BY <1>1 DEF NoteLate, TypeInv, StallType
<1>5. TradeType'
  <2>1. TradeType
    BY DEF TypeInv
  <2>2. target' \in [Player -> Player \cup {NoPlayer}] /\ status' \in [Player -> 0..6]
    BY <1>1, <2>1 DEF TradeType
  <2> QED
    BY <1>1, <2>1, <2>2 DEF TradeType
<1> QED
  BY <1>1, <1>2, <1>3, <1>4, <1>5 DEF TypeInv, HeldType, SaveType, missVars

\* Every other packet of the exchange changes the window only.
LEMMA TableTypes ==
  ASSUME TypeInv, NEW p \in Player, Exchange(p), ~ \E q \in Player : Complete(p, q)
  PROVE  TradeType' /\ UNCHANGED <<goodsVars, stallVars, ground>>
<1>0. TradeType /\ UNCHANGED ground
  BY DEF TypeInv, Exchange
<1>1. CASE \E q \in Player : Request(p, q)
  <2>1. PICK q \in Player : Request(p, q)
    BY <1>1
  <2>2. target' \in [Player -> Player \cup {NoPlayer}] /\ status' \in [Player -> 0..6]
    BY <1>0, <2>1 DEF Request, Addressed, TradeType
  <2> QED
    BY <1>0, <2>1, <2>2 DEF Request, TradeType
<1>2. CASE \E q \in Player : Accept(p, q)
  <2>1. PICK q \in Player : Accept(p, q)
    BY <1>2
  <2>2. target' \in [Player -> Player \cup {NoPlayer}] /\ status' \in [Player -> 0..6]
    BY <1>0, <2>1 DEF Accept, Addressed, TradeType
  <2>3. offer' \in [Player -> [TradeRow -> Offer \cup {NoOffer}]] /\ pay' \in [Player -> Nat]
    BY <1>0, <2>1 DEF Accept, TradeType, NoOffers
  <2> QED
    BY <1>0, <2>1, <2>2, <2>3 DEF Accept, TradeType
<1>3. CASE \E q \in Player : Cancel(p, q)
  <2>1. PICK q \in Player : Cancel(p, q)
    BY <1>3
  <2>2. target' \in [Player -> Player \cup {NoPlayer}] /\ status' \in [Player -> 0..6]
    BY <1>0, <2>1 DEF Cancel, TradeType
  <2> QED
    BY <1>0, <2>1, <2>2 DEF Cancel, TradeType
<1>4. CASE \E q \in Player : Lock(p, q)
  <2>1. PICK q \in Player : Lock(p, q)
    BY <1>4
  <2>2. target' \in [Player -> Player \cup {NoPlayer}] /\ status' \in [Player -> 0..6]
    BY <1>0, <2>1 DEF Lock, Addressed, TradeType
  <2> QED
    BY <1>0, <2>1, <2>2 DEF Lock, TradeType
<1>5. CASE \E q \in Player : ConfirmFirst(p, q) \/ Refuse(p, q)
  <2>1. PICK q \in Player : ConfirmFirst(p, q) \/ Refuse(p, q)
    BY <1>5
  <2>2. target' \in [Player -> Player \cup {NoPlayer}] /\ status' \in [Player -> 0..6]
    <3>1. target' = [target EXCEPT ![p] = q] /\ status' = [status EXCEPT ![p] = Switched(p)]
      BY <2>1 DEF ConfirmFirst, Refuse, Addressed
    <3>2. Switched(p) \in 0..6
      BY DEF Switched
    <3> QED
      BY <1>0, <3>1, <3>2 DEF TradeType
  <2> QED
    BY <1>0, <2>1, <2>2 DEF ConfirmFirst, Refuse, TradeType
<1>6. CASE \E r \in TradeRow : Clear(p, r)
  BY <1>0, <1>6 DEF Clear, TradeType
<1>7. CASE \E r \in TradeRow : \E s \in Slot : \E n \in 1..inv[p][s].count : Add(p, r, s, n)
  <2>0. PICK r \in TradeRow, s \in Slot : \E n \in 1..inv[p][s].count : Add(p, r, s, n)
    BY <1>7
  <2>1. PICK n \in 1..inv[p][s].count : Add(p, r, s, n)
    BY <2>0
  <2>2. inv[p][s].count \in Nat
    BY Put DEF TypeInv, HeldType, Stacks
  <2>3. [slot |-> s, count |-> n] \in Offer
    BY <2>2 DEF Offer
  <2> QED
    BY <1>0, <2>1, <2>3 DEF Add, TradeType
<1>8. CASE \E n \in 0..MaxPay : AddZuly(p, n)
  BY <1>0, <1>8, TradeConstants DEF AddZuly, TradeType
<1>9. CASE \E q \in Player \cup {NoPlayer} : Retarget(p, q)
  BY <1>0, <1>9 DEF Retarget, TradeType
<1> QED
  BY <1>1, <1>2, <1>3, <1>4, <1>5, <1>6, <1>7, <1>8, <1>9 DEF Exchange, TradeOps

\* All packets of the exchange.
LEMMA ExchangeTypes ==
  ASSUME TypeInv, NEW p \in Player, Exchange(p)
  PROVE  TypeInv'
<1>1. CASE \E q \in Player : Complete(p, q)
  <2>1. PICK q \in Player : Complete(p, q)
    BY <1>1
  <2>2. HeldType' /\ SaveType' /\ StallType' /\ TradeType'
    BY <2>1, CompleteTypes
  <2>3. UNCHANGED <<savedVars, ground>>
    BY <2>1 DEF Complete, Exchange
  <2> QED
    BY <2>2, <2>3 DEF TypeInv, RowType, savedVars
<1>2. CASE ~ \E q \in Player : Complete(p, q)
  <2>1. TradeType' /\ UNCHANGED <<goodsVars, stallVars, ground>>
    BY <1>2, TableTypes
  <2> QED
    BY <2>1 DEF TypeInv, HeldType, RowType, SaveType, StallType,
                goodsVars, heldVars, savedVars, missVars, stallVars
<1> QED
  BY <1>1, <1>2

-----------------------------------------------------------------------------
(* Types: wearing. *)

\* Two slots whose contents fit each other change places.
LEMMA SwapSound ==
  ASSUME NEW bag \in Inventories, NEW s \in Slot, NEW t \in Slot,
         Placed(bag[s], t), Placed(bag[t], s)
  PROVE  Swap(bag, s, t) \in Inventories
BY DEF Swap, Inventories

\* The slots of a request to wear something or to take it off: the piece that is
\* moved, and what is in its way, fit where they go.
LEMMA RequestSound ==
  ASSUME TypeInv, NEW p \in Player, NEW pair \in Requests(p)
  PROVE  LET turned == pair[2] # NoSlot /\ inv[p][pair[1]] = Empty
             src    == IF turned THEN pair[2] ELSE pair[1]
             asked  == IF turned THEN pair[1] ELSE pair[2]
             item   == inv[p][src]
             dst    == IF asked = NoSlot THEN NewItemSlot(inv[p], item) ELSE asked
         IN  dst # NoSlot => /\ src \in Slot /\ dst \in Slot
                             /\ Placed(item, dst) /\ Placed(inv[p][dst], src)
<1> DEFINE bag    == inv[p]
           turned == pair[2] # NoSlot /\ bag[pair[1]] = Empty
           src    == IF turned THEN pair[2] ELSE pair[1]
           asked  == IF turned THEN pair[1] ELSE pair[2]
           item   == bag[src]
           dst    == IF asked = NoSlot THEN NewItemSlot(bag, item) ELSE asked
           full   == {s \in Slot : bag[s] # Empty}
           wearing == full \cap Worn
           on(s)  == Wear[bag[s].kind]
           tab(s) == {t \in Tab[bag[s].kind] : bag[t] = Empty}
<1> SUFFICES ASSUME dst # NoSlot
             PROVE  /\ src \in Slot /\ dst \in Slot
                    /\ Placed(item, dst) /\ Placed(bag[dst], src)
  OBVIOUS
<1>1. /\ bag \in Inventories /\ NoSlot \notin Slot
      /\ \A s \in Slot : bag[s] \in Stacks /\ WellFormed(bag[s]) /\ Placed(bag[s], s)
      /\ \A s \in full : bag[s] \in Goodly /\ bag[s].kind \in Kind
  <2>1. bag \in Inventories /\ NoSlot \notin Slot
    BY SizesAreNat DEF TypeInv, HeldType
  <2>2. \A s \in Slot : bag[s] \in Stacks /\ WellFormed(bag[s]) /\ Placed(bag[s], s)
    BY <2>1, Put
  <2>3. \A s \in full : bag[s] \in Goodly
    BY <2>2 DEF Goodly
  <2> QED
    BY <2>1, <2>2, <2>3, GoodlyStack
<1>2. \/ \E s \in full \ Worn : pair \in {s} \X on(s)
      \/ pair \in wearing \X {NoSlot}
      \/ \E s \in wearing : pair \in ({s} \X tab(s)) \cup (tab(s) \X {s})
  <2>1. \/ pair \in wearing \X {NoSlot}
        \/ pair \in UNION ({{s} \X on(s) : s \in full \ Worn}
                           \cup {({s} \X tab(s)) \cup (tab(s) \X {s}) : s \in wearing})
    BY DEF Requests
  <2> HIDE DEF on, tab, full, wearing
  <2> QED
    BY <2>1
<1>3. \A k \in Kind : Tab[k] \subseteq Slot /\ Wear[k] \subseteq Slot
  BY SizesAreNat
<1> HIDE DEF bag
<1>0. \A j, k \in Kind : \A s : /\ s \in Wear[j] => s \notin Tab[k]
                                /\ s \in Wear[j] /\ s \in Wear[k] => Tab[j] = Tab[k]
  <2>1. \A j, k \in Kind : /\ Wear[j] \cap Tab[k] = {}
                           /\ Wear[j] \cap Wear[k] # {} => Tab[j] = Tab[k]
    BY WaresConstants
  <2> QED
    BY <2>1
<1>4. /\ src \in full
      /\ \/ src \notin Worn /\ dst \in Wear[item.kind]
         \/ dst = NewItemSlot(bag, item)
         \/ dst \in Tab[item.kind] /\ bag[dst] = Empty
  <2>1. ASSUME NEW s \in full \ Worn, pair \in {s} \X on(s)
        PROVE  src = s /\ dst \in Wear[item.kind]
    <3>1. pair[1] = s /\ pair[2] \in Wear[bag[s].kind] /\ bag[s] # Empty
      BY <2>1
    <3>2. ~turned /\ pair[2] # NoSlot
      BY <1>1, <1>3, <3>1
    <3> QED
      BY <3>1, <3>2
  <2>2. ASSUME pair \in wearing \X {NoSlot}
        PROVE  src \in full /\ dst = NewItemSlot(bag, item)
    BY <2>2
  <2>3. ASSUME NEW s \in wearing, pair \in {s} \X tab(s)
        PROVE  src = s /\ dst \in Tab[item.kind] /\ bag[dst] = Empty
    <3>1. pair[1] = s /\ pair[2] \in Tab[bag[s].kind] /\ bag[pair[2]] = Empty /\ bag[s] # Empty
      BY <2>3
    <3>2. ~turned /\ pair[2] # NoSlot
      BY <1>1, <1>3, <3>1
    <3> QED
      BY <3>1, <3>2
  <2>4. ASSUME NEW s \in wearing, pair \in tab(s) \X {s}
        PROVE  src = s /\ dst \in Tab[item.kind] /\ bag[dst] = Empty
    <3>1. pair[2] = s /\ pair[1] \in Tab[bag[s].kind] /\ bag[pair[1]] = Empty /\ s \in Slot
      BY <2>4
    <3>2. turned /\ pair[1] # NoSlot
      BY <1>1, <1>3, <2>4, <3>1
    <3> QED
      BY <3>1, <3>2
  <2> HIDE DEF turned, src, asked, item, dst
  <2> QED
    BY <1>2, <2>1, <2>2, <2>3, <2>4
<1> HIDE DEF turned, src, asked, dst
<1>5. src \in Slot /\ item \in Goodly /\ Placed(item, src) /\ item.kind \in Kind /\ WellFormed(item)
  BY <1>1, <1>4
<1>6. CASE src \notin Worn /\ dst \in Wear[item.kind]
  <2>1. dst \in Slot /\ Placed(item, dst)
    BY <1>3, <1>5, <1>6 DEF Placed
  <2>2. src \in Tab[item.kind]
    BY <1>4, <1>5, <1>6 DEF Placed, Worn
  <2>3. ASSUME bag[dst] # Empty PROVE src \in Tab[bag[dst].kind]
    <3>1. bag[dst].kind \in Kind /\ dst \in Tab[bag[dst].kind] \cup Wear[bag[dst].kind]
      BY <1>1, <2>1, <2>3 DEF Placed
    <3>2. dst \in Wear[bag[dst].kind]
      BY <1>0, <1>5, <1>6, <3>1
    <3>3. Tab[item.kind] = Tab[bag[dst].kind]
      BY <1>0, <1>5, <1>6, <3>1, <3>2
    <3> QED
      BY <2>2, <3>3
  <2> QED
    BY <1>1, <1>5, <2>1, <2>3 DEF Placed
<1>7. CASE dst = NewItemSlot(bag, item)
  <2>1. /\ dst \in Slot /\ dst \in Tab[item.kind]
        /\ bag[dst] = Empty \/ bag[dst].kind = item.kind
    BY <1>1, <1>5, <1>7, SlotFound
  <2> QED
    BY <1>1, <1>5, <2>1 DEF Placed, Goodly
<1>8. CASE dst \in Tab[item.kind] /\ bag[dst] = Empty
  BY <1>1, <1>3, <1>5, <1>8 DEF Placed
<1> QED
  BY <1>4, <1>5, <1>6, <1>7, <1>8

\* What a change of equipment does: the slots are swapped, and a shield in the
\* way of a weapon for two hands goes to a tab, or everything stays as it was.
EquipStep(p, src, dst) ==
  LET bag   == Swap(inv[p], src, dst)
      saves == <<SaveSlot41(p, src, bag), SaveSlot41(p, dst, bag)>>
      room  == NewItemSlot(bag, bag[Shield])
      after == HandsFull(bag, room, src)
  IN  /\ src \in Slot /\ dst \in Slot /\ bag \in Inventories
      /\ \/ inv' = [inv EXCEPT ![p] = bag] /\ writes' = saves /\ UNCHANGED astray
         \/ /\ room \in Slot /\ after \in Inventories
            /\ inv' = [inv EXCEPT ![p] = after]
            /\ writes' = saves \o <<SaveSlot41(p, room, after), SaveSlot41(p, Shield, after)>>
            /\ UNCHANGED astray
         \/ UNCHANGED inv /\ writes' = saves /\ astray' = astray \cup {p}

\* What pakChangeEquip does, whichever way the packet names the slots.
LEMMA EquipStepped ==
  ASSUME TypeInv, NEW p \in Player, NEW pair \in Requests(p), Equip(p, pair[1], pair[2])
  PROVE  \E src, dst : EquipStep(p, src, dst)
<1> DEFINE turned == pair[2] # NoSlot /\ inv[p][pair[1]] = Empty
           src    == IF turned THEN pair[2] ELSE pair[1]
           asked  == IF turned THEN pair[1] ELSE pair[2]
           item   == inv[p][src]
           dst    == IF asked = NoSlot THEN NewItemSlot(inv[p], item) ELSE asked
           bag    == Swap(inv[p], src, dst)
           saves  == <<SaveSlot41(p, src, bag), SaveSlot41(p, dst, bag)>>
           room   == NewItemSlot(bag, bag[Shield])
           after  == HandsFull(bag, room, src)
           burden == Weapon \in {src, dst} /\ bag[Weapon].kind \in TwoHanded /\ bag[Shield] # Empty
<1>1. dst # NoSlot
  BY DEF Equip
<1>2. src \in Slot /\ dst \in Slot /\ Placed(item, dst) /\ Placed(inv[p][dst], src)
  BY <1>1, RequestSound
<1>3. \/ ~burden /\ inv' = [inv EXCEPT ![p] = bag] /\ Saves("equip", saves) /\ UNCHANGED astray
      \/ /\ burden /\ room # NoSlot /\ inv' = [inv EXCEPT ![p] = after]
         /\ Saves("equip", saves \o <<SaveSlot41(p, room, after), SaveSlot41(p, Shield, after)>>)
         /\ UNCHANGED astray
      \/ /\ burden /\ Saves("equip", saves) /\ astray' = astray \cup {p} /\ UNCHANGED inv
  BY DEF Equip
<1> HIDE DEF turned, src, asked, dst
<1>4. bag \in Inventories
  BY <1>2, SwapSound DEF TypeInv, HeldType
<1>5. ASSUME burden, room # NoSlot
      PROVE  room \in Slot /\ after \in Inventories
  <2>1. Shield \in Slot
    BY WaresConstants
  <2>2. bag[Shield] \in Goodly
    BY <1>4, <1>5, <2>1, Put DEF Goodly
  <2> HIDE DEF bag
  <2>3. room \in Slot /\ room \in Tab[bag[Shield].kind]
    BY <1>4, <1>5, <2>2, SlotFound
  <2>4. bag[Shield] \in Stacks /\ Placed(bag[Shield], room)
    BY <2>2, <2>3 DEF Goodly, Placed
  <2>5. Empty \in Stacks /\ Placed(Empty, Shield)
    BY GoodlyStack DEF Placed
  <2> HIDE DEF room
  <2>6. [bag EXCEPT ![room] = bag[Shield]] \in Inventories
    BY <1>4, <2>3, <2>4, Put
  <2>7. after \in Inventories
    BY <2>1, <2>5, <2>6, Put DEF HandsFull
  <2> QED
    BY <2>3, <2>7
<1>6. EquipStep(p, src, dst)
  BY <1>2, <1>3, <1>4, <1>5 DEF EquipStep, Saves
<1> QED
  BY <1>6

\* Wearing and taking off.
LEMMA EquipTypes ==
  ASSUME TypeInv, NEW p \in Player, NEW pair \in Requests(p), Equip(p, pair[1], pair[2])
  PROVE  HeldType' /\ SaveType' /\ UNCHANGED <<savedVars, stallVars, tradeVars, ground>>
<1>1. PICK src, dst : EquipStep(p, src, dst)
  BY EquipStepped
<1> DEFINE bag   == Swap(inv[p], src, dst)
           room  == NewItemSlot(bag, bag[Shield])
           after == HandsFull(bag, room, src)
<1>2. /\ src \in Slot /\ dst \in Slot /\ bag \in Inventories
      /\ SaveSlot41(p, src, bag) \in Statements /\ SaveSlot41(p, dst, bag) \in Statements
  BY <1>1, Statement DEF EquipStep
<1>3. ASSUME room \in Slot, after \in Inventories
      PROVE  SaveSlot41(p, room, after) \in Statements /\ SaveSlot41(p, Shield, after) \in Statements
  BY <1>3, Statement, WaresConstants
<1>4. UNCHANGED <<stage, zulies, store, storeZuly, refused, unsaved, savedVars, stallVars, tradeVars, ground>>
  BY DEF Equip, Saves, Stays
<1>5. inv' \in [Player -> Inventories] /\ writes' \in Seq(Statements) /\ astray' \subseteq Player
  <2> HIDE DEF bag, room, after
  <2>1. CASE inv' = [inv EXCEPT ![p] = bag] /\ UNCHANGED astray
             /\ writes' = <<SaveSlot41(p, src, bag), SaveSlot41(p, dst, bag)>>
    BY <1>2, <2>1 DEF TypeInv, HeldType
  <2>2. CASE /\ room \in Slot /\ after \in Inventories
             /\ inv' = [inv EXCEPT ![p] = after] /\ UNCHANGED astray
             /\ writes' = <<SaveSlot41(p, src, bag), SaveSlot41(p, dst, bag)>>
                            \o <<SaveSlot41(p, room, after), SaveSlot41(p, Shield, after)>>
    BY <1>2, <1>3, <2>2 DEF TypeInv, HeldType
  <2>3. CASE UNCHANGED inv /\ astray' = astray \cup {p}
             /\ writes' = <<SaveSlot41(p, src, bag), SaveSlot41(p, dst, bag)>>
    BY <1>2, <2>3 DEF TypeInv, HeldType
  <2> QED
    BY <1>1, <2>1, <2>2, <2>3 DEF EquipStep, bag, room, after
<1> QED
  BY <1>4, <1>5 DEF TypeInv, HeldType, SaveType

-----------------------------------------------------------------------------
(* Types: the shops of the game. *)

\* A purchase or a sale under way.
Carts == [bag : Inventories, purse : Nat, at : Seq(Slot), over : BOOLEAN]

\* One line of a purchase.
LEMMA BoughtSound ==
  ASSUME NEW deal \in Carts, NEW item \in Goodly
  PROVE  Bought(deal, item) \in Carts
<1> DEFINE s   == NewItemSlot(deal.bag, item)
           sum == item.count * Cost[item.kind]
<1>1. CASE s = NoSlot
  BY <1>1 DEF Bought
<1>2. CASE s # NoSlot /\ deal.purse < sum
  BY <1>2 DEF Bought, Carts
<1>3. CASE s # NoSlot /\ ~(deal.purse < sum)
  <2>1. s \in Slot /\ More(deal.bag[s], item) \in Stacks /\ Placed(More(deal.bag[s], item), s)
    BY <1>3, SlotFound DEF Carts, Goodly
  <2>2. sum \in Nat
    <3>1. item.count \in Nat /\ Cost[item.kind] \in Nat
      BY GoodlyStack, WaresConstants
    <3> HIDE DEF s
    <3> QED
      BY <3>1
  <2>3. Bought(deal, item) = [deal EXCEPT !.bag[s] = More(deal.bag[s], item), !.purse = deal.purse - sum,
                                          !.at = Append(deal.at, s)]
    BY <1>3 DEF Bought
  <2> HIDE DEF s, sum
  <2>4. [deal.bag EXCEPT ![s] = More(deal.bag[s], item)] \in Inventories
    BY <2>1, Put DEF Carts
  <2>5. deal.purse - sum \in Nat
    BY <1>3, <2>2 DEF Carts
  <2>6. Append(deal.at, s) \in Seq(Slot)
    BY <2>1, AppendProperties DEF Carts
  <2> QED
    BY <2>3, <2>4, <2>5, <2>6 DEF Carts
<1> QED
  BY <1>1, <1>2, <1>3

\* The sale at the end of it.
LEMMA SoldSound ==
  ASSUME NEW deal \in Carts, NEW s \in Slot, NEW n \in Nat, 1 <= n
  PROVE  Sold(deal, s, n) \in Carts
<1>1. CASE deal.bag[s].count < n
  BY <1>1 DEF Sold, Carts
<1>2. CASE ~(deal.bag[s].count < n)
  <2>1. deal.bag \in Inventories /\ deal.bag[s] \in Stacks /\ deal.bag[s].count \in Nat
    BY Put DEF Carts, Stacks
  <2>2. deal.bag[s].kind \in Kind
    <3>1. n <= deal.bag[s].count
      BY <1>2, <2>1
    <3>2. Stack(deal.bag[s].kind, n) \in Goodly
      BY <2>1, <3>1, Taken
    <3>3. Stack(deal.bag[s].kind, n).kind \in Kind
      BY <3>2, GoodlyStack
    <3> QED
      BY <3>3 DEF Stack
  <2>3. n * Gain[deal.bag[s].kind] \in Nat
    <3>1. Gain[deal.bag[s].kind] \in Nat
      BY <2>2, WaresConstants
    <3> QED
      BY <3>1
  <2>4. [deal.bag EXCEPT ![s] = Less(deal.bag[s], n)] \in Inventories
    BY <2>1, Taken
  <2>5. Append(deal.at, s) \in Seq(Slot)
    BY AppendProperties DEF Carts
  <2>6. Sold(deal, s, n) = [deal EXCEPT !.purse = deal.purse + n * Gain[deal.bag[s].kind],
                                        !.bag[s] = Less(deal.bag[s], n), !.at = Append(deal.at, s)]
    BY <1>2 DEF Sold
  <2> DEFINE sum  == deal.purse + n * Gain[deal.bag[s].kind]
             rest == [deal.bag EXCEPT ![s] = Less(deal.bag[s], n)]
  <2>7. sum \in Nat /\ rest \in Inventories
    BY <2>3, <2>4 DEF Carts
  <2>8. Sold(deal, s, n) = [deal EXCEPT !.purse = sum, !.bag = rest, !.at = Append(deal.at, s)]
    BY <2>6 DEF Carts
  <2> HIDE DEF sum, rest
  <2> QED
    BY <2>5, <2>7, <2>8 DEF Carts
<1> QED
  BY <1>1, <1>2

\* Every slot that changed is among those that will be saved.
Listed(deal, p) ==
  \A s \in Slot : deal.bag[s] # inv[p][s] => \E i \in 1..Len(deal.at) : deal.at[i] = s

\* A slot that is written down keeps the list complete.
LEMMA ListedOn ==
  ASSUME NEW deal \in Carts, NEW p, Listed(deal, p), NEW next \in Carts, NEW s \in Slot, NEW x,
         next.bag = [deal.bag EXCEPT ![s] = x], next.at = Append(deal.at, s)
  PROVE  Listed(next, p)
<1>1. SUFFICES ASSUME NEW z \in Slot, next.bag[z] # inv[p][z]
               PROVE  \E i \in 1..Len(next.at) : next.at[i] = z
  BY DEF Listed
<1>2. /\ deal.at \in Seq(Slot) /\ Len(deal.at) \in Nat /\ Len(next.at) = Len(deal.at) + 1
      /\ \A i \in 1..Len(deal.at) : next.at[i] = deal.at[i]
      /\ next.at[Len(deal.at) + 1] = s
  BY AppendProperties, LenProperties DEF Carts
<1>3. CASE z = s
  BY <1>2, <1>3
<1>4. CASE z # s
  <2>1. deal.bag[z] # inv[p][z]
    BY <1>1, <1>4 DEF Carts, Inventories
  <2> QED
    BY <1>2, <2>1 DEF Listed
<1> QED
  BY <1>3, <1>4

\* Each line writes its slot down.
LEMMA ShopListed ==
  ASSUME NEW deal \in Carts, NEW p, Listed(deal, p)
  PROVE  /\ \A item \in Goodly : Listed(Bought(deal, item), p)
         /\ \A s \in Slot, n \in Nat \ {0} : Listed(Sold(deal, s, n), p)
<1>1. ASSUME NEW item \in Goodly PROVE Listed(Bought(deal, item), p)
  <2> DEFINE s   == NewItemSlot(deal.bag, item)
             sum == item.count * Cost[item.kind]
             b   == Bought(deal, item)
  <2>1. b \in Carts
    BY BoughtSound
  <2>2. CASE s = NoSlot \/ deal.purse < sum
    <3>1. b.bag = deal.bag /\ b.at = deal.at
      BY <2>2 DEF Bought, Carts
    <3> QED
      BY <3>1 DEF Listed
  <2>3. CASE ~(s = NoSlot \/ deal.purse < sum)
    <3>1. s \in Slot
      BY <2>3, SlotFound DEF Carts
    <3>2. b = [deal EXCEPT !.bag[s] = More(deal.bag[s], item), !.purse = deal.purse - sum,
                           !.at = Append(deal.at, s)]
      BY <2>3 DEF Bought
    <3> HIDE DEF s, sum
    <3>3. b.bag = [deal.bag EXCEPT ![s] = More(deal.bag[s], item)] /\ b.at = Append(deal.at, s)
      BY <3>2 DEF Carts
    <3> QED
      BY <2>1, <3>1, <3>3, ListedOn
  <2> QED
    BY <2>2, <2>3
<1>2. ASSUME NEW s \in Slot, NEW n \in Nat \ {0} PROVE Listed(Sold(deal, s, n), p)
  <2> DEFINE b == Sold(deal, s, n)
  <2>1. b \in Carts
    BY SoldSound
  <2>2. CASE deal.bag[s].count < n
    <3>1. b.bag = deal.bag /\ b.at = deal.at
      BY <2>2 DEF Sold, Carts
    <3> QED
      BY <3>1 DEF Listed
  <2>3. CASE ~(deal.bag[s].count < n)
    <3>1. b.bag = [deal.bag EXCEPT ![s] = Less(deal.bag[s], n)] /\ b.at = Append(deal.at, s)
      BY <2>3 DEF Sold, Carts
    <3> QED
      BY <2>1, <3>1, ListedOn
  <2> QED
    BY <2>2, <2>3
<1> QED
  BY <1>1, <1>2

\* The list of a purchase, one stack after the other.
LEMMA PurchasedSteps ==
  ASSUME NEW p, NEW list \in Seq(Stacks)
  PROVE  \E after :
           /\ after = [i \in 0..Len(list) |->
                IF i = 0 THEN Start(p)
                ELSE IF after[i - 1].over THEN after[i - 1] ELSE Bought(after[i - 1], list[i])]
           /\ Purchased(p, list) = after[Len(list)]
<1> DEFINE Onward(d, i) == IF d.over THEN d ELSE Bought(d, list[i])
           Steps(f, n) == f = [i \in 0..n |-> IF i = 0 THEN Start(p) ELSE Onward(f[i - 1], i)]
           bad == {n \in 0..Len(list) : ~ \E f : Steps(f, n)}
<1>1. Len(list) \in Nat
  BY LenProperties
<1>2. bad = {}
  <2>1. SUFFICES ASSUME bad # {} PROVE FALSE
    OBVIOUS
  <2>2. PICK n \in bad : \A m \in bad : n <= m
    <3>1. bad \in SUBSET Nat
      BY <1>1
    <3> QED
      BY <2>1, <3>1, LeastExists
  <2> HIDE DEF Onward
  <2>3. n # 0
    <3>1. Steps([r \in 0..0 |-> Start(p)], 0)
      OBVIOUS
    <3> QED
      BY <2>2, <3>1
  <2>4. n \in Nat /\ n - 1 \in 0..Len(list) /\ n - 1 \notin bad
    <3>1. n \in 0..Len(list)
      BY <2>2
    <3>2. n \in Nat /\ n - 1 \in 0..Len(list) /\ ~(n <= n - 1)
      BY <1>1, <2>3, <3>1
    <3> HIDE DEF bad
    <3> QED
      BY <2>2, <3>2
  <2>5. PICK f : Steps(f, n - 1)
    BY <2>4
  <2> DEFINE g == [r \in 0..n |-> IF r = n THEN Onward(f[n - 1], n) ELSE f[r]]
  <2>6. Steps(g, n)
    <3>1. \A r \in 0..n : g[r] = IF r = 0 THEN Start(p) ELSE Onward(g[r - 1], r)
      <4> SUFFICES ASSUME NEW r \in 0..n
                   PROVE  g[r] = IF r = 0 THEN Start(p) ELSE Onward(g[r - 1], r)
        OBVIOUS
      <4>1. CASE r = n
        BY <2>3, <2>4, <4>1
      <4>2. CASE r # n
        <5>1. r \in 0..n - 1 /\ g[r] = f[r]
          BY <2>4, <4>2
        <5>2. f[r] = IF r = 0 THEN Start(p) ELSE Onward(f[r - 1], r)
          BY <2>5, <5>1
        <5>3. r # 0 => g[r - 1] = f[r - 1]
          BY <2>4, <4>2
        <5> QED
          BY <5>1, <5>2, <5>3
      <4> QED
        BY <4>1, <4>2
    <3>2. g = [r \in 0..n |-> g[r]]
      OBVIOUS
    <3> HIDE DEF g
    <3> QED
      BY <3>1, <3>2
  <2> QED
    BY <2>2, <2>6
<1>3. \E f : Steps(f, Len(list))
  BY <1>1, <1>2
<1> DEFINE after == CHOOSE f : Steps(f, Len(list))
<1>4. Steps(after, Len(list))
  BY <1>3
<1>5. Purchased(p, list) = after[Len(list)]
  BY DEF Purchased
<1> QED
  BY <1>4, <1>5

\* A purchase as a whole, line by line.
LEMMA PurchasedSound ==
  ASSUME TypeInv, NEW p \in Player, NEW list \in Orders
  PROVE  Purchased(p, list) \in Carts /\ Listed(Purchased(p, list), p)
<1>1. /\ list \in Seq(Stacks) /\ Len(list) \in Nat
      /\ \A i \in 1..Len(list) : list[i] \in Goodly
  <2>1. list \in Seq(Stacks) /\ \A i \in DOMAIN list : WellFormed(list[i]) /\ list[i] # Empty
    BY WaresConstants
  <2>2. DOMAIN list = 1..Len(list) /\ Len(list) \in Nat /\ \A i \in 1..Len(list) : list[i] \in Stacks
    BY <2>1, LenProperties, ElementOfSeq
  <2> QED
    BY <2>1, <2>2 DEF Goodly
<1>2. PICK after :
           /\ after = [i \in 0..Len(list) |->
                IF i = 0 THEN Start(p)
                ELSE IF after[i - 1].over THEN after[i - 1] ELSE Bought(after[i - 1], list[i])]
           /\ Purchased(p, list) = after[Len(list)]
  BY <1>1, PurchasedSteps
<1> DEFINE bad == {i \in 0..Len(list) : ~(after[i] \in Carts /\ Listed(after[i], p))}
<1>3. bad = {}
  <2>1. SUFFICES ASSUME bad # {} PROVE FALSE
    OBVIOUS
  <2>2. PICK n \in bad : \A m \in bad : n <= m
    <3>1. bad \in SUBSET Nat
      BY <1>1
    <3> QED
      BY <2>1, <3>1, LeastExists
  <2>3. n # 0
    <3>1. after[0] = Start(p)
      BY <1>1, <1>2
    <3>2. Start(p) \in Carts /\ Listed(Start(p), p)
      BY EmptyList DEF Start, Carts, Listed, TypeInv, HeldType
    <3> QED
      BY <2>2, <3>1, <3>2
  <2>4. n \in 1..Len(list) /\ n - 1 \in 0..Len(list) /\ n - 1 \notin bad
    BY <1>1, <2>2, <2>3
  <2> DEFINE d == after[n - 1]
  <2>5. d \in Carts /\ Listed(d, p)
    BY <2>4
  <2>6. after[n] = IF d.over THEN d ELSE Bought(d, list[n])
    BY <1>2, <2>4
  <2> HIDE DEF d
  <2>7. after[n] \in Carts /\ Listed(after[n], p)
    BY <1>1, <2>4, <2>5, <2>6, BoughtSound, ShopListed
  <2> QED
    BY <2>2, <2>7
<1>4. Len(list) \in 0..Len(list) /\ Len(list) \notin bad
  BY <1>1, <1>3
<1> QED
  BY <1>2, <1>4

\* What pakNPCBuy does: a sound cart that lists the slots it changed.
LEMMA ShopSound ==
  ASSUME TypeInv, NEW p \in Player, NEW list \in Orders, NEW s \in Slot,
         NEW n \in 0..inv[p][s].count, NPCBuy(p, list, s, n)
  PROVE  \E deal \in Carts :
           /\ Listed(deal, p)
           /\ inv' = [inv EXCEPT ![p] = deal.bag] /\ zulies' = [zulies EXCEPT ![p] = deal.purse]
           /\ writes' = [i \in DOMAIN deal.at |-> SaveSlot41(p, deal.at[i], deal.bag)]
<1> DEFINE bought == Purchased(p, list)
           deal   == IF bought.over \/ n = 0 THEN bought ELSE Sold(bought, s, n)
<1>1. bought \in Carts /\ Listed(bought, p)
  BY PurchasedSound
<1>2. n \in Nat
  <2>1. inv[p][s].count \in Nat
    BY Put DEF TypeInv, HeldType, Stacks
  <2> QED
    BY <2>1
<1>3. /\ inv' = [inv EXCEPT ![p] = deal.bag] /\ zulies' = [zulies EXCEPT ![p] = deal.purse]
      /\ writes' = [i \in DOMAIN deal.at |-> SaveSlot41(p, deal.at[i], deal.bag)]
  BY DEF NPCBuy, Saves
<1> HIDE DEF bought
<1>4. deal \in Carts /\ Listed(deal, p)
  BY <1>1, <1>2, SoldSound, ShopListed
<1> QED
  BY <1>3, <1>4

\* Buying and selling in a shop of the game.
LEMMA ShopTypes ==
  ASSUME TypeInv, NEW p \in Player, NEW list \in Orders, NEW s \in Slot,
         NEW n \in 0..inv[p][s].count, NPCBuy(p, list, s, n)
  PROVE  HeldType' /\ SaveType' /\ UNCHANGED <<savedVars, stallVars, tradeVars, ground>>
<1>1. PICK deal \in Carts :
           /\ inv' = [inv EXCEPT ![p] = deal.bag] /\ zulies' = [zulies EXCEPT ![p] = deal.purse]
           /\ writes' = [i \in DOMAIN deal.at |-> SaveSlot41(p, deal.at[i], deal.bag)]
  BY ShopSound
<1>2. UNCHANGED <<stage, store, storeZuly, unsaved, missVars, savedVars, stallVars, tradeVars, ground>>
  BY DEF NPCBuy, Saves, Stays
<1>3. /\ deal.bag \in Inventories /\ deal.purse \in Nat
      /\ deal.at \in Seq(Slot) /\ DOMAIN deal.at = 1..Len(deal.at) /\ Len(deal.at) \in Nat
      /\ \A i \in 1..Len(deal.at) : deal.at[i] \in Slot
  BY LenProperties, ElementOfSeq DEF Carts
<1>4. writes' \in Seq(Statements)
  <2>1. \A i \in 1..Len(deal.at) : SaveSlot41(p, deal.at[i], deal.bag) \in Statements
    BY <1>3, Statement
  <2>2. [i \in 1..Len(deal.at) |-> SaveSlot41(p, deal.at[i], deal.bag)] \in [1..Len(deal.at) -> Statements]
    BY <2>1
  <2> QED
    BY <1>1, <1>3, <2>2, SeqDef
<1> QED
  BY <1>1, <1>2, <1>3, <1>4 DEF TypeInv, HeldType, SaveType, missVars

-----------------------------------------------------------------------------
(* Types: using up and the ground. *)

\* Using up.
LEMMA UseTypes ==
  ASSUME TypeInv, NEW p \in Player, NEW s \in Slot, NEW saved \in BOOLEAN, Use(p, s, saved)
  PROVE  HeldType' /\ SaveType' /\ UNCHANGED <<savedVars, stallVars, tradeVars, ground>>
<1>1. /\ inv' = [inv EXCEPT ![p][s] = Less(inv[p][s], 1)]
      /\ \/ writes' = <<SaveSlot41(p, s, inv'[p])>> /\ UNCHANGED unsaved
         \/ UNCHANGED writes /\ unsaved' = [unsaved EXCEPT ![p] = @ \cup {s}]
      /\ UNCHANGED <<stage, zulies, store, storeZuly, savedVars, missVars, stallVars, tradeVars, ground>>
  BY DEF Use, Saves, Stays
<1>2. Less(inv[p][s], 1) \in Stacks /\ Placed(Less(inv[p][s], 1), s)
  BY Taken DEF TypeInv, HeldType
<1>3. inv' \in [Player -> Inventories]
  BY <1>1, <1>2, PutOf DEF TypeInv, HeldType
<1>4. SaveSlot41(p, s, inv'[p]) \in Statements
  BY <1>3, Statement
<1>5. writes' \in Seq(Statements) /\ unsaved' \in [Player -> SUBSET Slot]
  <2>1. writes \in Seq(Statements) /\ unsaved \in [Player -> SUBSET Slot]
    BY DEF TypeInv, HeldType, SaveType
  <2>2. CASE writes' = <<SaveSlot41(p, s, inv'[p])>> /\ UNCHANGED unsaved
    BY <1>4, <2>1, <2>2
  <2>3. CASE UNCHANGED writes /\ unsaved' = [unsaved EXCEPT ![p] = @ \cup {s}]
    BY <2>1, <2>3
  <2> QED
    BY <1>1, <2>2, <2>3
<1> QED
  BY <1>1, <1>3, <1>5 DEF TypeInv, HeldType, SaveType, missVars

\* Laying something on the ground.
LEMMA DropTypes ==
  ASSUME TypeInv, NEW p \in Player, NEW s \in Slot, NEW n \in 1..inv[p][s].count, DoDrop(p, s, n)
  PROVE  HeldType' /\ SaveType' /\ ground' \in Seq(Laid) /\ UNCHANGED <<savedVars, stallVars, tradeVars>>
<1>1. /\ inv' = [inv EXCEPT ![p][s] = Less(inv[p][s], n)]
      /\ ground' = Append(ground, Stack(inv[p][s].kind, n))
      /\ writes' = <<SaveSlot41(p, s, inv'[p])>>
      /\ UNCHANGED <<stage, zulies, store, storeZuly, unsaved, savedVars, missVars, stallVars, tradeVars>>
  BY DEF DoDrop, Saves, Stays
<1>2. /\ inv[p] \in Inventories /\ inv[p][s].count \in Nat
      /\ n \in Nat /\ 1 <= n /\ n <= inv[p][s].count
  BY Put DEF TypeInv, HeldType, Stacks
<1>3. /\ Less(inv[p][s], n) \in Stacks /\ Placed(Less(inv[p][s], n), s)
      /\ Stack(inv[p][s].kind, n) \in Goodly
  BY <1>2, Taken
<1>4. inv' \in [Player -> Inventories]
  BY <1>1, <1>3, PutOf DEF TypeInv, HeldType
<1>5. SaveSlot41(p, s, inv'[p]) \in Statements
  BY <1>4, Statement
<1>6. ground' \in Seq(Laid)
  BY <1>1, <1>3, AppendProperties DEF TypeInv, Laid
<1> QED
  BY <1>1, <1>4, <1>5, <1>6 DEF TypeInv, HeldType, SaveType, missVars

\* What is left on the ground.
LEMMA WithoutSound ==
  ASSUME ground \in Seq(Laid), NEW i \in DOMAIN ground
  PROVE  ground[i] \in Laid /\ Without(i) \in Seq(Laid)
<1>1. /\ DOMAIN ground = 1..Len(ground) /\ Len(ground) \in Nat
      /\ \A j \in 1..Len(ground) : ground[j] \in Laid
  BY LenProperties, ElementOfSeq
<1>2. Without(i) \in [1..(Len(ground) - 1) -> Laid] /\ Len(ground) - 1 \in Nat
  BY <1>1 DEF Without
<1> QED
  BY <1>1, <1>2, SeqDef

\* Picking something up.
LEMMA PickTypes ==
  ASSUME TypeInv, NEW p \in Player, NEW i \in DOMAIN ground, PickDrop(p, i)
  PROVE  HeldType' /\ SaveType' /\ ground' \in Seq(Laid) /\ UNCHANGED <<savedVars, stallVars, tradeVars>>
<1> DEFINE item == ground[i]
           s    == NewItemSlot(inv[p], item)
<1>1. /\ ground' = Without(i)
      /\ \/ /\ item.kind = NoKind /\ zulies' = [zulies EXCEPT ![p] = @ + item.count]
            /\ UNCHANGED <<inv, unsaved, writes>>
         \/ /\ item.kind # NoKind /\ s # NoSlot
            /\ inv' = [inv EXCEPT ![p][s] = More(inv[p][s], item)]
            /\ writes' = <<SaveSlot41(p, s, inv'[p])>> /\ UNCHANGED <<unsaved, zulies>>
      /\ UNCHANGED <<stage, store, storeZuly, savedVars, missVars, stallVars, tradeVars>>
  BY DEF PickDrop, Saves, Stays
<1>2. item \in Laid /\ ground' \in Seq(Laid)
  BY <1>1, WithoutSound DEF TypeInv
<1>3. item.count \in Nat /\ (item.kind # NoKind => item \in Goodly)
  BY <1>2, GoodlyStack DEF Laid
<1>4. inv[p] \in Inventories
  BY DEF TypeInv, HeldType
<1> HIDE DEF item
<1>0. UNCHANGED <<stage, store, storeZuly, unsaved, savedVars, missVars, stallVars, tradeVars>>
  BY <1>1
<1>5. CASE item.kind = NoKind
  <2>1. zulies' = [zulies EXCEPT ![p] = @ + item.count] /\ UNCHANGED <<inv, writes>>
    BY <1>1, <1>5
  <2>2. zulies' \in [Player -> Nat]
    BY <1>3, <2>1 DEF TypeInv, HeldType
  <2> QED
    BY <1>0, <1>2, <2>1, <2>2 DEF TypeInv, HeldType, SaveType, missVars
<1>6. CASE item.kind # NoKind
  <2>1. /\ s # NoSlot /\ inv' = [inv EXCEPT ![p][s] = More(inv[p][s], item)]
        /\ writes' = <<SaveSlot41(p, s, inv'[p])>> /\ UNCHANGED zulies
    BY <1>1, <1>6
  <2>2. s \in Slot /\ More(inv[p][s], item) \in Stacks /\ Placed(More(inv[p][s], item), s)
    BY <1>3, <1>4, <1>6, <2>1, SlotFound DEF Goodly
  <2> HIDE DEF s
  <2>3. inv' \in [Player -> Inventories]
    BY <2>1, <2>2, PutOf DEF TypeInv, HeldType
  <2>4. SaveSlot41(p, s, inv'[p]) \in Statements
    BY <2>2, <2>3, Statement
  <2> QED
    BY <1>0, <1>2, <2>1, <2>3, <2>4 DEF TypeInv, HeldType, SaveType, missVars
<1> QED
  BY <1>5, <1>6

\* All that a player does with his own goods.
LEMMA WareTypes ==
  ASSUME TypeInv, NEW p \in Player, WareOps(p)
  PROVE  TypeInv'
<1> SUFFICES HeldType' /\ SaveType' /\ ground' \in Seq(Laid) /\ UNCHANGED <<savedVars, stallVars, tradeVars>>
  BY DEF TypeInv, RowType, StallType, TradeType, savedVars, stallVars, tradeVars
<1>1. CASE \E pair \in Requests(p) : Equip(p, pair[1], pair[2])
  BY <1>1, EquipTypes DEF TypeInv
<1>2. CASE \E s \in Slot, saved \in BOOLEAN : Use(p, s, saved)
  BY <1>2, UseTypes DEF TypeInv
<1>3. CASE \E list \in Orders, s \in Slot : \E n \in 0..inv[p][s].count : NPCBuy(p, list, s, n)
  BY <1>3, ShopTypes DEF TypeInv
<1>4. CASE \E s \in Slot : \E n \in 1..inv[p][s].count : DoDrop(p, s, n)
  BY <1>4, DropTypes
<1>5. CASE \E n \in 1..MaxLaid : DoDropZuly(p, n)
  <2>1. PICK n \in 1..MaxLaid : DoDropZuly(p, n)
    BY <1>5
  <2>2. /\ n \in Nat /\ n <= zulies[p] /\ zulies' = [zulies EXCEPT ![p] = @ - n]
        /\ ground' = Append(ground, Stack(NoKind, n))
        /\ UNCHANGED <<stage, inv, unsaved, store, storeZuly, savedVars, writes, missVars, stallVars, tradeVars>>
    BY <2>1 DEF DoDropZuly, Stays
  <2>3. zulies' \in [Player -> Nat]
    BY <2>2 DEF TypeInv, HeldType
  <2>4. Stack(NoKind, n) \in Laid
    BY <2>2 DEF Stack, Laid
  <2>5. ground' \in Seq(Laid)
    BY <2>2, <2>4, AppendProperties DEF TypeInv
  <2> QED
    BY <2>2, <2>3, <2>5 DEF TypeInv, HeldType, SaveType, missVars
<1>6. CASE \E i \in DOMAIN ground : PickDrop(p, i)
  BY <1>6, PickTypes
<1> QED
  BY <1>1, <1>2, <1>3, <1>4, <1>5, <1>6 DEF WareOps

-----------------------------------------------------------------------------
(* Type correctness. *)

\* At the start nobody is there.
LEMMA InitTypes == WareInit => TypeInv
<1> SUFFICES ASSUME WareInit PROVE TypeInv
  OBVIOUS
<1>1. [s \in Slot |-> Empty] \in Inventories /\ [c \in Cell |-> Empty] \in Storages
  BY GoodlyStack DEF Inventories, Storages, Placed
<1>2. HeldType
  BY <1>1 DEF WareInit, HeldType
<1>3. RowType
  BY DEF WareInit, RowType, Inventories, Storages
<1>4. StallType
  BY DEF WareInit, StallType
<1>5. TradeType
  BY DEF WareInit, TradeType, NoOffers
<1>6. SaveType /\ ground \in Seq(Laid)
  BY EmptyList DEF WareInit, SaveType
<1> QED
  BY <1>2, <1>3, <1>4, <1>5, <1>6 DEF TypeInv

\* Every step keeps the types.
LEMMA StepTypes == TypeInv /\ [WareNext]_wareVars => TypeInv'
<1> SUFFICES ASSUME TypeInv, [WareNext]_wareVars PROVE TypeInv'
  OBVIOUS
<1>1. CASE UNCHANGED wareVars
  BY <1>1 DEF TypeInv, HeldType, RowType, SaveType, StallType, TradeType,
              wareVars, allVars, goodsVars, heldVars, savedVars, missVars, stallVars, tradeVars
<1>2. ASSUME NEW p \in Player, Sessions(p) \/ Store(p) \/ Vend(p) \/ Exchange(p) \/ WareOps(p)
      PROVE  TypeInv'
  BY <1>2, SessionTypes, StoreTypes, VendTypes, ExchangeTypes, WareTypes
<1>3. ASSUME NEW i \in DOMAIN ground, Expire(i) PROVE TypeInv'
  <2>1. ground' \in Seq(Laid)
    BY <1>3, WithoutSound DEF Expire, TypeInv
  <2> QED
    BY <1>3, <2>1 DEF Expire, TypeInv, HeldType, RowType, SaveType, StallType, TradeType,
                      allVars, goodsVars, heldVars, savedVars, missVars, stallVars, tradeVars
<1>4. CASE Written
  BY <1>4, WrittenTypes
<1>5. CASE Restart
  BY <1>5, RestartTypes
<1> QED
  BY <1>1, <1>2, <1>3, <1>4, <1>5 DEF WareNext

\* Every slot, cell, row and offer is sound and nobody's purse is overdrawn,
\* whatever the players do and whenever the server dies.
THEOREM TypeCorrect == WareSpec => []GoodsTypeOK
<1>1. TypeInv => GoodsTypeOK
  <2> SUFFICES ASSUME TypeInv PROVE GoodsTypeOK
    OBVIOUS
  <2>1. \A p \in Player :
          /\ inv[p] \in Inventories /\ rows[p] \in Inventories
          /\ store[p] \in Storages /\ cells[p] \in Storages
          /\ zulies[p] \in Nat /\ storeZuly[p] \in Nat /\ purse[p] \in Nat /\ safe[p] \in Nat
    BY DEF TypeInv, HeldType, RowType
  <2>2. \A p \in Player :
          /\ \A s \in Slot : Placed(inv[p][s], s) /\ Placed(rows[p][s], s)
          /\ \A c \in Cell : WellFormed(store[p][c]) /\ WellFormed(cells[p][c])
    BY <2>1, Put
  <2> QED
    BY <2>1, <2>2 DEF TypeInv, HeldType, GoodsTypeOK
<1> QED
  BY InitTypes, StepTypes, <1>1, PTL DEF WareSpec

-----------------------------------------------------------------------------
(* The exchange window: nobody is left confirmed but in two ways. *)

\* Two players who both stand confirmed towards each other.
Facing(p, q) == target[p] = q /\ Awaited(p, q)

\* What leaves targets, statuses and refusals alone leaves the pairs alone.
LEMMA StillTogether ==
  ASSUME ConfirmedTogether, UNCHANGED <<target, status, failed>>
  PROVE  ConfirmedTogether'
BY DEF ConfirmedTogether, Facing, Awaited

\* Packets 0x7c0 of the exchange.
LEMMA PacketsTogether ==
  ASSUME TradeType, ConfirmedTogether, NEW p \in Player, TradeOps(p)
  PROVE  ConfirmedTogether'
<1>0. /\ target \in [Player -> Player \cup {NoPlayer}] /\ status \in [Player -> 0..6]
      /\ NoPlayer \notin Player
  BY TradeConstants DEF TradeType
<1>1. ASSUME NEW q \in Player, Request(p, q) PROVE ConfirmedTogether'
  BY <1>0, <1>1 DEF Request, Addressed, ConfirmedTogether, Facing, Awaited
<1>2. ASSUME NEW q \in Player, Accept(p, q) PROVE ConfirmedTogether'
  <2>1. /\ p # q /\ target' = [target EXCEPT ![p] = q]
        /\ status' = [status EXCEPT ![p] = 3, ![q] = 3]
        /\ failed' = failed \ {{p, q}}
    BY <1>2 DEF Accept, Addressed
  <2>2. ASSUME NEW u \in Player, NEW v \in Player, u # v, Facing(u, v)' PROVE {u, v} \in failed'
    <3>1. u \notin {p, q} /\ v \notin {p, q}
      BY <1>0, <2>1, <2>2 DEF Facing, Awaited
    <3>2. Facing(u, v)
      BY <1>0, <2>1, <2>2, <3>1 DEF Facing, Awaited
    <3> QED
      BY <2>1, <2>2, <3>1, <3>2 DEF ConfirmedTogether, Facing, Awaited
  <2> QED
    BY <2>2 DEF ConfirmedTogether, Facing, Awaited
<1>3. ASSUME NEW q \in Player, Cancel(p, q) PROVE ConfirmedTogether'
  BY <1>0, <1>3 DEF Cancel, ConfirmedTogether, Facing, Awaited
<1>4. ASSUME NEW q \in Player, Lock(p, q) PROVE ConfirmedTogether'
  BY <1>0, <1>4 DEF Lock, Addressed, ConfirmedTogether, Facing, Awaited
<1>5. ASSUME NEW q \in Player, ConfirmFirst(p, q) PROVE ConfirmedTogether'
  <2>1. /\ p # q /\ target' = [target EXCEPT ![p] = q] /\ status[q] # 6
        /\ status' = [status EXCEPT ![p] = Switched(p)] /\ UNCHANGED failed
    BY <1>5 DEF ConfirmFirst, Addressed, OtherConfirmed
  <2>2. ASSUME NEW u \in Player, NEW v \in Player, u # v, Facing(u, v)' PROVE {u, v} \in failed'
    <3>1. status'[q] # 6 /\ target'[p] = q
      BY <1>0, <2>1
    <3>2. u # p /\ v # p
      BY <2>2, <3>1 DEF Facing, Awaited
    <3>3. Facing(u, v)
      BY <1>0, <2>1, <2>2, <3>2 DEF Facing, Awaited
    <3> QED
      BY <2>1, <2>2, <3>3 DEF ConfirmedTogether, Facing, Awaited
  <2> QED
    BY <2>2 DEF ConfirmedTogether, Facing, Awaited
<1>6. ASSUME NEW q \in Player, Refuse(p, q) PROVE ConfirmedTogether'
  <2>1. /\ p # q /\ target' = [target EXCEPT ![p] = q]
        /\ status' = [status EXCEPT ![p] = Switched(p)] /\ failed' = failed \cup {{p, q}}
    BY <1>6 DEF Refuse, Addressed
  <2>2. ASSUME NEW u \in Player, NEW v \in Player, u # v, Facing(u, v)' PROVE {u, v} \in failed'
    <3>1. CASE p \in {u, v}
      <4>1. target'[p] = q
        BY <1>0, <2>1
      <4>2. {u, v} = {p, q}
        BY <2>2, <3>1, <4>1 DEF Facing, Awaited
      <4> QED
        BY <2>1, <4>2
    <3>2. CASE p \notin {u, v}
      <4>1. Facing(u, v)
        BY <1>0, <2>1, <2>2, <3>2 DEF Facing, Awaited
      <4> QED
        BY <2>1, <2>2, <4>1 DEF ConfirmedTogether, Facing, Awaited
    <3> QED
      BY <3>1, <3>2
  <2> QED
    BY <2>2 DEF ConfirmedTogether, Facing, Awaited
<1>7. ASSUME NEW q \in Player, Complete(p, q) PROVE ConfirmedTogether'
  <2>1. /\ p # q /\ target' = [target EXCEPT ![p] = q]
        /\ status' = [status EXCEPT ![p] = 0, ![q] = 0]
        /\ failed' = failed \ {{p, q}}
    BY <1>7 DEF Complete, Addressed
  <2>2. ASSUME NEW u \in Player, NEW v \in Player, u # v, Facing(u, v)' PROVE {u, v} \in failed'
    <3>1. u \notin {p, q} /\ v \notin {p, q}
      BY <1>0, <2>1, <2>2 DEF Facing, Awaited
    <3>2. Facing(u, v)
      BY <1>0, <2>1, <2>2, <3>1 DEF Facing, Awaited
    <3> QED
      BY <2>1, <2>2, <3>1, <3>2 DEF ConfirmedTogether, Facing, Awaited
  <2> QED
    BY <2>2 DEF ConfirmedTogether, Facing, Awaited
<1>8. ASSUME NEW q \in Player \cup {NoPlayer}, Retarget(p, q) PROVE ConfirmedTogether'
  <2>1. /\ p # q /\ target' = [target EXCEPT ![p] = q] /\ UNCHANGED status
        /\ failed' = failed \cup {{p, x} : x \in {x \in Player : x = q /\ Awaited(p, x)}}
    BY <1>8 DEF Retarget
  <2>2. ASSUME NEW u \in Player, NEW v \in Player, u # v, Facing(u, v)' PROVE {u, v} \in failed'
    <3>1. ASSUME NEW x \in Player, target'[p] = x, target'[x] = p, status[p] = 6, status[x] = 6
          PROVE  {p, x} \in failed'
      <4>1. x = q /\ target[x] = p
        BY <1>0, <2>1, <3>1
      <4>2. x \in {y \in Player : y = q /\ Awaited(p, y)}
        BY <3>1, <4>1 DEF Awaited
      <4> QED
        BY <2>1, <4>2
    <3>2. CASE u = p
      BY <2>1, <2>2, <3>1, <3>2 DEF Facing, Awaited
    <3>3. CASE v = p
      <4>1. {u, v} = {p, u}
        BY <3>3
      <4> QED
        BY <2>1, <2>2, <3>1, <3>3, <4>1 DEF Facing, Awaited
    <3>4. CASE u # p /\ v # p
      <4>1. Facing(u, v)
        BY <1>0, <2>1, <2>2, <3>4 DEF Facing, Awaited
      <4> QED
        BY <2>1, <2>2, <4>1 DEF ConfirmedTogether, Facing, Awaited
    <3> QED
      BY <3>2, <3>3, <3>4
  <2> QED
    BY <2>2 DEF ConfirmedTogether, Facing, Awaited
<1>9. CASE \E r \in TradeRow : Clear(p, r) \/ \E s \in Slot : \E n \in 1..inv[p][s].count : Add(p, r, s, n)
  BY <1>9, StillTogether DEF Clear, Add
<1>10. CASE \E n \in 0..MaxPay : AddZuly(p, n)
  BY <1>10, StillTogether DEF AddZuly
<1> QED
  BY <1>1, <1>2, <1>3, <1>4, <1>5, <1>6, <1>7, <1>8, <1>9, <1>10 DEF TradeOps

\* A CPlayer that goes takes its confirmation with it.
LEMMA ForgetTogether ==
  ASSUME TradeType, ConfirmedTogether, NEW P \in SUBSET Player, Forget(P)
  PROVE  ConfirmedTogether'
<1>1. /\ target' = [p \in Player |-> IF p \in P THEN NoPlayer ELSE target[p]]
      /\ status' = [p \in Player |-> IF p \in P THEN 0 ELSE status[p]]
      /\ failed' = {pair \in failed : pair \cap P = {}}
  BY DEF Forget
<1>2. ASSUME NEW u \in Player, NEW v \in Player, u # v, Facing(u, v)' PROVE {u, v} \in failed'
  <2>1. u \notin P /\ v \notin P
    BY <1>1, <1>2 DEF Facing, Awaited
  <2>2. Facing(u, v)
    BY <1>1, <1>2, <2>1 DEF Facing, Awaited
  <2>3. {u, v} \cap P = {}
    BY <2>1
  <2> QED
    BY <1>1, <1>2, <2>2, <2>3 DEF ConfirmedTogether, Facing, Awaited
<1> QED
  BY <1>2 DEF ConfirmedTogether, Facing, Awaited

\* Every step keeps the pairs.
LEMMA StepTogether == TypeInv /\ ConfirmedTogether /\ [WareNext]_wareVars => ConfirmedTogether'
<1> SUFFICES ASSUME TypeInv, ConfirmedTogether, [WareNext]_wareVars PROVE ConfirmedTogether'
  OBVIOUS
<1>0. TradeType
  BY DEF TypeInv
<1>1. CASE UNCHANGED wareVars
  BY <1>1, StillTogether DEF wareVars, allVars, tradeVars
<1>2. ASSUME NEW p \in Player, Sessions(p) PROVE ConfirmedTogether'
  <2>1. CASE Enter(p) \/ Save(p) \/ ToSelect(p)
    BY <2>1, StillTogether DEF Enter, Save, ToSelect, tradeVars
  <2>2. CASE Leave(p)
    BY <1>0, <2>2, ForgetTogether DEF Leave
  <2> QED
    BY <1>2, <2>1, <2>2 DEF Sessions
<1>3. ASSUME NEW p \in Player, Store(p) PROVE ConfirmedTogether'
  BY <1>3, StillTogether DEF Store, tradeVars
<1>4. ASSUME NEW p \in Player, Vend(p) PROVE ConfirmedTogether'
  BY <1>4, StillTogether DEF Vend, tradeVars
<1>5. ASSUME NEW p \in Player, Exchange(p) PROVE ConfirmedTogether'
  BY <1>0, <1>5, PacketsTogether DEF Exchange
<1>6. ASSUME NEW p \in Player, WareOps(p) PROVE ConfirmedTogether'
  <2>1. CASE \E pair \in Requests(p) : Equip(p, pair[1], pair[2])
    BY <2>1, EquipTypes, StillTogether DEF tradeVars
  <2>2. CASE \E s \in Slot, saved \in BOOLEAN : Use(p, s, saved)
    BY <2>2, StillTogether DEF Use, Stays, tradeVars
  <2>3. CASE \E list \in Orders, s \in Slot : \E n \in 0..inv[p][s].count : NPCBuy(p, list, s, n)
    BY <2>3, StillTogether DEF NPCBuy, Stays, tradeVars
  <2>4. CASE \E s \in Slot : \E n \in 1..inv[p][s].count : DoDrop(p, s, n)
    BY <2>4, StillTogether DEF DoDrop, Stays, tradeVars
  <2>5. CASE \E n \in 1..MaxLaid : DoDropZuly(p, n)
    BY <2>5, StillTogether DEF DoDropZuly, Stays, tradeVars
  <2>6. CASE \E i \in DOMAIN ground : PickDrop(p, i)
    BY <2>6, StillTogether DEF PickDrop, Stays, tradeVars
  <2> QED
    BY <1>6, <2>1, <2>2, <2>3, <2>4, <2>5, <2>6 DEF WareOps
<1>7. ASSUME NEW i \in DOMAIN ground, Expire(i) PROVE ConfirmedTogether'
  BY <1>7, StillTogether DEF Expire, allVars, tradeVars
<1>8. CASE Written
  BY <1>8, StillTogether DEF Written, WriteRow, tradeVars
<1>9. CASE Restart
  BY <1>0, <1>9, ForgetTogether DEF Restart, Die
<1> QED
  BY <1>1, <1>2, <1>3, <1>4, <1>5, <1>6, <1>7, <1>8, <1>9 DEF WareNext

\* Two traders who are both left confirmed (module Trade, ConfirmedTogether) have had
\* an exchange refused, or one turned to the other by a packet that only names him.
THEOREM PairsTogether == WareSpec => []ConfirmedTogether
<1>1. WareInit => ConfirmedTogether
  BY DEF WareInit, ConfirmedTogether, Awaited
<1> QED
  BY InitTypes, StepTypes, <1>1, StepTogether, PTL DEF WareSpec

-----------------------------------------------------------------------------
(* Stalls: the rows on show are backed. *)

\* A stall that is not open shows nothing, nobody who is off has one, and no
\* slot is in two rows.
Shown ==
  /\ \A p \in Player : ~open[p] => \A r \in SellRow : selling[p][r] = NoRow
  /\ \A p \in Player : stage[p] = "off" => ~open[p]
  /\ \A p \in Player, r, x \in SellRow :
       r # x /\ selling[p][r] # NoRow => selling[p][r].slot # selling[p][x].slot

StallInv == Shown /\ RowsBacked

\* No slot loses anything.
Grows(bag, next) ==
  \A s \in Slot : bag[s] # Empty => next[s].kind = bag[s].kind /\ next[s].count >= bag[s].count

\* Who deals with somebody's open stall takes nothing from it but by its rows:
\* where the list stays as it is the goods may only grow.
LEMMA StillBacked ==
  ASSUME TypeInv, TypeInv', StallInv, UNCHANGED <<open, selling>>, swapped \subseteq swapped',
         \A u \in Player : open[u] => stage'[u] # "off",
         \A u \in Player \ swapped' : open[u] => Grows(inv[u], inv'[u])
  PROVE  StallInv'
<1>1. Shown'
  BY DEF StallInv, Shown
<1>2. ASSUME NEW p \in Player \ swapped', open[p], NEW r \in SellRow, selling[p][r] # NoRow
      PROVE  LET row == selling[p][r]
             IN  inv'[p][row.slot].kind = row.kind /\ inv'[p][row.slot].count >= row.count
  <2> DEFINE row == selling[p][r]
             s   == row.slot
  <2>1. row \in Row
    BY <1>2 DEF TypeInv, StallType
  <2>2. s \in Slot /\ row.kind \in Kind /\ row.count \in Nat
    BY <2>1 DEF Row
  <2>3. inv[p][s].kind = row.kind /\ inv[p][s].count >= row.count
    BY <1>2 DEF StallInv, RowsBacked
  <2>4. inv[p][s] # Empty
    BY <2>2, <2>3, GoodsConstants, GoodlyStack
  <2>5. inv'[p][s].kind = inv[p][s].kind /\ inv'[p][s].count >= inv[p][s].count
    BY <1>2, <2>2, <2>4 DEF Grows
  <2>6. inv[p][s].count \in Nat /\ inv'[p][s].count \in Nat
    BY <2>2, Put DEF TypeInv, HeldType, Stacks
  <2> QED
    BY <2>2, <2>3, <2>5, <2>6
<1> QED
  BY <1>1, <1>2 DEF StallInv, RowsBacked

\* What is left as it is has not lost anything.
LEMMA SameGrows ==
  ASSUME HeldType, NEW u \in Player, inv'[u] = inv[u]
  PROVE  Grows(inv[u], inv'[u])
<1> SUFFICES ASSUME NEW s \in Slot PROVE inv[u][s].count >= inv[u][s].count
  BY DEF Grows
<1>1. inv[u][s].count \in Nat
  BY Put DEF HeldType, Stacks
<1> QED
  BY <1>1

\* What GetNewItemSlot finds room for is put on top.
LEMMA AddedGrows ==
  ASSUME HeldType, NEW u \in Player, NEW item \in Goodly,
         NewItemSlot(inv[u], item) # NoSlot,
         inv'[u] = [inv[u] EXCEPT ![NewItemSlot(inv[u], item)]
                      = More(inv[u][NewItemSlot(inv[u], item)], item)]
  PROVE  Grows(inv[u], inv'[u])
<1> DEFINE t == NewItemSlot(inv[u], item)
<1>1. inv[u] \in Inventories
  BY DEF HeldType
<1>2. t \in Slot /\ (inv[u][t] = Empty \/ inv[u][t].kind = item.kind)
  BY <1>1, SlotFound
<1>0. inv'[u] = [inv[u] EXCEPT ![t] = More(inv[u][t], item)]
  OBVIOUS
<1> HIDE DEF t
<1>3. \A s \in Slot : inv[u][s].count \in Nat
  BY <1>1, Put DEF Stacks
<1>4. item.count \in Nat /\ 1 <= item.count
  BY GoodlyStack
<1>5. ASSUME NEW s \in Slot, inv[u][s] # Empty
      PROVE  inv'[u][s].kind = inv[u][s].kind /\ inv'[u][s].count >= inv[u][s].count
  <2>1. CASE s = t
    <3>1. inv'[u][s] = More(inv[u][s], item)
      BY <1>0, <1>1, <1>2, <2>1 DEF Inventories
    <3> QED
      BY <1>2, <1>3, <1>4, <1>5, <2>1, <3>1 DEF More, Stack
  <2>2. CASE s # t
    BY <1>0, <1>1, <1>3, <2>2 DEF Inventories
  <2> QED
    BY <2>1, <2>2
<1> QED
  BY <1>5 DEF Grows

\* Whoever goes closes his stall.
LEMMA ForgetBacked ==
  ASSUME TypeInv, TypeInv', StallInv, NEW P \in SUBSET Player, Forget(P),
         \A u \in Player \ P : inv'[u] = inv[u] /\ stage'[u] = stage[u]
  PROVE  StallInv'
<1>1. /\ open' = [p \in Player |-> open[p] /\ p \notin P]
      /\ selling' = [p \in Player |-> IF p \in P THEN [r \in SellRow |-> NoRow] ELSE selling[p]]
      /\ swapped' = swapped \ P
  BY DEF Forget
<1>2. Shown'
  BY <1>1 DEF StallInv, Shown
<1>3. RowsBacked'
  <2> SUFFICES ASSUME NEW p \in Player, p \notin swapped', open'[p], NEW r \in SellRow, selling'[p][r] # NoRow
               PROVE  /\ inv'[p][selling'[p][r].slot].kind = selling'[p][r].kind
                      /\ inv'[p][selling'[p][r].slot].count >= selling'[p][r].count
    BY DEF RowsBacked
  <2>1. p \notin P /\ open[p] /\ selling'[p] = selling[p] /\ p \notin swapped
    BY <1>1
  <2> QED
    BY <2>1 DEF StallInv, RowsBacked
<1> QED
  BY <1>2, <1>3 DEF StallInv

\* Coming and saving leave open stalls alone; who leaves closes his.
LEMMA SessionBacked ==
  ASSUME TypeInv, TypeInv', StallInv, NEW p \in Player, Sessions(p)
  PROVE  StallInv'
<1>1. CASE Enter(p) \/ Save(p) \/ ToSelect(p)
  <2>1. /\ UNCHANGED stallVars
        /\ \A u \in Player : open[u] => stage'[u] # "off"
        /\ \A u \in Player : open[u] => inv'[u] = inv[u]
    <3>1. CASE Enter(p)
      BY <3>1 DEF Enter, Login, StallInv, Shown, TypeInv, HeldType
    <3>2. CASE Save(p)
      BY <3>2 DEF Save, Autosave, StallInv, Shown, heldVars
    <3>3. CASE ToSelect(p)
      BY <3>3 DEF ToSelect, CharSelect, StallInv, Shown, TypeInv, HeldType, heldVars
    <3> QED
      BY <1>1, <3>1, <3>2, <3>3
  <2>2. \A u \in Player : open[u] => Grows(inv[u], inv'[u])
    BY <2>1, SameGrows DEF TypeInv
  <2> QED
    BY <2>1, <2>2, StillBacked DEF stallVars
<1>2. CASE Leave(p)
  <2>1. \A u \in Player \ {p} : inv'[u] = inv[u] /\ stage'[u] = stage[u]
    BY <1>2 DEF Leave, Deleted, Freed, TypeInv, HeldType
  <2> QED
    BY <1>2, <2>1, ForgetBacked DEF Leave
<1> QED
  BY <1>1, <1>2 DEF Sessions

\* Storing goods that are on show marks the stall; taking some out only adds.
LEMMA StoreBacked ==
  ASSUME TypeInv, TypeInv', StallInv, NEW p \in Player, Store(p)
  PROVE  StallInv'
<1>1. /\ UNCHANGED <<open, selling, stage>> /\ swapped \subseteq swapped'
      /\ \A u \in Player \ {p} : inv'[u] = inv[u]
      /\ (open[p] /\ \E s \in Slot : inv'[p][s].count < inv[p][s].count) => p \in swapped'
  <2>1. UNCHANGED stage /\ \A u \in Player \ {p} : inv'[u] = inv[u]
    <3>1. inv \in [Player -> Inventories]
      BY DEF TypeInv, HeldType
    <3>2. CASE \E s \in Slot : \E n \in 1..inv[p][s].count : Deposit(p, s, n)
      BY <3>1, <3>2 DEF Deposit
    <3>3. CASE \E c \in Cell : \E n \in 1..GetSlotStorage(p, c)[c].count : Withdraw(p, c, n)
      BY <3>1, <3>3 DEF Withdraw
    <3>4. CASE DepositZuly(p, 1) \/ WithdrawZuly(p, 1)
      BY <3>4 DEF DepositZuly, WithdrawZuly
    <3> QED
      BY <3>2, <3>3, <3>4 DEF Store, StorageOps
  <2> QED
    BY <2>1 DEF Store
<1>2. \/ \E s \in Slot : inv'[p][s].count < inv[p][s].count
      \/ Grows(inv[p], inv'[p])
  <2>1. ASSUME NEW s \in Slot, NEW n \in 1..inv[p][s].count, Deposit(p, s, n)
        PROVE  inv'[p][s].count < inv[p][s].count
    <3>1. inv'[p][s] = Less(inv[p][s], n) /\ inv[p] \in Inventories
      <4>1. inv' = [inv EXCEPT ![p][s] = Less(inv[p][s], n)]
        BY <2>1 DEF Deposit
      <4> QED
        BY <4>1 DEF TypeInv, HeldType, Inventories
    <3>2. inv[p][s].count \in Nat /\ n \in Nat /\ 1 <= n /\ n <= inv[p][s].count
      BY <3>1, Put DEF Stacks
    <3> QED
      BY <3>1, <3>2 DEF Less, Empty, Stack
  <2>2. ASSUME NEW c \in Cell, NEW n \in 1..GetSlotStorage(p, c)[c].count, Withdraw(p, c, n)
        PROVE  Grows(inv[p], inv'[p])
    <3> DEFINE item == Stack(GetSlotStorage(p, c)[c].kind, n)
               s    == NewItemSlot(inv[p], item)
    <3>1. /\ \/ UNCHANGED inv
             \/ s # NoSlot /\ inv' = [inv EXCEPT ![p][s] = More(inv[p][s], item)]
      BY <2>2 DEF Withdraw
    <3>2. GetSlotStorage(p, c)[c] \in Stacks /\ WellFormed(GetSlotStorage(p, c)[c])
      BY FreshTypes, Put DEF TypeInv
    <3>3. n \in Nat /\ 1 <= n /\ n <= GetSlotStorage(p, c)[c].count
      BY <3>2 DEF Stacks
    <3>4. item \in Goodly
      BY <3>2, <3>3, PartLeft
    <3> HIDE DEF item
    <3>5. CASE UNCHANGED inv
      BY <3>5, SameGrows DEF TypeInv
    <3>6. CASE s # NoSlot /\ inv' = [inv EXCEPT ![p][s] = More(inv[p][s], item)]
      <4>1. inv'[p] = [inv[p] EXCEPT ![s] = More(inv[p][s], item)]
        BY <3>6 DEF TypeInv, HeldType
      <4> QED
        BY <3>4, <3>6, <4>1, AddedGrows DEF TypeInv
    <3> QED
      BY <3>1, <3>5, <3>6
  <2>3. ASSUME DepositZuly(p, 1) \/ WithdrawZuly(p, 1)
        PROVE  Grows(inv[p], inv'[p])
    BY <2>3, SameGrows DEF DepositZuly, WithdrawZuly, TypeInv
  <2> QED
    BY <2>1, <2>2, <2>3 DEF Store, StorageOps
<1>3. \A u \in Player \ swapped' : open[u] => Grows(inv[u], inv'[u])
  BY <1>1, <1>2, SameGrows DEF TypeInv
<1> QED
  BY <1>1, <1>3, StillBacked DEF StallInv, Shown

\* The rows of a stall that opens are taken from what lies in the slots.
LEMMA OpenBacked ==
  ASSUME TypeInv, StallInv, NEW p \in Player,
         NEW list \in Listings(p), NEW wish \in Wishes, NEW price \in Price,
         OpenShop(p, list, wish, price)
  PROVE  StallInv'
<1>1. /\ ~open[p] /\ stage[p] = "in" /\ UNCHANGED <<inv, stage>>
      /\ selling' = [selling EXCEPT ![p] = [r \in SellRow |->
            IF r \in DOMAIN list THEN RowOf(p, list[r][1], list[r][2], price) ELSE selling[p][r]]]
      /\ open' = [open EXCEPT ![p] = TRUE] /\ swapped' = swapped \ {p}
  BY DEF OpenShop, Ready, goodsVars, heldVars
<1>2. /\ \A u \in Player \ {p} : selling'[u] = selling[u] /\ open'[u] = open[u]
      /\ \A r \in SellRow : selling'[p][r] =
            IF r \in DOMAIN list THEN RowOf(p, list[r][1], list[r][2], price) ELSE NoRow
      /\ open'[p]
  BY <1>1 DEF StallInv, Shown, TypeInv, StallType
<1>21. \A r \in SellRow : r \in DOMAIN list => selling'[p][r].slot = list[r][1]
  <2> SUFFICES ASSUME NEW r \in SellRow, r \in DOMAIN list
               PROVE  selling'[p][r].slot = list[r][1]
    OBVIOUS
  <2>1. selling'[p][r] = RowOf(p, list[r][1], list[r][2], price)
    BY <1>2
  <2> QED
    BY <2>1 DEF RowOf
<1>3. \A r \in SellRow : selling'[p][r] # NoRow => r \in DOMAIN list
  BY <1>2
<1>4. \A r \in DOMAIN list, x \in DOMAIN list : r # x => list[r][1] # list[x][1]
  BY DEF Listings
<1>5. Shown'
  <2>1. \A u \in Player : ~open'[u] => \A r \in SellRow : selling'[u][r] = NoRow
    BY <1>2 DEF StallInv, Shown
  <2>2. \A u \in Player : stage'[u] = "off" => ~open'[u]
    BY <1>1, <1>2 DEF StallInv, Shown
  <2>3. ASSUME NEW r \in SellRow, NEW x \in SellRow, r # x, selling'[p][r] # NoRow
        PROVE  selling'[p][r].slot # selling'[p][x].slot
    <3>0. r \in DOMAIN list
      BY <1>3, <2>3
    <3>1. selling'[p][r].slot = list[r][1]
      BY <3>0, <1>21
    <3>2. list[r][1] \in Slot
      BY <3>0, ListingFound
    <3>3. CASE x \in DOMAIN list
      <4>1. selling'[p][x].slot = list[x][1]
        BY <3>3, <1>21
      <4> QED
        BY <1>4, <2>3, <3>0, <3>1, <3>3, <4>1
    <3>4. CASE x \notin DOMAIN list
      BY <1>2, <3>1, <3>2, <3>4, SizesAreNat DEF NoRow
    <3> QED
      BY <3>3, <3>4
  <2>4. ASSUME NEW u \in Player \ {p}, NEW r \in SellRow, NEW x \in SellRow, r # x, selling'[u][r] # NoRow
        PROVE  selling'[u][r].slot # selling'[u][x].slot
    BY <1>2, <2>4 DEF StallInv, Shown
  <2> QED
    BY <2>1, <2>2, <2>3, <2>4 DEF Shown
<1>6. ASSUME NEW r \in SellRow, selling'[p][r] # NoRow
      PROVE  LET row == selling'[p][r]
             IN  inv'[p][row.slot].kind = row.kind /\ inv'[p][row.slot].count >= row.count
  <2> DEFINE s == list[r][1]
             row == RowOf(p, s, list[r][2], price)
  <2>1. r \in DOMAIN list /\ selling'[p][r] = row
    BY <1>2, <1>3, <1>6
  <2>2. inv[p][s] \in Goodly /\ list[r][2] \in Nat /\ list[r][2] <= inv[p][s].count
    BY <2>1, ListingFound
  <2>3. inv[p][s].count \in Nat /\ 1 <= inv[p][s].count
    BY <2>2, GoodlyStack
  <2>4. row.slot = s /\ row.kind = inv[p][s].kind /\ (row.count = list[r][2] \/ row.count = 1)
    BY DEF RowOf
  <2> HIDE DEF s, row
  <2>5. inv'[p][s] = inv[p][s]
    BY <1>1
  <2> QED
    BY <2>1, <2>2, <2>3, <2>4, <2>5
<1>7. RowsBacked'
  <2> SUFFICES ASSUME NEW u \in Player, u \notin swapped', open'[u], NEW r \in SellRow, selling'[u][r] # NoRow
               PROVE  /\ inv'[u][selling'[u][r].slot].kind = selling'[u][r].kind
                      /\ inv'[u][selling'[u][r].slot].count >= selling'[u][r].count
    BY DEF RowsBacked
  <2>1. CASE u = p
    BY <1>6, <2>1
  <2>2. CASE u # p
    <3>1. open[u] /\ selling'[u] = selling[u] /\ u \notin swapped /\ inv'[u] = inv[u]
      BY <1>1, <1>2, <2>2
    <3> QED
      BY <3>1 DEF StallInv, RowsBacked
  <2> QED
    BY <2>1, <2>2
<1> QED
  BY <1>5, <1>7 DEF StallInv

\* A closed stall shows nothing.
LEMMA CloseBacked ==
  ASSUME TypeInv, StallInv, NEW p \in Player, CloseShop(p)
  PROVE  StallInv'
<1>1. /\ UNCHANGED <<inv, stage, swapped>>
      /\ \A u \in Player \ {p} : selling'[u] = selling[u] /\ open'[u] = open[u]
      /\ \A r \in SellRow : selling'[p][r] = NoRow
      /\ ~open'[p]
  BY DEF CloseShop, Closed, goodsVars, heldVars, TypeInv, StallType
<1>2. Shown'
  BY <1>1 DEF StallInv, Shown
<1>3. RowsBacked'
  BY <1>1 DEF StallInv, RowsBacked
<1> QED
  BY <1>2, <1>3 DEF StallInv

\* What a customer takes out of a slot comes off its row; no other row shows
\* the slot.
LEMMA BuyBacked ==
  ASSUME TypeInv, TypeInv', StallInv, NEW b \in Player, NEW a \in Player, NEW r \in SellRow,
         NEW n \in 1..selling[a][r].count, BuyShop(b, a, r, n)
  PROVE  StallInv'
<1> DEFINE row  == selling[a][r]
           s    == row.slot
           item == inv[a][s]
           t    == NewItemSlot(inv[b], Stack(item.kind, n))
<1>1. /\ a # b /\ s # NoSlot /\ item # Empty /\ ~open[b] /\ open[a]
      /\ UNCHANGED <<stage, open, swapped>>
  BY DEF BuyShop
<1>2. row \in Row
  BY <1>1 DEF TypeInv, StallType, NoRow
<1>3. /\ s \in Slot /\ row.count \in Nat /\ row # NoRow
      /\ n \in Nat /\ 1 <= n /\ n <= row.count
  BY <1>1, <1>2 DEF Row, NoRow
<1>4. inv[a] \in Inventories /\ item \in Stacks /\ item.count \in Nat
  BY <1>3, Put DEF TypeInv, HeldType, Stacks
<1>5. a \notin swapped => item.kind = row.kind /\ item.count >= row.count
  BY <1>1, <1>3 DEF StallInv, RowsBacked
<1> DEFINE Fits(new) ==
             /\ selling' = [selling EXCEPT ![a][r] = new]
             /\ new = NoRow \/ (new.slot = s /\ new.kind = row.kind)
             /\ new # NoRow /\ a \notin swapped =>
                  inv'[a][s].kind = new.kind /\ inv'[a][s].count >= new.count
             /\ \A u \in Player \ {a, b} : inv'[u] = inv[u]
             /\ \A x \in Slot \ {s} : inv'[a][x] = inv[a][x]
<1>6. \E new : Fits(new)
  <2>1. CASE item.count < n
    <3> DEFINE new == [row EXCEPT !.count = item.count]
    <3>1. selling' = [selling EXCEPT ![a][r] = new] /\ UNCHANGED inv
      BY <2>1 DEF BuyShop
    <3>2. new.slot = s /\ new.kind = row.kind /\ new.count = item.count
      BY <1>2 DEF Row
    <3> HIDE DEF new
    <3>3. Fits(new)
      BY <1>4, <1>5, <3>1, <3>2
    <3> QED
      BY <3>3
  <2>2. CASE ~(item.count < n)
    <3> DEFINE new == RowAfter(row, item, n)
    <3>1. /\ selling' = [selling EXCEPT ![a][r] = new]
          /\ inv' = [inv EXCEPT ![a][s] = Less(item, n), ![b][t] = More(inv[b][t], Stack(item.kind, n))]
      BY <2>2 DEF BuyShop
    <3>2. \A u \in Player \ {a, b} : inv'[u] = inv[u]
      BY <3>1 DEF TypeInv, HeldType
    <3>3. inv'[a] = [inv[a] EXCEPT ![s] = Less(item, n)]
      BY <1>1, <3>1 DEF TypeInv, HeldType
    <3>4. inv'[a][s] = Less(item, n) /\ \A x \in Slot \ {s} : inv'[a][x] = inv[a][x]
      BY <1>3, <1>4, <3>3 DEF Inventories
    <3>5. \/ new = NoRow
          \/ /\ new.slot = s /\ new.kind = row.kind /\ new.count = row.count - n
             /\ n < item.count /\ n < row.count
      BY <1>2 DEF RowAfter, Row
    <3>6. n < item.count => Less(item, n).kind = item.kind /\ Less(item, n).count = item.count - n
      BY <1>3, <1>4 DEF Less, Stack
    <3> HIDE DEF new
    <3>7. new # NoRow /\ a \notin swapped =>
            inv'[a][s].kind = new.kind /\ inv'[a][s].count >= new.count
      <4> HIDE DEF row, item
      <4> SUFFICES ASSUME new # NoRow, a \notin swapped
                   PROVE  inv'[a][s].kind = new.kind /\ inv'[a][s].count >= new.count
        OBVIOUS
      <4>1. /\ new.kind = row.kind /\ new.count = row.count - n /\ n < item.count
            /\ inv'[a][s].kind = item.kind /\ inv'[a][s].count = item.count - n
        BY <3>4, <3>5, <3>6
      <4> QED
        BY <1>3, <1>4, <1>5, <4>1
    <3>8. /\ selling' = [selling EXCEPT ![a][r] = new]
          /\ new = NoRow \/ (new.slot = s /\ new.kind = row.kind)
          /\ \A x \in Slot \ {s} : inv'[a][x] = inv[a][x]
      BY <3>1, <3>4, <3>5
    <3> HIDE DEF row, s, item, t
    <3>9. Fits(new)
      BY <3>2, <3>7, <3>8
    <3> QED
      BY <3>9
  <2> QED
    BY <2>1, <2>2
<1>7. PICK new : Fits(new)
  BY <1>6
<1>8. /\ \A u \in Player \ {a} : selling'[u] = selling[u]
      /\ \A x \in SellRow \ {r} : selling'[a][x] = selling[a][x]
      /\ selling'[a][r] = new
  BY <1>7 DEF TypeInv, StallType
<1> HIDE DEF row, item, t
<1>9. Shown'
  <2>1. \A u \in Player : ~open'[u] => \A x \in SellRow : selling'[u][x] = NoRow
    BY <1>1, <1>8 DEF StallInv, Shown
  <2>2. \A u \in Player : stage'[u] = "off" => ~open'[u]
    BY <1>1 DEF StallInv, Shown
  <2>3. ASSUME NEW u \in Player, NEW x \in SellRow, NEW y \in SellRow, x # y, selling'[u][x] # NoRow
        PROVE  selling'[u][x].slot # selling'[u][y].slot
    <3>1. \A z \in SellRow : \/ selling'[u][z] = selling[u][z]
                             \/ /\ u = a /\ z = r
                                /\ selling'[u][z] = NoRow \/ selling'[u][z].slot = selling[u][z].slot
      BY <1>7, <1>8 DEF row
    <3>2. selling[u][x] # NoRow /\ selling'[u][x].slot = selling[u][x].slot
      BY <1>3, <1>8, <2>3, <3>1 DEF row
    <3>3. selling[u][x].slot # selling[u][y].slot /\ selling[u][x].slot \in Slot
      BY <2>3, <3>2 DEF StallInv, Shown, TypeInv, StallType, Row
    <3> QED
      BY <3>1, <3>2, <3>3, SizesAreNat DEF NoRow
  <2> QED
    BY <2>1, <2>2, <2>3 DEF Shown
<1>10. RowsBacked'
  <2> SUFFICES ASSUME NEW u \in Player, u \notin swapped', open'[u], NEW x \in SellRow, selling'[u][x] # NoRow
               PROVE  /\ inv'[u][selling'[u][x].slot].kind = selling'[u][x].kind
                      /\ inv'[u][selling'[u][x].slot].count >= selling'[u][x].count
    BY DEF RowsBacked
  <2>0. u # b /\ open[u] /\ u \notin swapped
    BY <1>1
  <2>1. CASE u = a /\ x = r
    BY <1>7, <1>8, <2>0, <2>1
  <2>2. CASE u = a /\ x # r
    <3>1. selling'[u][x] = selling[u][x] /\ selling[u][x] # NoRow
      BY <1>8, <2>2
    <3>2. selling[u][x].slot # s /\ selling[u][x].slot \in Slot
      BY <1>3, <2>2, <3>1 DEF StallInv, Shown, TypeInv, StallType, Row, row
    <3> QED
      BY <1>7, <2>0, <2>2, <3>1, <3>2 DEF StallInv, RowsBacked
  <2>3. CASE u # a
    BY <1>7, <1>8, <2>0, <2>3 DEF StallInv, RowsBacked
  <2> QED
    BY <2>1, <2>2, <2>3
<1> QED
  BY <1>9, <1>10 DEF StallInv

\* What somebody sells to the owner is put on top.
LEMMA SellBacked ==
  ASSUME TypeInv, TypeInv', StallInv, NEW b \in Player, NEW a \in Player, NEW s \in Slot,
         NEW r \in WantRow, NEW n \in 1..inv[b][s].count, SellShop(b, a, s, r, n)
  PROVE  StallInv'
<1> DEFINE wish == buying[a][r]
           item == inv[b][s]
           m    == IF n > wish.count THEN wish.count ELSE n
           part == Stack(item.kind, m)
           t    == NewItemSlot(inv[a], part)
<1>1. /\ a # b /\ item # Empty /\ item.kind = wish.kind /\ ~open[b] /\ t # NoSlot
      /\ inv' = [inv EXCEPT ![b][s] = Less(item, m), ![a][t] = More(inv[a][t], part)]
      /\ UNCHANGED <<stage, open, selling, swapped>>
  BY DEF SellShop
<1>2. item \in Goodly
  BY <1>1, Put DEF TypeInv, HeldType, Goodly
<1>3. wish \in Wish
  BY <1>1, <1>2, GoodlyStack DEF TypeInv, StallType, NoWish
<1>4. part \in Goodly
  <2>1. m \in Nat /\ 1 <= m /\ m <= item.count
    BY <1>2, <1>3, GoodlyStack DEF Wish
  <2> QED
    BY <1>2, <2>1, PartLeft DEF Goodly
<1> HIDE DEF wish, item, m, part
<1>5. /\ inv'[a] = [inv[a] EXCEPT ![t] = More(inv[a][t], part)]
      /\ \A u \in Player \ {a, b} : inv'[u] = inv[u]
  BY <1>1 DEF TypeInv, HeldType
<1>6. Grows(inv[a], inv'[a])
  BY <1>1, <1>4, <1>5, AddedGrows DEF TypeInv
<1>7. \A u \in Player : open[u] => Grows(inv[u], inv'[u])
  BY <1>1, <1>5, <1>6, SameGrows DEF TypeInv
<1> QED
  BY <1>1, <1>7, StillBacked DEF StallInv, Shown

\* Where goods and stalls are as they were.
LEMMA IdleBacked ==
  ASSUME TypeInv, TypeInv', StallInv, UNCHANGED <<inv, stage, stallVars>>
  PROVE  StallInv'
<1>1. \A u \in Player : Grows(inv[u], inv'[u])
  BY SameGrows DEF TypeInv
<1> QED
  BY <1>1, StillBacked DEF StallInv, Shown, stallVars

\* Of the two who exchange one has no stall open, and the other's is marked.
LEMMA ExchangeBacked ==
  ASSUME TypeInv, TypeInv', StallInv, NEW p \in Player, Exchange(p)
  PROVE  StallInv'
<1>1. CASE ~ \E q \in Player : Complete(p, q)
  BY <1>1, TableTypes, IdleBacked DEF goodsVars, heldVars
<1>2. ASSUME NEW q \in Player, Complete(p, q) PROVE StallInv'
  <2>1. /\ p # q /\ ~open[p] /\ Covers(p) /\ Covers(q)
        /\ inv' = Exchanged(p, q).bags
        /\ swapped' = IF open[q] THEN swapped \cup {q} ELSE swapped
        /\ UNCHANGED <<stage, open, selling>>
    BY <1>2 DEF Complete, Addressed
  <2>2. \A u \in Player \ {p, q} : inv'[u] = inv[u]
    BY <2>1, ExchangedSound
  <2>3. \A u \in Player \ swapped' : open[u] => Grows(inv[u], inv'[u])
    BY <2>1, <2>2, SameGrows DEF TypeInv
  <2> QED
    BY <2>1, <2>3, StillBacked DEF StallInv, Shown
<1> QED
  BY <1>1, <1>2

\* Nobody uses his goods up, wears or sells them while his stall is open.
LEMMA WareBacked ==
  ASSUME TypeInv, TypeInv', StallInv, NEW p \in Player, WareOps(p)
  PROVE  StallInv'
<1>1. ~open[p] /\ UNCHANGED <<stage, stallVars>> /\ \A u \in Player \ {p} : inv'[u] = inv[u]
  <2>1. ASSUME NEW pair \in Requests(p), Equip(p, pair[1], pair[2])
        PROVE  ~open[p] /\ UNCHANGED <<stage, stallVars>> /\ \A u \in Player \ {p} : inv'[u] = inv[u]
    <3>1. UNCHANGED <<stage, stallVars>> /\ ~open[p]
      BY <2>1 DEF Equip, Free, Stays
    <3>2. PICK src, dst : EquipStep(p, src, dst)
      BY <2>1, EquipStepped
    <3>3. UNCHANGED inv \/ \E bag : inv' = [inv EXCEPT ![p] = bag]
      BY <3>2 DEF EquipStep
    <3> QED
      BY <3>1, <3>3 DEF TypeInv, HeldType
  <2>2. CASE \E s \in Slot, saved \in BOOLEAN : Use(p, s, saved)
    BY <2>2 DEF Use, Free, Stays, TypeInv, HeldType
  <2>3. CASE \E list \in Orders, s \in Slot : \E n \in 0..inv[p][s].count : NPCBuy(p, list, s, n)
    <3>1. UNCHANGED <<stage, stallVars>> /\ ~open[p] /\ \E bag : inv' = [inv EXCEPT ![p] = bag]
      BY <2>3 DEF NPCBuy, Free, Stays
    <3> QED
      BY <3>1 DEF TypeInv, HeldType
  <2>4. CASE \E s \in Slot : \E n \in 1..inv[p][s].count : DoDrop(p, s, n)
    BY <2>4 DEF DoDrop, Free, Stays, TypeInv, HeldType
  <2>5. CASE \E n \in 1..MaxLaid : DoDropZuly(p, n)
    BY <2>5 DEF DoDropZuly, Free, Stays, TypeInv, HeldType
  <2>6. CASE \E i \in DOMAIN ground : PickDrop(p, i)
    BY <2>6 DEF PickDrop, Free, Stays, TypeInv, HeldType
  <2> QED
    BY <2>1, <2>2, <2>3, <2>4, <2>5, <2>6 DEF WareOps
<1>2. \A u \in Player : open[u] => Grows(inv[u], inv'[u])
  BY <1>1, SameGrows DEF TypeInv
<1> QED
  BY <1>1, <1>2, StillBacked DEF StallInv, Shown, stallVars

\* Every step keeps the stalls backed.
LEMMA StepBacked == TypeInv /\ StallInv /\ [WareNext]_wareVars => StallInv'
<1> SUFFICES ASSUME TypeInv, StallInv, [WareNext]_wareVars PROVE StallInv'
  OBVIOUS
<1>0. TypeInv'
  BY StepTypes
<1>1. CASE UNCHANGED wareVars
  BY <1>0, <1>1, IdleBacked DEF wareVars, allVars, goodsVars, heldVars
<1>2. ASSUME NEW p \in Player, Sessions(p) \/ Store(p) \/ Exchange(p) \/ WareOps(p) PROVE StallInv'
  BY <1>0, <1>2, SessionBacked, StoreBacked, ExchangeBacked, WareBacked
<1>3. ASSUME NEW p \in Player, Vend(p) PROVE StallInv'
  BY <1>0, <1>3, OpenBacked, CloseBacked, BuyBacked, SellBacked DEF Vend, StallOps
<1>4. ASSUME NEW i \in DOMAIN ground, Expire(i) PROVE StallInv'
  BY <1>0, <1>4, IdleBacked DEF Expire, allVars, goodsVars, heldVars
<1>5. CASE Written
  BY <1>0, <1>5, IdleBacked DEF Written, WriteRow, Execute, heldVars
<1>6. CASE Restart
  <2>1. Forget(Player) /\ \A u \in Player \ Player : inv'[u] = inv[u] /\ stage'[u] = stage[u]
    BY <1>6 DEF Restart, Die
  <2> QED
    BY <1>0, <2>1, ForgetBacked
<1> QED
  BY <1>1, <1>2, <1>3, <1>4, <1>5, <1>6 DEF WareNext

\* A row on show is backed by its slot unless the owner's stall is marked.
THEOREM StallsBacked == WareSpec => []RowsBacked
<1>1. WareInit => StallInv
  BY DEF WareInit, StallInv, Shown, RowsBacked
<1>2. StallInv => RowsBacked
  BY DEF StallInv
<1> QED
  BY InitTypes, StepTypes, <1>1, StepBacked, <1>2, PTL DEF WareSpec

-----------------------------------------------------------------------------
(* The tables: what is not saved is what is held. *)

\* Statements that write what memory has taken back.
Lost(w, away) == w.table = "items" /\ w.owner \in away

\* The last statement for a place writes what is held.
ListSettles ==
  \A i \in 1..Len(writes) :
    \/ Final(writes[i], inv, store) \/ Lost(writes[i], astray)
    \/ \E j \in 1..Len(writes) : i < j /\ Same(writes[j], writes[i])

\* A slot or a cell that no statement is for is in its table already.
BagsAgree ==
  \A p \in Player : Present(p) /\ p \notin astray =>
    \A s \in Slot \ unsaved[p] : Saved(writes, "items", p, s) \/ rows[p][s] = inv[p][s]

\* What a refused withdrawal leaves is the row or a part of it.
Keeps(p, row, cell) ==
  row.kind = cell.kind /\ row.count >= cell.count /\ (p \notin refused => row = cell)

ChestsAgree ==
  \A p \in Player : Present(p) =>
    \A c \in Cell : Saved(writes, "storage", p, c) \/ Keeps(p, cells[p][c], store[p][c])

SaveInv == ListSettles /\ BagsAgree /\ ChestsAgree

\* The last of a set of positions is one of them.
LEMMA LastFound ==
  ASSUME NEW n \in Nat, NEW S \in SUBSET (1..n), S # {}
  PROVE  Max(S) \in S /\ \A x \in S : x <= Max(S)
<1> DEFINE T == {n - x : x \in S}
<1>1. T \in SUBSET Nat /\ T # {}
  <2>1. \A x \in S : n - x \in Nat
    OBVIOUS
  <2> QED
    BY <2>1
<1>2. PICK m \in T : \A t \in T : m <= t
  BY <1>1, LeastExists
<1>3. PICK x \in S : m = n - x
  BY <1>2
<1>4. \A y \in S : n - x <= n - y
  BY <1>2, <1>3
<1>5. \A y \in S : x >= y
  BY <1>3, <1>4
<1>6. \E z \in S : \A y \in S : z >= y
  BY <1>3, <1>5
<1>7. Max(S) \in S /\ \A y \in S : Max(S) >= y
  BY <1>6 DEF Max
<1> QED
  BY <1>7

\* What the tables will hold follows from the statements and what is there.
LEMMA SettledFound ==
  ASSUME SaveType, NEW table, NEW name, NEW p, NEW s
  PROVE  \/ ~Saved(writes, name, p, s) /\ Settled(table, name, p, s) = table[p][s]
         \/ \E i \in 1..Len(writes) :
              /\ writes[i].table = name /\ writes[i].owner = p /\ writes[i].at = s
              /\ Settled(table, name, p, s) = writes[i].value
              /\ \A j \in 1..Len(writes) : i < j => ~Same(writes[j], writes[i])
<1> DEFINE later == {i \in DOMAIN writes :
                       writes[i].table = name /\ writes[i].owner = p /\ writes[i].at = s}
<1>1. DOMAIN writes = 1..Len(writes) /\ Len(writes) \in Nat
  BY LenProperties DEF SaveType
<1>2. Settled(table, name, p, s) = IF later = {} THEN table[p][s] ELSE writes[Max(later)].value
  BY DEF Settled
<1>3. CASE later = {}
  BY <1>1, <1>2, <1>3 DEF Saved
<1>4. CASE later # {}
  <2> DEFINE m == Max(later)
  <2>1. m \in later /\ \A x \in later : x <= m
    BY <1>1, <1>4, LastFound
  <2>2. m \in 1..Len(writes) /\ Settled(table, name, p, s) = writes[m].value
    BY <1>1, <1>2, <1>4, <2>1
  <2> HIDE DEF m
  <2>3. \A j \in 1..Len(writes) : m < j => ~Same(writes[j], writes[m])
    <3> SUFFICES ASSUME NEW j \in 1..Len(writes), m < j, Same(writes[j], writes[m]) PROVE FALSE
      OBVIOUS
    <3>1. j \in later
      BY <1>1, <2>1 DEF Same
    <3> QED
      BY <1>1, <2>1, <2>2, <3>1
  <2> QED
    BY <2>1, <2>2, <2>3
<1> QED
  BY <1>3, <1>4

\* The property follows: the last statement of a place decides, or the table.
LEMMA SaveInvSuffices == TypeInv /\ SaveInv => SavedAgrees
<1> SUFFICES ASSUME TypeInv, SaveInv, NEW p \in Player, Present(p)
             PROVE  /\ p \notin astray =>
                         \A s \in Slot \ unsaved[p] : Settled(rows, "items", p, s) = inv[p][s]
                    /\ \A c \in Cell : Keeps(p, Settled(cells, "storage", p, c), store[p][c])
  BY DEF SavedAgrees, Keeps
<1>1. ASSUME p \notin astray, NEW s \in Slot \ unsaved[p]
      PROVE  Settled(rows, "items", p, s) = inv[p][s]
  <2>1. CASE ~Saved(writes, "items", p, s) /\ Settled(rows, "items", p, s) = rows[p][s]
    BY <1>1, <2>1 DEF SaveInv, BagsAgree
  <2>2. ASSUME NEW i \in 1..Len(writes),
               writes[i].table = "items", writes[i].owner = p, writes[i].at = s,
               Settled(rows, "items", p, s) = writes[i].value,
               \A j \in 1..Len(writes) : i < j => ~Same(writes[j], writes[i])
        PROVE  Settled(rows, "items", p, s) = inv[p][s]
    BY <1>1, <2>2 DEF SaveInv, ListSettles, Lost, Final
  <2> QED
    BY <2>1, <2>2, SettledFound DEF TypeInv
<1>2. ASSUME NEW c \in Cell
      PROVE  Keeps(p, Settled(cells, "storage", p, c), store[p][c])
  <2>1. CASE ~Saved(writes, "storage", p, c) /\ Settled(cells, "storage", p, c) = cells[p][c]
    BY <2>1 DEF SaveInv, ChestsAgree
  <2>2. ASSUME NEW i \in 1..Len(writes),
               writes[i].table = "storage", writes[i].owner = p, writes[i].at = c,
               Settled(cells, "storage", p, c) = writes[i].value,
               \A j \in 1..Len(writes) : i < j => ~Same(writes[j], writes[i])
        PROVE  Keeps(p, Settled(cells, "storage", p, c), store[p][c])
    <3>1. Settled(cells, "storage", p, c) = store[p][c]
      BY <2>2 DEF SaveInv, ListSettles, Lost, Final
    <3>2. store[p][c].count \in Nat
      BY Put DEF TypeInv, HeldType, Stacks
    <3> QED
      BY <3>1, <3>2 DEF Keeps
  <2> QED
    BY <2>1, <2>2, SettledFound DEF TypeInv
<1> QED
  BY <1>1, <1>2

\* Where nothing of all this changes.
LEMMA IdleAgrees ==
  ASSUME SaveInv,
         UNCHANGED <<stage, inv, store, rows, cells, unsaved, writes, refused, astray>>
  PROVE  SaveInv'
<1>1. ListSettles'
  BY DEF SaveInv, ListSettles, Lost
<1>2. BagsAgree'
  BY DEF SaveInv, BagsAgree, Present
<1>3. ChestsAgree'
  BY DEF SaveInv, ChestsAgree, Present, Keeps
<1> QED
  BY <1>1, <1>2, <1>3 DEF SaveInv

\* A handler that lists a statement for whatever it changes.
Lists ==
  /\ writes = <<>> /\ UNCHANGED <<stage, rows, cells>>
  /\ refused \subseteq refused' /\ astray \subseteq astray'
  /\ \A u \in Player : unsaved[u] \subseteq unsaved'[u]
  /\ ListSettles'
  /\ \A u \in Player, s \in Slot : inv'[u][s] # inv[u][s] =>
       s \in unsaved'[u] \/ Saved(writes', "items", u, s)
  /\ \A u \in Player, c \in Cell : store'[u][c] # store[u][c] =>
       Keeps(u, cells[u][c], store[u][c])' \/ Saved(writes', "storage", u, c)

\* Such a handler keeps the tables in agreement.
LEMMA HandlerAgrees ==
  ASSUME TypeInv, SaveInv, Lists
  PROVE  SaveInv'
<1>1. \A name, u, s : ~Saved(writes, name, u, s)
  <2>1. writes = <<>> /\ Len(writes) = 0
    BY DEF Lists
  <2> QED
    BY <2>1 DEF Saved
<1>2. BagsAgree'
  <2> SUFFICES ASSUME NEW p \in Player, Present(p)', p \notin astray',
                      NEW s \in Slot, s \notin unsaved'[p]
               PROVE  Saved(writes', "items", p, s) \/ rows'[p][s] = inv'[p][s]
    BY DEF BagsAgree
  <2>1. Present(p) /\ p \notin astray /\ s \notin unsaved[p] /\ UNCHANGED rows
    BY DEF Lists, Present
  <2>2. rows[p][s] = inv[p][s]
    BY <1>1, <2>1 DEF SaveInv, BagsAgree
  <2> QED
    BY <2>1, <2>2 DEF Lists
<1>3. ChestsAgree'
  <2> SUFFICES ASSUME NEW p \in Player, Present(p)', NEW c \in Cell
               PROVE  Saved(writes', "storage", p, c) \/ Keeps(p, cells[p][c], store[p][c])'
    BY DEF ChestsAgree
  <2>1. Present(p) /\ UNCHANGED cells /\ refused \subseteq refused'
    BY DEF Lists, Present
  <2>2. Keeps(p, cells[p][c], store[p][c])
    BY <1>1, <2>1 DEF SaveInv, ChestsAgree
  <2> QED
    BY <2>1, <2>2 DEF Lists, Keeps
<1> QED
  BY <1>2, <1>3 DEF Lists, SaveInv

\* Executing the first statement of the list.
LEMMA WrittenAgrees ==
  ASSUME TypeInv, SaveInv, Written
  PROVE  SaveInv'
<1> DEFINE w == Head(writes)
           n == Len(writes)
<1>1. /\ writes # <<>>
      /\ rows'  = IF w.table = "items" THEN [rows EXCEPT ![w.owner][w.at] = w.value] ELSE rows
      /\ cells' = IF w.table = "storage" THEN [cells EXCEPT ![w.owner][w.at] = w.value] ELSE cells
      /\ unsaved' = IF w.table = "items" THEN [unsaved EXCEPT ![w.owner] = @ \ {w.at}] ELSE unsaved
      /\ writes' = Tail(writes)
      /\ UNCHANGED <<stage, inv, store, refused, astray>>
  BY DEF Written, WriteRow, Execute, heldVars, missVars
<1>2. /\ w = writes[1] /\ n \in Nat /\ n >= 1 /\ w \in Statements
      /\ Len(writes') = n - 1
      /\ \A i \in 1..(n - 1) : writes'[i] = writes[i + 1]
  BY <1>1, HeadTailProperties, LenProperties, EmptySeq DEF TypeInv, SaveType
<1>3. /\ w.owner \in Player
      /\ w.table = "items" => w.at \in Slot
      /\ w.table = "storage" => w.at \in Cell
  BY <1>2 DEF Statements, ItemSaves, CellSaves, ZulySaves
<1> HIDE DEF w, n
<1>4. ListSettles'
  <2> SUFFICES ASSUME NEW i \in 1..(n - 1)
               PROVE  \/ Final(writes'[i], inv', store') \/ Lost(writes'[i], astray')
                      \/ \E j \in 1..(n - 1) : i < j /\ Same(writes'[j], writes'[i])
    BY <1>2 DEF ListSettles
  <2>1. i + 1 \in 1..n /\ writes'[i] = writes[i + 1]
    BY <1>2
  <2>2. CASE Final(writes[i + 1], inv, store) \/ Lost(writes[i + 1], astray)
    BY <1>1, <2>1, <2>2 DEF Lost
  <2>3. ASSUME NEW j \in 1..n, i + 1 < j, Same(writes[j], writes[i + 1])
        PROVE  \E k \in 1..(n - 1) : i < k /\ Same(writes'[k], writes'[i])
    <3>1. j - 1 \in 1..(n - 1) /\ i < j - 1 /\ writes'[j - 1] = writes[j]
      BY <1>2, <2>3
    <3> QED
      BY <2>1, <2>3, <3>1
  <2> QED
    BY <2>1, <2>2, <2>3 DEF SaveInv, ListSettles, n
<1>5. ASSUME NEW name, NEW u, NEW s, Saved(writes, name, u, s), ~Saved(writes', name, u, s)
      PROVE  /\ w.table = name /\ w.owner = u /\ w.at = s
             /\ Final(w, inv, store) \/ Lost(w, astray)
  <2>1. PICK i \in 1..n : writes[i].table = name /\ writes[i].owner = u /\ writes[i].at = s
    BY <1>5 DEF Saved, n
  <2>2. \A j \in 2..n : ~(writes[j].table = name /\ writes[j].owner = u /\ writes[j].at = s)
    <3> SUFFICES ASSUME NEW j \in 2..n, writes[j].table = name, writes[j].owner = u, writes[j].at = s
                 PROVE  FALSE
      OBVIOUS
    <3>1. j - 1 \in 1..(n - 1) /\ writes'[j - 1] = writes[j]
      BY <1>2
    <3> QED
      BY <1>2, <1>5, <3>1 DEF Saved
  <2>3. i = 1
    BY <1>2, <2>1, <2>2
  <2>4. w.table = name /\ w.owner = u /\ w.at = s
    BY <1>2, <2>1, <2>3
  <2>5. \A j \in 1..n : 1 < j => ~Same(writes[j], w)
    BY <1>2, <2>2, <2>4 DEF Same
  <2> QED
    BY <1>2, <2>4, <2>5 DEF SaveInv, ListSettles, n
<1>6. BagsAgree'
  <2> SUFFICES ASSUME NEW p \in Player, Present(p), p \notin astray,
                      NEW s \in Slot, s \notin unsaved'[p], ~Saved(writes', "items", p, s)
               PROVE  rows'[p][s] = inv[p][s]
    BY <1>1 DEF BagsAgree, Present
  <2>1. /\ rows \in [Player -> Inventories] /\ rows[p] \in Inventories /\ unsaved \in [Player -> SUBSET Slot]
        /\ rows[w.owner] \in Inventories
    BY <1>3 DEF TypeInv, RowType, HeldType
  <2>2. CASE w.table = "items" /\ w.owner = p /\ w.at = s
    <3>1. rows'[p][s] = w.value
      BY <1>1, <2>1, <2>2 DEF Inventories
    <3>2. Final(w, inv, store)
      <4>1. Saved(writes, "items", p, s)
        BY <1>2, <2>2 DEF Saved, n
      <4> QED
        BY <1>5, <2>2, <4>1 DEF Lost
    <3> QED
      BY <2>2, <3>1, <3>2 DEF Final
  <2>3. CASE ~(w.table = "items" /\ w.owner = p /\ w.at = s)
    <3>1. s \notin unsaved[p]
      BY <1>1, <1>3, <2>1, <2>3
    <3>2. rows'[p][s] = rows[p][s]
      BY <1>1, <1>3, <2>1, <2>3 DEF Inventories
    <3>3. ~Saved(writes, "items", p, s)
      BY <1>5, <2>3
    <3> QED
      BY <3>1, <3>2, <3>3 DEF SaveInv, BagsAgree
  <2> QED
    BY <2>2, <2>3
<1>7. ChestsAgree'
  <2> SUFFICES ASSUME NEW p \in Player, Present(p), NEW c \in Cell, ~Saved(writes', "storage", p, c)
               PROVE  Keeps(p, cells'[p][c], store[p][c])
    BY <1>1 DEF ChestsAgree, Present, Keeps
  <2>1. /\ cells \in [Player -> Storages] /\ cells[p] \in Storages /\ cells[w.owner] \in Storages
        /\ store[p][c].count \in Nat
    BY <1>3, Put DEF TypeInv, RowType, HeldType, Stacks
  <2>2. CASE w.table = "storage" /\ w.owner = p /\ w.at = c
    <3>1. cells'[p][c] = w.value
      BY <1>1, <2>1, <2>2 DEF Storages
    <3>2. Final(w, inv, store)
      <4>1. Saved(writes, "storage", p, c)
        BY <1>2, <2>2 DEF Saved, n
      <4> QED
        BY <1>5, <2>2, <4>1 DEF Lost
    <3> QED
      BY <2>1, <2>2, <3>1, <3>2 DEF Final, Keeps
  <2>3. CASE ~(w.table = "storage" /\ w.owner = p /\ w.at = c)
    <3>1. cells'[p][c] = cells[p][c]
      BY <1>1, <1>3, <2>1, <2>3 DEF Storages
    <3>2. ~Saved(writes, "storage", p, c)
      BY <1>5, <2>3
    <3> QED
      BY <3>1, <3>2 DEF SaveInv, ChestsAgree
  <2> QED
    BY <2>2, <2>3
<1> QED
  BY <1>4, <1>6, <1>7 DEF SaveInv

\* A list of statements for what is held settles it.
LEMMA FinalSettles ==
  ASSUME \A i \in 1..Len(writes') : Final(writes'[i], inv', store')
  PROVE  ListSettles'
BY DEF ListSettles

\* What lists of one to three hold.
LEMMA ListOf ==
  /\ \A a : 1 \in 1..Len(<<a>>) /\ <<a>>[1] = a /\ \A i \in 1..Len(<<a>>) : <<a>>[i] = a
  /\ \A a, b : /\ 1 \in 1..Len(<<a, b>>) /\ 2 \in 1..Len(<<a, b>>)
               /\ <<a, b>>[1] = a /\ <<a, b>>[2] = b
               /\ \A i \in 1..Len(<<a, b>>) : <<a, b>>[i] \in {a, b}
  /\ \A a, b, c : /\ 1 \in 1..Len(<<a, b, c>>) /\ 2 \in 1..Len(<<a, b, c>>)
                  /\ <<a, b, c>>[1] = a /\ <<a, b, c>>[2] = b
                  /\ \A i \in 1..Len(<<a, b, c>>) : <<a, b, c>>[i] \in {a, b, c}
OBVIOUS

\* A statement that is on a list saves its place.
LEMMA IsSaved ==
  ASSUME NEW list, NEW w, NEW i \in 1..Len(list), list[i] = w
  PROVE  Saved(list, w.table, w.owner, w.at)
BY DEF Saved

\* Only the slots that are named change.
LEMMA OnlyPut ==
  ASSUME HeldType, NEW p \in Player, NEW s \in Slot, NEW x, inv' = [inv EXCEPT ![p][s] = x]
  PROVE  \A u \in Player, z \in Slot : inv'[u][z] # inv[u][z] => u = p /\ z = s
BY DEF HeldType, Inventories

\* A deposit saves the slot and the cell it changed.
LEMMA DepositAgrees ==
  ASSUME TypeInv, SaveInv, NEW p \in Player, NEW s \in Slot, NEW n \in 1..inv[p][s].count, Deposit(p, s, n)
  PROVE  SaveInv'
<1> DEFINE item == Stack(inv[p][s].kind, n)
           c    == NewStorageItemSlot(store[p], item)
<1>1. /\ writes = <<>> /\ c # NoSlot
      /\ inv' = [inv EXCEPT ![p][s] = Less(inv[p][s], n)]
      /\ store' = [store EXCEPT ![p][c] = More(store[p][c], item)]
      /\ writes' = <<SaveSlot41(p, s, inv'[p]), SaveSlotStorage(p, c, store'[p]),
                     SaveSlot41(p, s, inv'[p])>>
      /\ UNCHANGED <<stage, unsaved, rows, cells, refused, astray>>
  BY DEF Deposit, Ready, Saves, savedVars, missVars
<1> HIDE DEF c, item
<1> DEFINE a == SaveSlot41(p, s, inv'[p])
           b == SaveSlotStorage(p, c, store'[p])
<1>2. /\ a.table = "items" /\ a.owner = p /\ a.at = s /\ Final(a, inv', store')
      /\ b.table = "storage" /\ b.owner = p /\ b.at = c /\ Final(b, inv', store')
  BY DEF Final, SaveSlot41, SaveSlotStorage
<1>6. writes' = <<a, b, a>>
  BY <1>1
<1> HIDE DEF a, b
<1>3. ListSettles'
  BY <1>2, <1>6, ListOf, FinalSettles
<1>4. Saved(writes', "items", p, s) /\ Saved(writes', "storage", p, c)
  BY <1>2, <1>6, ListOf, IsSaved
<1>5. /\ \A u \in Player, z \in Slot : inv'[u][z] # inv[u][z] => u = p /\ z = s
      /\ \A u \in Player, d \in Cell : store'[u][d] # store[u][d] => u = p /\ d = c
  BY <1>1 DEF TypeInv, HeldType, Inventories, Storages
<1> QED
  BY <1>1, <1>3, <1>4, <1>5, HandlerAgrees DEF Lists

\* A withdrawal reads the cell again before it takes from it.  The one that finds
\* no room has read a row that is not empty.
LEMMA WithdrawAgrees ==
  ASSUME TypeInv, SaveInv, NEW p \in Player, NEW c \in Cell,
         NEW n \in 1..GetSlotStorage(p, c)[c].count, Withdraw(p, c, n)
  PROVE  SaveInv'
<1> DEFINE fresh == GetSlotStorage(p, c)
           item  == Stack(fresh[c].kind, n)
           s     == NewItemSlot(inv[p], item)
<1>1. /\ writes = <<>> /\ fresh[c] # Empty
      /\ \/ /\ s = NoSlot /\ store' = [store EXCEPT ![p] = PutBack(fresh, c, n)]
            /\ refused' = refused \cup {p} /\ UNCHANGED <<inv, unsaved, writes>>
         \/ /\ s # NoSlot /\ store' = [store EXCEPT ![p] = [fresh EXCEPT ![c] = Less(fresh[c], n)]]
            /\ inv' = [inv EXCEPT ![p][s] = More(inv[p][s], item)]
            /\ writes' = <<SaveSlotStorage(p, c, store'[p]), SaveSlot41(p, s, inv'[p])>>
            /\ UNCHANGED <<unsaved, refused>>
      /\ UNCHANGED <<stage, rows, cells, astray>>
  BY DEF Withdraw, Ready, Saves, savedVars
<1>2. /\ fresh \in Storages /\ fresh[c] \in Stacks /\ WellFormed(fresh[c])
      /\ cells[p] \in Storages /\ store[p] \in Storages
  BY FreshTypes, Put DEF TypeInv, HeldType, RowType
<1>3. \A d \in Cell \ {c} : fresh[d] = store[p][d]
  BY <1>2 DEF GetSlotStorage, Storages
<1>4. n \in Nat /\ n <= fresh[c].count /\ fresh[c].count \in Nat
  BY <1>2 DEF Stacks
<1>5. CASE s = NoSlot /\ store' = [store EXCEPT ![p] = PutBack(fresh, c, n)]
           /\ refused' = refused \cup {p} /\ UNCHANGED <<inv, unsaved, writes>>
  <2>1. store'[p] = [fresh EXCEPT ![c] = Stack(fresh[c].kind, n)] /\ \A u \in Player \ {p} : store'[u] = store[u]
    BY <1>5 DEF TypeInv, HeldType, PutBack
  <2>2. store'[p][c] = Stack(fresh[c].kind, n) /\ \A d \in Cell \ {c} : store'[p][d] = store[p][d]
    BY <1>2, <1>3, <2>1 DEF Storages
  <2>3. cells[p][c].kind = fresh[c].kind /\ cells[p][c].count >= n
    <3>1. CASE cells[p][c] = Empty
      <4>1. fresh[c] = store[p][c] /\ fresh[c].kind # NoKind
        BY <1>1, <1>2, <3>1, GoodlyStack DEF GetSlotStorage, Goodly
      <4>2. ~Saved(writes, "storage", p, c) /\ Present(p)
        <5>1. Len(writes) = 0 /\ stage[p] = "in"
          BY <1>1 DEF Withdraw, Ready
        <5> QED
          BY <5>1 DEF Saved, Present
      <4>3. cells[p][c].kind = store[p][c].kind
        BY <4>2 DEF SaveInv, ChestsAgree, Keeps
      <4> QED
        BY <3>1, <4>1, <4>3, GoodlyStack
    <3>2. CASE cells[p][c] # Empty
      <4>1. fresh[c] = cells[p][c]
        BY <1>2, <3>2 DEF GetSlotStorage, Storages
      <4> QED
        BY <1>4, <4>1
    <3> QED
      BY <3>1, <3>2
  <2>4. Keeps(p, cells[p][c], store[p][c])'
    BY <1>1, <1>5, <2>2, <2>3 DEF Keeps, Stack
  <2>5. ListSettles'
    BY <1>1, <1>5 DEF ListSettles
  <2>6. \A u \in Player, d \in Cell : store'[u][d] # store[u][d] => u = p /\ d = c
    BY <2>1, <2>2
  <2> HIDE DEF fresh, item, s
  <2> QED
    BY <1>1, <1>5, <2>4, <2>5, <2>6, HandlerAgrees DEF Lists
<1>6. CASE s # NoSlot /\ store' = [store EXCEPT ![p] = [fresh EXCEPT ![c] = Less(fresh[c], n)]]
           /\ inv' = [inv EXCEPT ![p][s] = More(inv[p][s], item)]
           /\ writes' = <<SaveSlotStorage(p, c, store'[p]), SaveSlot41(p, s, inv'[p])>>
           /\ UNCHANGED <<unsaved, refused>>
  <2>1. store'[p] = [fresh EXCEPT ![c] = Less(fresh[c], n)] /\ \A u \in Player \ {p} : store'[u] = store[u]
    BY <1>6 DEF TypeInv, HeldType
  <2>2. \A d \in Cell \ {c} : store'[p][d] = store[p][d]
    BY <1>2, <1>3, <2>1 DEF Storages
  <2>3. \A u \in Player, d \in Cell : store'[u][d] # store[u][d] => u = p /\ d = c
    BY <2>1, <2>2
  <2> HIDE DEF fresh, item, s
  <2> DEFINE a == SaveSlotStorage(p, c, store'[p])
             b == SaveSlot41(p, s, inv'[p])
  <2>4. /\ a.table = "storage" /\ a.owner = p /\ a.at = c /\ Final(a, inv', store')
        /\ b.table = "items" /\ b.owner = p /\ b.at = s /\ Final(b, inv', store')
    BY DEF Final, SaveSlot41, SaveSlotStorage
  <2>8. writes' = <<a, b>>
    BY <1>6
  <2> HIDE DEF a, b
  <2>5. ListSettles'
    BY <2>4, <2>8, ListOf, FinalSettles
  <2>6. Saved(writes', "items", p, s) /\ Saved(writes', "storage", p, c)
    BY <2>4, <2>8, ListOf, IsSaved
  <2>7. \A u \in Player, z \in Slot : inv'[u][z] # inv[u][z] => u = p /\ z = s
    BY <1>6 DEF TypeInv, HeldType, Inventories
  <2> QED
    BY <1>1, <1>6, <2>3, <2>5, <2>6, <2>7, HandlerAgrees DEF Lists
<1> QED
  BY <1>1, <1>5, <1>6

\* All packets of the storage.
LEMMA StoreAgrees ==
  ASSUME TypeInv, SaveInv, NEW p \in Player, Store(p)
  PROVE  SaveInv'
<1>1. ASSUME DepositZuly(p, 1) \/ WithdrawZuly(p, 1) PROVE SaveInv'
  <2>1. /\ writes = <<>> /\ UNCHANGED <<stage, inv, store, unsaved, rows, cells, refused, astray>>
        /\ \E n : writes' = <<SaveZulyStorage(p, n)>>
    BY <1>1 DEF DepositZuly, WithdrawZuly, Ready, Saves, savedVars, missVars
  <2>2. PICK n : writes' = <<SaveZulyStorage(p, n)>>
    BY <2>1
  <2>3. Final(SaveZulyStorage(p, n), inv', store')
    BY DEF Final, SaveZulyStorage
  <2>4. ListSettles'
    BY <2>2, <2>3, ListOf, FinalSettles
  <2> QED
    BY <2>1, <2>4, HandlerAgrees DEF Lists
<1> QED
  BY <1>1, DepositAgrees, WithdrawAgrees DEF Store, StorageOps

\* One slot changes and is saved.
LEMMA OneSlotAgrees ==
  ASSUME TypeInv, SaveInv, NEW p \in Player, NEW s \in Slot, NEW x, writes = <<>>,
         inv' = [inv EXCEPT ![p][s] = x], writes' = <<SaveSlot41(p, s, inv'[p])>>,
         UNCHANGED <<stage, store, unsaved, rows, cells, refused, astray>>
  PROVE  SaveInv'
<1> DEFINE a == SaveSlot41(p, s, inv'[p])
<1>1. a.table = "items" /\ a.owner = p /\ a.at = s /\ Final(a, inv', store')
  BY DEF Final, SaveSlot41
<1>2. writes' = <<a>>
  OBVIOUS
<1> HIDE DEF a
<1>6. \A i \in 1..Len(<<a>>) : <<a>>[i] = a
  BY ListOf
<1>7. 1 \in 1..Len(<<a>>) /\ <<a>>[1] = a
  BY ListOf
<1>3. ListSettles'
  BY <1>1, <1>2, <1>6, FinalSettles
<1>4. Saved(writes', "items", p, s)
  BY <1>1, <1>2, <1>7, IsSaved
<1>5. \A u \in Player, z \in Slot : inv'[u][z] # inv[u][z] => u = p /\ z = s
  BY OnlyPut DEF TypeInv
<1> QED
  BY <1>3, <1>4, <1>5, HandlerAgrees DEF Lists

\* A slot of each of two players changes, and both are saved.
LEMMA TwoSlotsAgree ==
  ASSUME TypeInv, SaveInv, NEW p \in Player, NEW q \in Player, p # q, NEW s, NEW t, NEW x, NEW y,
         writes = <<>>, inv' = [inv EXCEPT ![p][s] = x, ![q][t] = y],
         \/ writes' = <<SaveSlot41(p, s, inv'[p]), SaveSlot41(q, t, inv'[q])>>
         \/ writes' = <<SaveSlot41(q, t, inv'[q]), SaveSlot41(p, s, inv'[p])>>,
         UNCHANGED <<stage, store, unsaved, rows, cells, refused, astray>>
  PROVE  SaveInv'
<1> DEFINE a == SaveSlot41(p, s, inv'[p])
           b == SaveSlot41(q, t, inv'[q])
<1>1. /\ a.table = "items" /\ a.owner = p /\ a.at = s /\ Final(a, inv', store')
      /\ b.table = "items" /\ b.owner = q /\ b.at = t /\ Final(b, inv', store')
  BY DEF Final, SaveSlot41
<1>2. writes' = <<a, b>> \/ writes' = <<b, a>>
  OBVIOUS
<1> HIDE DEF a, b
<1>6. /\ \A i \in 1..Len(writes') : writes'[i] \in {a, b}
      /\ \E i \in 1..Len(writes') : writes'[i] = a
      /\ \E i \in 1..Len(writes') : writes'[i] = b
  BY <1>2, ListOf
<1>3. ListSettles'
  BY <1>1, <1>6, FinalSettles
<1>4. Saved(writes', "items", p, s) /\ Saved(writes', "items", q, t)
  BY <1>1, <1>6, IsSaved
<1>5. \A u \in Player, z \in Slot : inv'[u][z] # inv[u][z] => (u = p /\ z = s) \/ (u = q /\ z = t)
  BY DEF TypeInv, HeldType, Inventories
<1> QED
  BY <1>3, <1>4, <1>5, HandlerAgrees DEF Lists

\* A sale over a stall saves the two slots it changed.
LEMMA VendAgrees ==
  ASSUME TypeInv, SaveInv, NEW p \in Player, Vend(p)
  PROVE  SaveInv'
<1>1. ASSUME NEW list \in Listings(p), NEW wish \in Wishes, NEW price \in Price, OpenShop(p, list, wish, price)
      PROVE  SaveInv'
  BY <1>1, IdleAgrees DEF OpenShop, goodsVars, heldVars, savedVars, missVars
<1>2. CASE CloseShop(p)
  BY <1>2, IdleAgrees DEF CloseShop, goodsVars, heldVars, savedVars, missVars
<1>3. ASSUME NEW a \in Player, NEW r \in SellRow, NEW n \in 1..selling[a][r].count, BuyShop(p, a, r, n)
      PROVE  SaveInv'
  <2> DEFINE row  == selling[a][r]
             item == inv[a][row.slot]
             t    == NewItemSlot(inv[p], Stack(item.kind, n))
  <2>1. /\ writes = <<>> /\ a # p /\ UNCHANGED <<stage, store, rows, cells, refused, astray>>
        /\ \/ UNCHANGED <<inv, unsaved, writes>>
           \/ /\ inv' = [inv EXCEPT ![a][row.slot] = Less(item, n),
                                    ![p][t] = More(inv[p][t], Stack(item.kind, n))]
              /\ writes' = <<SaveSlot41(p, t, inv'[p]), SaveSlot41(a, row.slot, inv'[a])>>
              /\ UNCHANGED unsaved
    BY <1>3 DEF BuyShop, Ready, Saves, BuyWrites, savedVars, missVars
  <2>2. CASE UNCHANGED <<inv, unsaved, writes>>
    BY <2>1, <2>2, IdleAgrees
  <2>3. CASE /\ inv' = [inv EXCEPT ![a][row.slot] = Less(item, n),
                                   ![p][t] = More(inv[p][t], Stack(item.kind, n))]
             /\ writes' = <<SaveSlot41(p, t, inv'[p]), SaveSlot41(a, row.slot, inv'[a])>>
             /\ UNCHANGED unsaved
    <3> DEFINE s == row.slot
               x == Less(item, n)
               y == More(inv[p][t], Stack(item.kind, n))
    <3>1. /\ inv' = [inv EXCEPT ![a][s] = x, ![p][t] = y]
          /\ writes' = <<SaveSlot41(p, t, inv'[p]), SaveSlot41(a, s, inv'[a])>>
      BY <2>3
    <3>2. /\ writes = <<>> /\ a # p
          /\ UNCHANGED <<stage, store, unsaved, rows, cells, refused, astray>>
      BY <2>1, <2>3
    <3> HIDE DEF s, x, y, t
    <3> QED
      BY <3>1, <3>2, TwoSlotsAgree
  <2> QED
    BY <2>1, <2>2, <2>3
<1>4. ASSUME NEW a \in Player, NEW s \in Slot, NEW r \in WantRow, NEW n \in 1..inv[p][s].count,
             SellShop(p, a, s, r, n)
      PROVE  SaveInv'
  <2> DEFINE wish == buying[a][r]
             item == inv[p][s]
             m    == IF n > wish.count THEN wish.count ELSE n
             t    == NewItemSlot(inv[a], Stack(item.kind, m))
             x    == Less(item, m)
             y    == More(inv[a][t], Stack(item.kind, m))
  <2>1. /\ writes = <<>> /\ a # p
        /\ inv' = [inv EXCEPT ![p][s] = x, ![a][t] = y]
        /\ writes' = <<SaveSlot41(p, s, inv'[p]), SaveSlot41(a, t, inv'[a])>>
        /\ UNCHANGED <<stage, store, unsaved, rows, cells, refused, astray>>
    BY <1>4 DEF SellShop, Ready, Saves, savedVars, missVars
  <2> HIDE DEF t, x, y
  <2> QED
    BY <2>1, TwoSlotsAgree
<1> QED
  BY <1>1, <1>2, <1>3, <1>4 DEF Vend, StallOps

\* The statements of an exchange save both tables.
LEMMA ExchangeAgrees ==
  ASSUME TypeInv, SaveInv, NEW p \in Player, Exchange(p)
  PROVE  SaveInv'
<1>1. CASE ~ \E q \in Player : Complete(p, q)
  BY <1>1, TableTypes, IdleAgrees DEF goodsVars, heldVars, savedVars, missVars
<1>2. ASSUME NEW q \in Player, Complete(p, q) PROVE SaveInv'
  <2> DEFINE deal == Exchanged(p, q)
  <2>1. /\ writes = <<>> /\ p # q /\ Covers(p) /\ Covers(q)
        /\ inv' = deal.bags /\ writes' = deal.saves
        /\ UNCHANGED <<stage, store, unsaved, rows, cells, refused, astray>>
    BY <1>2 DEF Complete, Addressed, Ready, Saves, savedVars, missVars
  <2>2. Tracked(deal)
    BY <2>1, ExchangedSound
  <2> HIDE DEF deal
  <2>3. ListSettles'
    BY <2>1, <2>2 DEF Tracked, Settles, ListSettles
  <2>4. \A u \in Player, s \in Slot : inv'[u][s] # inv[u][s] => Saved(writes', "items", u, s)
    BY <2>1, <2>2 DEF Tracked, Covered
  <2> QED
    BY <2>1, <2>3, <2>4, HandlerAgrees DEF Lists
<1> QED
  BY <1>1, <1>2

\* Of the two slots saved before the shield is taken off one may be saved again;
\* where it finds no room memory is taken back, and the player is astray.
LEMMA EquipAgrees ==
  ASSUME TypeInv, SaveInv, NEW p \in Player, NEW pair \in Requests(p), Equip(p, pair[1], pair[2])
  PROVE  SaveInv'
<1>1. writes = <<>> /\ UNCHANGED <<stage, store, unsaved, rows, cells, refused>>
  BY DEF Equip, Free, Ready, Saves, savedVars
<1>2. PICK src, dst : EquipStep(p, src, dst)
  BY EquipStepped
<1> DEFINE bag   == Swap(inv[p], src, dst)
           room  == NewItemSlot(bag, bag[Shield])
           after == HandsFull(bag, room, src)
           a     == SaveSlot41(p, src, bag)
           b     == SaveSlot41(p, dst, bag)
           c     == SaveSlot41(p, room, after)
           d     == SaveSlot41(p, Shield, after)
<1>3. /\ src \in Slot /\ dst \in Slot /\ bag \in Inventories /\ inv[p] \in Inventories
      /\ \A z \in Slot : bag[z] # inv[p][z] => z = src \/ z = dst
  BY <1>2 DEF EquipStep, Swap, Inventories, TypeInv, HeldType
<1>4. /\ a.table = "items" /\ a.owner = p /\ a.at = src /\ a.value = bag[src]
      /\ b.table = "items" /\ b.owner = p /\ b.at = dst /\ b.value = bag[dst]
      /\ c.table = "items" /\ c.owner = p /\ c.at = room /\ c.value = after[room]
      /\ d.table = "items" /\ d.owner = p /\ d.at = Shield /\ d.value = after[Shield]
  BY DEF SaveSlot41
<1>5. \/ inv' = [inv EXCEPT ![p] = bag] /\ writes' = <<a, b>> /\ UNCHANGED astray
      \/ /\ room \in Slot /\ after \in Inventories
         /\ inv' = [inv EXCEPT ![p] = after]
         /\ writes' = <<a, b>> \o <<c, d>> /\ UNCHANGED astray
      \/ UNCHANGED inv /\ writes' = <<a, b>> /\ astray' = astray \cup {p}
  BY <1>2 DEF EquipStep
<1>6. \A z \in Slot : after[z] # bag[z] => z = room \/ z = Shield
  BY <1>3 DEF HandsFull, Inventories
<1> HIDE DEF a, b, c, d, bag, room, after
<1>7. CASE inv' = [inv EXCEPT ![p] = bag] /\ writes' = <<a, b>> /\ UNCHANGED astray
  <2>1. inv'[p] = bag /\ \A u \in Player \ {p} : inv'[u] = inv[u]
    BY <1>7 DEF TypeInv, HeldType
  <2>2. Final(a, inv', store') /\ Final(b, inv', store')
    BY <1>4, <2>1 DEF Final
  <2>6. \A i \in 1..Len(writes') : writes'[i] \in {a, b}
    BY <1>7, ListOf
  <2>3. ListSettles'
    BY <2>2, <2>6, FinalSettles
  <2>4. Saved(writes', "items", p, src) /\ Saved(writes', "items", p, dst)
    <3>1. /\ Len(writes') = 2 /\ writes'[1] = a /\ writes'[2] = b
      BY <1>7, ListOf
    <3>2. Saved(writes', "items", p, src)
      <4>1. Saved(writes', a.table, a.owner, a.at)
        BY <3>1, IsSaved
      <4> QED
        BY <1>4, <4>1
    <3>3. Saved(writes', "items", p, dst)
      <4>1. Saved(writes', b.table, b.owner, b.at)
        BY <3>1, IsSaved
      <4> QED
        BY <1>4, <4>1
    <3> QED
      BY <3>2, <3>3
  <2>5. \A u \in Player, z \in Slot : inv'[u][z] # inv[u][z] => u = p /\ (z = src \/ z = dst)
    BY <1>3, <2>1
  <2> QED
    BY <1>1, <1>7, <2>3, <2>4, <2>5, HandlerAgrees DEF Lists
<1>8. CASE /\ room \in Slot /\ after \in Inventories
           /\ inv' = [inv EXCEPT ![p] = after]
           /\ writes' = <<a, b>> \o <<c, d>> /\ UNCHANGED astray
  <2>1. inv'[p] = after /\ \A u \in Player \ {p} : inv'[u] = inv[u]
    BY <1>8 DEF TypeInv, HeldType
  <2>2. /\ Len(writes') = 4 /\ writes'[1] = a /\ writes'[2] = b /\ writes'[3] = c /\ writes'[4] = d
    BY <1>8
  <2>3. Final(c, inv', store') /\ Final(d, inv', store')
    BY <1>4, <2>1 DEF Final
  <2>4. ASSUME NEW w \in {a, b}
        PROVE  Final(w, inv', store') \/ Same(c, w) \/ Same(d, w)
    <3>1. w.at \in Slot /\ w.table = "items" /\ w.owner = p /\ w.value = bag[w.at]
      BY <1>3, <1>4, <2>4
    <3>2. CASE after[w.at] = bag[w.at]
      BY <2>1, <3>1, <3>2 DEF Final
    <3>3. CASE after[w.at] # bag[w.at]
      BY <1>4, <1>6, <3>1, <3>3 DEF Same
    <3> QED
      BY <3>2, <3>3
  <2>5. ListSettles'
    <3> SUFFICES ASSUME NEW i \in 1..4
                 PROVE  \/ Final(writes'[i], inv', store')
                        \/ \E j \in 1..4 : i < j /\ Same(writes'[j], writes'[i])
      BY <2>2 DEF ListSettles
    <3>1. CASE i = 1 \/ i = 2
      <4>1. writes'[i] \in {a, b} /\ i < 3 /\ i < 4
        BY <2>2, <3>1
      <4> QED
        BY <2>2, <2>4, <4>1
    <3>2. CASE i = 3 \/ i = 4
      BY <2>2, <2>3, <3>2
    <3> QED
      BY <3>1, <3>2
  <2>6. /\ Saved(writes', "items", p, src) /\ Saved(writes', "items", p, dst)
        /\ Saved(writes', "items", p, room) /\ Saved(writes', "items", p, Shield)
    <3>1. 1 \in 1..Len(writes') /\ 2 \in 1..Len(writes') /\ 3 \in 1..Len(writes') /\ 4 \in 1..Len(writes')
      BY <2>2
    <3> QED
      BY <1>4, <2>2, <3>1, IsSaved
  <2>7. \A u \in Player, z \in Slot : inv'[u][z] # inv[u][z] =>
          u = p /\ (z = src \/ z = dst \/ z = room \/ z = Shield)
    BY <1>3, <1>6, <2>1
  <2> QED
    BY <1>1, <1>8, <2>5, <2>6, <2>7, HandlerAgrees DEF Lists
<1>9. CASE UNCHANGED inv /\ writes' = <<a, b>> /\ astray' = astray \cup {p}
  <2>1. \A i \in 1..Len(writes') : writes'[i] \in {a, b}
    BY <1>9, ListOf
  <2>2. Lost(a, astray') /\ Lost(b, astray')
    BY <1>4, <1>9 DEF Lost
  <2>3. ListSettles'
    <3> SUFFICES ASSUME NEW i \in 1..Len(writes') PROVE Lost(writes'[i], astray')
      BY DEF ListSettles, Lost
    <3> QED
      BY <2>1, <2>2
  <2> QED
    BY <1>1, <1>9, <2>3, HandlerAgrees DEF Lists
<1> QED
  BY <1>5, <1>7, <1>8, <1>9

\* A purchase lists a statement for every slot it changed.
LEMMA ShopAgrees ==
  ASSUME TypeInv, SaveInv, NEW p \in Player, NEW list \in Orders, NEW s \in Slot,
         NEW n \in 0..inv[p][s].count, NPCBuy(p, list, s, n)
  PROVE  SaveInv'
<1>1. PICK deal \in Carts :
        /\ Listed(deal, p) /\ inv' = [inv EXCEPT ![p] = deal.bag]
        /\ writes' = [i \in DOMAIN deal.at |-> SaveSlot41(p, deal.at[i], deal.bag)]
  BY ShopSound
<1>2. writes = <<>> /\ UNCHANGED <<stage, store, unsaved, rows, cells, refused, astray>>
  BY DEF NPCBuy, Free, Ready, Saves, savedVars, missVars
<1>3. DOMAIN deal.at = 1..Len(deal.at) /\ Len(deal.at) \in Nat
  BY LenProperties DEF Carts
<1>4. Len(writes') = Len(deal.at) /\ \A i \in 1..Len(deal.at) : writes'[i] = SaveSlot41(p, deal.at[i], deal.bag)
  BY <1>1, <1>3
<1>5. inv'[p] = deal.bag /\ \A u \in Player \ {p} : inv'[u] = inv[u]
  BY <1>1 DEF TypeInv, HeldType
<1>8. \A i \in 1..Len(deal.at) :
        LET w == writes'[i]
        IN  w.table = "items" /\ w.owner = p /\ w.at = deal.at[i] /\ w.value = deal.bag[deal.at[i]]
  <2> SUFFICES ASSUME NEW i \in 1..Len(deal.at)
               PROVE  LET w == SaveSlot41(p, deal.at[i], deal.bag)
                      IN  w.table = "items" /\ w.owner = p /\ w.at = deal.at[i] /\ w.value = deal.bag[deal.at[i]]
    BY <1>4
  <2> QED
    BY DEF SaveSlot41
<1>6. ListSettles'
  <2>1. \A i \in 1..Len(writes') : Final(writes'[i], inv', store')
    BY <1>4, <1>5, <1>8 DEF Final
  <2> QED
    BY <2>1, FinalSettles
<1>7. ASSUME NEW u \in Player, NEW z \in Slot, inv'[u][z] # inv[u][z]
      PROVE  Saved(writes', "items", u, z)
  <2>1. u = p /\ deal.bag[z] # inv[p][z]
    BY <1>5, <1>7
  <2>2. PICK i \in 1..Len(deal.at) : deal.at[i] = z
    BY <1>1, <2>1 DEF Listed
  <2> QED
    BY <1>4, <1>8, <2>1, <2>2 DEF Saved
<1> QED
  BY <1>2, <1>6, <1>7, HandlerAgrees DEF Lists

\* What a player does with his own goods; using up may leave the slot to savedata.
LEMMA WareAgrees ==
  ASSUME TypeInv, SaveInv, NEW p \in Player, WareOps(p)
  PROVE  SaveInv'
<1>1. ASSUME NEW s \in Slot, NEW saved \in BOOLEAN, Use(p, s, saved) PROVE SaveInv'
  <2> DEFINE x == Less(inv[p][s], 1)
  <2>1. /\ writes = <<>> /\ inv' = [inv EXCEPT ![p][s] = x]
        /\ \/ writes' = <<SaveSlot41(p, s, inv'[p])>> /\ UNCHANGED unsaved
           \/ UNCHANGED writes /\ unsaved' = [unsaved EXCEPT ![p] = @ \cup {s}]
        /\ UNCHANGED <<stage, store, rows, cells, refused, astray>>
    BY <1>1 DEF Use, Free, Ready, Saves, savedVars, missVars
  <2> HIDE DEF x
  <2>2. CASE writes' = <<SaveSlot41(p, s, inv'[p])>> /\ UNCHANGED unsaved
    BY <2>1, <2>2, OneSlotAgrees
  <2>3. CASE UNCHANGED writes /\ unsaved' = [unsaved EXCEPT ![p] = @ \cup {s}]
    <3>1. ListSettles'
      BY <2>1, <2>3 DEF ListSettles
    <3>2. \A u \in Player, z \in Slot : inv'[u][z] # inv[u][z] => z \in unsaved'[u]
      BY <2>1, <2>3, OnlyPut DEF TypeInv, HeldType
    <3>3. \A u \in Player : unsaved[u] \subseteq unsaved'[u]
      BY <2>3 DEF TypeInv, HeldType
    <3> QED
      BY <2>1, <3>1, <3>2, <3>3, HandlerAgrees DEF Lists
  <2> QED
    BY <2>1, <2>2, <2>3
<1>2. ASSUME NEW s \in Slot, NEW n \in 1..inv[p][s].count, DoDrop(p, s, n) PROVE SaveInv'
  <2> DEFINE x == Less(inv[p][s], n)
  <2>1. /\ writes = <<>> /\ inv' = [inv EXCEPT ![p][s] = x]
        /\ writes' = <<SaveSlot41(p, s, inv'[p])>>
        /\ UNCHANGED <<stage, store, unsaved, rows, cells, refused, astray>>
    BY <1>2 DEF DoDrop, Free, Ready, Saves, savedVars, missVars
  <2> HIDE DEF x
  <2> QED
    BY <2>1, OneSlotAgrees
<1>3. ASSUME NEW n \in 1..MaxLaid, DoDropZuly(p, n) PROVE SaveInv'
  BY <1>3, IdleAgrees DEF DoDropZuly, savedVars, missVars
<1>4. ASSUME NEW i \in DOMAIN ground, PickDrop(p, i) PROVE SaveInv'
  <2> DEFINE item == ground[i]
             s    == NewItemSlot(inv[p], item)
             x    == More(inv[p][s], item)
  <2>1. /\ writes = <<>> /\ UNCHANGED <<stage, store, unsaved, rows, cells, refused, astray>>
        /\ \/ UNCHANGED <<inv, writes>>
           \/ /\ item.kind # NoKind /\ s # NoSlot
              /\ inv' = [inv EXCEPT ![p][s] = x]
              /\ writes' = <<SaveSlot41(p, s, inv'[p])>>
    BY <1>4 DEF PickDrop, Free, Ready, Saves, savedVars, missVars
  <2>2. item \in Laid
    BY <1>4, WithoutSound DEF TypeInv
  <2>3. item.kind # NoKind => item \in Goodly
    BY <2>2 DEF Laid
  <2>4. item.kind # NoKind /\ s # NoSlot => s \in Slot
    BY <2>3, SlotFound DEF TypeInv, HeldType
  <2> HIDE DEF item, s, x
  <2> QED
    BY <2>1, <2>4, IdleAgrees, OneSlotAgrees
<1> QED
  BY <1>1, <1>2, <1>3, <1>4, EquipAgrees, ShopAgrees DEF WareOps

\* Saving writes the slots whose signature does not fit; the others agree.
LEMMA SavedataAgrees ==
  ASSUME TypeInv, SaveInv, NEW p \in Player, Savedata(p), writes = <<>>,
         UNCHANGED <<inv, store, writes, refused, astray>>,
         \A u \in Player : Present(u)' => Present(u)
  PROVE  SaveInv'
<1>1. /\ rows' = [rows EXCEPT ![p] = [s \in Slot |-> IF s \in unsaved[p] THEN inv[p][s] ELSE rows[p][s]]]
      /\ unsaved' = [unsaved EXCEPT ![p] = {}] /\ UNCHANGED cells
  BY DEF Savedata
<1>2. \A name, u, s : ~Saved(writes, name, u, s) /\ ~Saved(writes', name, u, s)
  BY DEF Saved
<1>3. ListSettles'
  BY DEF ListSettles
<1>4. BagsAgree'
  <2> SUFFICES ASSUME NEW u \in Player, Present(u)', u \notin astray, NEW s \in Slot, s \notin unsaved'[u]
               PROVE  rows'[u][s] = inv[u][s]
    BY DEF BagsAgree
  <2>1. Present(u) /\ (s \in unsaved[u] \/ rows[u][s] = inv[u][s])
    BY <1>2 DEF SaveInv, BagsAgree
  <2>2. CASE u = p
    <3>1. rows'[p][s] = IF s \in unsaved[p] THEN inv[p][s] ELSE rows[p][s]
      BY <1>1 DEF TypeInv, RowType
    <3> QED
      BY <2>1, <2>2, <3>1
  <2>3. CASE u # p
    BY <1>1, <2>1, <2>3 DEF TypeInv, RowType, HeldType
  <2> QED
    BY <2>2, <2>3
<1>5. ChestsAgree'
  <2> SUFFICES ASSUME NEW u \in Player, Present(u)', NEW c \in Cell
               PROVE  Keeps(u, cells[u][c], store[u][c])
    BY <1>1 DEF ChestsAgree, Keeps
  <2>1. Present(u)
    OBVIOUS
  <2> QED
    BY <1>2, <2>1 DEF SaveInv, ChestsAgree
<1> QED
  BY <1>3, <1>4, <1>5 DEF SaveInv

\* Who comes holds what the tables hold; who leaves is saved.
LEMMA SessionAgrees ==
  ASSUME TypeInv, SaveInv, NEW p \in Player, Sessions(p)
  PROVE  SaveInv'
<1>1. CASE Enter(p)
  <2>1. /\ writes = <<>> /\ stage' = [stage EXCEPT ![p] = "in"]
        /\ inv' = [inv EXCEPT ![p] = rows[p]] /\ store' = [store EXCEPT ![p] = cells[p]]
        /\ refused' = refused \ {p} /\ UNCHANGED <<unsaved, rows, cells, writes, astray>>
    BY <1>1 DEF Enter, Login, savedVars
  <2>2. \A name, u, s : ~Saved(writes, name, u, s) /\ ~Saved(writes', name, u, s)
    BY <2>1 DEF Saved
  <2>3. /\ inv'[p] = rows[p] /\ store'[p] = cells[p]
        /\ \A u \in Player \ {p} : inv'[u] = inv[u] /\ store'[u] = store[u] /\ (Present(u)' => Present(u))
    BY <2>1 DEF TypeInv, HeldType, Present
  <2>4. ListSettles'
    BY <2>1 DEF ListSettles
  <2>5. BagsAgree'
    BY <2>1, <2>2, <2>3 DEF SaveInv, BagsAgree
  <2>6. ChestsAgree'
    <3> SUFFICES ASSUME NEW u \in Player, Present(u)', NEW c \in Cell
                 PROVE  Keeps(u, cells[u][c], store[u][c])'
      BY DEF ChestsAgree
    <3>1. CASE u = p
      <4>1. cells[p][c].count \in Nat
        BY Put DEF TypeInv, RowType, Stacks
      <4> QED
        BY <2>1, <2>3, <3>1, <4>1 DEF Keeps
    <3>2. CASE u # p
      BY <2>1, <2>2, <2>3, <3>2 DEF SaveInv, ChestsAgree, Keeps
    <3> QED
      BY <3>1, <3>2
  <2> QED
    BY <2>4, <2>5, <2>6 DEF SaveInv
<1>2. CASE Save(p)
  <2>1. /\ Savedata(p) /\ writes = <<>> /\ UNCHANGED <<stage, inv, store, writes, refused, astray>>
    BY <1>2 DEF Save, Autosave, Ready, heldVars, missVars
  <2> QED
    BY <2>1, SavedataAgrees DEF Present
<1>3. CASE ToSelect(p)
  <2>1. /\ Savedata(p) /\ writes = <<>> /\ UNCHANGED <<inv, store, writes, refused, astray>>
        /\ stage[p] = "in" /\ stage' = [stage EXCEPT ![p] = "leaving"]
    BY <1>3 DEF ToSelect, CharSelect, Ready, heldVars, missVars
  <2>2. \A u \in Player : Present(u)' => Present(u)
    BY <2>1 DEF Present, TypeInv, HeldType
  <2> QED
    BY <2>1, <2>2, SavedataAgrees
<1>4. CASE Leave(p)
  <2>1. /\ writes = <<>> /\ Freed({p}) /\ UNCHANGED <<writes, refused>>
        /\ stage' = [stage EXCEPT ![p] = "off"]
        /\ IF stage[p] = "in" THEN Savedata(p) ELSE UNCHANGED savedVars
    BY <1>4 DEF Leave, Deleted
  <2>2. \A name, u, s : ~Saved(writes, name, u, s) /\ ~Saved(writes', name, u, s)
    BY <2>1 DEF Saved
  <2>3. /\ ~Present(p)' /\ UNCHANGED cells
        /\ \A u \in Player \ {p} : /\ inv'[u] = inv[u] /\ store'[u] = store[u] /\ rows'[u] = rows[u]
                                   /\ unsaved'[u] = unsaved[u] /\ (Present(u)' => Present(u))
                                   /\ (u \in astray' <=> u \in astray)
    <3>1. UNCHANGED cells /\ \A u \in Player \ {p} : rows'[u] = rows[u]
      BY <2>1 DEF Savedata, savedVars, TypeInv, RowType
    <3> QED
      BY <2>1, <3>1 DEF Freed, TypeInv, HeldType, Present
  <2>4. ListSettles'
    BY <2>1 DEF ListSettles
  <2>5. BagsAgree'
    BY <2>2, <2>3 DEF SaveInv, BagsAgree
  <2>6. ChestsAgree'
    BY <2>1, <2>2, <2>3 DEF SaveInv, ChestsAgree, Keeps
  <2> QED
    BY <2>4, <2>5, <2>6 DEF SaveInv
<1> QED
  BY <1>1, <1>2, <1>3, <1>4 DEF Sessions

\* Every step keeps the tables in agreement.
LEMMA StepAgrees == TypeInv /\ SaveInv /\ [WareNext]_wareVars => SaveInv'
<1> SUFFICES ASSUME TypeInv, SaveInv, [WareNext]_wareVars PROVE SaveInv'
  OBVIOUS
<1>1. CASE UNCHANGED wareVars
  BY <1>1, IdleAgrees DEF wareVars, allVars, goodsVars, heldVars, savedVars, missVars
<1>2. ASSUME NEW p \in Player, Sessions(p) \/ Store(p) \/ Vend(p) \/ Exchange(p) \/ WareOps(p)
      PROVE  SaveInv'
  BY <1>2, SessionAgrees, StoreAgrees, VendAgrees, ExchangeAgrees, WareAgrees
<1>3. ASSUME NEW i \in DOMAIN ground, Expire(i) PROVE SaveInv'
  BY <1>3, IdleAgrees DEF Expire, allVars, goodsVars, heldVars, savedVars, missVars
<1>4. CASE Written
  BY <1>4, WrittenAgrees
<1>5. CASE Restart
  <2>1. writes' = <<>> /\ \A u \in Player : ~Present(u)'
    BY <1>5 DEF Restart, Die, Crash, Present
  <2> QED
    BY <2>1 DEF SaveInv, ListSettles, BagsAgree, ChestsAgree
<1> QED
  BY <1>1, <1>2, <1>3, <1>4, <1>5 DEF WareNext

\* What the tables hold, or will once the statements under way are executed, is
\* what everybody on the map holds.
THEOREM TablesAgree == WareSpec => []SavedAgrees
<1>1. WareInit => SaveInv
  BY DEF WareInit, SaveInv, ListSettles, BagsAgree, ChestsAgree, Present
<1> QED
  BY InitTypes, StepTypes, <1>1, StepAgrees, SaveInvSuffices, PTL DEF WareSpec
=============================================================================
