------------------------------- MODULE Goods -------------------------------
(***************************************************************************)
(* What the characters of a world server own: the inventory and the purse  *)
(* of a CPlayer, the account's storage, and the rows that keep them in the *)
(* database (tables items, storage, characters.zuly, accounts.zulystorage).*)
(*                                                                         *)
(* A handler changes the CPlayer and then writes the slots it touched, row *)
(* by row; the server can die between two of these statements.  They are   *)
(* kept in writes until they are executed.  Handlers, disconnections and   *)
(* the autosave of VisibilityProcess all run under PlayerMutex, so nothing *)
(* of this module happens between them but the death of the server.  The   *)
(* purse is no row of a handler: only savedata writes it.  Of the slots     *)
(* savedata writes those whose signature does not fit their contents; the  *)
(* signature is a part of CItem and moves with it.  The pieces here are    *)
(* plain ones, without refinement or gem, for which the two computations   *)
(* of the signature agree.                                                 *)
(*                                                                         *)
(* A stack is a kind and a number.  Every account here has one character.  *)
(* The game program asks for things it shows: amounts that are in the slot *)
(* or the storage cell it names.                                           *)
(***************************************************************************)
EXTENDS Naturals, Sequences, FiniteSetsExt

CONSTANTS Player,       \* characters, one per account
          Kind,         \* items that are not told apart
          Stackable,    \* those of item types 10 to 12
          StacksStored, \* those of item types 10 and 12
          NSlot,        \* slots of the inventory tabs (4 tabs of 30 in the code)
          Tab,          \* the slots a kind may be put in
          Wear,         \* the slots a kind is worn in
          NCell,        \* cells of the storage (120 or 160 in the code)
          MaxStack,     \* 999 in the code
          Fee           \* what the storage takes per item

NoKind == "none"
NoSlot == 0             \* 0xffff in the code
Slot == 1..NSlot
Cell == 1..NCell

ASSUME GoodsConstants ==
  /\ StacksStored \subseteq Stackable /\ Stackable \subseteq Kind
  /\ NoKind \notin Kind
  /\ NSlot \in Nat /\ NCell \in Nat
  /\ {Tab, Wear} \subseteq [Kind -> SUBSET Slot]
  /\ MaxStack \in Nat /\ Fee \in Nat

VARIABLES
  stage,      \* "off", "in" the game, "leaving": saved by pakCharSelect, not yet deleted
  inv,        \* items
  zulies,     \* CharInfo->Zulies
  store,      \* storageitems
  storeZuly,  \* CharInfo->Storage_Zulies
  rows,       \* table items
  purse,      \* characters.zuly
  cells,      \* table storage
  safe,       \* accounts.zulystorage
  unsaved,    \* slots whose signature does not fit their contents
  writes,     \* statements of the last handler not executed yet
  handler,    \* which handler it was
  refused,    \* history: a withdrawal found no room since he came, and kept the rest from him
  astray      \* history: players whose rows hold a change that memory took back

heldVars  == <<inv, zulies, store, storeZuly>>
savedVars == <<rows, purse, cells, safe>>
missVars  == <<refused, astray>>
goodsVars == <<stage, heldVars, unsaved, savedVars, writes, handler, missVars>>

----------------------------------------------------------------------------
(* Slots and stacks. *)

Stack(k, n) == [kind |-> k, count |-> n]
Stacks == [kind : Kind \cup {NoKind}, count : Nat]
Empty == Stack(NoKind, 0)

\* A slot is empty or holds a stack of legal size, one piece if the kind does not
\* stack, and in the inventory one of its tab or one that is worn in that slot.
WellFormed(item) ==
  item = Empty \/ /\ item.kind \in Kind
                  /\ item.count \in 1..(IF item.kind \in Stackable THEN MaxStack ELSE 1)

Placed(item, s) ==
  WellFormed(item) /\ (item # Empty => s \in Tab[item.kind] \cup Wear[item.kind])

First(S) == IF S = {} THEN NoSlot ELSE Min(S)

\* The first slot that takes the stack without reaching the limit.
Joins(places, within, item) ==
  {s \in within : places[s].kind = item.kind /\ places[s].count + item.count < MaxStack}

NewItemSlot(bag, item) ==
  LET own  == IF item.kind \in Stackable THEN Joins(bag, Tab[item.kind], item) ELSE {}
      free == {s \in Tab[item.kind] : bag[s] = Empty}
  IN  IF own # {} THEN First(own) ELSE First(free)

NewStorageItemSlot(chest, item) ==
  LET own  == IF item.kind \in StacksStored THEN Joins(chest, Cell, item) ELSE {}
      free == {c \in Cell : chest[c] = Empty}
  IN  IF own # {} THEN First(own) ELSE First(free)

\* Mutant: a slot that is used up is not cleared.
LessLeft(item, n) == Stack(item.kind, item.count - n)

Less(item, n) == IF item.count <= n THEN Empty ELSE Stack(item.kind, item.count - n)
More(item, other) == Stack(other.kind, item.count + other.count)

\* How many of a kind slots 1 to n hold.
Held(places, n, k) ==
  LET upTo[i \in 0..n] ==
        IF i = 0 THEN 0
        ELSE IF places[i].kind = k THEN upTo[i - 1] + places[i].count ELSE upTo[i - 1]
  IN  upTo[n]

----------------------------------------------------------------------------
(* The statements of a handler. *)

SaveSlot41(p, s, bag) == [table |-> "items", owner |-> p, at |-> s, value |-> bag[s]]
SaveSlotStorage(p, c, chest) == [table |-> "storage", owner |-> p, at |-> c, value |-> chest[c]]
SaveZulyStorage(p, n) == [table |-> "accounts", owner |-> p, at |-> NoSlot, value |-> n]

Saves(name, list) == writes' = list /\ handler' = name /\ UNCHANGED unsaved

Execute ==
  /\ writes # <<>>
  /\ LET w == Head(writes)
     IN  /\ rows'  = IF w.table = "items" THEN [rows EXCEPT ![w.owner][w.at] = w.value] ELSE rows
         /\ cells' = IF w.table = "storage" THEN [cells EXCEPT ![w.owner][w.at] = w.value] ELSE cells
         /\ safe'  = IF w.table = "accounts" THEN [safe EXCEPT ![w.owner] = w.value] ELSE safe
         /\ unsaved' = IF w.table = "items" THEN [unsaved EXCEPT ![w.owner] = @ \ {w.at}] ELSE unsaved
  /\ writes' = Tail(writes)
  /\ UNCHANGED <<stage, heldVars, purse, handler, missVars>>

\* What a table holds once the statements under way are executed.
Settled(table, name, p, s) ==
  LET later == {i \in DOMAIN writes :
                  writes[i].table = name /\ writes[i].owner = p /\ writes[i].at = s}
  IN  IF later = {} THEN table[p][s] ELSE writes[Max(later)].value

----------------------------------------------------------------------------
(* Sessions. *)

\* He can send a packet, and no handler is at work.
Ready(p) == stage[p] = "in" /\ writes = <<>>

\* GetClientByID finds him.
Present(p) == stage[p] \in {"in", "leaving"}

Savedata(p) ==
  /\ rows' = [rows EXCEPT ![p] = [s \in Slot |-> IF s \in unsaved[p] THEN inv[p][s] ELSE @[s]]]
  /\ unsaved' = [unsaved EXCEPT ![p] = {}]
  /\ purse' = [purse EXCEPT ![p] = zulies[p]]
  /\ UNCHANGED <<cells, safe>>

\* The CPlayer objects of P are deleted.
Freed(P) ==
  /\ inv' = [p \in Player |-> IF p \in P THEN [s \in Slot |-> Empty] ELSE inv[p]]
  /\ store' = [p \in Player |-> IF p \in P THEN [c \in Cell |-> Empty] ELSE store[p]]
  /\ zulies' = [p \in Player |-> IF p \in P THEN 0 ELSE zulies[p]]
  /\ storeZuly' = [p \in Player |-> IF p \in P THEN 0 ELSE storeZuly[p]]
  /\ unsaved' = [p \in Player |-> IF p \in P THEN {} ELSE unsaved[p]]
  /\ astray' = astray \ P

Login(p) ==
  /\ stage[p] = "off" /\ writes = <<>>
  /\ stage' = [stage EXCEPT ![p] = "in"]
  /\ inv' = [inv EXCEPT ![p] = rows[p]]
  /\ zulies' = [zulies EXCEPT ![p] = purse[p]]
  /\ store' = [store EXCEPT ![p] = cells[p]]
  /\ storeZuly' = [storeZuly EXCEPT ![p] = safe[p]]
  /\ refused' = refused \ {p}
  /\ UNCHANGED <<unsaved, savedVars, writes, handler, astray>>

Autosave(p) ==
  /\ Ready(p)
  /\ Savedata(p)
  /\ UNCHANGED <<stage, heldVars, writes, handler, missVars>>

\* pakCharSelect saves him and leaves the rest to the next pass over ClientList.
CharSelect(p) ==
  /\ Ready(p)
  /\ Savedata(p)
  /\ stage' = [stage EXCEPT ![p] = "leaving"]
  /\ UNCHANGED <<heldVars, writes, handler, missVars>>

\* DeleteClientSocket.  A lost connection is saved on the spot, one that went
\* to character select has been.
Deleted(p) ==
  /\ Present(p) /\ writes = <<>>
  /\ IF stage[p] = "in" THEN Savedata(p) ELSE UNCHANGED savedVars
  /\ stage' = [stage EXCEPT ![p] = "off"]
  /\ Freed({p})
  /\ UNCHANGED <<writes, handler, refused>>

\* The process dies and is started again.
Crash ==
  /\ \E p \in Player : Present(p)
  /\ stage' = [p \in Player |-> "off"]
  /\ writes' = <<>>
  /\ Freed(Player)
  /\ UNCHANGED <<savedVars, handler, refused>>

----------------------------------------------------------------------------
(* The storage. *)

\* pakChangeStorage 0x00: UpdateInventory saves the slot before the storage is.
Deposit(p, s, n) ==
  /\ Ready(p)
  /\ inv[p][s] # Empty
  /\ n * Fee <= zulies[p]
  /\ LET item == Stack(inv[p][s].kind, n)
         c == NewStorageItemSlot(store[p], item)
     IN  /\ c # NoSlot
         /\ inv' = [inv EXCEPT ![p][s] = Less(@, n)]
         /\ store' = [store EXCEPT ![p][c] = More(@, item)]
         /\ zulies' = [zulies EXCEPT ![p] = @ - n * Fee]
         /\ Saves("deposit", <<SaveSlot41(p, s, inv'[p]), SaveSlotStorage(p, c, store'[p]),
                               SaveSlot41(p, s, inv'[p])>>)
  /\ UNCHANGED <<stage, storeZuly, savedVars, missVars>>

GetSlotStorage(p, c) ==
  IF cells[p][c] = Empty THEN store[p] ELSE [store[p] EXCEPT ![c] = cells[p][c]]

\* What is left of the cell when nothing of it fits the inventory.
PutBack(chest, c, n) == [chest EXCEPT ![c] = Stack(@.kind, n)]

\* pakChangeStorage 0x01.
Withdraw(p, c, n) ==
  /\ Ready(p)
  /\ LET fresh == GetSlotStorage(p, c)
         item  == Stack(fresh[c].kind, n)
         s     == NewItemSlot(inv[p], item)
     IN  /\ fresh[c] # Empty
         /\ IF s = NoSlot
            THEN /\ store' = [store EXCEPT ![p] = PutBack(fresh, c, n)]
                 /\ refused' = refused \cup {p}
                 /\ UNCHANGED <<inv, unsaved, writes, handler>>
            ELSE /\ store' = [store EXCEPT ![p] = [fresh EXCEPT ![c] = Less(@, n)]]
                 /\ inv' = [inv EXCEPT ![p][s] = More(@, item)]
                 /\ Saves("withdraw", <<SaveSlotStorage(p, c, store'[p]), SaveSlot41(p, s, inv'[p])>>)
                 /\ UNCHANGED refused
  /\ UNCHANGED <<stage, zulies, storeZuly, savedVars, astray>>

\* pakStoreZuly 0x10.
DepositZuly(p, n) ==
  /\ Ready(p)
  /\ n <= zulies[p]
  /\ zulies' = [zulies EXCEPT ![p] = @ - n]
  /\ storeZuly' = [storeZuly EXCEPT ![p] = @ + n]
  /\ Saves("deposit", <<SaveZulyStorage(p, storeZuly'[p])>>)
  /\ UNCHANGED <<stage, inv, store, savedVars, missVars>>

\* pakStoreZuly 0x11.
WithdrawZuly(p, n) ==
  /\ Ready(p)
  /\ n <= safe[p]
  /\ zulies' = [zulies EXCEPT ![p] = @ + n]
  /\ storeZuly' = [storeZuly EXCEPT ![p] = safe[p] - n]
  /\ Saves("withdraw", <<SaveZulyStorage(p, storeZuly'[p])>>)
  /\ UNCHANGED <<stage, inv, store, savedVars, missVars>>

StorageOps(p) ==
  \/ \E s \in Slot : \E n \in 1..inv[p][s].count : Deposit(p, s, n)
  \/ \E c \in Cell : \E n \in 1..GetSlotStorage(p, c)[c].count : Withdraw(p, c, n)
  \/ DepositZuly(p, 1)
  \/ WithdrawZuly(p, 1)

----------------------------------------------------------------------------
(* Properties. *)

\* Every slot, cell and row is well formed and in its place, and no purse is
\* overdrawn.
GoodsTypeOK ==
  /\ stage \in [Player -> {"off", "in", "leaving"}]
  /\ \A p \in Player :
       /\ \A s \in Slot : Placed(inv[p][s], s) /\ Placed(rows[p][s], s)
       /\ \A c \in Cell : WellFormed(store[p][c]) /\ WellFormed(cells[p][c])
       /\ {zulies[p], storeZuly[p], purse[p], safe[p]} \subseteq Nat
  /\ unsaved \in [Player -> SUBSET Slot]
  /\ {refused, astray} \subseteq SUBSET Player

\* A slot whose signature fits is never written again, so it must agree with
\* the table: once the statements of a handler are executed the table holds
\* every such slot of everybody on the map, also of somebody dealt with after
\* pakCharSelect saved him.  Excepted is who had no room for his shield: what he
\* wears was changed back in memory only.  The storage has no cell that the
\* table does not cover (less in memory is what a refused withdrawal leaves).
SavedAgrees ==
  \A p \in Player : Present(p) =>
    /\ p \notin astray =>
         \A s \in Slot \ unsaved[p] : Settled(rows, "items", p, s) = inv[p][s]
    /\ \A c \in Cell :
         LET row == Settled(cells, "storage", p, c)
         IN  /\ row.kind = store[p][c].kind
             /\ row.count >= store[p][c].count
             /\ p \notin refused => row = store[p][c]
=============================================================================
