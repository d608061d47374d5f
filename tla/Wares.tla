------------------------------- MODULE Wares -------------------------------
(***************************************************************************)
(* What one player does with his own goods: he wears them, uses them up,   *)
(* deals with a shop of the game (for zuly; clan and union shops take      *)
(* points instead), lays things on the ground and picks them up.           *)
(*                                                                         *)
(* The game program asks to wear a piece out of a tab in its own place, to *)
(* take one off, either into no slot in particular or into an empty one,   *)
(* and buys what the shop has.  Kinds are worn by whoever has them.        *)
(***************************************************************************)
EXTENDS Trade

CONSTANTS Weapon, Shield, \* slots 7 and 8
          TwoHanded,      \* weapons that leave no hand for a shield
          Usable,         \* items of type 10
          Cost,           \* what a shop takes for one
          Gain,           \* what it gives for one
          Orders,         \* lists of stacks somebody buys at once
          MaxLaid         \* bound: zuly laid down at once

ASSUME WaresConstants ==
  /\ TwoHanded \cup Usable \subseteq Kind
  /\ {Cost, Gain} \subseteq [Kind -> Nat]
  /\ \A k \in Kind : Gain[k] <= Cost[k]
  /\ {Weapon, Shield} \subseteq Slot
  /\ Orders \subseteq Seq(Stacks)
  /\ \A list \in Orders : \A i \in DOMAIN list : WellFormed(list[i]) /\ list[i] # Empty
     \* What is worn in the same place is kept in the same tab, and no slot of a
     \* tab is such a place (GetNewItemSlot).
  /\ \A j, k \in Kind : /\ Wear[j] \cap Tab[k] = {}
                        /\ Wear[j] \cap Wear[k] # {} => Tab[j] = Tab[k]

VARIABLE ground  \* DropsList: stacks, and zuly as a stack of no kind

wareVars == <<allVars, ground>>

Worn == UNION {Wear[k] : k \in Kind}
Stays == UNCHANGED <<stallVars, tradeVars>>

\* No stall of his own is open.
Free(p) == Ready(p) /\ ~open[p]

----------------------------------------------------------------------------
(* Wearing. *)

Swap(bag, s, t) == [bag EXCEPT ![s] = bag[t], ![t] = bag[s]]

\* The shield is taken off into slot t.
HandsFull(bag, t, s) == [bag EXCEPT ![t] = bag[Shield], ![Shield] = Empty]

\* pakChangeEquip and packets that name the slots the other way round.  The
\* slots are swapped and saved before anybody asks about the shield.  Where
\* there is no room for it they are changed back, which nobody saves.
Equip(p, a, b) ==
  LET turned == b # NoSlot /\ inv[p][a] = Empty
      src    == IF turned THEN b ELSE a
      asked  == IF turned THEN a ELSE b
      item   == inv[p][src]
      dst    == IF asked = NoSlot THEN NewItemSlot(inv[p], item) ELSE asked
      bag    == Swap(inv[p], src, dst)
      saves  == <<SaveSlot41(p, src, bag), SaveSlot41(p, dst, bag)>>
      room   == NewItemSlot(bag, bag[Shield])
      after  == HandsFull(bag, room, src)
      burden == Weapon \in {src, dst} /\ bag[Weapon].kind \in TwoHanded /\ bag[Shield] # Empty
  IN  /\ Free(p) /\ item # Empty
      /\ asked \in Worn => asked \in Wear[item.kind]
      /\ dst # NoSlot
      /\ \/ /\ ~burden
            /\ inv' = [inv EXCEPT ![p] = bag]
            /\ Saves("equip", saves)
            /\ UNCHANGED astray
         \/ /\ burden /\ room # NoSlot
            /\ inv' = [inv EXCEPT ![p] = after]
            /\ Saves("equip", saves \o <<SaveSlot41(p, room, after), SaveSlot41(p, Shield, after)>>)
            /\ UNCHANGED astray
         \/ /\ burden /\ room = NoSlot
            /\ Saves("equip", saves)
            /\ astray' = astray \cup {p}
            /\ UNCHANGED inv
  /\ UNCHANGED <<stage, zulies, store, storeZuly, savedVars, refused, ground>>
  /\ Stays

----------------------------------------------------------------------------
(* Using up. *)

\* pakUseItem.  Only a reset of skills saves the slot; the rest leave it to
\* savedata.
Use(p, s, saved) ==
  /\ Free(p) /\ inv[p][s].kind \in Usable
  /\ inv' = [inv EXCEPT ![p][s] = Less(@, 1)]
  /\ IF saved THEN Saves("use", <<SaveSlot41(p, s, inv'[p])>>)
              ELSE /\ unsaved' = [unsaved EXCEPT ![p] = @ \cup {s}]
                   /\ UNCHANGED <<writes, handler>>
  /\ UNCHANGED <<stage, zulies, store, storeZuly, savedVars, missVars, ground>>
  /\ Stays

----------------------------------------------------------------------------
(* Shops of the game. *)

\* A purchase under way; over when he cannot pay: what the rest of the packet
\* asks for, also what it sells, is dropped.
Start(p) == [bag |-> inv[p], purse |-> zulies[p], at |-> <<>>, over |-> FALSE]

Bought(deal, item) ==
  LET s   == NewItemSlot(deal.bag, item)
      sum == item.count * Cost[item.kind]
  IN  IF s = NoSlot THEN deal
      ELSE IF deal.purse < sum THEN [deal EXCEPT !.over = TRUE]
      ELSE [deal EXCEPT !.bag[s] = More(@, item), !.purse = @ - sum, !.at = Append(@, s)]

Sold(deal, s, n) ==
  IF deal.bag[s].count < n THEN [deal EXCEPT !.over = TRUE]
  ELSE [deal EXCEPT !.purse = @ + n * Gain[deal.bag[s].kind], !.bag[s] = Less(@, n), !.at = Append(@, s)]

\* All that a packet buys.
Purchased(p, list) ==
  LET after[i \in 0..Len(list)] ==
        IF i = 0 THEN Start(p)
        ELSE IF after[i - 1].over THEN after[i - 1]
        ELSE Bought(after[i - 1], list[i])
  IN  after[Len(list)]

\* pakNPCBuy: a list to buy, then at most one stack to sell.
NPCBuy(p, list, s, n) ==
  LET bought == Purchased(p, list)
      deal   == IF bought.over \/ n = 0 THEN bought ELSE Sold(bought, s, n)
  IN  /\ Free(p)
      /\ inv' = [inv EXCEPT ![p] = deal.bag]
      /\ zulies' = [zulies EXCEPT ![p] = deal.purse]
      /\ Saves("shop", [i \in DOMAIN deal.at |-> SaveSlot41(p, deal.at[i], deal.bag)])
      /\ UNCHANGED <<stage, store, storeZuly, savedVars, missVars, ground>>
      /\ Stays

----------------------------------------------------------------------------
(* The ground. *)

\* pakDoDrop.  The game program names an amount he has, and 1 for a piece.
DoDrop(p, s, n) ==
  /\ Free(p) /\ n <= inv[p][s].count
  /\ inv' = [inv EXCEPT ![p][s] = Less(@, n)]
  /\ ground' = Append(ground, Stack(inv[p][s].kind, n))
  /\ Saves("drop", <<SaveSlot41(p, s, inv'[p])>>)
  /\ UNCHANGED <<stage, zulies, store, storeZuly, savedVars, missVars>>
  /\ Stays

DoDropZuly(p, n) ==
  /\ Free(p) /\ n <= zulies[p]
  /\ zulies' = [zulies EXCEPT ![p] = @ - n]
  /\ ground' = Append(ground, Stack(NoKind, n))
  /\ UNCHANGED <<stage, inv, unsaved, store, storeZuly, savedVars, writes, handler, missVars>>
  /\ Stays

Without(i) == [j \in 1..(Len(ground) - 1) |-> ground[IF j < i THEN j ELSE j + 1]]

\* pakPickDrop, of something that no monster left.  What finds no room stays.
PickDrop(p, i) ==
  LET item == ground[i]
      s    == NewItemSlot(inv[p], item)
  IN  /\ Free(p)
      /\ ground' = Without(i)
      /\ \/ /\ item.kind = NoKind
            /\ zulies' = [zulies EXCEPT ![p] = @ + item.count]
            /\ UNCHANGED <<inv, unsaved, writes, handler>>
         \/ /\ item.kind # NoKind /\ s # NoSlot
            /\ inv' = [inv EXCEPT ![p][s] = More(@, item)]
            /\ Saves("pick", <<SaveSlot41(p, s, inv'[p])>>)
            /\ UNCHANGED zulies
      /\ UNCHANGED <<stage, store, storeZuly, savedVars, missVars>>
      /\ Stays

\* CleanDrops: fifty seconds have passed.
Expire(i) ==
  /\ ground' = Without(i)
  /\ UNCHANGED allVars

\* Out of a slot of the tab into its place, off again, or off into an empty
\* slot of the tab, whichever of the two is named first.
Requests(p) ==
  LET on(s)   == Wear[inv[p][s].kind]
      tab(s)  == {t \in Tab[inv[p][s].kind] : inv[p][t] = Empty}
      full    == {s \in Slot : inv[p][s] # Empty}
      wearing == full \cap Worn
  IN  (wearing \X {NoSlot}) \cup UNION ({{s} \X on(s) : s \in full \ Worn}
        \cup {({s} \X tab(s)) \cup (tab(s) \X {s}) : s \in wearing})

WareOps(p) ==
  \/ \E pair \in Requests(p) : Equip(p, pair[1], pair[2])
  \/ \E s \in Slot, saved \in BOOLEAN : Use(p, s, saved)
  \/ \E list \in Orders, s \in Slot : \E n \in 0..inv[p][s].count : NPCBuy(p, list, s, n)
  \/ \E s \in Slot : \E n \in 1..inv[p][s].count : DoDrop(p, s, n)
  \/ \E n \in 1..MaxLaid : DoDropZuly(p, n)
  \/ \E i \in DOMAIN ground : PickDrop(p, i)

----------------------------------------------------------------------------
(* All that happens on a world server. *)

\* pakChangeStorage is the one handler of a player's own goods that does not ask
\* whether his stall is open.
Store(p) ==
  /\ StorageOps(p)
  /\ swapped' = IF open[p] /\ (\E s \in Slot : inv'[p][s].count < inv[p][s].count)
                THEN swapped \cup {p} ELSE swapped
  /\ UNCHANGED <<open, selling, buying, late, tradeVars, ground>>

Sessions(p) == (Enter(p) \/ Save(p) \/ ToSelect(p) \/ Leave(p)) /\ UNCHANGED ground
Vend(p)     == StallOps(p) /\ UNCHANGED <<tradeVars, ground>>
Exchange(p) == TradeOps(p) /\ UNCHANGED ground
Written     == WriteRow /\ UNCHANGED ground

\* A death of the server takes what lies on the ground with it.
Restart == Die /\ ground' = <<>>

\* Nobody is there when the server starts; the tables hold what was saved before.
WareInit ==
  /\ stage = [p \in Player |-> "off"]
  /\ rows \in [Player -> [Slot -> Stacks]] /\ cells \in [Player -> [Cell -> Stacks]]
  /\ purse \in [Player -> Nat] /\ safe \in [Player -> Nat]
  /\ \A p \in Player : /\ \A s \in Slot : Placed(rows[p][s], s)
                       /\ \A c \in Cell : WellFormed(cells[p][c])
  /\ inv = [p \in Player |-> [s \in Slot |-> Empty]]
  /\ store = [p \in Player |-> [c \in Cell |-> Empty]]
  /\ zulies = [p \in Player |-> 0] /\ storeZuly = [p \in Player |-> 0]
  /\ unsaved = [p \in Player |-> {}]
  /\ writes = <<>> /\ handler = "none" /\ refused = {} /\ astray = {}
  /\ open = [p \in Player |-> FALSE]
  /\ selling = [p \in Player |-> [r \in SellRow |-> NoRow]]
  /\ buying = [p \in Player |-> [r \in WantRow |-> NoWish]]
  /\ swapped = {} /\ late = {} /\ failed = {}
  /\ target = [p \in Player |-> NoPlayer] /\ status = [p \in Player |-> 0]
  /\ offer = [p \in Player |-> NoOffers] /\ pay = [p \in Player |-> 0]
  /\ ground = <<>>

WareNext ==
  \/ \E p \in Player : Sessions(p) \/ Store(p) \/ Vend(p) \/ Exchange(p) \/ WareOps(p)
  \/ \E i \in DOMAIN ground : Expire(i)
  \/ Written \/ Restart

WareSpec == WareInit /\ [][WareNext]_wareVars
=============================================================================
