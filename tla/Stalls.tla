------------------------------- MODULE Stalls -------------------------------
(***************************************************************************)
(* Shops that players open in the street (SHOP in chartype.h).  A row of   *)
(* the selling list names a slot of the owner's inventory and keeps a      *)
(* number and a price of its own; nothing ties it to the slot afterwards.  *)
(* The buying list is a wish: a kind, a number and a price.                *)
(*                                                                         *)
(* The game program puts a slot into one row only and keeps a player whose *)
(* own stall is open from visiting another; everybody is on one map where  *)
(* stalls are allowed, and nobody's can_trade is reset.                    *)
(***************************************************************************)
EXTENDS Goods

CONSTANTS SellRow,  \* rows of the selling list (30 in the code)
          WantRow,  \* rows of the buying list (30 in the code)
          Sought,   \* kinds that are asked for
          Price     \* prices in use

ASSUME StallConstants == SellRow \subseteq Nat /\ Sought \subseteq Kind /\ Price \subseteq Nat

VARIABLES
  open,     \* Shop->open
  selling,  \* SellingList; kind is history: what was in the slot at opening
  buying,   \* BuyingList
  swapped,  \* history: open stalls whose owner has exchanged or stored goods
  late      \* history: players dealt with between pakCharSelect and deletion

stallVars == <<open, selling, buying, swapped, late>>

NoRow  == [slot |-> NoSlot, kind |-> NoKind, count |-> 0, price |-> 0]
NoWish == [kind |-> NoKind, count |-> 0, price |-> 0]

Closed(p) ==
  /\ open' = [open EXCEPT ![p] = FALSE]
  /\ selling' = [selling EXCEPT ![p] = [r \in SellRow |-> NoRow]]
  /\ buying' = [buying EXCEPT ![p] = [r \in WantRow |-> NoWish]]

\* Dealing with somebody who has been saved for the last time.
NoteLate(p) == late' = IF stage[p] = "leaving" THEN late \cup {p} ELSE late

Pays(from, to, sum) == [zulies EXCEPT ![from] = @ - sum, ![to] = @ + sum]

----------------------------------------------------------------------------
\* The amount a row of the list gets: what the packet says of a stack, one of
\* anything else.
RowOf(p, s, n, price) ==
  [slot |-> s, kind |-> inv[p][s].kind,
   count |-> IF inv[p][s].kind \in Stackable THEN n ELSE 1, price |-> price]

OpenShop(p, list, wish, price) ==
  /\ Ready(p) /\ ~open[p]
  /\ selling' = [selling EXCEPT ![p] = [r \in SellRow |->
       IF r \in DOMAIN list THEN RowOf(p, list[r][1], list[r][2], price) ELSE @[r]]]
  /\ buying' = [buying EXCEPT ![p] = [r \in WantRow |->
       IF r \in DOMAIN wish
       THEN [kind |-> wish[r].kind, price |-> price,
             count |-> IF wish[r].kind \in Stackable THEN wish[r].count ELSE 1]
       ELSE @[r]]]
  /\ open' = [open EXCEPT ![p] = TRUE]
  /\ swapped' = swapped \ {p}
  /\ UNCHANGED <<goodsVars, late>>

CloseShop(p) ==
  /\ Ready(p) /\ open[p]
  /\ Closed(p)
  /\ UNCHANGED <<goodsVars, swapped, late>>

\* Mutant: the row still offers what has been sold.
RowAfterKept(row, item, n) == row

\* The row after n have been sold out of a slot that held item.
RowAfter(row, item, n) ==
  IF item.kind \in Stackable /\ n < item.count /\ n < row.count
  THEN [row EXCEPT !.count = @ - n]
  ELSE NoRow

\* Mutants: the seller's slot is not saved, or before the buyer's.
BuyWritesBuyer(b, t, a, s) == <<SaveSlot41(b, t, inv'[b])>>
BuyWritesSellerFirst(b, t, a, s) == <<SaveSlot41(a, s, inv'[a]), SaveSlot41(b, t, inv'[b])>>

\* Slot by slot in the order the statements are issued: the buyer's first.
BuyWrites(b, t, a, s) == <<SaveSlot41(b, t, inv'[b]), SaveSlot41(a, s, inv'[a])>>

\* pakBuyShop.  The money changes hands before the stock is looked at.
BuyShop(b, a, r, n) ==
  LET row  == selling[a][r]
      item == inv[a][row.slot]
      part == Stack(item.kind, n)
      t    == NewItemSlot(inv[b], part)
  IN  /\ Ready(b) /\ Present(a) /\ a # b /\ ~open[b] /\ open[a]
      /\ row.slot # NoSlot /\ item # Empty
      /\ item.kind \in Stackable \/ n = 1
      /\ n <= row.count
      /\ n * row.price <= zulies[b]
      /\ t # NoSlot
      /\ zulies' = Pays(b, a, n * row.price)
      /\ NoteLate(a)
      /\ IF item.count < n
         THEN /\ selling' = [selling EXCEPT ![a][r].count = item.count]
              /\ UNCHANGED <<inv, unsaved, writes, handler>>
         ELSE /\ selling' = [selling EXCEPT ![a][r] = RowAfter(row, item, n)]
              /\ inv' = [inv EXCEPT ![a][row.slot] = Less(item, n),
                                    ![b][t] = More(inv[b][t], part)]
              /\ Saves("buy", BuyWrites(b, t, a, row.slot))
      /\ UNCHANGED <<stage, store, storeZuly, savedVars, missVars, open, buying, swapped>>

\* What is still asked for after m have been bought.
WishAfter(wish, item, m) ==
  IF item.kind \in Stackable /\ m < wish.count THEN [wish EXCEPT !.count = @ - m] ELSE NoWish

\* pakSellShop.  b sells to the owner a, who gets no more than he asked for.
SellShop(b, a, s, r, n) ==
  LET wish == buying[a][r]
      item == inv[b][s]
      m    == IF n > wish.count THEN wish.count ELSE n
      part == Stack(item.kind, m)
      t    == NewItemSlot(inv[a], part)
  IN  /\ Ready(b) /\ Present(a) /\ a # b /\ ~open[b] /\ open[a]
      /\ item # Empty /\ item.kind = wish.kind
      /\ m * wish.price <= zulies[a]
      /\ t # NoSlot
      /\ zulies' = Pays(a, b, m * wish.price)
      /\ NoteLate(a)
      /\ inv' = [inv EXCEPT ![b][s] = Less(item, m), ![a][t] = More(inv[a][t], part)]
      /\ buying' = [buying EXCEPT ![a][r] = WishAfter(wish, item, m)]
      /\ Saves("sell", <<SaveSlot41(b, s, inv'[b]), SaveSlot41(a, t, inv'[a])>>)
      /\ UNCHANGED <<stage, store, storeZuly, savedVars, missVars, open, selling, swapped>>

\* The rows of a stall: a prefix of them, no slot twice, each with a number the
\* slot holds.
Listings(p) ==
  {f \in UNION {[1..i -> {e \in Slot \X (1..MaxStack) : e[2] <= inv[p][e[1]].count}] :
                  i \in {0} \cup SellRow} :
     \A i, j \in DOMAIN f : f[i][1] = f[j][1] => i = j}

Wishes == UNION {[1..i -> {Stack(k, 2) : k \in Sought}] : i \in {0} \cup WantRow}

StallOps(p) ==
  \/ \E list \in Listings(p), wish \in Wishes, price \in Price : OpenShop(p, list, wish, price)
  \/ CloseShop(p)
  \/ \E a \in Player, r \in SellRow : \E n \in 1..selling[a][r].count : BuyShop(p, a, r, n)
  \/ \E a \in Player, s \in Slot, r \in WantRow :
       \E n \in 1..inv[p][s].count : SellShop(p, a, s, r, n)

----------------------------------------------------------------------------
\* A row on show is backed by its slot: the kind that was put there, and as
\* many as the row says.  Only two things take the goods from under an open
\* stall: an exchange that the partner completes after the stall opened, and its
\* owner storing them.
RowsBacked ==
  \A p \in Player \ swapped : open[p] =>
    \A r \in SellRow :
      LET row == selling[p][r]
      IN  row # NoRow => inv[p][row.slot].kind = row.kind /\ inv[p][row.slot].count >= row.count
=============================================================================
