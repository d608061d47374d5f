------------------------------ MODULE MCGoods ------------------------------
(***************************************************************************)
(* Instances of the players' dealings.  focus is chosen once and says who  *)
(* plays, what they own and which handlers they use, so the states are     *)
(* those of five small instances: a storage, what one player does with his *)
(* own goods, an exchange among three, one whose tables are filled, and a  *)
(* stall whose owner can still be part of an exchange.  In the last three  *)
(* ann and bob have the window open.                                       *)
(***************************************************************************)
EXTENDS Wares

CONSTANTS MaxOps,  \* bound: handlers and sessions in a behaviour, per focus
          MaxDie   \* bound: deaths of the server

VARIABLES focus, ops, dies

\* Handlers and sessions.
MCOps == [storage |-> 5, wares |-> 3, trade |-> 4, tables |-> 4, stall |-> 4]

mcVars == <<wareVars, focus, ops, dies>>

\* Slots 1 and 2 are for stacks, 3 and 4 for pieces, 5 holds a weapon and 6 a
\* shield.
MCTab == [k \in Kind |-> IF k \in Stackable THEN {1, 2} ELSE {3, 4}]
MCWear == [herb |-> {}, bow |-> {5}, sword |-> {5}, shield |-> {6}]

\* Pieces sell for nothing (the price starts as 0 and is multiplied).
MCCost == [herb |-> 1, bow |-> 2, sword |-> 1, shield |-> 2]
MCGain == [herb |-> 1, bow |-> 0, sword |-> 0, shield |-> 0]

\* More than he can pay, all he can pay, and something that may find no room.
MCOrders == {<<>>, <<Stack("herb", 2)>>, <<Stack("sword", 1), Stack("herb", 2)>>,
             <<Stack("herb", 1), Stack("sword", 1)>>}

Bag(pairs) == [s \in Slot |-> IF s \in DOMAIN pairs THEN pairs[s] ELSE Empty]

Cast == [storage |-> {"ann"}, wares |-> {"ann"}, trade |-> {"ann", "bob", "eve"},
         tables |-> {"ann", "bob"}, stall |-> {"ann", "bob"}]

StartBag(f, p) ==
  CASE f = "storage" -> Bag(<<Stack("herb", 4), Stack("herb", 4), Stack("bow", 1)>>)
    [] f = "wares" -> Bag(<<Stack("herb", 2), Empty, Stack("bow", 1), Stack("bow", 1),
                           Stack("sword", 1), Stack("shield", 1)>>)
    [] f = "stall" -> IF p = "bob" THEN Bag(<<Stack("herb", 2), Empty, Stack("bow", 1)>>)
                      ELSE Bag(<<Stack("herb", 1)>>)
    [] p = "ann" -> Bag(<<Stack("herb", 2), Empty, Stack("bow", 1)>>)
    [] p = "bob" -> Bag(<<Stack("herb", 1), Empty, Stack("bow", 1), Stack("bow", 1)>>)
    [] OTHER -> Bag(<<>>)

\* Tables that Add can have filled: stacks in part or whole, a slot in two rows.
Row(s, n) == [slot |-> s, count |-> n]
StartTables(f, p) ==
  CASE f = "stall" /\ p = "bob" -> {<<Row(1, 1), NoOffer>>}
    [] f # "tables" -> {NoOffers}
    [] p = "ann" -> {<<Row(1, 1), Row(3, 1)>>, <<Row(3, 1), Row(1, 2)>>, <<Row(1, 1), Row(1, 1)>>}
    [] p = "bob" -> {NoOffers, <<Row(1, 1), Row(3, 1)>>, <<Row(3, 1), Row(4, 1)>>}
    [] OTHER -> {NoOffers}

MCInit ==
  /\ focus \in DOMAIN Cast
  /\ stage = [p \in Player |-> IF p \in Cast[focus] THEN "in" ELSE "off"]
  /\ rows = [p \in Player |-> StartBag(focus, p)]
  /\ inv = [p \in Player |-> IF stage[p] = "in" THEN rows[p] ELSE Bag(<<>>)]
  /\ purse = [p \in Player |-> 2]
  /\ zulies = [p \in Player |-> IF stage[p] = "in" THEN 2 ELSE 0]
  /\ cells = [p \in Player |-> [c \in Cell |-> IF focus = "storage" /\ c = 1 THEN Stack("herb", 2) ELSE Empty]]
  /\ store = [p \in Player |-> IF stage[p] = "in" THEN cells[p] ELSE [c \in Cell |-> Empty]]
  /\ safe = [p \in Player |-> 0]
  /\ storeZuly = safe
  /\ writes = <<>> /\ handler = "none" /\ refused = {} /\ astray = {}
  /\ unsaved = [p \in Player |-> {}] /\ ground = <<>>
  /\ open = [p \in Player |-> FALSE]
  /\ selling = [p \in Player |-> [r \in SellRow |-> NoRow]]
  /\ buying = [p \in Player |-> [r \in WantRow |-> NoWish]]
  /\ swapped = {} /\ late = {}
  /\ target = IF focus \in {"storage", "wares"} THEN [p \in Player |-> NoPlayer]
              ELSE [ann |-> "bob", bob |-> "ann", eve |-> NoPlayer]
  /\ status = [p \in Player |-> IF target[p] = NoPlayer THEN 0 ELSE 3]
  /\ \E a \in StartTables(focus, "ann"), b \in StartTables(focus, "bob") :
       offer = [ann |-> a, bob |-> b, eve |-> NoOffers]
  /\ pay = [p \in Player |-> 0]
  /\ failed = {}
  /\ ops = 0 /\ dies = 0

MCNext ==
  \/ /\ ops < MaxOps[focus] /\ ops' = ops + 1
     /\ \E p \in Cast[focus] :
          \/ focus # "tables" /\ Sessions(p)
          \/ focus = "storage" /\ Store(p)
          \/ focus = "stall" /\ Store(p) /\ swapped' # swapped  \* goods, behind a stall
          \/ focus = "wares" /\ WareOps(p)
          \/ focus = "stall" /\ Vend(p)
          \/ focus \in {"trade", "tables"} /\ Exchange(p)
          \/ focus = "stall" /\ Exchange(p) /\ UNCHANGED <<offer, pay>>  \* tables as they start
     /\ wareVars' # wareVars  \* a packet that changes nothing takes no turn
     /\ UNCHANGED <<focus, dies>>
  \/ Written /\ UNCHANGED <<focus, ops, dies>>
  \/ \E i \in DOMAIN ground : Expire(i) /\ UNCHANGED <<focus, ops, dies>>
  \/ dies < MaxDie /\ Restart /\ dies' = dies + 1 /\ UNCHANGED <<focus, ops>>

MCSpec == MCInit /\ [][MCNext]_mcVars

----------------------------------------------------------------------------
\* A player owns what is in his inventory and his purse, or in their rows while
\* he is away, and what the storage will hold once it is written.
Owned(p) ==
  LET bag   == IF Present(p) THEN inv[p] ELSE rows[p]
      chest == [c \in Cell |-> Settled(cells, "storage", p, c)]
      kinds == {bag[s].kind : s \in Slot} \cup {chest[c].kind : c \in Cell}
  IN  [k \in Kind |-> IF k \in kinds THEN Held(bag, NSlot, k) + Held(chest, NCell, k) ELSE 0]

Booked(p) == purse[p] + safe[p]

\* Which way the handler under way goes about its rows.
Course ==
  IF handler \in {"sell", "deposit", "withdraw", "pick"} THEN "thin"
  ELSE IF handler \in {"shop", "equip"} THEN "either" ELSE "thick"

Lying(k) == Held(ground, Len(ground), k)

M == INSTANCE Market WITH
  Worth    <- Cost,
  wealth   <- [p \in Player |-> Owned(p)],
  money    <- [p \in Player |-> IF Present(p) THEN zulies[p] + storeZuly[p] ELSE Booked(p)],
  booked   <- [p \in Player |-> Booked(p)],
  lying    <- [k \in Kind |-> Lying(k)],
  loose    <- Lying(NoKind),
  busy     <- {writes[i].owner : i \in DOMAIN writes},
  course   <- Course,
  owing    <- {p \in Player : unsaved[p] # {}},
  closing  <- {p \in Player : stage[p] = "leaving"},
  doubt    <- refused

\* The dealings implement the market: whatever packets come in whatever order,
\* goods and money are neither made nor lost by a handler, an exchange or a
\* sale concerns two players only, no shop gives more than it takes, and a
\* death of the server or a departure costs no more than the market allows.
ImplementsMarket == M!MarketSpec
=============================================================================
