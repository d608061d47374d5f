------------------------------- MODULE Trade -------------------------------
(***************************************************************************)
(* The exchange window of two players (TRADE in chartype.h).  Each keeps   *)
(* whom he trades with, a status and a table of rows that name slots of    *)
(* his own inventory; packet 0x7c0 moves the status of one or both, 0x7c1  *)
(* fills a row.  Neither looks at the status it comes in, and the partner  *)
(* named by the sender may himself be trading with a third.                *)
(*                                                                         *)
(* Statuses: 0 none, 1 asked, 2 has asked, 3 window open, 4 locked, 6      *)
(* confirmed.  A game program asks while it shows no window and sends the  *)
(* rest while it shows one.  The target is stored before all checks, so a  *)
(* packet that does nothing else still names another partner.              *)
(***************************************************************************)
EXTENDS Stalls

CONSTANTS NRow,   \* rows of a table (10 in the code)
          MaxPay  \* bound: zuly on a table

NoPlayer == "nobody"

ASSUME TradeConstants ==
  NRow \in Nat \ {0} /\ MaxPay \in Nat /\ NoPlayer \notin Player

TradeRow == 1..NRow
NoOffer == [slot |-> NoSlot, count |-> 0]

VARIABLES
  target,  \* trade_target
  status,  \* trade_status
  offer,   \* trade_itemid and trade_count of the ten rows
  pay,     \* trade_count[10]
  failed   \* history: pairs left confirmed, by a refused exchange or a packet
           \* that only names a partner

tradeVars == <<target, status, offer, pay, failed>>
allVars == <<goodsVars, stallVars, tradeVars>>

NoOffers == [r \in TradeRow |-> NoOffer]

\* A packet 0x7c0 of p that names q, whom it finds, and goes on to its action.
Addressed(p, q) ==
  /\ Ready(p) /\ Present(q) /\ p # q /\ ~open[p]
  /\ target' = [target EXCEPT ![p] = q]

Request(p, q) ==
  /\ Addressed(p, q) /\ status[p] \in {0, 1, 2}
  /\ status' = [status EXCEPT ![p] = 2, ![q] = 1]
  /\ UNCHANGED <<goodsVars, stallVars, offer, pay, failed>>

Accept(p, q) ==
  /\ Addressed(p, q) /\ status[p] = 1
  /\ status' = [status EXCEPT ![p] = 3, ![q] = 3]
  /\ offer' = [offer EXCEPT ![p] = NoOffers, ![q] = NoOffers]
  /\ pay' = [pay EXCEPT ![p] = 0, ![q] = 0]
  /\ failed' = failed \ {{p, q}}
  /\ UNCHANGED <<goodsVars, stallVars>>

\* The status of the other is left as it is.
Cancel(p, q) ==
  /\ Ready(p) /\ Present(q) /\ p # q /\ ~open[p] /\ status[p] # 0
  /\ target' = [target EXCEPT ![p] = NoPlayer, ![q] = NoPlayer]
  /\ status' = [status EXCEPT ![p] = 0]
  /\ UNCHANGED <<goodsVars, stallVars, offer, pay, failed>>

Lock(p, q) ==
  /\ Addressed(p, q) /\ status[p] \in {3, 4, 6}
  /\ status' = [status EXCEPT ![p] = 4]
  /\ UNCHANGED <<goodsVars, stallVars, offer, pay, failed>>

\* pakTradeAdd.  A slot is looked for in the later rows only, and nobody's
\* confirmation is reset.
Add(p, r, s, n) ==
  /\ Ready(p) /\ ~open[p] /\ status[p] \in {3, 4, 6}
  /\ target[p] # NoPlayer /\ Present(target[p])
  /\ \A later \in (r + 1)..NRow : offer[p][later].slot # s
  /\ offer' = [offer EXCEPT ![p][r] = [slot |-> s, count |-> n]]
  /\ UNCHANGED <<goodsVars, stallVars, target, status, pay, failed>>

Clear(p, r) ==
  /\ Ready(p) /\ ~open[p] /\ status[p] \in {3, 4, 6}
  /\ target[p] # NoPlayer /\ Present(target[p])
  /\ offer' = [offer EXCEPT ![p][r] = NoOffer]
  /\ UNCHANGED <<goodsVars, stallVars, target, status, pay, failed>>

AddZuly(p, n) ==
  /\ Ready(p) /\ ~open[p] /\ status[p] \in {3, 4, 6}
  /\ target[p] # NoPlayer /\ Present(target[p])
  /\ n <= zulies[p]
  /\ pay' = [pay EXCEPT ![p] = n]
  /\ UNCHANGED <<goodsVars, stallVars, target, status, offer, failed>>

\* q trades with p, and both have confirmed.
Awaited(p, q) == target[q] = p /\ status[p] = 6 /\ status[q] = 6

\* A packet 0x7c0 that only names q: he is nobody on the map, one of them may
\* not trade, or the switch has no case for the action (2, 5, 7 and above).
Retarget(p, q) ==
  /\ Ready(p) /\ p # q /\ ~open[p]
  /\ target' = [target EXCEPT ![p] = q]
  /\ failed' = failed \cup {{p, x} : x \in {x \in Player : x = q /\ Awaited(p, x)}}
  /\ UNCHANGED <<goodsVars, stallVars, status, offer, pay>>

----------------------------------------------------------------------------
(* The exchange. *)

\* Packet 6 is a switch: confirmed, or back to locked.
Switched(p) == IF status[p] = 6 THEN 4 ELSE 6

\* Mutant: looks for the status before confirmation.
OtherLocked(q) == status[q] = 4

OtherConfirmed(q) == status[q] = 6

\* What p's table asks of him now: the money, no slot in two rows, the stock.
Covers(p) ==
  /\ pay[p] <= zulies[p]
  /\ \A r, x \in TradeRow : r # x /\ offer[p][r] # NoOffer => offer[p][r].slot # offer[p][x].slot
  /\ \A r \in TradeRow : offer[p][r] # NoOffer => inv[p][offer[p][r].slot].count >= offer[p][r].count

\* Mutant: what q's slot held is overwritten.
PassedOver(bags, p, s, q, t, n) ==
  [bags EXCEPT ![p][s] = Less(@, n), ![q][t] = Stack(bags[p][s].kind, n)]

\* n of what p has in slot s put on top of what q has in slot t.
Passed(bags, p, s, q, t, n) ==
  [bags EXCEPT ![p][s] = Less(@, n), ![q][t] = More(@, Stack(bags[p][s].kind, n))]

\* Row r of p's table handed to q.  Room is looked for by the whole stack in
\* the slot, not by the part of it that is offered.
Hand(deal, p, q, r) ==
  LET o    == offer[p][r]
      t    == NewItemSlot(deal.bags[q], deal.bags[p][o.slot])
      next == Passed(deal.bags, p, o.slot, q, t, o.count)
  IN  IF o = NoOffer THEN deal
      ELSE IF t = NoSlot THEN [deal EXCEPT !.stuck = TRUE]
      ELSE [deal EXCEPT !.bags = next,
                        !.saves = @ \o <<SaveSlot41(q, t, next[q]), SaveSlot41(p, o.slot, next[p])>>]

\* Both tables' row r.  A row of p that finds no room takes the row of q with it.
HandBoth(deal, p, q, r) ==
  LET there == Hand(deal, p, q, r)
      back  == IF there.stuck THEN there ELSE Hand(there, q, p, r)
  IN  [back EXCEPT !.stuck = FALSE]

Exchanged(p, q) ==
  LET after[r \in 0..NRow] ==
        IF r = 0 THEN [bags |-> inv, saves |-> <<>>, stuck |-> FALSE]
        ELSE HandBoth(after[r - 1], p, q, r)
  IN  after[NRow]

\* The first to confirm, or one who takes it back.
ConfirmFirst(p, q) ==
  /\ Addressed(p, q) /\ status[p] \in {3, 4, 6} /\ ~OtherConfirmed(q)
  /\ status' = [status EXCEPT ![p] = Switched(p)]
  /\ UNCHANGED <<goodsVars, stallVars, offer, pay, failed>>

\* A refusal leaves both confirmed.
Refuse(p, q) ==
  /\ Addressed(p, q) /\ status[p] \in {3, 4, 6} /\ OtherConfirmed(q)
  /\ ~(Covers(p) /\ Covers(q))
  /\ status' = [status EXCEPT ![p] = Switched(p)]
  /\ failed' = failed \cup {{p, q}}
  /\ UNCHANGED <<goodsVars, stallVars, offer, pay>>

Complete(p, q) ==
  /\ Addressed(p, q) /\ status[p] \in {3, 4, 6} /\ OtherConfirmed(q)
  /\ Covers(p) /\ Covers(q)
  /\ LET deal == Exchanged(p, q)
     IN  /\ inv' = deal.bags
         /\ Saves("exchange", deal.saves)
  /\ zulies' = [zulies EXCEPT ![p] = @ - pay[p] + pay[q], ![q] = @ - pay[q] + pay[p]]
  /\ status' = [status EXCEPT ![p] = 0, ![q] = 0]
  /\ swapped' = IF open[q] THEN swapped \cup {q} ELSE swapped
  /\ NoteLate(q)
  /\ failed' = failed \ {{p, q}}
  /\ UNCHANGED <<stage, store, storeZuly, savedVars, missVars, open, selling, buying, offer, pay>>

TradeOps(p) ==
  \/ \E q \in Player : \/ Request(p, q) \/ Accept(p, q) \/ Cancel(p, q) \/ Lock(p, q)
                       \/ ConfirmFirst(p, q) \/ Refuse(p, q) \/ Complete(p, q)
  \/ \E q \in Player \cup {NoPlayer} : Retarget(p, q)
  \/ \E r \in TradeRow : Clear(p, r) \/ \E s \in Slot : \E n \in 1..inv[p][s].count : Add(p, r, s, n)
  \/ \E n \in 0..MaxPay : AddZuly(p, n)

----------------------------------------------------------------------------
(* Sessions: a CPlayer starts with its stall and table empty. *)

Forget(P) ==
  /\ open' = [p \in Player |-> open[p] /\ p \notin P]
  /\ selling' = [p \in Player |-> IF p \in P THEN [r \in SellRow |-> NoRow] ELSE selling[p]]
  /\ buying' = [p \in Player |-> IF p \in P THEN [r \in WantRow |-> NoWish] ELSE buying[p]]
  /\ swapped' = swapped \ P
  /\ late' = late \ P
  /\ target' = [p \in Player |-> IF p \in P THEN NoPlayer ELSE target[p]]
  /\ status' = [p \in Player |-> IF p \in P THEN 0 ELSE status[p]]
  /\ offer' = [p \in Player |-> IF p \in P THEN NoOffers ELSE offer[p]]
  /\ pay' = [p \in Player |-> IF p \in P THEN 0 ELSE pay[p]]
  /\ failed' = {pair \in failed : pair \cap P = {}}

Enter(p) == Login(p) /\ UNCHANGED <<stallVars, tradeVars>>
Save(p) == Autosave(p) /\ UNCHANGED <<stallVars, tradeVars>>
ToSelect(p) == CharSelect(p) /\ UNCHANGED <<stallVars, tradeVars>>
Leave(p) == Deleted(p) /\ Forget({p})
Die == Crash /\ Forget(Player)
WriteRow == Execute /\ UNCHANGED <<stallVars, tradeVars>>

----------------------------------------------------------------------------
(* Properties. *)

\* Two players who trade with each other are both left confirmed in exactly two
\* ways: their exchange was refused, or one who had confirmed named the other by
\* a packet that does nothing else.  The next packet 6 of either then completes
\* the exchange, also the one he means to take his confirmation back with.
ConfirmedTogether ==
  \A p, q \in Player : p # q /\ target[p] = q /\ Awaited(p, q) => {p, q} \in failed

Tabled(p, k) ==
  MapThenSumSet(LAMBDA r : IF offer[p][r] # NoOffer /\ inv[p][offer[p][r].slot].kind = k
                           THEN offer[p][r].count ELSE 0, TradeRow)

\* A free slot in the right tab for each row the other offers.
Room(q, p) ==
  \A r \in TradeRow : offer[p][r] # NoOffer =>
    LET tab == Tab[inv[p][offer[p][r].slot].kind]
    IN  Cardinality({s \in tab : inv[q][s] = Empty}) >=
          Cardinality({x \in TradeRow : offer[p][x] # NoOffer /\ offer[p][x].slot \in tab})

\* When both have room, an exchange moves exactly the two tables: of every kind
\* and of the money each ends with what he had, less what he offered, plus what
\* was offered to him.
ExchangeWhole ==
  [][\A p, q \in Player :
       Complete(p, q) /\ Room(p, q) /\ Room(q, p) =>
         /\ \A k \in Kind :
              /\ Held(inv'[p], NSlot, k) = Held(inv[p], NSlot, k) - Tabled(p, k) + Tabled(q, k)
              /\ Held(inv'[q], NSlot, k) = Held(inv[q], NSlot, k) - Tabled(q, k) + Tabled(p, k)
         /\ zulies'[p] = zulies[p] - pay[p] + pay[q]]_allVars
=============================================================================
