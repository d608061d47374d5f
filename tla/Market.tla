------------------------------- MODULE Market -------------------------------
(***************************************************************************)
(* What the players' dealings promise, without slots, rows or packets.     *)
(* Goods and money move between players, and between them and the ground,  *)
(* and are neither made nor lost; dealings of one player with his storage  *)
(* or a shop touch nobody else.  What a death of the server or a departure *)
(* may cost is said exactly.                                               *)
(***************************************************************************)
EXTENDS Naturals, FiniteSetsExt

CONSTANTS Player, Kind,
          Worth  \* what a shop takes for one of a kind

VARIABLES
  wealth,   \* what a player owns of each kind
  money,    \* what he owns of it, storage included
  booked,   \* the money the database knows of
  lying,    \* what lies on the ground of each kind
  loose,    \* the money there
  busy,     \* players whose rows are being written
  course,   \* how: the rows of a giver first ("thin"), those of the taker
            \* ("thick"), or one player's own in any order ("either")
  owing,    \* used up something the database still has
  closing,  \* saved for the last time, still there
  late,     \* dealt with while closing
  doubt,    \* a withdrawal of his was refused
  astray    \* a change of what he wears was taken back

marketVars == <<busy, course, money, booked, owing, closing, late, doubt, astray, loose, lying, wealth>>

Total(P, owned, k) == MapThenSumSet(LAMBDA p : owned[p][k], P)

Value(m, owned) == m + MapThenSumSet(LAMBDA k : Worth[k] * owned[k], Kind)

OnlyTouched(P) ==
  \A p \in Player \ P : money'[p] = money[p] /\ booked'[p] = booked[p] /\ wealth'[p] = wealth[p]

GroundStays == UNCHANGED <<loose, lying>>

\* A handler runs for P, and writes what it touches.
Handled(P) ==
  /\ busy = {} /\ busy' \subseteq P
  /\ booked' = booked
  /\ UNCHANGED <<closing, doubt>>
  /\ OnlyTouched(P)

\* Two players deal: of every kind, and of the money, what one loses the other gets.
Deal(p, q) ==
  /\ p # q /\ p \notin closing
  /\ late' = late \cup (closing \cap {q})
  /\ UNCHANGED <<owing, astray>>
  /\ Handled({p, q}) /\ GroundStays
  /\ money'[p] + money'[q] = money[p] + money[q]
  /\ \A k \in Kind : wealth'[p][k] + wealth'[q][k] = wealth[p][k] + wealth[q][k]

\* One player and his storage, or what he wears: a fee may be taken, and goods
\* only disappear when a withdrawal was refused before.
Stow(p) ==
  /\ astray' \subseteq astray \cup {p}
  /\ UNCHANGED <<owing, late>>
  /\ Handled({p}) /\ GroundStays
  /\ money'[p] <= money[p]
  /\ \A k \in Kind : wealth'[p][k] <= wealth[p][k]
  /\ p \notin doubt => wealth' = wealth

\* Something is used up.
Use(p) ==
  /\ owing' \subseteq owing \cup {p}
  /\ UNCHANGED <<late, astray, money>>
  /\ Handled({p}) /\ GroundStays
  /\ \A k \in Kind : wealth'[p][k] <= wealth[p][k]

\* A shop gives no more than it takes.
Shop(p) ==
  /\ UNCHANGED <<owing, late, astray>>
  /\ Handled({p}) /\ GroundStays
  /\ Value(money'[p], wealth'[p]) <= Value(money[p], wealth[p])

\* What leaves a player lies on the ground, what leaves the ground he has.
Lay(p) ==
  /\ UNCHANGED <<owing, late, astray>>
  /\ Handled({p})
  /\ money'[p] + loose' = money[p] + loose
  /\ \A k \in Kind : wealth'[p][k] + lying'[k] = wealth[p][k] + lying[k]

\* What nobody picks up is gone.
Vanish ==
  /\ UNCHANGED <<busy, course, owing, closing, late, doubt, astray, money, booked>>
  /\ loose' <= loose /\ \A k \in Kind : lying'[k] <= lying[k]
  /\ UNCHANGED wealth

Doubt(p) ==
  /\ busy = {}
  /\ doubt' = doubt \cup {p}
  /\ UNCHANGED <<busy, course, owing, closing, late, astray, money, booked, loose, lying, wealth>>

\* The rows of the busy are written.  Owners do not change by it.
Settle ==
  /\ busy # {} /\ busy' \subseteq busy
  /\ owing' \subseteq owing
  /\ \A p \in Player \ busy : booked'[p] = booked[p]
  /\ UNCHANGED <<course, closing, late, doubt, astray, money, loose, lying, wealth>>

Book(p) ==
  /\ booked' = [booked EXCEPT ![p] = money[p]]
  /\ closing' \in {closing, closing \cup {p}}
  /\ owing' = owing \ {p}
  /\ UNCHANGED <<busy, course, late, doubt, astray, money, loose, lying, wealth>>

Return(p) ==
  /\ doubt' = doubt \ {p}
  /\ UNCHANGED <<busy, course, owing, closing, late, astray, money, booked, loose, lying, wealth>>

\* He takes along everything he owns, unless somebody dealt with him after he
\* had been saved: then his money is the money that was saved.  Whose change of
\* clothes was taken back finds what the rows say instead.
Depart(p) ==
  /\ busy = {}
  /\ closing' = closing \ {p} /\ late' = late \ {p}
  /\ owing' = owing \ {p} /\ astray' = astray \ {p}
  /\ UNCHANGED <<busy, course, doubt>>
  /\ money'[p] = booked'[p]
  /\ p \notin late => money'[p] = money[p]
  /\ OnlyTouched({p}) /\ GroundStays
  /\ p \notin astray => wealth' = wealth

\* The server dies.  Money falls back to what was booked and the ground is
\* bare.  Goods stay with their owners, and what was used up may come back.  Of
\* the busy they may double, or be lost where the giver's rows come first; a
\* doubt or a change taken back makes both possible.
Die ==
  /\ money' = booked /\ booked' = booked
  /\ loose' = 0 /\ lying' = [k \in Kind |-> 0]
  /\ \A p \in Player \ (busy \cup astray), k \in Kind :
       /\ wealth'[p][k] >= wealth[p][k]
       /\ p \notin owing => wealth'[p][k] = wealth[p][k]
  /\ busy \cap (owing \cup doubt \cup astray) = {} =>
       \A k \in Kind :
         /\ course = "thin"  => Total(busy, wealth', k) <= Total(busy, wealth, k)
         /\ course = "thick" => Total(busy, wealth', k) >= Total(busy, wealth, k)
  /\ busy' = {} /\ owing' = {} /\ closing' = {} /\ late' = {} /\ astray' = {}
  /\ UNCHANGED doubt

\* Most of what players do is no dealing.
Nothing == UNCHANGED marketVars

MarketNext ==
  \/ Nothing
  \/ Settle
  \/ Vanish
  \/ \E p \in Player :
       \/ Stow(p) \/ Use(p) \/ Lay(p) \/ Shop(p)
       \/ Doubt(p) \/ Book(p) \/ Return(p) \/ Depart(p)
  \/ \E p, q \in Player : Deal(p, q)
  \/ Die

MarketSpec == [][MarketNext]_marketVars
=============================================================================
