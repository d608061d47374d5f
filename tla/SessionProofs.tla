--------------------------- MODULE SessionProofs ---------------------------
(* Theorems about Session for every set of clients, accounts and worlds.   *)
EXTENDS Session, TLAPS

\* A program in the login screens is in no server's list, so the channel that
\* pakDoIdentify stores for it renames no world entry.
LoginIdle ==
  \A k \in Client : at[k] \in {"login", "routed"} => cs[k] = "none" /\ ws[k] = "none"

\* An entry of a world server holds a character at least as new as the row.
EntryIsNewest == \A k \in Client : ws[k] # "none" => ver[k] >= row[AcctOf[k]]

Inv == TypeOK /\ LoginIdle /\ OneCharSocket /\ OneEntryPerWorld

RowInv == Inv /\ EntryIsNewest

-----------------------------------------------------------------------------
\* Every reachable state is of its type: the queues hold accounts, the lists
\* hold known states (all handlers).
LEMMA TypeInit == Init => TypeOK
  BY ConstAssumption DEF Init, TypeOK, Screens, CharStates, WorldStates

\* Every handler keeps queues, lists and rows in their types.
LEMMA TypeStep == TypeOK /\ [Next]_vars => TypeOK'
<1> SUFFICES ASSUME TypeOK, [Next]_vars PROVE TypeOK'
  OBVIOUS
<1> USE ConstAssumption DEF TypeOK, Screens, CharStates, WorldStates,
        dbVars, linkVars, worldVars, charVars
<1>1. CASE LoginDSClient
  <2>1. Head(fromLogin) \in Account /\ Tail(fromLogin) \in Seq(Account)
    BY <1>1 DEF LoginDSClient
  <2>2. CASE UNCHANGED <<cs, toWorld>>
    BY <1>1, <2>1, <2>2 DEF LoginDSClient
  <2>3. ASSUME NEW k \in CharListed(Head(fromLogin)),
               cs' = [cs EXCEPT ![k] = "kicked"],
               IF up[chan[k]]
               THEN toWorld' = [toWorld EXCEPT ![chan[k]] =
                                  Append(@, Head(fromLogin))]
               ELSE UNCHANGED toWorld
        PROVE  TypeOK'
    <3>1. k \in Client /\ cs' \in [Client -> CharStates]
      BY <2>3 DEF CharListed
    <3>2. Append(toWorld[chan[k]], Head(fromLogin)) \in Seq(Account)
      BY <2>1, <3>1
    <3>3. toWorld' \in [World -> Seq(Account)]
      <4>1. CASE up[chan[k]]
        <5>1. chan[k] \in World
          BY <3>1
        <5>2. toWorld' = [toWorld EXCEPT ![chan[k]] =
                            Append(@, Head(fromLogin))]
          BY <2>3, <4>1
        <5> QED
          BY <3>2, <5>1, <5>2
      <4>2. CASE ~up[chan[k]]
        BY <2>3, <4>2
      <4> QED
        BY <4>1, <4>2
    <3> QED
      BY <1>1, <2>1, <3>1, <3>3 DEF LoginDSClient
  <2> QED
    BY <1>1, <2>2, <2>3 DEF LoginDSClient
<1>2. ASSUME NEW k \in Client, LoginNext(k) PROVE TypeOK'
  <2>1. CASE Relogin(k)
    <3>1. Append(fromLogin, AcctOf[k]) \in Seq(Account)
      OBVIOUS
    <3> QED
      BY <2>1, <3>1 DEF Relogin
  <2>2. CASE UserLogin(k)
    BY <2>2 DEF UserLogin
  <2>3. ASSUME NEW w \in World, GetIP(k, w) PROVE TypeOK'
    BY <2>3 DEF GetIP
  <2> QED
    BY <1>2, <2>1, <2>2, <2>3 DEF LoginNext
<1>3. ASSUME NEW k \in Client, CharNext(k) PROVE TypeOK'
  <2>1. CASE CharIdentify(k)
    <3>1. CASE MayIdentify(k)
      <4>1. online' \in [Account -> BOOLEAN]
        BY <2>1, <3>1 DEF CharIdentify
      <4>2. chan' \in [Client -> World]
        <5>1. lastsvr[AcctOf[k]] \in World
          OBVIOUS
        <5>2. chan' = [chan EXCEPT ![k] = lastsvr[AcctOf[k]]]
          BY <2>1, <3>1 DEF CharIdentify
        <5> QED
          BY <5>1, <5>2
      <4> QED
        BY <2>1, <3>1, <4>1, <4>2 DEF CharIdentify
    <3>2. CASE ~MayIdentify(k)
      BY <2>1, <3>2 DEF CharIdentify
    <3> QED
      BY <3>1, <3>2
  <2>2. CASE RequestWorld(k)
    BY <2>2 DEF RequestWorld
  <2>3. CASE CharReap(k)
    BY <2>3 DEF CharReap
  <2>4. CASE CharDrop(k)
    BY <2>4 DEF CharDrop
  <2> QED
    BY <1>3, <2>1, <2>2, <2>3, <2>4 DEF CharNext
<1>4. ASSUME NEW k \in Client, WorldNext(k) PROVE TypeOK'
  <2>1. CASE WorldIdentify(k)
    <3>1. CASE Rivals(k) = {}
      <4>1. ver' \in [Client -> Nat]
        <5>1. row[AcctOf[k]] \in Nat
          OBVIOUS
        <5>2. ver' = [ver EXCEPT ![k] = row[AcctOf[k]]]
          BY <2>1, <3>1 DEF WorldIdentify
        <5> QED
          BY <5>1, <5>2
      <4>2. online' \in [Account -> BOOLEAN]
        BY <2>1, <3>1 DEF WorldIdentify
      <4> QED
        BY <2>1, <3>1, <4>1, <4>2 DEF WorldIdentify
    <3>2. CASE Rivals(k) # {}
      <4>1. wactive' \in [Client -> BOOLEAN]
        BY <2>1, <3>2 DEF WorldIdentify, Rivals, WorldListed
      <4> QED
        BY <2>1, <3>2, <4>1 DEF WorldIdentify
    <3> QED
      BY <3>1, <3>2
  <2>2. CASE DoID(k)
    BY <2>2 DEF DoID
  <2>3. CASE Teleport(k)
    BY <2>3 DEF Teleport
  <2>4. CASE Progress(k)
    <3>1. ver[k] + 1 \in Nat
      OBVIOUS
    <3>2. ver' \in [Client -> Nat]
      BY <2>4, <3>1 DEF Progress
    <3> QED
      BY <2>4, <3>2 DEF Progress
  <2>5. CASE Autosave(k)
    BY <2>5 DEF Autosave, Saved
  <2>6. CASE CharSelect(k)
    <3>1. row' \in [Account -> Nat]
      BY <2>6 DEF CharSelect, Saved
    <3>2. Append(fromWorld[chan[k]], AcctOf[k]) \in Seq(Account)
      OBVIOUS
    <3>3. fromWorld' \in [World -> Seq(Account)]
      BY <2>6, <3>2 DEF CharSelect
    <3>4. ws' \in [Client -> WorldStates] /\ wactive' \in [Client -> BOOLEAN]
      BY <2>6 DEF CharSelect
    <3>5. online' \in [Account -> BOOLEAN]
      BY <2>6 DEF CharSelect
    <3> QED
      BY <2>6, <3>1, <3>3, <3>4, <3>5 DEF CharSelect
  <2>7. CASE Exit(k)
    BY <2>7 DEF Exit
  <2>8. CASE WorldReap(k)
    BY <2>8 DEF WorldReap, Saved
  <2> QED
    BY <1>4, <2>1, <2>2, <2>3, <2>4, <2>5, <2>6, <2>7, <2>8 DEF WorldNext
<1>5. ASSUME NEW k \in Client, Quit(k) PROVE TypeOK'
  BY <1>5 DEF Quit
<1>6. ASSUME NEW w \in World, ServerNext(w) PROVE TypeOK'
  <2>1. CASE WSCharSelect(w)
    BY <2>1, SMTT(30) DEF WSCharSelect
  <2>2. CASE CharDSClient(w)
    <3>1. Tail(toWorld[w]) \in Seq(Account)
      BY <2>2 DEF CharDSClient
    <3>2. toWorld' \in [World -> Seq(Account)]
      BY <2>2, <3>1 DEF CharDSClient
    <3>3. wactive' \in [Client -> BOOLEAN]
      BY <2>2 DEF CharDSClient, WorldListed
    <3> QED
      BY <2>2, <3>2, <3>3 DEF CharDSClient
  <2>3. CASE WorldCrash(w)
    BY <2>3 DEF WorldCrash
  <2>4. CASE WorldStart(w)
    BY <2>4 DEF WorldStart
  <2> QED
    BY <1>6, <2>1, <2>2, <2>3, <2>4 DEF ServerNext
<1>7. CASE UNCHANGED vars
  BY <1>7 DEF vars
<1> QED
  BY <1>1, <1>2, <1>3, <1>4, <1>5, <1>6, <1>7 DEF Next

\* TypeOK is an invariant.
THEOREM TypeCorrect == Spec => []TypeOK
  BY TypeInit, TypeStep, PTL DEF Spec

-----------------------------------------------------------------------------
\* What one step may change, in the terms the invariants speak of.

\* A slot appears in the char server's list only by pakDoIdentify, which found
\* no other socket of the account.
LEMMA CharListStep ==
  ASSUME TypeOK, [Next]_vars, NEW k \in Client, cs'[k] # "none"
  PROVE  \/ cs[k] # "none"
         \/ /\ at[k] = "routed" /\ CharListed(AcctOf[k]) = {}
            /\ at'[k] = "select"
            /\ \A j \in Client \ {k} : cs'[j] = cs[j]
<1> USE DEF TypeOK
<1>1. CASE LoginDSClient
  <2>1. CASE UNCHANGED cs
    BY <2>1
  <2>2. ASSUME NEW j \in CharListed(Head(fromLogin)), cs' = [cs EXCEPT ![j] = "kicked"]
        PROVE  cs[k] # "none"
    BY <2>2 DEF CharListed
  <2> QED
    BY <1>1, <2>1, <2>2 DEF LoginDSClient
<1>2. ASSUME NEW j \in Client, LoginNext(j) PROVE UNCHANGED cs
  BY <1>2 DEF LoginNext, Relogin, UserLogin, GetIP, charVars
<1>3. ASSUME NEW j \in Client, CharIdentify(j)
      PROVE  \/ cs[k] # "none"
             \/ /\ at[k] = "routed" /\ CharListed(AcctOf[k]) = {}
                /\ at'[k] = "select"
                /\ \A i \in Client \ {k} : cs'[i] = cs[i]
  <2>1. CASE MayIdentify(j) /\ j = k
    <3>1. at[k] = "routed" /\ CharListed(AcctOf[k]) = {}
      BY <1>3, <2>1 DEF CharIdentify, MayIdentify
    <3>2. cs' = [cs EXCEPT ![k] = "in"] /\ at' = [at EXCEPT ![k] = "select"]
      BY <1>3, <2>1 DEF CharIdentify
    <3> QED
      BY <3>1, <3>2
  <2>2. CASE MayIdentify(j) /\ j # k
    <3>1. cs' = [cs EXCEPT ![j] = "in"]
      BY <1>3, <2>2 DEF CharIdentify
    <3> QED
      BY <2>2, <3>1
  <2>3. CASE ~MayIdentify(j)
    BY <1>3, <2>3 DEF CharIdentify, charVars
  <2> QED
    BY <2>1, <2>2, <2>3
<1>4. ASSUME NEW j \in Client, RequestWorld(j) \/ CharReap(j) \/ CharDrop(j)
      PROVE  cs[k] # "none"
  BY <1>4 DEF RequestWorld, CharReap, CharDrop
<1>5. ASSUME NEW j \in Client, WorldNext(j) PROVE UNCHANGED cs
  BY <1>5 DEF WorldNext, WorldIdentify, DoID, Teleport, Progress, Autosave,
              CharSelect, Exit, WorldReap, charVars
<1>6. ASSUME NEW j \in Client, Quit(j) PROVE UNCHANGED cs
  BY <1>6 DEF Quit, charVars
<1>7. ASSUME NEW w \in World, ServerNext(w) PROVE UNCHANGED cs
  BY <1>7 DEF ServerNext, WSCharSelect, CharDSClient, WorldCrash, WorldStart,
              charVars
<1>8. CASE UNCHANGED vars
  BY <1>8 DEF vars
<1> QED
  BY <1>1, <1>2, <1>3, <1>4, <1>5, <1>6, <1>7, <1>8 DEF Next, CharNext

\* An entry appears in a world server's list only by its pakDoIdentify, which
\* found no other entry of the account there.
LEMMA WorldListStep ==
  ASSUME TypeOK, [Next]_vars, NEW k \in Client, ws'[k] # "none"
  PROVE  \/ ws[k] # "none"
         \/ /\ at[k] = "ticket" /\ WorldListed(AcctOf[k], chan[k]) = {}
            /\ \A j \in Client \ {k} : ws'[j] = ws[j]
            /\ UNCHANGED chan
<1> USE DEF TypeOK
<1>1. CASE LoginDSClient
  BY <1>1 DEF LoginDSClient, worldVars
<1>2. ASSUME NEW j \in Client, LoginNext(j) PROVE UNCHANGED ws
  BY <1>2 DEF LoginNext, Relogin, UserLogin, GetIP, worldVars
<1>3. ASSUME NEW j \in Client, CharNext(j) PROVE UNCHANGED ws
  BY <1>3 DEF CharNext, CharIdentify, RequestWorld, CharReap, CharDrop, worldVars
<1>4. ASSUME NEW j \in Client, WorldIdentify(j)
      PROVE  \/ ws[k] # "none"
             \/ /\ at[k] = "ticket" /\ WorldListed(AcctOf[k], chan[k]) = {}
                /\ \A i \in Client \ {k} : ws'[i] = ws[i]
                /\ UNCHANGED chan
  BY <1>4 DEF WorldIdentify, Rivals, charVars
<1>5. ASSUME NEW j \in Client,
             DoID(j) \/ Teleport(j) \/ CharSelect(j) \/ WorldReap(j)
      PROVE  ws[k] # "none"
  BY <1>5 DEF DoID, Teleport, CharSelect, WorldReap
<1>6. ASSUME NEW j \in Client, Progress(j) \/ Autosave(j) \/ Exit(j) \/ Quit(j)
      PROVE  UNCHANGED ws
  BY <1>6 DEF Progress, Autosave, Exit, Quit, worldVars
<1>7. ASSUME NEW w \in World, WSCharSelect(w) \/ CharDSClient(w) \/ WorldStart(w)
      PROVE  UNCHANGED ws
  BY <1>7 DEF WSCharSelect, CharDSClient, WorldStart, worldVars
<1>8. ASSUME NEW w \in World, WorldCrash(w) PROVE ws[k] # "none"
  BY <1>8 DEF WorldCrash
<1>9. CASE UNCHANGED vars
  BY <1>9 DEF vars
<1> QED
  BY <1>1, <1>2, <1>3, <1>4, <1>5, <1>6, <1>7, <1>8, <1>9 DEF Next, WorldNext, ServerNext

\* Only pakDoIdentify of the char server changes a channel, for a program that
\* is still in the login screens.
LEMMA ChanStep ==
  ASSUME TypeOK, [Next]_vars, NEW k \in Client
  PROVE  chan'[k] = chan[k] \/ at[k] = "routed"
<1> USE DEF TypeOK
<1>1. CASE LoginDSClient
  BY <1>1 DEF LoginDSClient
<1>2. ASSUME NEW j \in Client, LoginNext(j) PROVE UNCHANGED chan
  BY <1>2 DEF LoginNext, Relogin, UserLogin, GetIP, charVars
<1>3. ASSUME NEW j \in Client, CharIdentify(j)
      PROVE  chan'[k] = chan[k] \/ at[k] = "routed"
  BY <1>3 DEF CharIdentify, charVars
<1>4. ASSUME NEW j \in Client, RequestWorld(j) \/ CharReap(j) \/ CharDrop(j)
      PROVE  UNCHANGED chan
  BY <1>4 DEF RequestWorld, CharReap, CharDrop
<1>5. ASSUME NEW j \in Client, WorldNext(j) \/ Quit(j) PROVE UNCHANGED chan
  BY <1>5 DEF WorldNext, WorldIdentify, DoID, Teleport, Progress, Autosave,
              CharSelect, Exit, WorldReap, Quit, charVars
<1>6. ASSUME NEW w \in World, ServerNext(w) PROVE UNCHANGED chan
  BY <1>6 DEF ServerNext, WSCharSelect, CharDSClient, WorldCrash, WorldStart,
              charVars
<1>7. CASE UNCHANGED vars
  BY <1>7 DEF vars
<1> QED
  BY <1>1, <1>2, <1>3, <1>4, <1>5, <1>6, <1>7 DEF Next, CharNext

\* A program enters the login screens only from "off", with no entry anywhere.
LEMMA LoginStep ==
  ASSUME TypeOK, [Next]_vars, NEW k \in Client, at'[k] \in {"login", "routed"}
  PROVE  \/ at[k] \in {"login", "routed"}
         \/ cs[k] = "none" /\ ws[k] = "none" /\ UNCHANGED <<cs, ws>>
<1> USE DEF TypeOK
<1>1. CASE LoginDSClient
  BY <1>1 DEF LoginDSClient
<1>2. ASSUME NEW j \in Client, LoginNext(j)
      PROVE  \/ at[k] \in {"login", "routed"}
             \/ cs[k] = "none" /\ ws[k] = "none" /\ UNCHANGED <<cs, ws>>
  BY <1>2 DEF LoginNext, Relogin, UserLogin, GetIP, charVars, worldVars
<1>3. ASSUME NEW j \in Client, CharNext(j) PROVE at[k] \in {"login", "routed"}
  BY <1>3 DEF CharNext, CharIdentify, RequestWorld, CharReap, CharDrop
<1>4. ASSUME NEW j \in Client, WorldNext(j) \/ Quit(j)
      PROVE  at[k] \in {"login", "routed"}
  BY <1>4 DEF WorldNext, WorldIdentify, DoID, Teleport, Progress, Autosave,
              CharSelect, Exit, WorldReap, Quit
<1>5. ASSUME NEW w \in World, ServerNext(w) PROVE at[k] \in {"login", "routed"}
  BY <1>5 DEF ServerNext, WSCharSelect, CharDSClient, WorldCrash, WorldStart
<1>6. CASE UNCHANGED vars
  BY <1>6 DEF vars
<1> QED
  BY <1>1, <1>2, <1>3, <1>4, <1>5, <1>6 DEF Next

-----------------------------------------------------------------------------
\* The invariant of the two client lists.
LEMMA InvInit == Init => Inv
  BY TypeInit DEF Init, Inv, LoginIdle, OneCharSocket, OneEntryPerWorld

\* A new entry finds no other of its account (pakDoIdentify on both servers),
\* and an entry that stays keeps its account and its channel.
LEMMA InvStep == Inv /\ [Next]_vars => Inv'
<1> SUFFICES ASSUME Inv, [Next]_vars PROVE Inv'
  OBVIOUS
<1>1. TypeOK /\ TypeOK'
  BY TypeStep DEF Inv
<1>2. LoginIdle'
  <2> SUFFICES ASSUME NEW k \in Client, at'[k] \in {"login", "routed"}
               PROVE  cs'[k] = "none" /\ ws'[k] = "none"
    BY DEF LoginIdle
  <2>1. \/ at[k] \in {"login", "routed"}
        \/ cs[k] = "none" /\ ws[k] = "none" /\ UNCHANGED <<cs, ws>>
    BY <1>1, LoginStep
  <2>2. CASE at[k] \in {"login", "routed"}
    <3>1. cs[k] = "none" /\ ws[k] = "none"
      BY <2>2 DEF Inv, LoginIdle
    <3>2. cs'[k] = "none"
      BY <1>1, <3>1, CharListStep
    <3>3. ws'[k] = "none"
      BY <1>1, <2>2, <3>1, WorldListStep
    <3> QED
      BY <3>2, <3>3
  <2> QED
    BY <2>1, <2>2
<1>3. OneCharSocket'
  <2> SUFFICES ASSUME NEW j \in Client, NEW k \in Client, j # k,
                      cs'[j] # "none", cs'[k] # "none", AcctOf[j] = AcctOf[k]
               PROVE  FALSE
    BY DEF OneCharSocket
  <2>1. CASE cs[j] # "none" /\ cs[k] # "none"
    BY <2>1 DEF Inv, OneCharSocket
  <2>2. CASE cs[j] = "none"
    <3>1. CharListed(AcctOf[j]) = {} /\ cs'[k] = cs[k]
      BY <1>1, <2>2, CharListStep
    <3> QED
      BY <3>1 DEF CharListed
  <2>3. CASE cs[k] = "none"
    <3>1. CharListed(AcctOf[k]) = {} /\ cs'[j] = cs[j]
      BY <1>1, <2>3, CharListStep
    <3> QED
      BY <3>1 DEF CharListed
  <2> QED
    BY <2>1, <2>2, <2>3
<1>4. OneEntryPerWorld'
  <2> SUFFICES ASSUME NEW j \in Client, NEW k \in Client, j # k,
                      ws'[j] # "none", ws'[k] # "none",
                      AcctOf[j] = AcctOf[k], chan'[j] = chan'[k]
               PROVE  FALSE
    BY DEF OneEntryPerWorld
  <2>1. CASE ws[j] # "none" /\ ws[k] # "none"
    <3>1. chan'[j] = chan[j] /\ chan'[k] = chan[k]
      BY <1>1, <2>1, ChanStep DEF Inv, LoginIdle
    <3> QED
      BY <2>1, <3>1 DEF Inv, OneEntryPerWorld
  <2>2. CASE ws[j] = "none"
    <3>1. WorldListed(AcctOf[j], chan[j]) = {} /\ ws'[k] = ws[k] /\ UNCHANGED chan
      BY <1>1, <2>2, WorldListStep
    <3> QED
      BY <3>1 DEF WorldListed
  <2>3. CASE ws[k] = "none"
    <3>1. WorldListed(AcctOf[k], chan[k]) = {} /\ ws'[j] = ws[j] /\ UNCHANGED chan
      BY <1>1, <2>3, WorldListStep
    <3> QED
      BY <3>1 DEF WorldListed
  <2> QED
    BY <2>1, <2>2, <2>3
<1> QED
  BY <1>1, <1>2, <1>3, <1>4 DEF Inv

\* The invariant of the two client lists holds in every reachable state.
LEMMA InvCorrect == Spec => []Inv
  BY InvInit, InvStep, PTL DEF Spec

\* However many programs log in, are kicked and are reaped, the char server
\* lists one socket per account.
THEOREM CharServerUnique == Spec => []OneCharSocket
<1>1. Inv => OneCharSocket
  BY DEF Inv
<1> QED
  BY <1>1, InvCorrect, PTL

\* However many world servers there are, each lists one entry per account.
THEOREM WorldServerUnique == Spec => []OneEntryPerWorld
<1>1. Inv => OneEntryPerWorld
  BY DEF Inv
<1> QED
  BY <1>1, InvCorrect, PTL

-----------------------------------------------------------------------------
\* With a single world server one entry per world is one entry at all, and the
\* character row only grows.

\* At the start nobody holds a character, so no row is older than an entry.
LEMMA RowInit == Init => RowInv
  BY InvInit, ConstAssumption DEF Init, RowInv, EntryIsNewest, TypeOK

\* A save writes the only entry there is, which was read from the row and has
\* only moved on since (loaddata, savedata, the autosave).
LEMMA RowStep ==
  ASSUME NEW w0, World = {w0}, RowInv, [Next]_vars
  PROVE  EntryIsNewest' /\ \A a \in Account : row'[a] >= row[a]
<1> USE ConstAssumption
<1>1. TypeOK
  BY DEF RowInv, Inv
<1>2. \A k \in Client : chan[k] = w0
  BY <1>1 DEF TypeOK
<1>3. \A j, k \in Client :
        ws[j] # "none" /\ ws[k] # "none" /\ AcctOf[j] = AcctOf[k] => j = k
  BY <1>2 DEF RowInv, Inv, OneEntryPerWorld
<1>4. EntryIsNewest
  BY DEF RowInv
<1>5. ASSUME NEW k \in Client, ws[k] # "none", row' = [row EXCEPT ![AcctOf[k]] = ver[k]],
             UNCHANGED ver, \A j \in Client : ws'[j] # "none" => ws[j] # "none"
      PROVE  EntryIsNewest' /\ \A a \in Account : row'[a] >= row[a]
  <2>1. row \in [Account -> Nat] /\ ver \in [Client -> Nat] /\ AcctOf[k] \in Account
    BY <1>1 DEF TypeOK
  <2>2. ver[k] >= row[AcctOf[k]]
    BY <1>4, <1>5 DEF EntryIsNewest
  <2>3. \A a \in Account : row'[a] >= row[a]
    BY <1>5, <2>1, <2>2
  <2>4. ASSUME NEW j \in Client, ws'[j] # "none" PROVE ver'[j] >= row'[AcctOf[j]]
    <3>1. ws[j] # "none"
      BY <1>5, <2>4
    <3>2. CASE AcctOf[j] = AcctOf[k]
      BY <1>3, <1>5, <2>1, <3>1, <3>2
    <3>3. CASE AcctOf[j] # AcctOf[k]
      BY <1>4, <1>5, <2>1, <3>1, <3>3 DEF EntryIsNewest
    <3> QED
      BY <3>2, <3>3
  <2> QED
    BY <2>3, <2>4 DEF EntryIsNewest
<1>6. ASSUME UNCHANGED <<row, ver>>, \A j \in Client : ws'[j] # "none" => ws[j] # "none"
      PROVE  EntryIsNewest' /\ \A a \in Account : row'[a] >= row[a]
  BY <1>1, <1>4, <1>6 DEF EntryIsNewest, TypeOK
<1>7. CASE LoginDSClient
  BY <1>6, <1>7 DEF LoginDSClient, worldVars, dbVars
<1>8. ASSUME NEW k \in Client, LoginNext(k) \/ CharNext(k) \/ Quit(k)
      PROVE  UNCHANGED <<row, worldVars>>
  BY <1>8 DEF LoginNext, Relogin, UserLogin, GetIP, CharNext, CharIdentify,
              RequestWorld, CharReap, CharDrop, Quit, dbVars
<1>9. ASSUME NEW w \in World, ServerNext(w)
      PROVE  UNCHANGED <<row, ver>> /\ \A j \in Client : ws'[j] # "none" => ws[j] # "none"
  BY <1>9 DEF ServerNext, WSCharSelect, CharDSClient, WorldCrash, WorldStart,
              dbVars, worldVars
<1>10. ASSUME NEW k \in Client, WorldNext(k)
       PROVE  EntryIsNewest' /\ \A a \in Account : row'[a] >= row[a]
  <2> USE <1>1 DEF TypeOK
  <2>1. CASE WorldIdentify(k)
    <3>1. UNCHANGED row
      BY <2>1 DEF WorldIdentify
    <3>2. CASE Rivals(k) # {}
      BY <1>6, <2>1, <3>1, <3>2 DEF WorldIdentify
    <3>3. CASE Rivals(k) = {}
      <4>1. ver' = [ver EXCEPT ![k] = row[AcctOf[k]]] /\ ws' = [ws EXCEPT ![k] = "loaded"]
        BY <2>1, <3>3 DEF WorldIdentify
      <4>2. row[AcctOf[k]] \in Nat
        OBVIOUS
      <4> QED
        BY <1>4, <3>1, <4>1, <4>2 DEF EntryIsNewest
    <3> QED
      BY <3>2, <3>3
  <2>2. CASE Progress(k)
    <3>1. /\ ver' = [ver EXCEPT ![k] = @ + 1] /\ UNCHANGED <<row, ws>>
          /\ ver[k] \in Nat /\ ver[k] + 1 >= ver[k] /\ row[AcctOf[k]] \in Nat
      BY <2>2 DEF Progress, dbVars
    <3> QED
      BY <1>4, <3>1 DEF EntryIsNewest
  <2>3. CASE DoID(k) \/ Teleport(k) \/ Exit(k)
    BY <1>6, <2>3 DEF DoID, Teleport, Exit, dbVars
  <2>4. CASE Autosave(k)
    BY <1>5, <2>4 DEF Autosave, Saved, worldVars
  <2>5. CASE CharSelect(k)
    BY <1>5, <2>5 DEF CharSelect, Saved, Avatar
  <2>6. CASE WorldReap(k)
    BY <1>5, <1>6, <2>6 DEF WorldReap, Saved, Avatar
  <2> QED
    BY <1>10, <2>1, <2>2, <2>3, <2>4, <2>5, <2>6 DEF WorldNext
<1>11. CASE UNCHANGED vars
  BY <1>6, <1>11 DEF vars
<1> QED
  BY <1>6, <1>7, <1>8, <1>9, <1>10, <1>11 DEF Next, worldVars

\* With one world server no late save or disconnect ever writes an older
\* character over a newer one.
THEOREM SingleWorldNoRollback ==
  ASSUME NEW w0, World = {w0}
  PROVE  Spec => NoRollback
<1>1. RowInv /\ [Next]_vars => RowInv'
  BY InvStep, RowStep DEF RowInv
<1>2. RowInv /\ [Next]_vars => [\A a \in Account : row'[a] >= row[a]]_row
  BY RowStep
<1> QED
  BY RowInit, <1>1, <1>2, PTL DEF Spec, NoRollback
=============================================================================
