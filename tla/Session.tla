------------------------------ MODULE Session ------------------------------
(***************************************************************************)
(* One account's way through the three server processes.                   *)
(*                                                                         *)
(* The login server, the character server and the world servers share one  *)
(* database and no memory.  What keeps an account to one avatar is the     *)
(* column accounts.online, the scans of the in-memory client lists         *)
(* (GetNbUserID), and the kick (packet 0x502) that travels login -> char   *)
(* -> world over two TCP connections.  This module follows the flag, the   *)
(* kick, the return to character select (0x505) and the character row that *)
(* a world server loads at the start of a session and writes back.         *)
(*                                                                         *)
(* A Client is a connection slot: one run of the game program.  A player   *)
(* who restarts the program before the servers have reaped his old sockets *)
(* is another slot of the same account.                                    *)
(***************************************************************************)
EXTENDS Naturals, Sequences

CONSTANTS Client,    \* runs of the game program
          Account,   \* rows of table accounts
          World,     \* world servers, the rows of table channels
          AcctOf,    \* the account whose password each run uses
          MaxMsg,    \* bound: kicks or returns waiting in one connection
          MaxVer     \* bound: changes made to one character

ASSUME ConstAssumption ==
  /\ AcctOf \in [Client -> Account]
  /\ World # {}
  /\ MaxMsg \in Nat \ {0}
  /\ MaxVer \in Nat

VARIABLES
  online,     \* accounts.online
  lastsvr,    \* accounts.lastsvr, the channel last chosen at the login server
  row,        \* the character row in the database, as a version number
  up,         \* the world server runs and is listed in table channels
  fromLogin,  \* 0x502 on the connection login server -> char server
  toWorld,    \* 0x502 on the connection char server -> world server
  fromWorld,  \* 0x505 on the connection world server -> char server
  at,         \* the screen the game program shows
  cs,         \* its entry in the char server's ClientList
  chan,       \* CCharClient::channel
  ws,         \* its entry in the world server's ClientList
  wactive,    \* CClientSocket::isActive of that entry
  ver         \* the version of the character held by that entry

dbVars     == <<online, lastsvr, row>>
linkVars   == <<fromLogin, toWorld, fromWorld>>
worldVars  == <<ws, wactive, ver>>
charVars   == <<cs, chan>>
vars == <<online, lastsvr, row, up, fromLogin, toWorld, fromWorld,
          at, cs, chan, ws, wactive, ver>>

Screens == {"off", "login", "routed", "select", "ticket", "game"}

\* "in": isLoggedIn and active; "kicked": both reset, still in the list.
CharStates == {"none", "in", "kicked"}

\* "loaded": isLoggedIn, not inGame; "playing": both;
\* "closing": isLoggedIn reset by pakCharSelect, still in the list.
WorldStates == {"none", "loaded", "playing", "closing"}

TypeOK ==
  /\ online \in [Account -> BOOLEAN]
  /\ lastsvr \in [Account -> World]
  /\ row \in [Account -> Nat]
  /\ up \in [World -> BOOLEAN]
  /\ fromLogin \in Seq(Account)
  /\ toWorld \in [World -> Seq(Account)]
  /\ fromWorld \in [World -> Seq(Account)]
  /\ at \in [Client -> Screens]
  /\ cs \in [Client -> CharStates]
  /\ chan \in [Client -> World]
  /\ ws \in [Client -> WorldStates]
  /\ wactive \in [Client -> BOOLEAN]
  /\ ver \in [Client -> Nat]

Init ==
  /\ online = [a \in Account |-> FALSE]
  /\ lastsvr \in [Account -> World]
  /\ row = [a \in Account |-> 0]
  /\ up = [w \in World |-> TRUE]
  /\ fromLogin = <<>>
  /\ toWorld = [w \in World |-> <<>>]
  /\ fromWorld = [w \in World |-> <<>>]
  /\ at = [k \in Client |-> "off"]
  /\ cs = [k \in Client |-> "none"]
  /\ chan \in [Client -> World]
  /\ ws = [k \in Client |-> "none"]
  /\ wactive = [k \in Client |-> FALSE]
  /\ ver = [k \in Client |-> 0]

-----------------------------------------------------------------------------
\* The scans GetNbUserID and GetClientByUserID make of a server's ClientList.

CharListed(a) == {k \in Client : cs[k] # "none" /\ AcctOf[k] = a}

WorldListed(a, w) ==
  {k \in Client : ws[k] # "none" /\ chan[k] = w /\ AcctOf[k] = a}

\* isLoggedIn on the world server.
Avatar(k) == ws[k] \in {"loaded", "playing"}

-----------------------------------------------------------------------------
\* The login server.

\* Variant: the relogin is reported and forwarded, the flag stays.
ReloginFlagKept(k) ==
  /\ at[k] = "off" /\ cs[k] = "none" /\ ws[k] = "none"
  /\ online[AcctOf[k]]
  /\ Len(fromLogin) < MaxMsg
  /\ fromLogin' = Append(fromLogin, AcctOf[k])
  /\ UNCHANGED <<dbVars, up, toWorld, fromWorld, at, charVars, worldVars>>

\* 0x708 with valid credentials while accounts.online is set: the answer is
\* "already logged", the kick goes out and the flag is cleared.
Relogin(k) ==
  LET a == AcctOf[k] IN
  /\ at[k] = "off" /\ cs[k] = "none" /\ ws[k] = "none"
  /\ online[a]
  /\ Len(fromLogin) < MaxMsg
  /\ fromLogin' = Append(fromLogin, a)
  /\ online' = [online EXCEPT ![a] = FALSE]
  /\ UNCHANGED <<lastsvr, row, up, toWorld, fromWorld, at, charVars, worldVars>>

\* 0x708 with valid credentials and the flag clear.
UserLogin(k) ==
  /\ at[k] = "off" /\ cs[k] = "none" /\ ws[k] = "none"
  /\ ~online[AcctOf[k]]
  /\ at' = [at EXCEPT ![k] = "login"]
  /\ UNCHANGED <<dbVars, up, linkVars, charVars, worldVars>>

\* Variant: the update stores the account's own id.
GetIPOwnId(k, w) ==
  /\ at[k] = "login"
  /\ lastsvr' = [lastsvr EXCEPT ![AcctOf[k]] = AcctOf[k]]
  /\ at' = [at EXCEPT ![k] = "routed"]
  /\ UNCHANGED <<online, row, up, linkVars, charVars, worldVars>>

\* 0x70a: the chosen channel is stored in the account row, the client is told
\* where the char server is.
GetIP(k, w) ==
  /\ at[k] = "login"
  /\ lastsvr' = [lastsvr EXCEPT ![AcctOf[k]] = w]
  /\ at' = [at EXCEPT ![k] = "routed"]
  /\ UNCHANGED <<online, row, up, linkVars, charVars, worldVars>>

-----------------------------------------------------------------------------
\* The char server.

\* Variant: trust the flag alone.
MayIdentifyByFlag(k) == ~online[AcctOf[k]]

\* 0x70b: refused when the list holds another socket of the account, or when
\* the flag is set.
MayIdentify(k) == CharListed(AcctOf[k]) = {} /\ ~online[AcctOf[k]]

CharIdentify(k) ==
  LET a == AcctOf[k] IN
  /\ at[k] = "routed"
  /\ \/ /\ MayIdentify(k)
        /\ online' = [online EXCEPT ![a] = TRUE]
        /\ chan' = [chan EXCEPT ![k] = lastsvr[a]]
        /\ cs' = [cs EXCEPT ![k] = "in"]
        /\ at' = [at EXCEPT ![k] = "select"]
     \/ /\ ~MayIdentify(k)
        /\ at' = [at EXCEPT ![k] = "off"]
        /\ UNCHANGED <<online, charVars>>
  /\ UNCHANGED <<lastsvr, row, up, linkVars, worldVars>>

\* 0x715: the client gets the address of its world server, or is dropped when
\* the channel is no longer listed.
RequestWorld(k) ==
  /\ at[k] = "select" /\ cs[k] = "in"
  /\ IF up[chan[k]]
     THEN /\ at' = [at EXCEPT ![k] = "ticket"]
          /\ UNCHANGED cs
     ELSE /\ at' = [at EXCEPT ![k] = "off"]
          /\ cs' = [cs EXCEPT ![k] = "none"]
  /\ UNCHANGED <<dbVars, up, linkVars, chan, worldVars>>

\* 0x502 from the login server.  An account with no socket here is reported
\* "not online" and the kick goes no further.
LoginDSClient ==
  /\ fromLogin # <<>>
  /\ fromLogin' = Tail(fromLogin)
  /\ \/ /\ CharListed(Head(fromLogin)) = {}
        /\ UNCHANGED <<cs, toWorld>>
     \/ \E k \in CharListed(Head(fromLogin)) :
          /\ cs' = [cs EXCEPT ![k] = "kicked"]
          /\ IF up[chan[k]]
             THEN /\ Len(toWorld[chan[k]]) < MaxMsg
                  /\ toWorld' = [toWorld EXCEPT ![chan[k]] =
                                   Append(@, Head(fromLogin))]
             ELSE UNCHANGED toWorld
  /\ UNCHANGED <<dbVars, up, fromWorld, at, chan, worldVars>>

\* The socket leaves the list, kicked or because the program has closed it.
\* accounts.online is left as it is.
CharReap(k) ==
  /\ \/ cs[k] = "kicked"
     \/ cs[k] = "in" /\ at[k] = "off"
  /\ cs' = [cs EXCEPT ![k] = "none"]
  /\ at' = [at EXCEPT ![k] = IF @ = "game" THEN "game" ELSE "off"]
  /\ UNCHANGED <<dbVars, up, linkVars, chan, worldVars>>

\* The connection to the char server breaks under a running program.
CharDrop(k) ==
  /\ cs[k] = "in" /\ at[k] \in {"select", "ticket", "game"}
  /\ cs' = [cs EXCEPT ![k] = "none"]
  /\ at' = [at EXCEPT ![k] = IF @ = "game" THEN "game" ELSE "off"]
  /\ UNCHANGED <<dbVars, up, linkVars, chan, worldVars>>

\* 0x505 from a world server: the account's socket is told to show the
\* character list (0x71c); a program that plays then leaves its world.
WSCharSelect(w) ==
  /\ fromWorld[w] # <<>>
  /\ fromWorld' = [fromWorld EXCEPT ![w] = Tail(@)]
  /\ LET told == CharListed(Head(fromWorld[w]))
     IN  at' = [k \in Client |-> IF k \in told /\ at[k] = "game"
                                 THEN "select" ELSE at[k]]
  /\ UNCHANGED <<dbVars, up, fromLogin, toWorld, charVars, worldVars>>

-----------------------------------------------------------------------------
\* A world server.

\* Variants: no search for other entries; a search that skips inactive ones.
RivalsIgnored(k) == {}
RivalsActive(k) == {v \in WorldListed(AcctOf[k], chan[k]) : wactive[v]}

\* The other entries of the account on the chosen server.
Rivals(k) == WorldListed(AcctOf[k], chan[k])

\* 0x70b: another entry of the account in this server's list refuses the new
\* socket, and ForceDiscClient marks the first entry it finds - which may be
\* the refused socket itself.  Otherwise loaddata reads the row and sets the
\* flag again.
WorldIdentify(k) ==
  LET a == AcctOf[k] IN
  /\ at[k] = "ticket" /\ up[chan[k]]
  /\ \/ /\ Rivals(k) # {}
        /\ \E v \in Rivals(k) \cup {k} :
             wactive' = [wactive EXCEPT ![v] = FALSE]
        /\ at' = [at EXCEPT ![k] = "off"]
        /\ UNCHANGED <<online, ws, ver>>
     \/ /\ Rivals(k) = {}
        /\ ws' = [ws EXCEPT ![k] = "loaded"]
        /\ wactive' = [wactive EXCEPT ![k] = TRUE]
        /\ ver' = [ver EXCEPT ![k] = row[a]]
        /\ online' = [online EXCEPT ![a] = TRUE]
        /\ at' = [at EXCEPT ![k] = "game"]
  /\ UNCHANGED <<lastsvr, row, up, linkVars, charVars>>

\* Packets of a program that plays are handled only while its socket is active.
Handled(k) == wactive[k] /\ at[k] = "game"

\* 0x753: the avatar gets its client id and enters the game.
DoID(k) ==
  /\ Handled(k) /\ ws[k] = "loaded"
  /\ ws' = [ws EXCEPT ![k] = "playing"]
  /\ UNCHANGED <<dbVars, up, linkVars, at, charVars, wactive, ver>>

\* A change of map: inGame is reset until the program asks for an id again.
Teleport(k) ==
  /\ wactive[k] /\ ws[k] = "playing"
  /\ ws' = [ws EXCEPT ![k] = "loaded"]
  /\ UNCHANGED <<dbVars, up, linkVars, at, charVars, wactive, ver>>

\* Anything that changes the character: experience, items, money.
Progress(k) ==
  /\ Handled(k) /\ ws[k] = "playing" /\ ver[k] < MaxVer
  /\ ver' = [ver EXCEPT ![k] = @ + 1]
  /\ UNCHANGED <<dbVars, up, linkVars, at, charVars, ws, wactive>>

Saved(k) == row' = [row EXCEPT ![AcctOf[k]] = ver[k]]

\* VisibilityProcess saves every avatar that is inGame, also one whose player
\* has returned to character select and is not yet out of the map's list.
Autosave(k) ==
  /\ ws[k] \in {"playing", "closing"}
  /\ Saved(k)
  /\ UNCHANGED <<online, lastsvr, up, linkVars, at, charVars, worldVars>>

\* 0x71c: savedata always; the rest only when inGame.
CharSelect(k) ==
  /\ Handled(k) /\ Avatar(k)
  /\ Saved(k)
  /\ \/ /\ ws[k] = "loaded"
        /\ UNCHANGED <<online, ws, wactive, fromWorld>>
     \/ /\ ws[k] = "playing"
        /\ Len(fromWorld[chan[k]]) < MaxMsg
        /\ ws' = [ws EXCEPT ![k] = "closing"]
        /\ wactive' = [wactive EXCEPT ![k] = FALSE]
        /\ online' = [online EXCEPT ![AcctOf[k]] = FALSE]
        /\ fromWorld' = [fromWorld EXCEPT ![chan[k]] = Append(@, AcctOf[k])]
  /\ UNCHANGED <<lastsvr, up, fromLogin, toWorld, at, charVars, ver>>

\* 0x707: the player leaves from the game.
Exit(k) ==
  /\ Handled(k) /\ Avatar(k)
  /\ wactive' = [wactive EXCEPT ![k] = FALSE]
  /\ at' = [at EXCEPT ![k] = "off"]
  /\ UNCHANGED <<dbVars, up, linkVars, charVars, ws, ver>>

\* Variant: the program is told to leave (0x707), the entry stays active.
CharDSClientTold(w) ==
  /\ up[w] /\ toWorld[w] # <<>>
  /\ toWorld' = [toWorld EXCEPT ![w] = Tail(@)]
  /\ UNCHANGED <<dbVars, up, fromLogin, fromWorld, at, charVars, worldVars>>

\* 0x502 from the char server: the account's entry is marked inactive.
CharDSClient(w) ==
  /\ up[w] /\ toWorld[w] # <<>>
  /\ toWorld' = [toWorld EXCEPT ![w] = Tail(@)]
  /\ LET found == WorldListed(Head(toWorld[w]), w)
     IN  \/ found = {} /\ UNCHANGED wactive
         \/ \E k \in found : wactive' = [wactive EXCEPT ![k] = FALSE]
  /\ UNCHANGED <<dbVars, up, fromLogin, fromWorld, at, charVars, ws, ver>>

\* DisconnectClient, for an entry marked inactive or whose program has closed
\* the socket: OnClientDisconnect saves and clears the flag unless isLoggedIn
\* was already reset, then the entry is erased.
WorldReap(k) ==
  /\ ws[k] # "none"
  /\ ~wactive[k] \/ at[k] # "game"
  /\ ws' = [ws EXCEPT ![k] = "none"]
  /\ wactive' = [wactive EXCEPT ![k] = FALSE]
  /\ IF Avatar(k)
     THEN /\ Saved(k)
          /\ online' = [online EXCEPT ![AcctOf[k]] = FALSE]
          /\ at' = [at EXCEPT ![k] = IF @ = "game" THEN "off" ELSE @]
     ELSE UNCHANGED <<row, online, at>>
  /\ UNCHANGED <<lastsvr, up, linkVars, charVars, ver>>

\* The process dies: its sessions are gone unsaved, its connections break and
\* the char server removes it from table channels.
WorldCrash(w) ==
  LET here == {k \in Client : ws[k] # "none" /\ chan[k] = w} IN
  /\ up[w]
  /\ up' = [up EXCEPT ![w] = FALSE]
  /\ toWorld' = [toWorld EXCEPT ![w] = <<>>]
  /\ ws' = [k \in Client |-> IF k \in here THEN "none" ELSE ws[k]]
  /\ wactive' = [k \in Client |-> wactive[k] /\ k \notin here]
  /\ at' = [k \in Client |-> IF k \in here /\ at[k] = "game"
                             THEN "off" ELSE at[k]]
  /\ UNCHANGED <<dbVars, fromLogin, fromWorld, charVars, ver>>

\* OnServerReady: CleanConnectedList clears the flag of every account, and the
\* server registers its channel.
WorldStart(w) ==
  /\ ~up[w]
  /\ up' = [up EXCEPT ![w] = TRUE]
  /\ online' = [a \in Account |-> FALSE]
  /\ UNCHANGED <<lastsvr, row, linkVars, at, charVars, worldVars>>

-----------------------------------------------------------------------------
\* The player closes the program; the servers notice later.
Quit(k) ==
  /\ at[k] \in {"select", "ticket", "game"}
  /\ at' = [at EXCEPT ![k] = "off"]
  /\ UNCHANGED <<dbVars, up, linkVars, charVars, worldVars>>

\* A program that is connected to no server any more.
Stranded(k) == at[k] # "off" /\ cs[k] # "in" /\ ~Avatar(k)

QuitStranded(k) == Stranded(k) /\ Quit(k)

LoginNext(k) == Relogin(k) \/ UserLogin(k) \/ \E w \in World : GetIP(k, w)

CharNext(k) == CharIdentify(k) \/ RequestWorld(k) \/ CharReap(k) \/ CharDrop(k)

WorldNext(k) ==
  \/ WorldIdentify(k) \/ DoID(k) \/ Teleport(k) \/ Progress(k) \/ Autosave(k)
  \/ CharSelect(k) \/ Exit(k) \/ WorldReap(k)

ServerNext(w) ==
  WSCharSelect(w) \/ CharDSClient(w) \/ WorldCrash(w) \/ WorldStart(w)

Next ==
  \/ LoginDSClient
  \/ \E k \in Client : LoginNext(k) \/ CharNext(k) \/ WorldNext(k) \/ Quit(k)
  \/ \E w \in World : ServerNext(w)

Spec == Init /\ [][Next]_vars

\* The servers go on reading their sockets and sweeping their lists, and a
\* player who is shut out closes a dead program and tries again.
Fairness ==
  /\ WF_vars(LoginDSClient)
  /\ \A w \in World : WF_vars(CharDSClient(w)) /\ WF_vars(WSCharSelect(w))
  /\ \A k \in Client :
       /\ WF_vars(LoginNext(k))
       /\ WF_vars(CharIdentify(k))
       /\ WF_vars(CharReap(k))
       /\ WF_vars(WorldReap(k))
       /\ WF_vars(QuitStranded(k))

LiveSpec == Spec /\ Fairness

-----------------------------------------------------------------------------
\* The char server never has two sockets of one account in its list, in any
\* interleaving of logins, kicks and reaping (pakDoIdentify, GetNbUserID).
OneCharSocket ==
  \A j, k \in Client :
    cs[j] # "none" /\ cs[k] # "none" /\ AcctOf[j] = AcctOf[k] => j = k

\* One world server never has two entries of one account, whether the flag was
\* cleared by a relogin, a return to character select or a restart
\* (pakDoIdentify of the world server).
OneEntryPerWorld ==
  \A j, k \in Client :
    /\ ws[j] # "none" /\ ws[k] # "none"
    /\ AcctOf[j] = AcctOf[k] /\ chan[j] = chan[k]
    => j = k

\* An account has one avatar at a time, on whichever world servers it plays:
\* what pakDoIdentify of the char server says it ensures.
OneAvatar ==
  \A j, k \in Client : Avatar(j) /\ Avatar(k) /\ AcctOf[j] = AcctOf[k] => j = k

\* A stored character never goes back to an older state: no late autosave or
\* disconnect writes over what a newer session has saved.
NoRollback == [][\A a \in Account : row'[a] >= row[a]]_row

\* An account is never shut out for good by a flag that nobody owns: as long
\* as its player tries, it is again and again known to the char server or in
\* the world (the relogin branch of pakUserLogin clears the flag).
Served(a) ==
  \E k \in Client : AcctOf[k] = a /\ (cs[k] = "in" \/ Avatar(k))

NoLockout == \A a \in Account : (\E k \in Client : AcctOf[k] = a) => []<>Served(a)

\* A kick that waits at a world server takes the avatar it finds there out of
\* the game (pakCharDSClient, OnClientDisconnect).
KickWaits(k) == \E i \in 1..Len(toWorld[chan[k]]) : toWorld[chan[k]][i] = AcctOf[k]

KickEndsAvatar == \A k \in Client : (Avatar(k) /\ KickWaits(k)) ~> ~Avatar(k)

\* What the comment over pakLoginDSClient says: a player whom the char server
\* has kicked is disconnected from the world server too.
KickReachesWorld == \A k \in Client : (cs[k] = "kicked" /\ Avatar(k)) ~> ~Avatar(k)
=============================================================================
