------------------------------- MODULE Clans -------------------------------
(***************************************************************************)
(* Clans: the char server keeps the members of every clan (ClanList) and   *)
(* the clan of every client, the world server keeps the clan of every      *)
(* avatar, and the row of a character has a third copy that both write.    *)
(* The servers tell each other of changes over a stream (0x7e0 and 0x7e1)  *)
(* that is handled some time later.                                        *)
(*                                                                         *)
(* The one message that never arrives is that of a dissolution: it is sent *)
(* without cryptPacket, and what the world server decrypts is no command   *)
(* it knows.  The avatar keeps the clan, and its saves write it back.      *)
(*                                                                         *)
(* A client asks for what its windows offer: it accepts an invitation      *)
(* while neither server has told it of a clan that there is, founds one    *)
(* (which takes a form to be filled in) when nothing about it is under way *)
(* either, and picks members from its clan's list, the master not among    *)
(* those to be kicked.  The handlers test none of this.                    *)
(***************************************************************************)
EXTENDS Naturals, FiniteSets, SequencesExt

CONSTANTS Char,      \* characters, one for each client
          MaxClans,  \* bound: clans founded
          Dissolved, \* how many of them were founded and dissolved before
          NoList,    \* a clan that ClanList does not have
          MaxNet,    \* bound: messages under way in one direction
          MaxMoves,  \* bound: invitations and changes of rank
          MaxLogins  \* bound: logins at the char server

ASSUME ClanAssumption ==
  /\ IsFiniteSet(Char)
  /\ MaxClans \in Nat \ {0} /\ MaxNet \in Nat \ {0} /\ MaxMoves \in Nat
  /\ MaxLogins \in Nat
  /\ Dissolved \in 0..MaxClans

ClanIds == 1..MaxClans
Ranks   == 0..6
Copies  == [id : 0..MaxClans, rank : Ranks]
Entries == [who : Char, rank : Ranks]

ASSUME NoListAssumption == NoList \notin Seq(Entries)

VARIABLES
  row,        \* clanid and clan_rank in table characters
  client,     \* CCharClient::clanid and clan_rank
  avatar,     \* CPlayer::Clan
  atChar,     \* clients the char server has
  inWorld,    \* avatars the world server has
  clanList,   \* CCharServer::ClanList, the members of each clan
  list_clan,  \* ids in the table
  founded,    \* its auto_increment
  invites,    \* pairs <<inviter, invited>>: dialogs not answered yet
  toWorld, toChar,
  missed,     \* history: whose copies were read or changed while one could not follow
  scrambled,  \* history: clans reloaded when rows and members did not agree
  moves, logins

clanVars == <<row, client, avatar, atChar, inWorld, clanList, list_clan, founded,
              invites, toWorld, toChar, missed, scrambled, moves, logins>>

Messages == [kind : {"joined", "kicked", "rank"}, who : Char, arg : Nat]

ClanTypeOK ==
  /\ row \in [Char -> Copies] /\ client \in [Char -> Copies]
  /\ avatar \in [Char -> Copies]
  /\ atChar \subseteq Char /\ inWorld \subseteq Char
  /\ DOMAIN clanList = ClanIds
  /\ \A k \in ClanIds : clanList[k] = NoList \/ clanList[k] \in Seq(Entries)
  /\ list_clan \subseteq 1..founded /\ founded \in 0..MaxClans
  /\ invites \subseteq Char \X Char
  /\ toWorld \in Seq(Messages) /\ toChar \in Seq([who : Char, clan : ClanIds])
  /\ missed \subseteq Char /\ scrambled \subseteq ClanIds
  /\ moves \in 0..MaxMoves /\ logins \in 0..MaxLogins

None == [id |-> 0, rank |-> 0]

ClanInit ==
  /\ row = [c \in Char |-> None] /\ client = row /\ avatar = row
  /\ atChar = {} /\ inWorld = {}
  /\ clanList = [k \in ClanIds |-> NoList]
  /\ list_clan = {} /\ founded = Dissolved
  /\ invites = {}
  /\ toWorld = <<>> /\ toChar = <<>>
  /\ missed = {} /\ scrambled = {} /\ moves = 0 /\ logins = 0

Loaded(k)  == k \in ClanIds /\ clanList[k] # NoList
Listed(k)  == {e.who : e \in ToSet(clanList[k])}
RowsOf(k)  == {c \in Char : row[c].id = k}
\* The clan of a copy; none when list_clan does not have it any more.
Existing(k) == IF k \in list_clan THEN k ELSE 0

Founding(c) == \E m \in ToSet(toChar) : m.who = c
Pending(c)  == Founding(c) \/ \E m \in ToSet(toWorld) : m.who = c

\* Variant: the world is told nothing.
ToldNothing(c, kind, arg) == <<>>

\* send on the channel of the client's world; nothing when he has no client.
Told(c, kind, arg) ==
  IF c \in atChar THEN <<[kind |-> kind, who |-> c, arg |-> arg]>> ELSE <<>>

Tell(s) == Len(toWorld) + Len(s) <= MaxNet /\ toWorld' = toWorld \o s

\* With a client but no avatar the message finds nobody, or a later avatar; with
\* an avatar but no client none is sent.  When the news of a clan that he founds
\* is under way, it crosses the message and undoes the change at the char server.
Unheard(c) == IF (c \in inWorld <=> c \in atChar) /\ ~Founding(c) THEN {} ELSE {c}

\* A list that was scrambled may name a member of another clan, whose list is
\* then left as it was.
Mistaken(k, n) == IF k \in scrambled THEN {n} ELSE {}

\* Where the rank of a player is kept that the next save or login will use.
Standing(c) == IF c \in atChar THEN client[c] ELSE IF c \in inWorld THEN avatar[c]
               ELSE row[c]

dialogs == <<invites, toChar>>
tables  == <<list_clan, founded>>
bounds  == <<moves, logins>>

-----------------------------------------------------------------------------
\* pakRequestWorld reads the row, which an older avatar of the character may still
\* have to write.
RequestWorld(c) ==
  /\ c \notin atChar
  /\ logins < MaxLogins /\ logins' = logins + 1
  /\ atChar' = atChar \cup {c}
  /\ client' = [client EXCEPT ![c] = row[c]]
  /\ missed' = IF c \in inWorld /\ (row[c] # avatar[c] \/ Pending(c))
               THEN missed \cup {c} ELSE missed
  /\ UNCHANGED <<row, avatar, inWorld, clanList, tables, dialogs, toWorld,
                 scrambled, moves>>

\* loaddata reads it again, and forgets a clan that has no row in list_clan.
EnterWorld(c) ==
  /\ c \in atChar \ inWorld
  /\ inWorld' = inWorld \cup {c}
  /\ avatar' = [avatar EXCEPT ![c] =
       [id |-> Existing(row[c].id), rank |-> row[c].rank]]
  /\ UNCHANGED <<row, client, atChar, clanList, tables, dialogs, toWorld, missed,
                 scrambled, bounds>>

\* The autosave.
Save(c) ==
  /\ c \in inWorld
  /\ row' = [row EXCEPT ![c] = avatar[c]]
  /\ UNCHANGED <<client, avatar, atChar, inWorld, clanList, tables, dialogs,
                 toWorld, missed, scrambled, bounds>>

\* The avatar leaves and is saved; messages about it come too late.
LeaveWorld(c) ==
  /\ c \in inWorld
  /\ inWorld' = inWorld \ {c}
  /\ row' = [row EXCEPT ![c] = avatar[c]]
  /\ avatar' = [avatar EXCEPT ![c] = None]
  /\ missed' = IF Pending(c) THEN missed \cup {c} ELSE missed
  /\ UNCHANGED <<client, atChar, clanList, tables, dialogs, toWorld,
                 scrambled, bounds>>

LeaveChar(c) ==
  /\ c \in atChar
  /\ atChar' = atChar \ {c}
  /\ client' = [client EXCEPT ![c] = None]
  /\ invites' = {i \in invites : i[2] # c}
  /\ UNCHANGED <<row, avatar, inWorld, clanList, tables, toChar, toWorld,
                 missed, scrambled, bounds>>

-----------------------------------------------------------------------------
\* pakCreateClan of the world server.
CreateClan(c) ==
  /\ c \in inWorld /\ avatar[c].id = 0
  /\ ~Loaded(client[c].id) /\ ~Pending(c)
  /\ founded < MaxClans /\ Len(toChar) < MaxNet
  /\ founded' = founded + 1 /\ list_clan' = list_clan \cup {founded'}
  /\ avatar' = [avatar EXCEPT ![c] = [id |-> founded', rank |-> 6]]
  /\ row' = [row EXCEPT ![c] = [id |-> founded', rank |-> 6]]
  /\ toChar' = Append(toChar, [who |-> c, clan |-> founded'])
  /\ UNCHANGED <<client, atChar, inWorld, clanList, invites, toWorld, missed,
                 scrambled, bounds>>

\* The char server loads it, for a founder that is still there; otherwise
\* ClanList does not get the clan before the next start.
LoadNewClan ==
  /\ toChar # <<>>
  /\ toChar' = Tail(toChar)
  /\ LET m == Head(toChar) IN
     IF m.who \in atChar
     THEN /\ clanList' = [clanList EXCEPT ![m.clan] = <<[who |-> m.who, rank |-> 6]>>]
          /\ client' = [client EXCEPT ![m.who] = [id |-> m.clan, rank |-> 6]]
     ELSE UNCHANGED <<clanList, client>>
  /\ UNCHANGED <<row, avatar, atChar, inWorld, tables, invites, toWorld, missed,
                 scrambled, bounds>>

-----------------------------------------------------------------------------
Invite(c, d) ==
  /\ c # d /\ {c, d} \subseteq atChar /\ d \in inWorld
  /\ client[c].id # 0 /\ client[d].id = 0
  /\ <<c, d>> \notin invites
  /\ moves < MaxMoves /\ moves' = moves + 1
  /\ invites' = invites \cup {<<c, d>>}
  /\ UNCHANGED <<row, client, avatar, atChar, inWorld, clanList, tables, toWorld,
                 toChar, missed, scrambled, logins>>

\* "SET clanid=%i AND clan_rank=1" assigns a truth value to clanid alone.
BooleanRow(r, k) ==
  [id |-> IF k # 0 /\ r.rank = 1 THEN 1 ELSE 0, rank |-> r.rank]

\* pakClanManager 0x0c: d answers an invitation of c, whose clan is read now.
Accept(d, c) ==
  LET k == client[c].id IN
  /\ <<c, d>> \in invites /\ {c, d} \subseteq atChar /\ d \in inWorld
  /\ ~Loaded(client[d].id) /\ Existing(avatar[d].id) = 0
  /\ client' = [client EXCEPT ![d] = [id |-> k, rank |-> 1]]
  /\ row' = [row EXCEPT ![d] = BooleanRow(@, k)]
  /\ \/ /\ Loaded(k)
        /\ clanList' = [clanList EXCEPT ![k] = Append(@, [who |-> d, rank |-> 1])]
        /\ Tell(Told(d, "joined", k))
        /\ UNCHANGED missed
     \/ /\ ~Loaded(k)
        /\ missed' = missed \cup {d}
        /\ UNCHANGED <<clanList, toWorld>>
  /\ invites' = invites \ {<<c, d>>}
  /\ UNCHANGED <<avatar, atChar, inWorld, tables, toChar, scrambled, bounds>>

\* Variant: the last entry goes, whoever it is.
WithoutLast(k, n) == Front(clanList[k])

\* The first entry of that name goes.
WithoutFirst(k, n) ==
  LET at == {i \in DOMAIN clanList[k] : clanList[k][i].who = n}
  IN  IF at = {} THEN clanList[k]
      ELSE RemoveAt(clanList[k], CHOOSE i \in at : \A j \in at : i <= j)

\* Variant: the row is left to the world server's save.
KickedRowKept(r) == r

KickedRow(r) == [id |-> 0, rank |-> 1]

\* pakClanManager 0x03.
Kick(c, n) ==
  LET k == client[c].id IN
  /\ c \in atChar /\ Loaded(k) /\ n # c /\ n \in Listed(k)
  /\ Standing(n).rank # 6
  /\ clanList' = [clanList EXCEPT ![k] = WithoutFirst(k, n)]
  /\ client' = IF n \in atChar
               THEN [client EXCEPT ![n] = [id |-> 0, rank |-> 1]] ELSE client
  /\ Tell(Told(n, "kicked", 0))
  /\ row' = [row EXCEPT ![n] = KickedRow(@)]
  /\ missed' = missed \cup Unheard(n) \cup Mistaken(k, n)
  /\ UNCHANGED <<avatar, atChar, inWorld, tables, dialogs, scrambled, bounds>>

\* pakClanManager 0x07.  The world is told what it is told of a kick.
LeaveClan(c) ==
  LET k == client[c].id IN
  /\ c \in atChar /\ client[c].rank # 6 /\ Loaded(k)
  /\ clanList' = [clanList EXCEPT ![k] = WithoutFirst(k, c)]
  /\ client' = [client EXCEPT ![c] = [id |-> 0, rank |-> 1]]
  /\ row' = [row EXCEPT ![c] = BooleanRow(@, 0)]
  /\ Tell(Told(c, "kicked", 0))
  /\ missed' = missed \cup Unheard(c)
  /\ UNCHANGED <<avatar, atChar, inWorld, tables, dialogs, scrambled, bounds>>

\* pakClanManager 0x0a, when no more than one entry is left.  Nothing reaches the
\* world server.
Disorganize(c) ==
  LET k == client[c].id IN
  /\ c \in atChar /\ client[c].rank = 6 /\ Loaded(k) /\ Len(clanList[k]) <= 1
  /\ row' = [d \in Char |-> IF row[d].id = k THEN BooleanRow(row[d], 0) ELSE row[d]]
  /\ list_clan' = list_clan \ {k}
  /\ clanList' = [clanList EXCEPT ![k] = NoList]
  /\ client' = [client EXCEPT ![c] = [id |-> 0, rank |-> 1]]
  /\ UNCHANGED <<avatar, atChar, inWorld, founded, dialogs, toWorld, missed, scrambled,
                 bounds>>

-----------------------------------------------------------------------------
\* The rows of a clan, ordered by rank, replace the first entries of its list;
\* characters of one rank come in any order.
Orders(k, r) ==
  {s \in SetToSeqs(RowsOf(k)) :
     \A i, j \in DOMAIN s : i < j => r[s[i]].rank <= r[s[j]].rank}

Reloads(k, r) ==
  {[i \in DOMAIN clanList[k] |->
      IF i <= Len(s) THEN [who |-> s[i], rank |-> r[s[i]].rank] ELSE clanList[k][i]] :
     s \in Orders(k, r)}

\* What follows every change of rank, with the rows r that it has written.  With
\* more rows than entries, at() throws and the server is gone.
Reload(k, r) ==
  /\ Cardinality(RowsOf(k)) <= Len(clanList[k])
  /\ row' = r
  /\ \E l \in Reloads(k, r) : clanList' = [clanList EXCEPT ![k] = l]
  /\ scrambled' = IF RowsOf(k) = Listed(k) /\ Cardinality(RowsOf(k)) = Len(clanList[k]) THEN scrambled ELSE scrambled \cup {k}

RankOf(n) == IF n \in atChar THEN client[n].rank ELSE row[n].rank

SetRank(r, n, x) == [r EXCEPT ![n] = [id |-> @.id, rank |-> x]]

\* A change of rank for a listed member: who is there has it in memory, too.
\* onlineRank differs from rank when a member of rank 1 is lowered.
ChangeRank(c, n, onlineRank, rank) ==
  LET k == client[c].id IN
  /\ c \in atChar /\ Loaded(k) /\ n # c /\ n \in Listed(k)
  /\ moves < MaxMoves /\ moves' = moves + 1
  /\ client' = IF n \in atChar THEN SetRank(client, n, onlineRank) ELSE client
  /\ Tell(Told(n, "rank", rank))
  /\ missed' = missed \cup Unheard(n)
  /\ Reload(k, SetRank(row, n, rank))
  /\ UNCHANGED <<avatar, atChar, inWorld, tables, dialogs, logins>>

\* Variant: the row of who is not connected is raised without a limit.
RaisedAlways(x) == x + 1

Raised(x) == IF x < 5 THEN x + 1 ELSE x

UpRank(c, n) ==
  /\ n \in atChar => client[n].rank < 5
  /\ ChangeRank(c, n, Raised(RankOf(n)), Raised(RankOf(n)))

DownRank(c, n) ==
  /\ RankOf(n) # 6
  /\ n \in atChar => client[n].rank > 0
  /\ ChangeRank(c, n, IF n \in atChar THEN client[n].rank - 1 ELSE 0,
                IF RankOf(n) > 1 THEN RankOf(n) - 1 ELSE RankOf(n))

\* Variant: the old master keeps his rank.
GiverRankKept == 6

GiverRank == 4

\* pakClanManager 0x09: 6 for the other, 4 for the giver.
GiveMaster(c, n) ==
  LET k    == client[c].id
      mem  == IF n \in atChar THEN SetRank(client, n, 6) ELSE client
  IN
  /\ c \in atChar /\ client[c].rank = 6 /\ Loaded(k) /\ n # c /\ n \in Listed(k)
  /\ moves < MaxMoves /\ moves' = moves + 1
  /\ client' = SetRank(mem, c, GiverRank)
  /\ Tell(Told(n, "rank", 6) \o Told(c, "rank", GiverRank))
  /\ missed' = missed \cup Unheard(n) \cup Unheard(c) \cup Mistaken(k, n)
  /\ Reload(k, SetRank(SetRank(row, n, 6), c, GiverRank))
  /\ UNCHANGED <<avatar, atChar, inWorld, tables, dialogs, logins>>

-----------------------------------------------------------------------------
\* pakClanManager of the world server, for an avatar it has.
Heard(m) ==
  CASE m.kind = "joined" -> IF m.arg \in list_clan THEN [id |-> m.arg, rank |-> 1]
                                                   ELSE avatar[m.who]
    [] m.kind = "kicked" -> [id |-> 0, rank |-> 1]
    [] m.kind = "rank"   -> [id |-> avatar[m.who].id, rank |-> m.arg]

HearChar ==
  /\ toWorld # <<>>
  /\ toWorld' = Tail(toWorld)
  /\ LET m == Head(toWorld) IN
     /\ avatar' = IF m.who \in inWorld THEN [avatar EXCEPT ![m.who] = Heard(m)]
                  ELSE avatar
     /\ missed' = IF m.who \in inWorld THEN missed ELSE missed \cup {m.who}
  /\ UNCHANGED <<row, client, atChar, inWorld, clanList, tables, dialogs, scrambled,
                 bounds>>

ClanNext ==
  \/ LoadNewClan \/ HearChar
  \/ \E c \in Char :
       \/ RequestWorld(c) \/ EnterWorld(c) \/ Save(c) \/ LeaveWorld(c)
       \/ LeaveChar(c) \/ CreateClan(c) \/ LeaveClan(c) \/ Disorganize(c)
  \/ \E c, d \in Char :
       \/ Invite(c, d) \/ Accept(d, c) \/ Kick(c, d)
       \/ UpRank(c, d) \/ DownRank(c, d) \/ GiveMaster(c, d)

ClanSpec == ClanInit /\ [][ClanNext]_clanVars

-----------------------------------------------------------------------------
(* What the three copies keep.                                             *)

\* When no message is under way, the two servers agree on the clan of a player
\* and on a member's rank (but for a member that was lowered below 1, who has 0
\* at the char server), unless a message or a write about him was missed.  A clan
\* that was dissolved, which the world server goes on naming, counts as none.
WorldAgrees ==
  \A c \in (atChar \cap inWorld) \ missed : ~Pending(c) =>
    /\ Existing(avatar[c].id) = Existing(client[c].id)
    /\ Existing(client[c].id) # 0 =>
         avatar[c].rank = IF client[c].rank = 0 THEN 1 ELSE client[c].rank

\* A connected player is in the list of the clan he belongs to and in no other,
\* once; unless a message or a write about him was missed, or a reload met rows
\* that did not agree with the list.
ListedMembers ==
  \A k \in ClanIds \ scrambled : Loaded(k) =>
    \A c \in atChar \ missed :
      Cardinality({i \in DOMAIN clanList[k] : clanList[k][i].who = c}) =
        IF client[c].id = k THEN 1 ELSE 0

\* A row names a loaded clan only if the clan's list has the character (then a
\* reload finds an entry for it), with the same exceptions and those of a player
\* about whom a message is under way or whose row the world has not written since.
RowsListed ==
  \A k \in ClanIds \ scrambled : Loaded(k) =>
    \A c \in RowsOf(k) \ missed :
      c \in Listed(k) \/ Pending(c) \/ (c \in inWorld /\ row[c].id # avatar[c].id)

\* A loaded clan has one master, however often mastership is handed over, clans
\* are dissolved and founded again and whoever is away then, while nothing is under
\* way or was missed.
OneMaster ==
  \A k \in ClanIds \ scrambled :
    Loaded(k) /\ missed = {} /\ (\A c \in Listed(k) : ~Pending(c)) =>
      Cardinality({c \in Listed(k) : Standing(c) = [id |-> k, rank |-> 6]}) = 1
=============================================================================
