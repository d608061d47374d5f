----------------------------- MODULE ClansProofs -----------------------------
(***************************************************************************)
(* Proofs about module Clans.                                              *)
(***************************************************************************)
EXTENDS Clans, SequenceFacts, TLAPS

\* What a message says of the clan and of the rank of its player.
Gives(m)     == IF m.kind = "joined" THEN m.arg ELSE 0
RankGiven(m) == IF m.kind = "rank" THEN m.arg ELSE 1

\* The rank that the world server has for a rank of the char server.
Worldly(x) == IF x = 0 THEN 1 ELSE x

\* A rank is one, and what is joined is a clan.
Sound(m) == /\ m.kind = "rank" => m.arg \in Ranks \ {0}
            /\ m.kind = "joined" => m.arg \in ClanIds

TypeInv == ClanTypeOK /\ \A i \in 1..Len(toWorld) : Sound(toWorld[i])

\* Nobody belongs to a clan that has not been founded.
Founded ==
  /\ \A c \in Char : row[c].id <= founded /\ client[c].id <= founded /\ avatar[c].id <= founded
  /\ \A i \in 1..Len(toWorld) : toWorld[i].kind = "joined" => toWorld[i].arg <= founded

\* What the char server has loaded is in the table, and what it has yet to load
\* is, too.
Tabled ==
  /\ \A k \in ClanIds : Loaded(k) => k \in list_clan
  /\ \A i \in 1..Len(toChar) : toChar[i].clan \in list_clan /\ clanList[toChar[i].clan] = NoList
  /\ \A i, j \in 1..Len(toChar) :
       i # j => toChar[i].clan # toChar[j].clan /\ toChar[i].who # toChar[j].who
  /\ \A i \in 1..Len(toWorld) :
       toWorld[i].kind = "joined" /\ toWorld[i].arg \in list_clan => Loaded(toWorld[i].arg)

\* A clan that is not loaded yet has its founder and nobody else.
Apart ==
  \A i \in 1..Len(toChar) :
    /\ \A c \in Char \ missed :
         /\ client[c].id # toChar[i].clan
         /\ c \notin inWorld => row[c].id # toChar[i].clan
         /\ c \in inWorld /\ avatar[c].id = toChar[i].clan => c = toChar[i].who
    /\ \A j \in 1..Len(toWorld) :
         toWorld[j].kind = "joined" => toWorld[j].arg # toChar[i].clan

\* Nothing has happened to him in the meantime.
Founders ==
  \A i \in 1..Len(toChar) : toChar[i].who \notin missed =>
    /\ toChar[i].who \in inWorld /\ ~Loaded(client[toChar[i].who].id)
    /\ avatar[toChar[i].who] = [id |-> toChar[i].clan, rank |-> 6]
    /\ \A j \in 1..Len(toWorld) : toWorld[j].who # toChar[i].who

\* A member has a rank, and nothing is under way about who is not in the world.
Ranked ==
  \A c \in Char \ missed :
    /\ c \in inWorld => (avatar[c].id # 0 => avatar[c].rank # 0)
    /\ c \notin inWorld => /\ row[c].id # 0 => row[c].rank # 0
                           /\ \A j \in 1..Len(toWorld) : toWorld[j].who # c

\* Whose clan the char server can say.
Known(c) == c \in atChar \ missed

\* Between the two logins the row is what the world server will read.
Waiting ==
  \A c \in Char : Known(c) /\ c \notin inWorld =>
    /\ Existing(row[c].id) = Existing(client[c].id)
    /\ Existing(client[c].id) # 0 => row[c].rank = Worldly(client[c].rank)

\* Messages about c, and those that say something of his clan.
News(c)    == {i \in 1..Len(toWorld) : toWorld[i].who = c}
Changes(c) == {i \in News(c) : toWorld[i].kind # "rank"}

\* The last change of a player's clan that is under way says what the char server
\* has, and without one the world server has it already.
ClanSettles ==
  \A c \in Char : Known(c) /\ c \in inWorld =>
    /\ \A i \in Changes(c) : (\A j \in Changes(c) : j <= i) =>
         Existing(Gives(toWorld[i])) = Existing(client[c].id)
    /\ Changes(c) = {} => Existing(avatar[c].id) = Existing(client[c].id) \/ Founding(c)

\* So does the last message of all with the rank.
RankSettles ==
  \A c \in Char : Known(c) /\ c \in inWorld /\ Existing(client[c].id) # 0 =>
    /\ \A i \in News(c) : (\A j \in News(c) : j <= i) =>
         RankGiven(toWorld[i]) = Worldly(client[c].rank)
    /\ News(c) = {} => avatar[c].rank = Worldly(client[c].rank)

ServersInv ==
  /\ Founded /\ Tabled /\ Apart /\ Founders /\ Ranked /\ Waiting /\ ClanSettles /\ RankSettles

-----------------------------------------------------------------------------
(* Types. *)

\* Copies of a player's clan.
LEMMA CopyTypes ==
  /\ 0 \in 0..MaxClans /\ 1 \in 0..MaxClans /\ {0, 1, 4, 5, 6} \subseteq Ranks
  /\ \A k \in 0..MaxClans, x \in Ranks : [id |-> k, rank |-> x] \in Copies
  /\ \A r \in Copies : r.id \in 0..MaxClans /\ r.rank \in Ranks /\ r = [id |-> r.id, rank |-> r.rank]
  /\ \A r \in Copies : \A k : BooleanRow(r, k) \in Copies
  /\ None \in Copies
  /\ ClanIds \subseteq 1..MaxClans /\ 1..MaxClans \subseteq 0..MaxClans
BY ClanAssumption DEF ClanIds, Copies, Ranks, BooleanRow, None

\* A copy of somebody's with another rank.
LEMMA RankSet ==
  ASSUME NEW r \in [Char -> Copies], NEW n \in Char, NEW x \in Ranks
  PROVE  /\ SetRank(r, n, x) \in [Char -> Copies]
         /\ SetRank(r, n, x)[n] = [id |-> r[n].id, rank |-> x]
         /\ \A c \in Char \ {n} : SetRank(r, n, x)[c] = r[c]
BY CopyTypes DEF SetRank

\* What the type invariant says of the pieces.
LEMMA Pieces ==
  ASSUME TypeInv
  PROVE  /\ row \in [Char -> Copies] /\ client \in [Char -> Copies] /\ avatar \in [Char -> Copies]
         /\ \A c \in Char : row[c] \in Copies /\ client[c] \in Copies /\ avatar[c] \in Copies
         /\ \A k \in ClanIds : Loaded(k) => clanList[k] \in Seq(Entries)
         /\ \A k : Loaded(k) => k \in ClanIds
         /\ Len(toWorld) \in Nat /\ Len(toChar) \in Nat
         /\ \A i \in 1..Len(toWorld) : toWorld[i] \in Messages
         /\ \A i \in 1..Len(toChar) : toChar[i] \in [who : Char, clan : ClanIds]
         /\ founded \in Nat /\ founded <= MaxClans /\ list_clan \subseteq 1..founded
<1>1. /\ row \in [Char -> Copies] /\ client \in [Char -> Copies] /\ avatar \in [Char -> Copies]
      /\ toWorld \in Seq(Messages) /\ toChar \in Seq([who : Char, clan : ClanIds])
      /\ founded \in 0..MaxClans /\ list_clan \subseteq 1..founded
      /\ \A k \in ClanIds : clanList[k] = NoList \/ clanList[k] \in Seq(Entries)
  BY DEF TypeInv, ClanTypeOK
<1>2. /\ Len(toWorld) \in Nat /\ Len(toChar) \in Nat
      /\ \A i \in 1..Len(toWorld) : toWorld[i] \in Messages
      /\ \A i \in 1..Len(toChar) : toChar[i] \in [who : Char, clan : ClanIds]
  BY <1>1, LenProperties, ElementOfSeq
<1>3. founded \in Nat /\ founded <= MaxClans
  BY <1>1, ClanAssumption
<1> QED
  BY <1>1, <1>2, <1>3 DEF Loaded

\* A member of a list is a character.
LEMMA ListedIsChar ==
  ASSUME TypeInv, NEW k, Loaded(k), NEW n \in Listed(k)
  PROVE  n \in Char
<1>1. clanList[k] \in Seq(Entries)
  BY Pieces DEF Loaded
<1>2. PICK e \in ToSet(clanList[k]) : n = e.who
  BY DEF Listed
<1> QED
  <2>1. e \in Entries
    BY <1>1, <1>2, EntriesOf
  <2> QED
    BY <1>2, <2>1 DEF Entries

\* The message to a player's world server.
LEMMA ToldIs ==
  ASSUME NEW c \in Char, NEW kind \in {"joined", "kicked", "rank"}, NEW arg \in Nat
  PROVE  /\ Told(c, kind, arg) \in Seq(Messages)
         /\ c \in atChar => Told(c, kind, arg) = <<[kind |-> kind, who |-> c, arg |-> arg]>>
         /\ c \notin atChar => Told(c, kind, arg) = <<>>
         /\ \A i \in 1..Len(Told(c, kind, arg)) :
              c \in atChar /\ Told(c, kind, arg)[i] = [kind |-> kind, who |-> c, arg |-> arg]
<1> DEFINE m == [kind |-> kind, who |-> c, arg |-> arg]
<1>1. m \in Messages
  BY DEF Messages
<1> HIDE DEF m
<1>2. CASE c \in atChar
  <2>1. Told(c, kind, arg) = <<m>>
    BY <1>2 DEF Told, m
  <2> QED
    BY <1>1, <1>2, <2>1 DEF m
<1>3. CASE c \notin atChar
  <2>1. Told(c, kind, arg) = <<>>
    BY <1>3 DEF Told
  <2> QED
    BY <1>3, <2>1
<1> QED
  BY <1>2, <1>3

\* It is sound if it has a rank or a clan to tell.
LEMMA ToldSound ==
  ASSUME NEW c \in Char, NEW kind \in {"joined", "kicked", "rank"}, NEW arg \in Nat,
         kind = "rank" => arg \in Ranks \ {0}, kind = "joined" => arg \in ClanIds
  PROVE  \A i \in 1..Len(Told(c, kind, arg)) : Sound(Told(c, kind, arg)[i])
<1> SUFFICES ASSUME NEW i \in 1..Len(Told(c, kind, arg)) PROVE Sound(Told(c, kind, arg)[i])
  OBVIOUS
<1>1. Told(c, kind, arg)[i] = [kind |-> kind, who |-> c, arg |-> arg]
  BY ToldIs
<1> QED
  BY <1>1 DEF Sound

\* The queue to the world server grows.
LEMMA Mailed ==
  ASSUME TypeInv, NEW s \in Seq(Messages), toWorld' = toWorld \o s
  PROVE  /\ toWorld' \in Seq(Messages) /\ Len(s) \in Nat /\ Len(toWorld') = Len(toWorld) + Len(s)
         /\ \A i \in 1..Len(toWorld) : toWorld'[i] = toWorld[i]
         /\ \A i \in 1..Len(s) : toWorld'[Len(toWorld) + i] = s[i]
         /\ \A i \in 1..Len(toWorld') :
              i \in 1..Len(toWorld) \/ (i - Len(toWorld) \in 1..Len(s) /\ toWorld'[i] = s[i - Len(toWorld)])
<1>1. toWorld \in Seq(Messages) /\ Len(toWorld) \in Nat /\ Len(s) \in Nat
  BY LenProperties, Pieces DEF TypeInv, ClanTypeOK
<1> QED
  BY <1>1, ConcatProperties

\* It stays sound when what is added is.
LEMMA SoundMail ==
  ASSUME TypeInv, NEW s \in Seq(Messages), Tell(s),
         \A i \in 1..Len(s) : Sound(s[i])
  PROVE  toWorld' \in Seq(Messages) /\ \A i \in 1..Len(toWorld') : Sound(toWorld'[i])
<1>1. \A i \in 1..Len(toWorld) : Sound(toWorld[i])
  BY DEF TypeInv
<1> QED
  BY <1>1, Mailed DEF Tell

\* Whoever comes, goes or is saved.
LEMMA ComingTypes ==
  ASSUME TypeInv, NEW c \in Char,
         RequestWorld(c) \/ EnterWorld(c) \/ Save(c) \/ LeaveWorld(c) \/ LeaveChar(c)
  PROVE  TypeInv'
<1>1. \A i \in 1..Len(toWorld) : Sound(toWorld[i])
  BY DEF TypeInv
<1>2. UNCHANGED <<toWorld, clanList, tables, toChar, scrambled, moves>>
  BY DEF RequestWorld, EnterWorld, Save, LeaveWorld, LeaveChar, dialogs, bounds
<1>3. row' \in [Char -> Copies] /\ client' \in [Char -> Copies] /\ avatar' \in [Char -> Copies]
  <2>1. CASE RequestWorld(c)
    BY <2>1, Pieces DEF RequestWorld
  <2>2. CASE EnterWorld(c)
    <3>1. Existing(row[c].id) \in 0..MaxClans /\ row[c].rank \in Ranks
      BY Pieces, CopyTypes DEF Existing
    <3>2. [id |-> Existing(row[c].id), rank |-> row[c].rank] \in Copies
      BY <3>1, CopyTypes
    <3> QED
      BY <2>2, <3>2, Pieces DEF EnterWorld
  <2>3. CASE Save(c)
    BY <2>3, Pieces DEF Save
  <2>4. CASE LeaveWorld(c)
    BY <2>4, Pieces, CopyTypes DEF LeaveWorld
  <2>5. CASE LeaveChar(c)
    BY <2>5, Pieces, CopyTypes DEF LeaveChar
  <2> QED
    BY <2>1, <2>2, <2>3, <2>4, <2>5
<1>4. /\ atChar' \subseteq Char /\ inWorld' \subseteq Char /\ missed' \subseteq Char
      /\ invites' \subseteq Char \X Char
  BY DEF RequestWorld, EnterWorld, Save, LeaveWorld, LeaveChar, dialogs, TypeInv, ClanTypeOK
<1>5. logins' \in 0..MaxLogins
  BY ClanAssumption DEF RequestWorld, EnterWorld, Save, LeaveWorld, LeaveChar, bounds, TypeInv, ClanTypeOK
<1> QED
  BY <1>1, <1>2, <1>3, <1>4, <1>5 DEF TypeInv, ClanTypeOK, tables

\* A clan is founded, and the char server is told.
LEMMA CreateTypes ==
  ASSUME TypeInv, NEW c \in Char, CreateClan(c)
  PROVE  TypeInv'
<1>1. founded' = founded + 1 /\ founded' \in 1..MaxClans /\ list_clan' = list_clan \cup {founded'}
  BY Pieces, ClanAssumption DEF CreateClan
<1>2. row' \in [Char -> Copies] /\ avatar' \in [Char -> Copies]
  <2>1. [id |-> founded', rank |-> 6] \in Copies
    BY <1>1, CopyTypes
  <2> QED
    BY <2>1, Pieces DEF CreateClan
<1>3. toChar' \in Seq([who : Char, clan : ClanIds])
  <2>1. [who |-> c, clan |-> founded'] \in [who : Char, clan : ClanIds]
    BY <1>1 DEF ClanIds
  <2> QED
    BY <2>1 DEF CreateClan, TypeInv, ClanTypeOK
<1>4. list_clan' \subseteq 1..founded'
  BY <1>1, Pieces
<1>5. UNCHANGED <<client, atChar, inWorld, clanList, invites, toWorld, missed, scrambled, bounds>>
  BY DEF CreateClan
<1>6. \A i \in 1..Len(toWorld') : Sound(toWorld'[i])
  BY <1>1, <1>5, Pieces DEF TypeInv, Sound
<1> QED
  BY <1>1, <1>2, <1>3, <1>4, <1>5, <1>6 DEF TypeInv, ClanTypeOK, bounds

\* What the char server has yet to load.
LEMMA HeadOfNews ==
  ASSUME TypeInv, toChar # <<>>
  PROVE  /\ 1 \in 1..Len(toChar) /\ Head(toChar) = toChar[1]
         /\ toChar[1].who \in Char /\ toChar[1].clan \in ClanIds
         /\ Tail(toChar) \in Seq([who : Char, clan : ClanIds])
         /\ Len(Tail(toChar)) = Len(toChar) - 1
         /\ \A i \in 1..Len(Tail(toChar)) : i + 1 \in 1..Len(toChar) /\ Tail(toChar)[i] = toChar[i + 1]
<1>1. toChar \in Seq([who : Char, clan : ClanIds]) /\ Len(toChar) \in Nat
  BY Pieces DEF TypeInv, ClanTypeOK
<1>2. Len(toChar) \in Nat \ {0}
  BY <1>1, EmptySeq
<1>3. 1 \in 1..Len(toChar) /\ Head(toChar) = toChar[1]
  BY <1>1, <1>2
<1>4. /\ Tail(toChar) \in Seq([who : Char, clan : ClanIds])
      /\ Len(Tail(toChar)) = Len(toChar) - 1
      /\ \A i \in 1..Len(Tail(toChar)) : Tail(toChar)[i] = toChar[i + 1]
  BY <1>1, HeadTailProperties
<1>5. toChar[1] \in [who : Char, clan : ClanIds]
  BY <1>3, Pieces
<1> QED
  BY <1>2, <1>3, <1>4, <1>5

\* It loads one.
LEMMA LoadTypes ==
  ASSUME TypeInv, LoadNewClan
  PROVE  TypeInv'
<1> DEFINE m == toChar[1]
<1>1. m.who \in Char /\ m.clan \in ClanIds /\ Head(toChar) = m
      /\ toChar' \in Seq([who : Char, clan : ClanIds])
  BY HeadOfNews DEF LoadNewClan
<1>2. client' \in [Char -> Copies] /\ DOMAIN clanList' = ClanIds
      /\ \A k \in ClanIds : clanList'[k] = NoList \/ clanList'[k] \in Seq(Entries)
  <2>1. [who |-> m.who, rank |-> 6] \in Entries
    BY <1>1, CopyTypes DEF Entries
  <2>2. <<[who |-> m.who, rank |-> 6]>> \in Seq(Entries)
    BY <2>1
  <2>3. [id |-> m.clan, rank |-> 6] \in Copies
    BY <1>1, CopyTypes
  <2>4. CASE m.who \in atChar
    <3>1. /\ clanList' = [clanList EXCEPT ![m.clan] = <<[who |-> m.who, rank |-> 6]>>]
          /\ client' = [client EXCEPT ![m.who] = [id |-> m.clan, rank |-> 6]]
      BY <1>1, <2>4 DEF LoadNewClan
    <3> QED
      BY <1>1, <2>2, <2>3, <3>1 DEF TypeInv, ClanTypeOK
  <2>5. CASE m.who \notin atChar
    BY <1>1, <2>5 DEF LoadNewClan, TypeInv, ClanTypeOK
  <2> QED
    BY <2>4, <2>5
<1> QED
  BY <1>1, <1>2 DEF LoadNewClan, tables, bounds, TypeInv, ClanTypeOK

\* An invitation.
LEMMA InviteTypes ==
  ASSUME TypeInv, NEW c \in Char, NEW d \in Char, Invite(c, d)
  PROVE  TypeInv'
<1>1. /\ UNCHANGED <<row, client, avatar, atChar, inWorld, clanList, tables, toWorld, toChar,
                     missed, scrambled, logins>>
      /\ invites' \subseteq Char \X Char /\ moves' \in 0..MaxMoves
  BY ClanAssumption DEF Invite, TypeInv, ClanTypeOK
<1> QED
  BY <1>1 DEF TypeInv, ClanTypeOK, tables

\* A list loses its first entry of a name.
LEMMA FirstErased ==
  ASSUME TypeInv, NEW k, Loaded(k), NEW n
  PROVE  WithoutFirst(k, n) \in Seq(Entries)
<1> DEFINE at == {i \in DOMAIN clanList[k] : clanList[k][i].who = n}
<1>1. clanList[k] \in Seq(Entries) /\ DOMAIN clanList[k] = 1..Len(clanList[k])
  BY Pieces, EntriesOf DEF Loaded
<1>2. CASE at = {}
  BY <1>1, <1>2 DEF WithoutFirst
<1>3. CASE at # {}
  <2>1. at \in SUBSET Nat
    BY <1>1
  <2>2. \E i \in at : \A j \in at : i <= j
    BY <1>3, <2>1, LeastExists
  <2>3. PICK i \in at : WithoutFirst(k, n) = RemoveAt(clanList[k], i)
    BY <1>3, <2>2 DEF WithoutFirst
  <2> QED
    BY <1>1, <2>3, Erased
<1> QED
  BY <1>2, <1>3

\* The lists when that of one clan is changed.
LEMMA ListTypes ==
  ASSUME TypeInv, NEW k \in ClanIds, NEW l, l = NoList \/ l \in Seq(Entries),
         clanList' = [clanList EXCEPT ![k] = l]
  PROVE  /\ DOMAIN clanList' = ClanIds
         /\ \A j \in ClanIds : clanList'[j] = NoList \/ clanList'[j] \in Seq(Entries)
         /\ clanList'[k] = l /\ \A j \in ClanIds \ {k} : clanList'[j] = clanList[j]
BY DEF TypeInv, ClanTypeOK

\* An invitation is accepted.
LEMMA AcceptTypes ==
  ASSUME TypeInv, NEW d \in Char, NEW c \in Char, Accept(d, c)
  PROVE  TypeInv'
<1> DEFINE k == client[c].id
           l == Append(clanList[k], [who |-> d, rank |-> 1])
<1>1. row' \in [Char -> Copies] /\ client' \in [Char -> Copies]
  <2>1. k \in 0..MaxClans
    BY Pieces, CopyTypes
  <2>2. [id |-> k, rank |-> 1] \in Copies
    BY <2>1, CopyTypes
  <2>3. BooleanRow(row[d], k) \in Copies
    BY Pieces, CopyTypes
  <2>4. /\ row' = [row EXCEPT ![d] = BooleanRow(row[d], k)]
        /\ client' = [client EXCEPT ![d] = [id |-> k, rank |-> 1]]
    BY DEF Accept
  <2> QED
    BY <2>2, <2>3, <2>4, Pieces
<1>2. /\ UNCHANGED <<avatar, atChar, inWorld, tables, toChar, scrambled, bounds>>
      /\ invites' \subseteq Char \X Char /\ missed' \subseteq Char
  BY DEF Accept, TypeInv, ClanTypeOK
<1>3. CASE /\ Loaded(k) /\ Tell(Told(d, "joined", k))
           /\ clanList' = [clanList EXCEPT ![k] = Append(@, [who |-> d, rank |-> 1])]
  <2>1. k \in ClanIds /\ clanList[k] \in Seq(Entries)
    BY <1>3, Pieces
  <2>2. l \in Seq(Entries)
    <3>1. [who |-> d, rank |-> 1] \in Entries
      BY CopyTypes DEF Entries
    <3> QED
      BY <2>1, <3>1, AppendProperties
  <2>3. clanList' = [clanList EXCEPT ![k] = l]
    BY <1>3
  <2>4. k \in Nat
    BY <2>1, ClanAssumption DEF ClanIds
  <2>5. \A i \in 1..Len(Told(d, "joined", k)) : Sound(Told(d, "joined", k)[i])
    <3> HIDE DEF k
    <3> QED
      BY <2>1, <2>4, ToldSound
  <2>6. toWorld' \in Seq(Messages) /\ \A i \in 1..Len(toWorld') : Sound(toWorld'[i])
    BY <1>2, <1>3, <2>4, <2>5, ToldIs, SoundMail DEF tables
  <2> HIDE DEF l, k
  <2>7. /\ DOMAIN clanList' = ClanIds
        /\ \A j \in ClanIds : clanList'[j] = NoList \/ clanList'[j] \in Seq(Entries)
    BY <2>1, <2>2, <2>3, ListTypes
  <2> QED
    BY <1>1, <1>2, <2>6, <2>7 DEF TypeInv, ClanTypeOK, tables, bounds
<1>4. CASE UNCHANGED <<clanList, toWorld>>
  BY <1>1, <1>2, <1>4 DEF TypeInv, ClanTypeOK, tables, bounds
<1> QED
  BY <1>3, <1>4 DEF Accept

\* A member is kicked or leaves.
LEMMA PartTypes ==
  ASSUME TypeInv, NEW c \in Char, NEW k, Loaded(k), NEW n \in Char,
         clanList' = [clanList EXCEPT ![k] = WithoutFirst(k, n)],
         Tell(Told(n, "kicked", 0)), missed' \subseteq Char,
         row' \in [Char -> Copies], client' \in [Char -> Copies],
         UNCHANGED <<avatar, atChar, inWorld, tables, dialogs, scrambled, bounds>>
  PROVE  TypeInv'
<1>1. k \in ClanIds /\ WithoutFirst(k, n) \in Seq(Entries)
  BY FirstErased DEF Loaded
<1>2. /\ DOMAIN clanList' = ClanIds
      /\ \A j \in ClanIds : clanList'[j] = NoList \/ clanList'[j] \in Seq(Entries)
  BY <1>1, ListTypes
<1>3. \A i \in 1..Len(Told(n, "kicked", 0)) : Sound(Told(n, "kicked", 0)[i])
  BY ToldSound
<1>4. toWorld' \in Seq(Messages) /\ \A i \in 1..Len(toWorld') : Sound(toWorld'[i])
  BY <1>3, ToldIs, SoundMail
<1> QED
  BY <1>2, <1>4 DEF TypeInv, ClanTypeOK, tables, dialogs, bounds

LEMMA KickTypes ==
  ASSUME TypeInv, NEW c \in Char, NEW n \in Char, Kick(c, n)
  PROVE  TypeInv'
<1>1. [id |-> 0, rank |-> 1] \in Copies
  BY CopyTypes
<1>2. row' \in [Char -> Copies] /\ client' \in [Char -> Copies]
  <2>1. row' = [row EXCEPT ![n] = [id |-> 0, rank |-> 1]]
    BY DEF Kick, KickedRow
  <2>2. client' = IF n \in atChar THEN [client EXCEPT ![n] = [id |-> 0, rank |-> 1]] ELSE client
    BY DEF Kick
  <2> QED
    BY <1>1, <2>1, <2>2, Pieces
<1>3. missed' \subseteq Char
  BY DEF Kick, Unheard, Mistaken, TypeInv, ClanTypeOK
<1> QED
  BY <1>2, <1>3, PartTypes DEF Kick

LEMMA LeaveTypes ==
  ASSUME TypeInv, NEW c \in Char, LeaveClan(c)
  PROVE  TypeInv'
<1>1. [id |-> 0, rank |-> 1] \in Copies /\ BooleanRow(row[c], 0) \in Copies
  BY CopyTypes, Pieces
<1>2. row' \in [Char -> Copies] /\ client' \in [Char -> Copies]
  BY <1>1, Pieces DEF LeaveClan
<1>3. missed' \subseteq Char
  BY DEF LeaveClan, Unheard, TypeInv, ClanTypeOK
<1> QED
  BY <1>2, <1>3, PartTypes DEF LeaveClan

\* A clan is dissolved.
LEMMA DisorganizeTypes ==
  ASSUME TypeInv, NEW c \in Char, Disorganize(c)
  PROVE  TypeInv'
<1> DEFINE k == client[c].id
<1>1. k \in ClanIds
  BY DEF Disorganize, Loaded
<1>2. row' \in [Char -> Copies]
  <2>1. \A d \in Char : (IF row[d].id = k THEN BooleanRow(row[d], 0) ELSE row[d]) \in Copies
    BY CopyTypes, Pieces
  <2> QED
    BY <2>1 DEF Disorganize
<1>3. client' \in [Char -> Copies]
  BY CopyTypes, Pieces DEF Disorganize
<1>4. /\ DOMAIN clanList' = ClanIds
      /\ \A j \in ClanIds : clanList'[j] = NoList \/ clanList'[j] \in Seq(Entries)
  BY <1>1, ListTypes DEF Disorganize
<1>5. list_clan' \subseteq 1..founded
  BY Pieces DEF Disorganize, TypeInv, ClanTypeOK
<1> QED
  BY <1>2, <1>3, <1>4, <1>5 DEF Disorganize, dialogs, bounds, TypeInv, ClanTypeOK

\* What a reload makes of a list.
LEMMA Reloaded ==
  ASSUME TypeInv, NEW k, Loaded(k), NEW r \in [Char -> Copies], Reload(k, r)
  PROVE  /\ row' = r /\ DOMAIN clanList' = ClanIds
         /\ \A j \in ClanIds : clanList'[j] = NoList \/ clanList'[j] \in Seq(Entries)
         /\ clanList'[k] # NoList /\ \A j \in ClanIds \ {k} : clanList'[j] = clanList[j]
         /\ scrambled' \subseteq ClanIds
<1>1. k \in ClanIds /\ clanList[k] \in Seq(Entries) /\ DOMAIN clanList[k] = 1..Len(clanList[k])
      /\ Len(clanList[k]) \in Nat /\ \A i \in 1..Len(clanList[k]) : clanList[k][i] \in Entries
  BY Pieces, LenProperties, ElementOfSeq DEF Loaded
<1>2. PICK l \in Reloads(k, r) : clanList' = [clanList EXCEPT ![k] = l]
  BY DEF Reload
<1>3. PICK s \in Orders(k, r) :
        l = [i \in DOMAIN clanList[k] |->
               IF i <= Len(s) THEN [who |-> s[i], rank |-> r[s[i]].rank] ELSE clanList[k][i]]
  BY <1>2 DEF Reloads
<1>4. s \in [1..Cardinality(RowsOf(k)) -> RowsOf(k)] /\ Cardinality(RowsOf(k)) \in Nat
  <2>1. IsFiniteSet(RowsOf(k))
    BY ClanAssumption, FS_Subset DEF RowsOf
  <2> QED
    BY <1>3, <2>1, FS_CardinalityType DEF Orders, SetToSeqs
<1>5. Len(s) = Cardinality(RowsOf(k))
  BY <1>4
<1>6. \A i \in 1..Len(clanList[k]) : l[i] \in Entries
  <2> SUFFICES ASSUME NEW i \in 1..Len(clanList[k]) PROVE l[i] \in Entries
    OBVIOUS
  <2>1. CASE i <= Len(s)
    <3>1. s[i] \in Char
      BY <1>1, <1>4, <1>5, <2>1 DEF RowsOf
    <3>2. l[i] = [who |-> s[i], rank |-> r[s[i]].rank]
      BY <1>1, <1>3, <2>1
    <3> QED
      BY <3>1, <3>2, CopyTypes DEF Entries
  <2>2. CASE ~(i <= Len(s))
    BY <1>1, <1>3, <2>2
  <2> QED
    BY <2>1, <2>2
<1>7. l \in Seq(Entries)
  <2>1. l = [i \in 1..Len(clanList[k]) |-> l[i]]
    BY <1>1, <1>3
  <2>2. l \in [1..Len(clanList[k]) -> Entries]
    BY <1>6, <2>1
  <2> QED
    BY <1>1, <2>2, SeqDef
<1>8. l # NoList
  BY <1>7, NoListAssumption
<1>9. scrambled' \subseteq ClanIds /\ row' = r
  BY <1>1 DEF Reload, TypeInv, ClanTypeOK
<1> QED
  BY <1>1, <1>2, <1>7, <1>8, <1>9, ListTypes

\* The ranks that a change gives: what is told is a rank above 0, what the row
\* gets is a member's if he was one.
LEMMA NewRanks ==
  ASSUME TypeInv, NEW n \in Char
  PROVE  /\ RankOf(n) \in Ranks
         /\ Raised(RankOf(n)) \in Ranks /\ Raised(RankOf(n)) # 0
         /\ n \in atChar => RankOf(n) = client[n].rank
         /\ n \notin atChar => RankOf(n) = row[n].rank
<1>1. RankOf(n) \in Ranks
  BY CopyTypes, Pieces DEF RankOf
<1> QED
  BY <1>1 DEF RankOf, Raised, Ranks

\* The change of a member's rank, with the sound message that goes with it.
LEMMA ChangeTypes ==
  ASSUME TypeInv, NEW c \in Char, NEW n \in Char, NEW x \in Ranks, NEW y \in Ranks,
         n \in atChar => y # 0, ChangeRank(c, n, x, y)
  PROVE  TypeInv'
<1> DEFINE k == client[c].id
<1>1. client' \in [Char -> Copies] /\ SetRank(row, n, y) \in [Char -> Copies]
  BY Pieces, RankSet DEF ChangeRank
<1>2. /\ row' \in [Char -> Copies] /\ DOMAIN clanList' = ClanIds
      /\ \A j \in ClanIds : clanList'[j] = NoList \/ clanList'[j] \in Seq(Entries)
      /\ scrambled' \subseteq ClanIds
  <2>1. Loaded(k) /\ Reload(k, SetRank(row, n, y))
    BY DEF ChangeRank
  <2> QED
    BY <1>1, <2>1, Reloaded
<1>3. toWorld' \in Seq(Messages) /\ \A i \in 1..Len(toWorld') : Sound(toWorld'[i])
  <2>1. y \in Nat
    BY DEF Ranks
  <2>2. Told(n, "rank", y) \in Seq(Messages)
    BY <2>1, ToldIs
  <2>3. \A i \in 1..Len(Told(n, "rank", y)) : Sound(Told(n, "rank", y)[i])
    BY <2>1, ToldIs, ToldSound
  <2> QED
    BY <2>2, <2>3, SoundMail DEF ChangeRank
<1>4. missed' \subseteq Char /\ moves' \in 0..MaxMoves
  BY ClanAssumption DEF ChangeRank, Unheard, TypeInv, ClanTypeOK
<1> QED
  BY <1>1, <1>2, <1>3, <1>4 DEF ChangeRank, tables, dialogs, TypeInv, ClanTypeOK

\* A member is raised or lowered.
LEMMA UpTypes ==
  ASSUME TypeInv, NEW c \in Char, NEW n \in Char, UpRank(c, n)
  PROVE  TypeInv'
BY NewRanks, ChangeTypes DEF UpRank

\* What he is lowered to, at the char server and elsewhere.
LEMMA Lowered ==
  ASSUME TypeInv, NEW c \in Char, NEW n \in Char, DownRank(c, n)
  PROVE  \E x, y \in Ranks :
           /\ ChangeRank(c, n, x, y)
           /\ n \in atChar => y # 0 /\ client[n].rank > 0 /\ x = client[n].rank - 1 /\ y = Worldly(x)
           /\ n \notin atChar => (row[n].rank # 0 => y # 0)
<1> DEFINE x == IF n \in atChar THEN client[n].rank - 1 ELSE 0
           y == IF RankOf(n) > 1 THEN RankOf(n) - 1 ELSE RankOf(n)
<1>1. ChangeRank(c, n, x, y) /\ (n \in atChar => client[n].rank > 0)
  BY DEF DownRank
<1>2. client[n].rank \in Ranks /\ RankOf(n) \in Ranks
  BY NewRanks, CopyTypes, Pieces
<1>3. x \in Ranks /\ y \in Ranks
  BY <1>1, <1>2 DEF Ranks
<1>4. n \in atChar => y # 0 /\ x = client[n].rank - 1 /\ y = Worldly(x)
  BY <1>1, <1>2, NewRanks DEF Ranks, Worldly
<1>5. n \notin atChar => (row[n].rank # 0 => y # 0)
  BY <1>2, NewRanks DEF Ranks
<1> HIDE DEF x, y
<1> QED
  BY <1>1, <1>3, <1>4, <1>5

LEMMA DownTypes ==
  ASSUME TypeInv, NEW c \in Char, NEW n \in Char, DownRank(c, n)
  PROVE  TypeInv'
BY Lowered, ChangeTypes

\* Two lists of one element, or one.
LEMMA OneOrTwo ==
  ASSUME NEW S, NEW a \in S, NEW b \in S
  PROVE  /\ <<a>> \o <<b>> \in Seq(S) /\ Len(<<a>> \o <<b>>) = 2
         /\ (<<a>> \o <<b>>)[1] = a /\ (<<a>> \o <<b>>)[2] = b
         /\ <<>> \o <<b>> \in Seq(S) /\ Len(<<>> \o <<b>>) = 1 /\ (<<>> \o <<b>>)[1] = b
<1>1. <<a>> \in Seq(S) /\ <<b>> \in Seq(S) /\ Len(<<a>>) = 1 /\ Len(<<b>>) = 1
      /\ <<a>>[1] = a /\ <<b>>[1] = b
  OBVIOUS
<1>2. <<>> \o <<b>> = <<b>>
  BY <1>1, ConcatEmptySeq
<1>3. /\ <<a>> \o <<b>> \in Seq(S) /\ Len(<<a>> \o <<b>>) = 2
      /\ \A i \in 1..2 : (<<a>> \o <<b>>)[i] = IF i <= 1 THEN <<a>>[i] ELSE <<b>>[i - 1]
  <2>1. Len(<<a>>) + Len(<<b>>) = 2
    BY <1>1
  <2> QED
    BY <1>1, <2>1, ConcatProperties
<1> QED
  BY <1>1, <1>2, <1>3

\* The messages of a change of mastership, the last one to the giver.
LEMMA GiveMail ==
  ASSUME TypeInv, NEW c \in Char, NEW n \in Char, c # n, c \in atChar
  PROVE  LET s == Told(n, "rank", 6) \o Told(c, "rank", GiverRank)
         IN  /\ s \in Seq(Messages) /\ Len(s) \in 1..2
             /\ s[Len(s)] = [kind |-> "rank", who |-> c, arg |-> 4]
             /\ n \in atChar => Len(s) = 2 /\ s[1] = [kind |-> "rank", who |-> n, arg |-> 6]
             /\ n \notin atChar => Len(s) = 1
<1> DEFINE a == [kind |-> "rank", who |-> n, arg |-> 6]
           b == [kind |-> "rank", who |-> c, arg |-> 4]
           s == Told(n, "rank", 6) \o Told(c, "rank", GiverRank)
<1>1. a \in Messages /\ b \in Messages
  BY DEF Messages
<1>2. s = IF n \in atChar THEN <<a>> \o <<b>> ELSE <<>> \o <<b>>
  BY DEF Told, GiverRank
<1> HIDE DEF a, b, s
<1>3. /\ s \in Seq(Messages) /\ Len(s) \in 1..2 /\ s[Len(s)] = b
      /\ n \in atChar => Len(s) = 2 /\ s[1] = a
      /\ n \notin atChar => Len(s) = 1
  BY <1>1, <1>2, OneOrTwo
<1> QED
  BY <1>3 DEF a, b, s

\* Mastership is handed over.
LEMMA GiveTypes ==
  ASSUME TypeInv, NEW c \in Char, NEW n \in Char, GiveMaster(c, n)
  PROVE  TypeInv'
<1> DEFINE k   == client[c].id
           mem == IF n \in atChar THEN SetRank(client, n, 6) ELSE client
           s   == Told(n, "rank", 6) \o Told(c, "rank", GiverRank)
           r   == SetRank(SetRank(row, n, 6), c, GiverRank)
<1>1. /\ c # n /\ c \in atChar /\ Loaded(k) /\ client' = SetRank(mem, c, GiverRank)
      /\ Tell(s) /\ Reload(k, r) /\ missed' = missed \cup Unheard(n) \cup Unheard(c) \cup Mistaken(k, n)
      /\ moves < MaxMoves /\ moves' = moves + 1
      /\ UNCHANGED <<avatar, atChar, inWorld, tables, dialogs, logins>>
  BY DEF GiveMaster
<1>2. GiverRank \in Ranks /\ 6 \in Ranks
  BY CopyTypes DEF GiverRank
<1>3. client' \in [Char -> Copies] /\ r \in [Char -> Copies]
  <2>1. mem \in [Char -> Copies] /\ SetRank(row, n, 6) \in [Char -> Copies]
    BY <1>2, Pieces, RankSet
  <2> HIDE DEF mem
  <2> QED
    BY <1>1, <1>2, <2>1, RankSet
<1> HIDE DEF r, k, mem
<1>4. /\ row' \in [Char -> Copies] /\ DOMAIN clanList' = ClanIds
      /\ \A j \in ClanIds : clanList'[j] = NoList \/ clanList'[j] \in Seq(Entries)
      /\ scrambled' \subseteq ClanIds
  BY <1>1, <1>3, Reloaded
<1>5. toWorld' \in Seq(Messages) /\ \A i \in 1..Len(toWorld') : Sound(toWorld'[i])
  <2>1. /\ s \in Seq(Messages) /\ Len(s) \in 1..2
        /\ s[Len(s)] = [kind |-> "rank", who |-> c, arg |-> 4]
        /\ n \in atChar => Len(s) = 2 /\ s[1] = [kind |-> "rank", who |-> n, arg |-> 6]
        /\ n \notin atChar => Len(s) = 1
    BY <1>1, GiveMail
  <2> HIDE DEF s
  <2>2. \A i \in 1..Len(s) : Sound(s[i])
    BY <2>1, CopyTypes DEF Sound
  <2> QED
    BY <1>1, <2>1, <2>2, SoundMail
<1>6. missed' \subseteq Char /\ moves' \in 0..MaxMoves
  BY <1>1, ClanAssumption DEF Unheard, Mistaken, TypeInv, ClanTypeOK
<1> QED
  BY <1>1, <1>3, <1>4, <1>5, <1>6 DEF tables, dialogs, TypeInv, ClanTypeOK

\* The next message for the world server.
LEMMA HeadOfMail ==
  ASSUME TypeInv, toWorld # <<>>
  PROVE  /\ 1 \in 1..Len(toWorld) /\ Head(toWorld) = toWorld[1] /\ toWorld[1] \in Messages
         /\ toWorld[1].who \in Char /\ Sound(toWorld[1])
         /\ Tail(toWorld) \in Seq(Messages) /\ Len(Tail(toWorld)) = Len(toWorld) - 1
         /\ \A i \in 1..Len(Tail(toWorld)) : i + 1 \in 1..Len(toWorld) /\ Tail(toWorld)[i] = toWorld[i + 1]
         /\ \A i \in 2..Len(toWorld) : i - 1 \in 1..Len(Tail(toWorld))
<1>1. toWorld \in Seq(Messages) /\ Len(toWorld) \in Nat
  BY Pieces DEF TypeInv, ClanTypeOK
<1>2. Len(toWorld) \in Nat \ {0}
  BY <1>1, EmptySeq
<1>3. 1 \in 1..Len(toWorld) /\ Head(toWorld) = toWorld[1]
  BY <1>1, <1>2
<1>4. /\ Tail(toWorld) \in Seq(Messages) /\ Len(Tail(toWorld)) = Len(toWorld) - 1
      /\ \A i \in 1..Len(Tail(toWorld)) : Tail(toWorld)[i] = toWorld[i + 1]
  BY <1>1, HeadTailProperties
<1>5. toWorld[1] \in Messages /\ Sound(toWorld[1])
  BY <1>3, Pieces DEF TypeInv
<1>6. toWorld[1].who \in Char
  BY <1>5 DEF Messages
<1> QED
  BY <1>2, <1>3, <1>4, <1>5, <1>6

\* What the world server makes of a message.
LEMMA HeardIs ==
  ASSUME TypeInv, NEW m \in Messages, Sound(m)
  PROVE  /\ Heard(m) \in Copies
         /\ m.kind = "joined" /\ m.arg \in list_clan => Heard(m) = [id |-> m.arg, rank |-> 1]
         /\ m.kind = "joined" /\ m.arg \notin list_clan => Heard(m) = avatar[m.who]
         /\ m.kind = "rank" => Heard(m) = [id |-> avatar[m.who].id, rank |-> m.arg]
         /\ m.kind \notin {"joined", "rank"} => Heard(m) = [id |-> 0, rank |-> RankGiven(m)]
<1>1. m.who \in Char /\ m.kind \in {"joined", "kicked", "rank"}
  BY DEF Messages
<1>2. avatar[m.who] \in Copies /\ avatar[m.who].id \in 0..MaxClans
  BY <1>1, CopyTypes, Pieces
<1>3. CASE m.kind = "joined"
  <2>1. Heard(m) = IF m.arg \in list_clan THEN [id |-> m.arg, rank |-> 1] ELSE avatar[m.who]
    BY <1>3 DEF Heard
  <2>2. m.arg \in list_clan => [id |-> m.arg, rank |-> 1] \in Copies
    BY CopyTypes, Pieces, <1>3 DEF Sound
  <2> QED
    BY <1>2, <1>3, <2>1, <2>2
<1>4. CASE m.kind = "rank"
  <2>1. Heard(m) = [id |-> avatar[m.who].id, rank |-> m.arg]
    BY <1>4 DEF Heard
  <2>2. m.arg \in Ranks
    BY <1>4 DEF Sound
  <2> QED
    BY <1>2, <1>4, <2>1, <2>2, CopyTypes
<1>5. CASE m.kind = "kicked"
  <2>1. Heard(m) = [id |-> 0, rank |-> RankGiven(m)] /\ RankGiven(m) = 1
    BY <1>5 DEF Heard, RankGiven
  <2> QED
    BY <1>5, <2>1, CopyTypes
<1> QED
  BY <1>1, <1>3, <1>4, <1>5

LEMMA HearTypes ==
  ASSUME TypeInv, HearChar
  PROVE  TypeInv'
<1> DEFINE m == toWorld[1]
<1>1. /\ toWorld # <<>> /\ toWorld' = Tail(toWorld)
      /\ avatar' = IF m.who \in inWorld THEN [avatar EXCEPT ![m.who] = Heard(m)] ELSE avatar
      /\ missed' = IF m.who \in inWorld THEN missed ELSE missed \cup {m.who}
  BY HeadOfMail DEF HearChar
<1>2. m \in Messages /\ Sound(m) /\ m.who \in Char
  BY <1>1, HeadOfMail
<1> HIDE DEF m
<1>3. avatar' \in [Char -> Copies]
  BY <1>1, <1>2, HeardIs, Pieces
<1>4. toWorld' \in Seq(Messages) /\ \A i \in 1..Len(toWorld') : Sound(toWorld'[i])
  BY <1>1, HeadOfMail DEF TypeInv
<1>5. missed' \subseteq Char
  BY <1>1, <1>2 DEF TypeInv, ClanTypeOK
<1> QED
  BY <1>3, <1>4, <1>5 DEF HearChar, TypeInv, ClanTypeOK, tables, dialogs, bounds

\* Whatever happens keeps the types.
LEMMA StepTypes ==
  ASSUME TypeInv, [ClanNext]_clanVars
  PROVE  TypeInv'
<1>1. CASE UNCHANGED clanVars
  BY <1>1 DEF clanVars, TypeInv, ClanTypeOK
<1>2. CASE ClanNext
  BY <1>2, LoadTypes, HearTypes, ComingTypes, CreateTypes, LeaveTypes, DisorganizeTypes,
     InviteTypes, AcceptTypes, KickTypes, UpTypes, DownTypes, GiveTypes DEF ClanNext
<1> QED
  BY <1>1, <1>2

LEMMA InitTypes == ClanInit => TypeInv
<1> SUFFICES ASSUME ClanInit PROVE TypeInv
  OBVIOUS
<1>1. row \in [Char -> Copies] /\ client \in [Char -> Copies] /\ avatar \in [Char -> Copies]
  BY CopyTypes DEF ClanInit
<1>2. Len(toWorld) = 0 /\ toWorld \in Seq(Messages) /\ toChar \in Seq([who : Char, clan : ClanIds])
  BY DEF ClanInit
<1>3. founded \in 0..MaxClans /\ moves \in 0..MaxMoves /\ logins \in 0..MaxLogins
  BY ClanAssumption DEF ClanInit
<1> QED
  BY <1>1, <1>2, <1>3 DEF ClanInit, TypeInv, ClanTypeOK

\* Copies, lists, tables and messages stay what they are declared as, whoever comes
\* and goes and however late the servers hear of each other.
THEOREM TypeCorrect == ClanSpec => []ClanTypeOK
<1>1. TypeInv => ClanTypeOK
  BY DEF TypeInv
<1>2. TypeInv /\ [ClanNext]_clanVars => TypeInv'
  BY StepTypes
<1> QED
  BY InitTypes, <1>1, <1>2, PTL DEF ClanSpec

-----------------------------------------------------------------------------
(* The two servers. *)

\* The three ways in which a handler of the char server concerns a player that the
\* world server does not miss, when it sends s: not at all,
Calm(u, s) ==
  /\ client'[u] = client[u] /\ \A i \in 1..Len(s) : s[i].who # u
  /\ u \notin inWorld => row'[u] = row[u]

\* with one message that says what the char server has now,
Hit(u, s) ==
  /\ u \in atChar /\ u \in inWorld /\ ~Founding(u)
  /\ \E i \in 1..Len(s) :
       /\ s[i].who = u /\ \A j \in 1..Len(s) : s[j].who = u => j = i
       /\ IF s[i].kind = "rank"
          THEN client'[u].id = client[u].id /\ Worldly(client'[u].rank) = s[i].arg
          ELSE /\ client'[u].id = Gives(s[i])
               /\ client'[u].id # 0 => Worldly(client'[u].rank) = RankGiven(s[i])

\* or while he is nowhere.
Away(u, s) ==
  /\ u \notin atChar /\ u \notin inWorld
  /\ client'[u] = client[u] /\ \A i \in 1..Len(s) : s[i].who # u
  /\ row'[u].id \in {0, row[u].id} /\ (row'[u].id # 0 => row'[u].rank # 0)

\* What a handler of the char server may do that tells the world of what it did.
Telling(s) ==
  /\ s \in Seq(Messages) /\ toWorld' = toWorld \o s /\ missed \subseteq missed'
  /\ UNCHANGED <<avatar, atChar, inWorld, founded, toChar, list_clan>>
  /\ \A k \in ClanIds : Loaded(k)' <=> Loaded(k)
  /\ \A u \in Char : row'[u].id <= founded /\ client'[u].id <= founded
  /\ \A i \in 1..Len(s) : s[i].kind = "joined" => Loaded(s[i].arg)
  /\ \A u \in Char \ missed' : Calm(u, s) \/ Hit(u, s) \/ Away(u, s)

\* Loaded clans have been founded and are none of those to be loaded.
LEMMA LoadedApart ==
  ASSUME TypeInv, Tabled, NEW k, Loaded(k)
  PROVE  /\ k \in ClanIds /\ k # 0 /\ k \in Nat /\ k <= founded /\ k \in list_clan
         /\ \A i \in 1..Len(toChar) : toChar[i].clan # k
<1>1. k \in ClanIds /\ clanList[k] # NoList /\ k \in list_clan
  BY DEF Loaded, Tabled
<1>2. k \in 1..founded
  BY <1>1, Pieces
<1>3. \A i \in 1..Len(toChar) : toChar[i].clan # k
  BY <1>1 DEF Tabled
<1> QED
  BY <1>1, <1>2, <1>3, Pieces

\* Whom a handler knows it knew before.
LEMMA KnownStays ==
  ASSUME NEW s, Telling(s), NEW u \in Char, Known(u)'
  PROVE  Known(u)
BY DEF Telling, Known

\* Who belongs to no clan belongs to none that there is.
LEMMA NoneExists ==
  ASSUME TypeInv
  PROVE  Existing(0) = 0 /\ \A x : Existing(x) # 0 => Existing(x) = x /\ x \in list_clan /\ x # 0
BY Pieces DEF Existing, TypeInv, ClanTypeOK

\* A handler of the char server keeps the tables, the founders and who waits.
LEMMA TellingTables ==
  ASSUME TypeInv, ServersInv, TypeInv', NEW s, Telling(s)
  PROVE  Founded' /\ Tabled' /\ Apart' /\ Founders' /\ Ranked' /\ Waiting'
<1>0. s \in Seq(Messages) /\ toWorld' = toWorld \o s
  BY DEF Telling
<1>1. /\ Len(s) \in Nat /\ Len(toWorld') = Len(toWorld) + Len(s)
      /\ \A i \in 1..Len(toWorld) : toWorld'[i] = toWorld[i]
      /\ \A i \in 1..Len(toWorld') :
           i \in 1..Len(toWorld) \/ (i - Len(toWorld) \in 1..Len(s) /\ toWorld'[i] = s[i - Len(toWorld)])
  BY <1>0, Mailed
<1>2. \A i \in 1..Len(s) : s[i].kind = "joined" =>
        /\ s[i].arg # 0 /\ s[i].arg <= founded /\ \A j \in 1..Len(toChar) : toChar[j].clan # s[i].arg
  BY LoadedApart DEF Telling, ServersInv
<1>3. \A i \in 1..Len(toWorld') : toWorld'[i].kind = "joined" =>
        /\ toWorld'[i].arg <= founded /\ \A j \in 1..Len(toChar) : toChar[j].clan # toWorld'[i].arg
  BY <1>1, <1>2 DEF ServersInv, Founded, Apart
<1>4. /\ UNCHANGED <<avatar, atChar, inWorld, founded, toChar, list_clan>>
      /\ missed \subseteq missed' /\ \A k \in ClanIds : Loaded(k)' <=> Loaded(k)
  BY DEF Telling
<1>12. \A k : Loaded(k)' <=> Loaded(k)
  BY <1>4 DEF Loaded
<1>5. \A u \in Char \ missed' : \A i \in 1..Len(toWorld') : toWorld'[i].who = u =>
        (toWorld'[i] = toWorld[i] /\ i \in 1..Len(toWorld)) \/ Hit(u, s)
  <2> SUFFICES ASSUME NEW u \in Char \ missed', NEW i \in 1..Len(toWorld'), toWorld'[i].who = u,
                      i \notin 1..Len(toWorld)
               PROVE  Hit(u, s)
    BY <1>1
  <2>1. i - Len(toWorld) \in 1..Len(s) /\ s[i - Len(toWorld)].who = u
    BY <1>1
  <2> QED
    BY <2>1 DEF Telling, Calm, Away
<1>6. Founded'
  BY <1>3, <1>4 DEF Telling, ServersInv, Founded
<1>7. Tabled'
  <2>1. \A k \in ClanIds : Loaded(k)' => k \in list_clan'
    BY <1>4 DEF ServersInv, Tabled
  <2>2. \A i \in 1..Len(toChar) : toChar[i].clan \in list_clan' /\ clanList'[toChar[i].clan] = NoList
    <3> SUFFICES ASSUME NEW i \in 1..Len(toChar)
                 PROVE  toChar[i].clan \in list_clan' /\ clanList'[toChar[i].clan] = NoList
      OBVIOUS
    <3>1. toChar[i].clan \in ClanIds
      BY Pieces
    <3>2. ~Loaded(toChar[i].clan)
      BY DEF ServersInv, Tabled, Loaded
    <3> QED
      BY <1>4, <3>1, <3>2 DEF Loaded, ServersInv, Tabled
  <2>3. \A i \in 1..Len(toWorld') :
          toWorld'[i].kind = "joined" /\ toWorld'[i].arg \in list_clan' => Loaded(toWorld'[i].arg)
    <3>1. \A i \in 1..Len(toWorld) :
            toWorld[i].kind = "joined" /\ toWorld[i].arg \in list_clan => Loaded(toWorld[i].arg)
      BY DEF ServersInv, Tabled
    <3>2. \A i \in 1..Len(s) : s[i].kind = "joined" => Loaded(s[i].arg)
      BY DEF Telling
    <3> QED
      BY <1>1, <1>4, <3>1, <3>2
  <2>4. \A i \in 1..Len(toWorld') : Loaded(toWorld'[i].arg) => Loaded(toWorld[i].arg)'
    BY <1>12 DEF Loaded
  <2> QED
    BY <1>4, <2>1, <2>2, <2>3, <2>4 DEF ServersInv, Tabled
<1>8. Apart'
  <2> SUFFICES ASSUME NEW i \in 1..Len(toChar)
               PROVE  \A c \in Char \ missed' :
                        /\ client'[c].id # toChar[i].clan
                        /\ c \notin inWorld => row'[c].id # toChar[i].clan
                        /\ c \in inWorld /\ avatar[c].id = toChar[i].clan => c = toChar[i].who
    BY <1>3, <1>4 DEF Apart
  <2> SUFFICES ASSUME NEW c \in Char \ missed'
               PROVE  /\ client'[c].id # toChar[i].clan
                      /\ c \notin inWorld => row'[c].id # toChar[i].clan
                      /\ c \in inWorld /\ avatar[c].id = toChar[i].clan => c = toChar[i].who
    OBVIOUS
  <2>1. /\ client[c].id # toChar[i].clan
        /\ c \notin inWorld => row[c].id # toChar[i].clan
        /\ c \in inWorld /\ avatar[c].id = toChar[i].clan => c = toChar[i].who
    BY <1>4 DEF ServersInv, Apart
  <2>2. toChar[i].clan # 0
    BY Pieces, CopyTypes
  <2>3. CASE Hit(c, s)
    <3>1. PICK j \in 1..Len(s) : /\ s[j].who = c
                                 /\ IF s[j].kind = "rank" THEN client'[c].id = client[c].id
                                    ELSE client'[c].id = Gives(s[j])
      BY <2>3 DEF Hit
    <3> QED
      BY <1>2, <2>1, <2>2, <2>3, <3>1 DEF Gives, Hit
  <2>4. CASE Calm(c, s)
    BY <2>1, <2>2, <2>4 DEF Calm
  <2>5. CASE Away(c, s)
    BY <2>1, <2>2, <2>5 DEF Away
  <2> QED
    BY <2>3, <2>4, <2>5 DEF Telling
<1>9. Founders'
  <2> SUFFICES ASSUME NEW i \in 1..Len(toChar), toChar[i].who \notin missed'
               PROVE  /\ toChar[i].who \in inWorld /\ ~Loaded(client'[toChar[i].who].id)
                      /\ avatar[toChar[i].who] = [id |-> toChar[i].clan, rank |-> 6]
                      /\ \A j \in 1..Len(toWorld') : toWorld'[j].who # toChar[i].who
    BY <1>4, <1>12 DEF Founders, Loaded
  <2> DEFINE w == toChar[i].who
  <2>1. /\ w \in Char /\ w \in inWorld /\ ~Loaded(client[w].id)
        /\ avatar[w] = [id |-> toChar[i].clan, rank |-> 6]
        /\ \A j \in 1..Len(toWorld) : toWorld[j].who # w
    BY <1>4, Pieces DEF ServersInv, Founders
  <2>2. Founding(w)
    <3>1. toChar \in Seq([who : Char, clan : ClanIds])
      BY DEF TypeInv, ClanTypeOK
    <3> QED
      BY <3>1, EntriesOf DEF Founding
  <2>3. Calm(w, s) /\ ~Hit(w, s)
    BY <2>1, <2>2 DEF Telling, Hit, Away
  <2> QED
    BY <1>5, <2>1, <2>3 DEF Calm
<1>10. Ranked'
  <2> SUFFICES ASSUME NEW c \in Char \ missed'
               PROVE  /\ c \in inWorld => (avatar[c].id # 0 => avatar[c].rank # 0)
                      /\ c \notin inWorld => /\ row'[c].id # 0 => row'[c].rank # 0
                                             /\ \A j \in 1..Len(toWorld') : toWorld'[j].who # c
    BY <1>4 DEF Ranked
  <2>1. /\ c \in inWorld => (avatar[c].id # 0 => avatar[c].rank # 0)
        /\ c \notin inWorld => /\ row[c].id # 0 => row[c].rank # 0
                               /\ \A j \in 1..Len(toWorld) : toWorld[j].who # c
    BY <1>4 DEF ServersInv, Ranked
  <2>2. c \notin inWorld => Calm(c, s) \/ Away(c, s)
    BY DEF Telling, Hit
  <2>3. c \notin inWorld => ~Hit(c, s)
    BY DEF Hit
  <2> QED
    BY <1>5, <2>1, <2>2, <2>3 DEF Calm, Away
<1>11. Waiting'
  <2> SUFFICES ASSUME NEW c \in Char, Known(c)', c \notin inWorld
               PROVE  /\ Existing(row'[c].id) = Existing(client'[c].id)
                      /\ Existing(client'[c].id) # 0 => row'[c].rank = Worldly(client'[c].rank)
    BY <1>4 DEF Waiting, Existing
  <2>1. Calm(c, s)
    BY <1>4 DEF Telling, Hit, Away, Known
  <2>2. client'[c] = client[c]
    BY <2>1 DEF Calm
  <2>3. Known(c)
    BY KnownStays
  <2>4. /\ Existing(row[c].id) = Existing(client[c].id)
        /\ Existing(client[c].id) # 0 => row[c].rank = Worldly(client[c].rank)
    BY <2>3 DEF ServersInv, Waiting
  <2>5. row'[c] = row[c]
    BY <2>1 DEF Calm
  <2> QED
    BY <2>2, <2>4, <2>5
<1> QED
  BY <1>6, <1>7, <1>8, <1>9, <1>10, <1>11

\* News about a player after a handler: the old news and what it sends.
LEMMA NewsAfter ==
  ASSUME TypeInv, NEW s, Telling(s), NEW u \in Char
  PROVE  /\ News(u) \subseteq 1..Len(toWorld) /\ Changes(u) \subseteq News(u)
         /\ Len(toWorld) \in Nat /\ Len(s) \in Nat
         /\ \A i \in 1..Len(toWorld) : toWorld'[i] = toWorld[i]
         /\ News(u)' = News(u) \cup {Len(toWorld) + j : j \in {x \in 1..Len(s) : s[x].who = u}}
         /\ Changes(u)' = Changes(u) \cup
              {Len(toWorld) + j : j \in {x \in 1..Len(s) : s[x].who = u /\ s[x].kind # "rank"}}
         /\ \A i \in 1..Len(s) : toWorld'[Len(toWorld) + i] = s[i]
<1>1. /\ Len(s) \in Nat /\ Len(toWorld) \in Nat /\ Len(toWorld') = Len(toWorld) + Len(s)
      /\ \A i \in 1..Len(toWorld) : toWorld'[i] = toWorld[i]
      /\ \A i \in 1..Len(s) : toWorld'[Len(toWorld) + i] = s[i]
      /\ \A i \in 1..Len(toWorld') :
           i \in 1..Len(toWorld) \/ (i - Len(toWorld) \in 1..Len(s) /\ toWorld'[i] = s[i - Len(toWorld)])
  BY Mailed, Pieces DEF Telling
<1>2. News(u)' = {i \in 1..Len(toWorld') : toWorld'[i].who = u}
  BY DEF News
<1>3. Changes(u)' = {i \in News(u)' : toWorld'[i].kind # "rank"}
  BY DEF Changes
<1>4. News(u)' = News(u) \cup {Len(toWorld) + j : j \in {x \in 1..Len(s) : s[x].who = u}}
  <2>1. ASSUME NEW i \in News(u)'
        PROVE  i \in News(u) \cup {Len(toWorld) + j : j \in {x \in 1..Len(s) : s[x].who = u}}
    <3>1. i \in 1..Len(toWorld') /\ toWorld'[i].who = u
      BY <1>2, <2>1
    <3>2. CASE i \in 1..Len(toWorld)
      BY <1>1, <3>1, <3>2 DEF News
    <3>3. CASE i \notin 1..Len(toWorld)
      <4>1. i - Len(toWorld) \in 1..Len(s) /\ s[i - Len(toWorld)].who = u
        BY <1>1, <3>1, <3>3
      <4>2. i = Len(toWorld) + (i - Len(toWorld))
        BY <1>1, <3>1
      <4> QED
        BY <4>1, <4>2
    <3> QED
      BY <3>2, <3>3
  <2>2. News(u) \subseteq News(u)'
    BY <1>1, <1>2 DEF News
  <2>3. ASSUME NEW j \in 1..Len(s), s[j].who = u
        PROVE  Len(toWorld) + j \in News(u)'
    BY <1>1, <1>2, <2>3
  <2> QED
    BY <2>1, <2>2, <2>3
<1>5. Changes(u)' = Changes(u) \cup
        {Len(toWorld) + j : j \in {x \in 1..Len(s) : s[x].who = u /\ s[x].kind # "rank"}}
  <2>1. \A i \in News(u) : i \in 1..Len(toWorld) /\ toWorld'[i] = toWorld[i]
    BY <1>1 DEF News
  <2> QED
    BY <1>1, <1>3, <1>4, <2>1 DEF Changes
<1> QED
  BY <1>1, <1>4, <1>5 DEF News, Changes

\* The last of a set of positions and of a later one is the later one.
LEMMA LaterOne ==
  ASSUME NEW n \in Nat, NEW m \in Nat \ {0}, NEW S \in SUBSET (1..n)
  PROVE  \A i \in S \cup {n + m} : (\A j \in S \cup {n + m} : j <= i) => i = n + m
<1> SUFFICES ASSUME NEW i \in S, n + m <= i PROVE FALSE
  OBVIOUS
<1> QED
  OBVIOUS

\* The last message about a player, old or new, says what the char server has.
LEMMA TellingSettles ==
  ASSUME TypeInv, ServersInv, TypeInv', NEW s, Telling(s)
  PROVE  ClanSettles' /\ RankSettles'
<1>0. UNCHANGED <<avatar, atChar, inWorld, founded, toChar, list_clan>> /\ missed \subseteq missed'
  BY DEF Telling
<1> SUFFICES ASSUME NEW c \in Char, Known(c)', c \in inWorld
             PROVE  /\ \A i \in Changes(c)' : (\A j \in Changes(c)' : j <= i) =>
                         Existing(Gives(toWorld'[i])) = Existing(client'[c].id)
                    /\ Changes(c)' = {} => Existing(avatar[c].id) = Existing(client'[c].id) \/ Founding(c)
                    /\ Existing(client'[c].id) # 0 =>
                         /\ \A i \in News(c)' : (\A j \in News(c)' : j <= i) =>
                              RankGiven(toWorld'[i]) = Worldly(client'[c].rank)
                         /\ News(c)' = {} => avatar[c].rank = Worldly(client'[c].rank)
  <2>1. \A u : Founding(u)' <=> Founding(u)
    BY <1>0 DEF Founding
  <2> QED
    BY <1>0, <2>1 DEF ClanSettles, RankSettles, Existing, Gives
<1> DEFINE n == Len(toWorld)
<1>1. /\ News(c) \subseteq 1..n /\ Changes(c) \subseteq News(c) /\ n \in Nat /\ Len(s) \in Nat
      /\ \A i \in 1..n : toWorld'[i] = toWorld[i]
      /\ News(c)' = News(c) \cup {n + j : j \in {x \in 1..Len(s) : s[x].who = c}}
      /\ Changes(c)' = Changes(c) \cup {n + j : j \in {x \in 1..Len(s) : s[x].who = c /\ s[x].kind # "rank"}}
      /\ \A i \in 1..Len(s) : toWorld'[n + i] = s[i]
  BY NewsAfter
<1>2. /\ \A i \in Changes(c) : (\A j \in Changes(c) : j <= i) =>
           Existing(Gives(toWorld[i])) = Existing(client[c].id)
      /\ Changes(c) = {} => Existing(avatar[c].id) = Existing(client[c].id) \/ Founding(c)
      /\ Existing(client[c].id) # 0 =>
           /\ \A i \in News(c) : (\A j \in News(c) : j <= i) =>
                RankGiven(toWorld[i]) = Worldly(client[c].rank)
           /\ News(c) = {} => avatar[c].rank = Worldly(client[c].rank)
  BY KnownStays DEF ServersInv, ClanSettles, RankSettles
<1>3. CASE Calm(c, s)
  <2>1. client'[c] = client[c] /\ News(c)' = News(c) /\ Changes(c)' = Changes(c)
    BY <1>1, <1>3 DEF Calm
  <2>2. \A i \in News(c) : toWorld'[i] = toWorld[i]
    BY <1>1
  <2> QED
    BY <1>1, <1>2, <2>1, <2>2
<1>4. CASE Hit(c, s)
  <2>1. PICK m \in 1..Len(s) :
           /\ s[m].who = c /\ \A j \in 1..Len(s) : s[j].who = c => j = m
           /\ IF s[m].kind = "rank"
              THEN client'[c].id = client[c].id /\ Worldly(client'[c].rank) = s[m].arg
              ELSE /\ client'[c].id = Gives(s[m])
                   /\ client'[c].id # 0 => Worldly(client'[c].rank) = RankGiven(s[m])
    BY <1>4 DEF Hit
  <2>2. News(c)' = News(c) \cup {n + m} /\ toWorld'[n + m] = s[m]
    <3>1. {n + j : j \in {x \in 1..Len(s) : s[x].who = c}} = {n + m}
      BY <2>1, Zenon
    <3> QED
      BY <1>1, <2>1, <3>1
  <2>3. ~Founding(c)
    BY <1>4 DEF Hit
  <2>7. Existing(client'[c].id) # 0 => client'[c].id # 0
    BY NoneExists
  <2>4. Existing(client'[c].id) # 0 =>
           /\ \A i \in News(c)' : (\A j \in News(c)' : j <= i) =>
                RankGiven(toWorld'[i]) = Worldly(client'[c].rank)
           /\ News(c)' = {} => avatar[c].rank = Worldly(client'[c].rank)
    <3> SUFFICES ASSUME Existing(client'[c].id) # 0
                 PROVE  \A i \in News(c)' : (\A j \in News(c)' : j <= i) =>
                          RankGiven(toWorld'[i]) = Worldly(client'[c].rank)
      BY <2>2
    <3>1. \A i \in News(c)' : (\A j \in News(c)' : j <= i) => i = n + m
      <4>1. m \in Nat \ {0} /\ News(c) \in SUBSET (1..n)
        BY <1>1
      <4> QED
        BY <1>1, <2>2, <4>1, LaterOne
    <3>2. RankGiven(s[m]) = Worldly(client'[c].rank)
      BY <2>1, <2>7 DEF RankGiven
    <3> QED
      BY <2>2, <3>1, <3>2
  <2>5. CASE s[m].kind = "rank"
    <3>1. Changes(c)' = Changes(c) /\ client'[c].id = client[c].id
      BY <1>1, <2>1, <2>5
    <3>2. \A i \in Changes(c) : toWorld'[i] = toWorld[i]
      BY <1>1
    <3> QED
      BY <1>2, <2>4, <3>1, <3>2
  <2>6. CASE s[m].kind # "rank"
    <3>1. Changes(c)' = Changes(c) \cup {n + m} /\ client'[c].id = Gives(s[m])
      <4>1. {n + j : j \in {x \in 1..Len(s) : s[x].who = c /\ s[x].kind # "rank"}} = {n + m}
        BY <2>1, <2>6, Zenon
      <4> QED
        BY <1>1, <2>1, <2>6, <4>1
    <3>2. \A i \in Changes(c)' : (\A j \in Changes(c)' : j <= i) => i = n + m
      <4>1. m \in Nat \ {0} /\ Changes(c) \in SUBSET (1..n)
        BY <1>1
      <4> QED
        BY <1>1, <3>1, <4>1, LaterOne
    <3> QED
      BY <2>2, <2>4, <3>1, <3>2
  <2> QED
    BY <2>5, <2>6
<1> QED
  BY <1>0, <1>3, <1>4 DEF Telling, Away, Known

\* So it keeps all of the invariant.
LEMMA TellingServers ==
  ASSUME TypeInv, ServersInv, TypeInv', NEW s, Telling(s)
  PROVE  ServersInv'
BY TellingTables, TellingSettles DEF ServersInv

\* He is told once, if he can be.
LEMMA ToldSays ==
  ASSUME NEW n \in Char, NEW kind \in {"joined", "kicked", "rank"}, NEW arg \in Nat
  PROVE  /\ \A i \in 1..Len(Told(n, kind, arg)) :
              /\ n \in atChar /\ i = 1 /\ Told(n, kind, arg)[i].who = n
              /\ Told(n, kind, arg)[i].kind = kind /\ Told(n, kind, arg)[i].arg = arg
         /\ n \in atChar => 1 \in 1..Len(Told(n, kind, arg))
<1> DEFINE m == [kind |-> kind, who |-> n, arg |-> arg]
<1>1. m.who = n /\ m.kind = kind /\ m.arg = arg
  OBVIOUS
<1>2. Told(n, kind, arg) = IF n \in atChar THEN <<m>> ELSE <<>>
  BY DEF Told
<1> HIDE DEF m
<1> QED
  BY <1>1, <1>2

\* Whom a handler does not concern, and whom it concerns with a message.
LEMMA Concerned ==
  ASSUME TypeInv, NEW n \in Char, NEW kind \in {"joined", "kicked", "rank"}, NEW arg \in Nat,
         n \in atChar, n \in inWorld, ~Founding(n),
         IF kind = "rank"
         THEN client'[n].id = client[n].id /\ Worldly(client'[n].rank) = arg
         ELSE /\ client'[n].id = (IF kind = "joined" THEN arg ELSE 0)
              /\ client'[n].id # 0 => kind = "joined" /\ Worldly(client'[n].rank) = 1
  PROVE  Hit(n, Told(n, kind, arg))
<1> DEFINE s == Told(n, kind, arg)
<1>1. 1 \in 1..Len(s) /\ \A i \in 1..Len(s) : i = 1
  BY ToldSays
<1>2. s[1].who = n /\ s[1].kind = kind /\ s[1].arg = arg
  BY <1>1, ToldSays
<1> HIDE DEF s
<1>3. Hit(n, s)
  BY <1>1, <1>2 DEF Hit, Gives, RankGiven
<1> QED
  BY <1>3 DEF s

\* A clan whose list is changed stays loaded, as the others do.
LEMMA StayLoaded ==
  ASSUME TypeInv, NEW k, Loaded(k), NEW l \in Seq(Entries), clanList' = [clanList EXCEPT ![k] = l]
  PROVE  \A j \in ClanIds : Loaded(j)' <=> Loaded(j)
<1>1. k \in ClanIds /\ l # NoList
  BY NoListAssumption DEF Loaded
<1>2. clanList'[k] = l /\ \A j \in ClanIds \ {k} : clanList'[j] = clanList[j]
  BY <1>1 DEF TypeInv, ClanTypeOK
<1> QED
  BY <1>1, <1>2 DEF Loaded

\* A member is kicked.
LEMMA KickServers ==
  ASSUME TypeInv, ServersInv, TypeInv', NEW c \in Char, NEW n \in Char, Kick(c, n)
  PROVE  ServersInv' /\ Telling(Told(n, "kicked", 0))
<1> DEFINE k == client[c].id
           s == Told(n, "kicked", 0)
<1>1. /\ c \in atChar /\ Loaded(k) /\ Tell(s) /\ missed' = missed \cup Unheard(n) \cup Mistaken(k, n)
      /\ clanList' = [clanList EXCEPT ![k] = WithoutFirst(k, n)]
      /\ client' = IF n \in atChar THEN [client EXCEPT ![n] = [id |-> 0, rank |-> 1]] ELSE client
      /\ row' = [row EXCEPT ![n] = [id |-> 0, rank |-> 1]]
      /\ UNCHANGED <<avatar, atChar, inWorld, tables, dialogs>>
  BY DEF Kick, KickedRow
<1>2. s \in Seq(Messages)
  BY ToldIs
<1>9. \A i \in 1..Len(s) : s[i].kind = "kicked" /\ s[i].who = n /\ n \in atChar
  BY ToldSays
<1>3. \A j \in ClanIds : Loaded(j)' <=> Loaded(j)
  BY <1>1, FirstErased, StayLoaded
<1>4. \A u \in Char \ {n} : client'[u] = client[u] /\ row'[u] = row[u]
  BY <1>1, Pieces
<1>5. row'[n] = [id |-> 0, rank |-> 1] /\ client'[n] = IF n \in atChar THEN [id |-> 0, rank |-> 1] ELSE client[n]
  BY <1>1, Pieces
<1>6. \A u \in Char \ missed' : Calm(u, s) \/ Hit(u, s) \/ Away(u, s)
  <2> SUFFICES ASSUME NEW u \in Char \ missed' PROVE Calm(u, s) \/ Hit(u, s) \/ Away(u, s)
    OBVIOUS
  <2> HIDE DEF s
  <2>1. CASE u # n
    BY <1>4, <1>9, <2>1 DEF Calm
  <2>2. CASE u = n /\ n \in atChar
    <3>1. n \in inWorld /\ ~Founding(n)
      BY <1>1, <2>2 DEF Unheard
    <3> QED
      BY <1>5, <2>2, <3>1, Concerned DEF s
  <2>3. CASE u = n /\ n \notin atChar
    <3>1. n \notin inWorld
      BY <1>1, <2>3 DEF Unheard
    <3> QED
      BY <1>5, <1>9, <2>3, <3>1 DEF Away
  <2> QED
    BY <2>1, <2>2, <2>3
<1>7. \A u \in Char : row'[u].id <= founded /\ client'[u].id <= founded
  BY <1>4, <1>5, Pieces DEF ServersInv, Founded
<1>8. Telling(s)
  BY <1>1, <1>2, <1>3, <1>6, <1>7, <1>9 DEF Telling, Tell, tables, dialogs, ServersInv, Tabled
<1> QED
  BY <1>8, TellingServers

\* A member leaves.
LEMMA LeaveServers ==
  ASSUME TypeInv, ServersInv, TypeInv', NEW c \in Char, LeaveClan(c)
  PROVE  ServersInv' /\ Telling(Told(c, "kicked", 0))
<1> DEFINE k == client[c].id
           s == Told(c, "kicked", 0)
<1>1. /\ c \in atChar /\ Loaded(k) /\ Tell(s) /\ missed' = missed \cup Unheard(c)
      /\ clanList' = [clanList EXCEPT ![k] = WithoutFirst(k, c)]
      /\ client' = [client EXCEPT ![c] = [id |-> 0, rank |-> 1]]
      /\ row' = [row EXCEPT ![c] = BooleanRow(row[c], 0)]
      /\ UNCHANGED <<avatar, atChar, inWorld, tables, dialogs>>
  BY DEF LeaveClan
<1>2. s \in Seq(Messages)
  BY ToldIs
<1>3. \A i \in 1..Len(s) : s[i].kind = "kicked" /\ s[i].who = c
  BY ToldSays
<1>4. \A j \in ClanIds : Loaded(j)' <=> Loaded(j)
  BY <1>1, FirstErased, StayLoaded
<1>5. \A u \in Char \ {c} : client'[u] = client[u] /\ row'[u] = row[u]
  BY <1>1, Pieces
<1>6. client'[c] = [id |-> 0, rank |-> 1] /\ row'[c].id = 0
  BY <1>1, Pieces DEF BooleanRow
<1>7. \A u \in Char \ missed' : Calm(u, s) \/ Hit(u, s) \/ Away(u, s)
  <2> SUFFICES ASSUME NEW u \in Char \ missed' PROVE Calm(u, s) \/ Hit(u, s) \/ Away(u, s)
    OBVIOUS
  <2> HIDE DEF s
  <2>1. CASE u # c
    BY <1>3, <1>5, <2>1 DEF Calm
  <2>2. CASE u = c
    <3>1. c \in inWorld /\ ~Founding(c)
      BY <1>1, <2>2 DEF Unheard
    <3> QED
      BY <1>1, <1>6, <2>2, <3>1, Concerned DEF s
  <2> QED
    BY <2>1, <2>2
<1>8. \A u \in Char : row'[u].id <= founded /\ client'[u].id <= founded
  BY <1>5, <1>6, Pieces DEF ServersInv, Founded
<1>9. Telling(s)
  BY <1>1, <1>2, <1>3, <1>4, <1>7, <1>8 DEF Telling, Tell, tables, dialogs, ServersInv, Tabled
<1> QED
  BY <1>9, TellingServers

\* A clan is dissolved: it is no clan any more, whatever the world server names.
LEMMA DisorganizeServers ==
  ASSUME TypeInv, ServersInv, TypeInv', NEW c \in Char, Disorganize(c)
  PROVE  ServersInv'
<1>1. PICK k : k = client[c].id
  OBVIOUS
<1>2. /\ c \in atChar /\ Loaded(k)
      /\ clanList' = [clanList EXCEPT ![k] = NoList]
      /\ client' = [client EXCEPT ![c] = [id |-> 0, rank |-> 1]]
      /\ row' = [d \in Char |-> IF row[d].id = k THEN BooleanRow(row[d], 0) ELSE row[d]]
      /\ list_clan' = list_clan \ {k}
      /\ UNCHANGED <<avatar, atChar, inWorld, founded, invites, toChar, toWorld, missed>>
  BY <1>1 DEF Disorganize, dialogs
<1>3. /\ k \in ClanIds /\ k # 0 /\ \A i \in 1..Len(toChar) : toChar[i].clan # k
  BY <1>2, LoadedApart DEF ServersInv
<1>4. clanList'[k] = NoList /\ \A j \in ClanIds \ {k} : clanList'[j] = clanList[j]
  BY <1>2, <1>3 DEF TypeInv, ClanTypeOK
<1>5. \A j : Loaded(j)' <=> Loaded(j) /\ j # k
  BY <1>4 DEF Loaded
<1>6. \A j : Existing(j)' = IF j = k THEN 0 ELSE Existing(j)
  BY <1>2 DEF Existing
<1>7. Existing(0) = 0 /\ \A x : Existing(x) # 0 => Existing(x) = x
  BY NoneExists
<1>8. /\ \A u \in Char \ {c} : client'[u] = client[u]
      /\ client'[c] = [id |-> 0, rank |-> 1]
  BY <1>2, Pieces
<1>9. \A u \in Char : row'[u] = row[u] \/ (row'[u].id = 0 /\ row[u].id = k)
  BY <1>2 DEF BooleanRow
<1>10. Existing(k) = k
  BY <1>2, <1>3 DEF Existing, ServersInv, Tabled
<1> DEFINE Left(x) == IF x = k THEN 0 ELSE Existing(x)
<1>11. \A u \in Char : /\ Existing(client[u].id)' = Left(client[u].id)
                      /\ Existing(row[u].id)' = Left(row[u].id)
                      /\ Existing(avatar[u].id)' = Left(avatar[u].id)
  <2>1. \A x : (IF x \in list_clan' THEN x ELSE 0) = Left(x)
    BY <1>2 DEF Existing
  <2>2. Left(0) = 0 /\ Left(k) = 0
    BY <1>7
  <2> HIDE DEF Left
  <2> QED
    BY <1>1, <1>2, <1>8, <1>9, <2>1, <2>2 DEF Existing
<1>12. \A x, y : Existing(x) = Existing(y) => Left(x) = Left(y)
  BY <1>3, <1>7, <1>10
<1>13. ASSUME NEW u \in Char, Existing(client[u].id)' # 0
       PROVE  client'[u] = client[u] /\ client[u].id # k /\ Existing(client[u].id) # 0
  <2>1. u # c
    BY <1>1, <1>11, <1>13
  <2> QED
    BY <1>8, <1>11, <1>13, <2>1
<1>14. \A i : Existing(Gives(toWorld[i]))' = Left(Gives(toWorld[i]))
  BY <1>2 DEF Existing, Gives
<1>15. Founded'
  BY <1>2, <1>8, <1>9, Pieces DEF ServersInv, Founded
<1>16. Tabled'
  <2>1. \A i \in 1..Len(toChar) : toChar[i].clan \in ClanIds /\ toChar[i].clan # k
    BY <1>3, Pieces
  <2>2. \A i \in 1..Len(toWorld) :
          toWorld[i].kind = "joined" /\ toWorld[i].arg \in list_clan' => Loaded(toWorld[i].arg)'
    BY <1>2, <1>5 DEF ServersInv, Tabled, Loaded
  <2> QED
    BY <1>2, <1>4, <1>5, <2>1, <2>2 DEF ServersInv, Tabled, Loaded
<1>17. Apart'
  <2>1. \A i \in 1..Len(toChar) : toChar[i].clan # 0
    BY Pieces, CopyTypes
  <2> QED
    BY <1>2, <1>8, <1>9, <2>1 DEF ServersInv, Apart
<1>18. Founders'
  <2>1. \A i \in 1..Len(toChar) : toChar[i].who \notin missed => toChar[i].who \in Char \ {c}
    BY <1>1, <1>2, Pieces DEF ServersInv, Founders
  <2>2. \A i \in 1..Len(toChar) : toChar[i].who \notin missed => ~Loaded(client[toChar[i].who].id)'
    <3> SUFFICES ASSUME NEW i \in 1..Len(toChar), toChar[i].who \notin missed
                 PROVE  ~Loaded(client[toChar[i].who].id)'
      OBVIOUS
    <3>1. PICK x : x = client[toChar[i].who].id
      OBVIOUS
    <3>2. ~Loaded(x) /\ client'[toChar[i].who].id = x
      BY <1>8, <2>1, <3>1 DEF ServersInv, Founders
    <3>3. x \in ClanIds => clanList'[x] = NoList
      BY <1>4, <3>2 DEF Loaded
    <3> QED
      BY <1>2, <3>2, <3>3 DEF Loaded
  <2> QED
    BY <1>2, <2>2 DEF ServersInv, Founders
<1>19. Ranked'
  BY <1>2, <1>9 DEF ServersInv, Ranked
<1>20. Waiting'
  <2> SUFFICES ASSUME NEW u \in Char, Known(u), u \notin inWorld
               PROVE  /\ Existing(row[u].id)' = Existing(client[u].id)'
                      /\ Existing(client[u].id)' # 0 => row'[u].rank = Worldly(client'[u].rank)
    BY <1>2 DEF Waiting, Known
  <2>1. /\ Existing(row[u].id) = Existing(client[u].id)
        /\ Existing(client[u].id) # 0 => row[u].rank = Worldly(client[u].rank)
    BY DEF ServersInv, Waiting
  <2>2. Existing(client[u].id)' # 0 => row'[u] = row[u]
    BY <1>7, <1>9, <1>10, <1>13, <2>1
  <2> HIDE DEF Left
  <2> QED
    BY <1>11, <1>12, <1>13, <2>1, <2>2
<1>21. ClanSettles' /\ RankSettles'
  <2>1. \A u \in Char : News(u)' = News(u) /\ (Known(u)' <=> Known(u)) /\ (Founding(u)' <=> Founding(u))
    BY <1>2 DEF News, Known, Founding
  <2>5. \A u \in Char : Changes(u)' = Changes(u)
    BY <1>2, <2>1 DEF Changes
  <2> HIDE DEF Left
  <2>2. ASSUME NEW u \in Char, Known(u), u \in inWorld
        PROVE  /\ \A i \in Changes(u) : (\A j \in Changes(u) : j <= i) =>
                    Existing(Gives(toWorld[i]))' = Existing(client[u].id)'
               /\ Changes(u) = {} => Existing(avatar[u].id)' = Existing(client[u].id)' \/ Founding(u)
    BY <1>11, <1>12, <1>14, <2>2 DEF ServersInv, ClanSettles
  <2>3. ASSUME NEW u \in Char, Known(u), u \in inWorld, Existing(client[u].id)' # 0
        PROVE  /\ \A i \in News(u) : (\A j \in News(u) : j <= i) =>
                    RankGiven(toWorld[i]) = Worldly(client'[u].rank)
               /\ News(u) = {} => avatar[u].rank = Worldly(client'[u].rank)
    BY <1>13, <2>3 DEF ServersInv, RankSettles
  <2>4. \A i : (RankGiven(toWorld[i]))' = RankGiven(toWorld[i])
    BY <1>2 DEF RankGiven
  <2> QED
    <3>1. ClanSettles'
      BY <1>2, <2>1, <2>2, <2>5 DEF ClanSettles
    <3>2. RankSettles'
      BY <1>2, <2>1, <2>3, <2>4 DEF RankSettles
    <3> QED
      BY <3>1, <3>2
<1> QED
  BY <1>15, <1>16, <1>17, <1>18, <1>19, <1>20, <1>21 DEF ServersInv

\* An invitation is accepted.
LEMMA AcceptServers ==
  ASSUME TypeInv, ServersInv, TypeInv', NEW d \in Char, NEW c \in Char, Accept(d, c)
  PROVE  /\ ServersInv'
         /\ \/ Loaded(client[c].id) /\ Telling(Told(d, "joined", client[c].id))
            \/ ~Loaded(client[c].id) /\ Telling(<<>>)
<1> DEFINE k == client[c].id
<1>1. /\ {c, d} \subseteq atChar /\ d \in inWorld /\ Existing(avatar[d].id) = 0
      /\ client' = [client EXCEPT ![d] = [id |-> k, rank |-> 1]]
      /\ row' = [row EXCEPT ![d] = BooleanRow(row[d], k)]
      /\ UNCHANGED <<avatar, atChar, inWorld, tables, toChar>>
  BY DEF Accept
<1>2. k \in Nat /\ k <= founded /\ founded \in Nat
  BY Pieces, CopyTypes, ClanAssumption DEF ServersInv, Founded
<1>3. \A u \in Char \ {d} : client'[u] = client[u] /\ row'[u] = row[u]
  BY <1>1, Pieces
<1>4. client'[d] = [id |-> k, rank |-> 1] /\ row'[d].id \in {0, 1} /\ (k = 0 => row'[d].id = 0)
  BY <1>1, Pieces DEF BooleanRow
<1>5. \A u \in Char : row'[u].id <= founded /\ client'[u].id <= founded
  <2> HIDE DEF k
  <2>1. row'[d].id <= founded /\ client'[d].id <= founded
    BY <1>2, <1>4
  <2> QED
    BY <1>3, <2>1 DEF ServersInv, Founded
<1>6. \A j \in ClanIds : Loaded(j) => j \in list_clan
  BY DEF ServersInv, Tabled
<1>7. \A i \in 1..Len(toChar) : toChar[i].clan \in list_clan
  BY DEF ServersInv, Tabled
<1>8. CASE /\ Loaded(k) /\ Tell(Told(d, "joined", k)) /\ UNCHANGED missed
           /\ clanList' = [clanList EXCEPT ![k] = Append(@, [who |-> d, rank |-> 1])]
  <2> DEFINE s == Told(d, "joined", k)
  <2>1. s \in Seq(Messages) /\ \A i \in 1..Len(s) : s[i].kind = "joined" /\ s[i].who = d /\ s[i].arg = k
    <3> HIDE DEF k
    <3>1. k \in Nat
      BY <1>2
    <3>2. s \in Seq(Messages)
      BY <3>1, ToldIs
    <3>3. \A i \in 1..Len(s) : s[i].kind = "joined" /\ s[i].who = d /\ s[i].arg = k
      BY <3>1, ToldSays
    <3> QED
      BY <3>2, <3>3
  <2>2. \A j \in ClanIds : Loaded(j)' <=> Loaded(j)
    <3> HIDE DEF k
    <3>1. [who |-> d, rank |-> 1] \in Entries /\ clanList[k] \in Seq(Entries)
      <4>1. [who |-> d, rank |-> 1] \in Entries
        BY DEF Entries, Ranks
      <4> QED
        BY <1>8, <4>1, Pieces DEF Loaded
    <3>2. Append(clanList[k], [who |-> d, rank |-> 1]) \in Seq(Entries)
      BY <3>1
    <3> QED
      BY <1>8, <3>2, StayLoaded
  <2>3. d \notin missed => ~Founding(d)
    <3> SUFFICES ASSUME d \notin missed, NEW m \in ToSet(toChar), m.who = d PROVE FALSE
      BY DEF Founding
    <3>1. toChar \in Seq([who : Char, clan : ClanIds])
      BY DEF TypeInv, ClanTypeOK
    <3>2. PICK i \in 1..Len(toChar) : toChar[i] = m
      BY <3>1, EntriesOf
    <3>3. avatar[d] = [id |-> m.clan, rank |-> 6]
      BY <3>2 DEF ServersInv, Founders
    <3>4. m.clan \in ClanIds /\ m.clan \in list_clan
      BY <1>7, <3>2, Pieces
    <3> QED
      BY <1>1, <3>3, <3>4, CopyTypes DEF Existing
  <2>4. \A u \in Char \ missed' : Calm(u, s) \/ Hit(u, s) \/ Away(u, s)
    <3> SUFFICES ASSUME NEW u \in Char \ missed' PROVE Calm(u, s) \/ Hit(u, s) \/ Away(u, s)
      OBVIOUS
    <3> HIDE DEF s, k
    <3>1. CASE u # d
      BY <1>3, <2>1, <3>1 DEF Calm
    <3>2. CASE u = d
      <4>1. d \notin missed /\ ~Founding(d)
        BY <1>8, <2>3, <3>2
      <4>2. Worldly(client'[d].rank) = 1 /\ client'[d].id = k
        BY <1>4 DEF Worldly
      <4> QED
        BY <1>1, <1>2, <3>2, <4>1, <4>2, Concerned DEF s
    <3> QED
      BY <3>1, <3>2
  <2> HIDE DEF s, k
  <2>5. Telling(s)
    BY <1>1, <1>5, <1>6, <1>7, <1>8, <2>1, <2>2, <2>4 DEF Telling, Tell, tables, s
  <2> QED
    BY <1>8, <2>5, TellingServers DEF s, k
<1>9. CASE ~Loaded(k) /\ missed' = missed \cup {d} /\ UNCHANGED <<clanList, toWorld>>
  <2> DEFINE s == <<>>
  <2>1. s \in Seq(Messages) /\ Len(s) = 0 /\ toWorld' = toWorld \o s
    <3>1. toWorld \in Seq(Messages)
      BY DEF TypeInv, ClanTypeOK
    <3> QED
      BY <1>9, <3>1
  <2> HIDE DEF s
  <2>2. \A u \in Char \ missed' : Calm(u, s)
    BY <1>3, <1>9, <2>1 DEF Calm
  <2>3. Telling(s)
    BY <1>1, <1>5, <1>6, <1>7, <1>9, <2>1, <2>2 DEF Telling, tables, Loaded
  <2> QED
    BY <1>9, <2>3, TellingServers DEF s
<1> QED
  BY <1>8, <1>9 DEF Accept

\* A member's rank is changed.
LEMMA RankServers ==
  ASSUME TypeInv, ServersInv, TypeInv', NEW c \in Char, NEW n \in Char, NEW x \in Ranks, NEW y \in Ranks,
         ChangeRank(c, n, x, y),
         n \in atChar => y # 0 /\ y = Worldly(x),
         n \notin atChar => (row[n].rank # 0 => y # 0)
  PROVE  ServersInv' /\ Telling(Told(n, "rank", y))
<1> DEFINE k == client[c].id
           s == Told(n, "rank", y)
<1>1. /\ Loaded(k) /\ Tell(s) /\ missed' = missed \cup Unheard(n) /\ Reload(k, SetRank(row, n, y))
      /\ client' = IF n \in atChar THEN SetRank(client, n, x) ELSE client
      /\ UNCHANGED <<avatar, atChar, inWorld, tables, dialogs>>
  BY DEF ChangeRank
<1>2. SetRank(row, n, y) \in [Char -> Copies]
  BY Pieces, RankSet
<1>3. /\ row' = SetRank(row, n, y)
      /\ \A j \in ClanIds \ {k} : clanList'[j] = clanList[j]
  BY <1>1, <1>2, Reloaded
<1>4. \A j \in ClanIds : Loaded(j)' <=> Loaded(j)
  <2>1. clanList'[k] # NoList
    BY <1>1, <1>2, Reloaded
  <2> QED
    BY <1>1, <1>3, <2>1 DEF Loaded
<1>5. y \in Nat
  BY DEF Ranks
<1>6. s \in Seq(Messages)
  BY <1>5, ToldIs
<1>7. \A i \in 1..Len(s) : s[i].kind = "rank" /\ s[i].who = n /\ n \in atChar
  BY <1>5, ToldSays
<1>8. \A u \in Char \ {n} : client'[u] = client[u] /\ row'[u] = row[u]
  <2>1. row \in [Char -> Copies] /\ client \in [Char -> Copies]
    BY Pieces
  <2>2. \A u \in Char \ {n} : SetRank(row, n, y)[u] = row[u]
    BY <2>1 DEF SetRank
  <2>3. \A u \in Char \ {n} : SetRank(client, n, x)[u] = client[u]
    BY <2>1 DEF SetRank
  <2>4. \A u \in Char \ {n} : SetRank(row, n, y)[u] = row[u] /\ SetRank(client, n, x)[u] = client[u]
    BY <2>2, <2>3
  <2>5. CASE n \in atChar
    BY <1>1, <1>3, <2>4, <2>5
  <2>6. CASE n \notin atChar
    BY <1>1, <1>3, <2>4, <2>6
  <2> QED
    BY <2>5, <2>6
<1>9. /\ row'[n] = [id |-> row[n].id, rank |-> y]
      /\ client'[n] = IF n \in atChar THEN [id |-> client[n].id, rank |-> x] ELSE client[n]
  BY <1>1, <1>3, Pieces, RankSet
<1>10. \A u \in Char \ missed' : Calm(u, s) \/ Hit(u, s) \/ Away(u, s)
  <2> SUFFICES ASSUME NEW u \in Char \ missed' PROVE Calm(u, s) \/ Hit(u, s) \/ Away(u, s)
    OBVIOUS
  <2> HIDE DEF s
  <2>1. CASE u # n
    BY <1>7, <1>8, <2>1 DEF Calm
  <2>2. CASE u = n /\ n \in atChar
    <3>1. n \in inWorld /\ ~Founding(n)
      BY <1>1, <2>2 DEF Unheard
    <3>2. client'[n].id = client[n].id /\ Worldly(client'[n].rank) = y
      BY <1>9, <2>2
    <3> QED
      BY <1>5, <2>2, <3>1, <3>2, Concerned DEF s
  <2>3. CASE u = n /\ n \notin atChar
    <3>1. n \notin inWorld /\ n \notin missed
      BY <1>1, <2>3 DEF Unheard
    <3>2. row[n].id # 0 => row[n].rank # 0
      BY <3>1 DEF ServersInv, Ranked
    <3> QED
      BY <1>7, <1>9, <2>3, <3>1, <3>2 DEF Away
  <2> QED
    BY <2>1, <2>2, <2>3
<1>11. \A u \in Char : row'[u].id <= founded /\ client'[u].id <= founded
  BY <1>8, <1>9 DEF ServersInv, Founded
<1>12. Telling(s)
  BY <1>1, <1>4, <1>6, <1>7, <1>10, <1>11 DEF Telling, Tell, tables, dialogs, ServersInv, Tabled
<1> QED
  BY <1>12, TellingServers

LEMMA UpServers ==
  ASSUME TypeInv, ServersInv, TypeInv', NEW c \in Char, NEW n \in Char, UpRank(c, n)
  PROVE  ServersInv'
<1> DEFINE x == Raised(RankOf(n))
<1>1. x \in Ranks /\ x # 0 /\ ChangeRank(c, n, x, x)
  BY NewRanks DEF UpRank
<1> HIDE DEF x
<1> QED
  BY <1>1, RankServers DEF Worldly

LEMMA DownServers ==
  ASSUME TypeInv, ServersInv, TypeInv', NEW c \in Char, NEW n \in Char, DownRank(c, n)
  PROVE  ServersInv'
BY Lowered, RankServers

\* Mastership is handed over: both are told.
LEMMA GiveServers ==
  ASSUME TypeInv, ServersInv, TypeInv', NEW c \in Char, NEW n \in Char, GiveMaster(c, n)
  PROVE  ServersInv' /\ Telling(Told(n, "rank", 6) \o Told(c, "rank", GiverRank))
<1> DEFINE k   == client[c].id
           mem == IF n \in atChar THEN SetRank(client, n, 6) ELSE client
           s   == Told(n, "rank", 6) \o Told(c, "rank", GiverRank)
           one == SetRank(row, n, 6)
           r   == SetRank(one, c, GiverRank)
<1>0. c # n
  BY DEF GiveMaster
<1>1. /\ c # n /\ c \in atChar /\ Loaded(k) /\ client' = SetRank(mem, c, GiverRank)
      /\ Tell(s) /\ Reload(k, r) /\ missed' = missed \cup Unheard(n) \cup Unheard(c) \cup Mistaken(k, n)
      /\ UNCHANGED <<avatar, atChar, inWorld, tables, dialogs>>
  BY DEF GiveMaster
<1>2. GiverRank \in Ranks /\ 6 \in Ranks /\ GiverRank = 4
  BY CopyTypes DEF GiverRank
<1>3. /\ mem \in [Char -> Copies] /\ \A u \in Char \ {n} : mem[u] = client[u]
      /\ mem[n] = IF n \in atChar THEN [id |-> client[n].id, rank |-> 6] ELSE client[n]
  BY <1>2, Pieces, RankSet
<1>4. /\ one \in [Char -> Copies] /\ \A u \in Char \ {n} : one[u] = row[u]
      /\ one[n] = [id |-> row[n].id, rank |-> 6]
  BY <1>2, Pieces, RankSet
<1> HIDE DEF mem, one
<1>5. /\ \A u \in Char \ {c, n} : client'[u] = client[u]
      /\ client'[c] = [id |-> client[c].id, rank |-> 4]
      /\ client'[n] = IF n \in atChar THEN [id |-> client[n].id, rank |-> 6] ELSE client[n]
  BY <1>1, <1>2, <1>3, RankSet
<1>6. /\ r \in [Char -> Copies] /\ \A u \in Char \ {c, n} : r[u] = row[u]
      /\ r[c] = [id |-> row[c].id, rank |-> 4] /\ r[n] = [id |-> row[n].id, rank |-> 6]
  BY <1>1, <1>2, <1>4, RankSet
<1> HIDE DEF r, k
<1>7. row' = r /\ \A j \in ClanIds \ {k} : clanList'[j] = clanList[j]
  BY <1>1, <1>6, Reloaded
<1>8. \A j \in ClanIds : Loaded(j)' <=> Loaded(j)
  <2>1. clanList'[k] # NoList
    BY <1>1, <1>6, Reloaded
  <2> QED
    BY <1>1, <1>7, <2>1 DEF Loaded
<1> DEFINE six  == [kind |-> "rank", who |-> n, arg |-> 6]
           four == [kind |-> "rank", who |-> c, arg |-> 4]
<1>9. /\ s \in Seq(Messages) /\ Len(s) \in 1..2 /\ s[Len(s)] = four
      /\ n \in atChar => Len(s) = 2 /\ s[1] = six
      /\ n \notin atChar => Len(s) = 1
  BY <1>1, GiveMail
<1>10. \/ n \in atChar /\ Len(s) = 2 /\ s[1] = six /\ s[2] = four
       \/ n \notin atChar /\ Len(s) = 1 /\ s[1] = four
  BY <1>9
<1>11. /\ six.kind = "rank" /\ six.who = n /\ six.arg = 6
       /\ four.kind = "rank" /\ four.who = c /\ four.arg = 4
  OBVIOUS
<1> HIDE DEF s, six, four
<1>12. \A i \in 1..Len(s) : s[i].kind = "rank" /\ s[i].who \in {c, n} /\ (s[i].who = n => n \in atChar)
  BY <1>0, <1>10, <1>11
<1>13. \A u \in Char \ missed' : Calm(u, s) \/ Hit(u, s) \/ Away(u, s)
  <2> SUFFICES ASSUME NEW u \in Char \ missed' PROVE Calm(u, s) \/ Hit(u, s) \/ Away(u, s)
    OBVIOUS
  <2>1. CASE u \notin {c, n}
    BY <1>5, <1>6, <1>7, <1>12, <2>1 DEF Calm
  <2>2. CASE u = c
    <3>1. c \in inWorld /\ ~Founding(c)
      BY <1>1, <2>2 DEF Unheard
    <3>2. Len(s) \in 1..Len(s) /\ s[Len(s)].who = c /\ s[Len(s)].kind = "rank" /\ s[Len(s)].arg = 4
      BY <1>10, <1>11
    <3>3. \A j \in 1..Len(s) : s[j].who = c => j = Len(s)
      <4> SUFFICES ASSUME NEW j \in 1..Len(s), s[j].who = c PROVE j = Len(s)
        OBVIOUS
      <4>1. CASE Len(s) = 1
        BY <4>1
      <4>2. CASE Len(s) = 2 /\ s[1] = six
        <5>1. j # 1
          BY <1>0, <1>11, <4>2
        <5> QED
          BY <4>2, <5>1
      <4> QED
        BY <1>10, <4>1, <4>2
    <3>4. client'[c].id = client[c].id /\ Worldly(client'[c].rank) = 4
      BY <1>5 DEF Worldly
    <3> QED
      BY <1>1, <2>2, <3>1, <3>2, <3>3, <3>4 DEF Hit
  <2>3. CASE u = n /\ n \in atChar
    <3>1. n \in inWorld /\ ~Founding(n)
      BY <1>1, <2>3 DEF Unheard
    <3>2. 1 \in 1..Len(s) /\ s[1].who = n /\ s[1].kind = "rank" /\ s[1].arg = 6
      BY <1>10, <1>11, <2>3
    <3>3. \A j \in 1..Len(s) : s[j].who = n => j = 1
      BY <1>0, <1>10, <1>11, <2>3
    <3>4. client'[n].id = client[n].id /\ Worldly(client'[n].rank) = 6
      BY <1>5, <2>3 DEF Worldly
    <3> QED
      BY <2>3, <3>1, <3>2, <3>3, <3>4 DEF Hit
  <2>4. CASE u = n /\ n \notin atChar
    <3>1. n \notin inWorld
      BY <1>1, <2>4 DEF Unheard
    <3> QED
      BY <1>5, <1>6, <1>7, <1>12, <2>4, <3>1 DEF Away
  <2> QED
    BY <2>1, <2>2, <2>3, <2>4
<1>14. \A u \in Char : row'[u].id <= founded /\ client'[u].id <= founded
  BY <1>5, <1>6, <1>7 DEF ServersInv, Founded
<1>15. Telling(s)
  BY <1>1, <1>8, <1>9, <1>12, <1>13, <1>14 DEF Telling, Tell, tables, dialogs, ServersInv, Tabled
<1> QED
  BY <1>15, TellingServers DEF s

\* A login: the client gets what the row has.
LEMMA RequestServers ==
  ASSUME TypeInv, ServersInv, NEW c \in Char, RequestWorld(c)
  PROVE  ServersInv'
<1>1. /\ c \notin atChar /\ atChar' = atChar \cup {c}
      /\ client' = [client EXCEPT ![c] = row[c]]
      /\ missed' = IF c \in inWorld /\ (row[c] # avatar[c] \/ Pending(c))
                   THEN missed \cup {c} ELSE missed
      /\ UNCHANGED <<row, avatar, inWorld, clanList, list_clan, founded, toChar, toWorld>>
  BY DEF RequestWorld, tables, dialogs
<1>2. client'[c] = row[c] /\ \A u \in Char \ {c} : client'[u] = client[u]
  BY <1>1, Pieces
<1>3. \A i \in 1..Len(toChar) : toChar[i].who \in Char
  BY Pieces
<1>4. missed \subseteq missed' /\ missed' \ {c} \subseteq missed
  BY <1>1
<1>5. c \in inWorld /\ c \notin missed' => row[c] = avatar[c] /\ ~Founding(c) /\ News(c) = {}
  <2> SUFFICES ASSUME ~Pending(c) PROVE ~Founding(c) /\ News(c) = {}
    BY <1>1
  <2>1. toWorld \in Seq(Messages)
    BY DEF TypeInv, ClanTypeOK
  <2> QED
    BY <2>1, EntriesOf DEF Pending, News
<1>6. \A i \in 1..Len(toChar) : Founding(toChar[i].who)
  <2>1. toChar \in Seq([who : Char, clan : ClanIds])
    BY DEF TypeInv, ClanTypeOK
  <2> QED
    BY <2>1, EntriesOf DEF Founding
<1>7. Founded' /\ Tabled'
  BY <1>1, <1>2 DEF ServersInv, Founded, Tabled, Loaded
<1>8. Apart'
  <2>1. c \notin missed' => \A i \in 1..Len(toChar) : client'[c].id # toChar[i].clan
    BY <1>2, <1>4, <1>5, <1>6 DEF ServersInv, Apart
  <2> QED
    BY <1>1, <1>2, <1>4, <2>1 DEF ServersInv, Apart
<1>9. Founders'
  <2>1. \A i \in 1..Len(toChar) : toChar[i].who \notin missed' => toChar[i].who # c
    BY <1>4, <1>5, <1>6 DEF ServersInv, Founders
  <2>2. ASSUME NEW i \in 1..Len(toChar), toChar[i].who \notin missed'
        PROVE  ~Loaded(client'[toChar[i].who].id)
    BY <1>2, <1>3, <1>4, <2>1, <2>2 DEF ServersInv, Founders
  <2> QED
    BY <1>1, <1>4, <2>2 DEF ServersInv, Founders, Loaded
<1>10. Ranked'
  BY <1>1, <1>4 DEF ServersInv, Ranked
<1>11. \A x : Existing(x)' = Existing(x)
  BY <1>1 DEF Existing
<1>12. \A u \in Char \ {c} : Known(u)' => Known(u)
  BY <1>1, <1>4 DEF Known
<1>13. Waiting'
  <2> SUFFICES ASSUME NEW u \in Char, Known(u)', u \notin inWorld
               PROVE  /\ Existing(row[u].id) = Existing(client'[u].id)
                      /\ Existing(client'[u].id) # 0 => row[u].rank = Worldly(client'[u].rank)
    BY <1>1 DEF Waiting, Existing
  <2>1. CASE u = c
    BY <1>2, <1>4, <2>1, NoneExists DEF ServersInv, Ranked, Known, Worldly
  <2>2. CASE u # c
    BY <1>2, <1>12, <2>2 DEF ServersInv, Waiting
  <2> QED
    BY <2>1, <2>2
<1>14. ClanSettles' /\ RankSettles'
  <2> SUFFICES ASSUME NEW u \in Char, Known(u)', u \in inWorld
               PROVE  /\ \A i \in Changes(u) : (\A j \in Changes(u) : j <= i) =>
                           Existing(Gives(toWorld[i])) = Existing(client'[u].id)
                      /\ Changes(u) = {} => Existing(avatar[u].id) = Existing(client'[u].id) \/ Founding(u)
                      /\ Existing(client'[u].id) # 0 =>
                           /\ \A i \in News(u) : (\A j \in News(u) : j <= i) =>
                                RankGiven(toWorld[i]) = Worldly(client'[u].rank)
                           /\ News(u) = {} => avatar[u].rank = Worldly(client'[u].rank)
    BY <1>1 DEF ClanSettles, RankSettles, Changes, News, Founding, Existing, Gives
  <2>1. CASE u = c
    <3>1. row[c] = avatar[c] /\ News(c) = {} /\ Changes(c) = {} /\ c \notin missed
      BY <1>4, <1>5, <2>1 DEF Known, Changes
    <3>2. Existing(avatar[c].id) # 0 => avatar[c].rank = Worldly(avatar[c].rank)
      BY <2>1, <3>1, NoneExists DEF ServersInv, Ranked, Worldly
    <3> QED
      BY <1>2, <2>1, <3>1, <3>2
  <2>2. CASE u # c
    BY <1>2, <1>12, <2>2 DEF ServersInv, ClanSettles, RankSettles
  <2> QED
    BY <2>1, <2>2
<1> QED
  BY <1>7, <1>8, <1>9, <1>10, <1>13, <1>14 DEF ServersInv

\* The avatar gets the same, if it is a clan that there is.
LEMMA EnterServers ==
  ASSUME TypeInv, ServersInv, NEW c \in Char, EnterWorld(c)
  PROVE  ServersInv'
<1>1. /\ c \in atChar /\ c \notin inWorld /\ inWorld' = inWorld \cup {c}
      /\ UNCHANGED <<row, client, atChar, clanList, list_clan, founded, toChar, toWorld, missed>>
  BY DEF EnterWorld, tables, dialogs
<1>2. /\ avatar'[c] = [id |-> Existing(row[c].id), rank |-> row[c].rank]
      /\ \A u \in Char \ {c} : avatar'[u] = avatar[u]
  BY Pieces DEF EnterWorld
<1>3. /\ \A i \in 1..Len(toChar) : toChar[i].who \in Char /\ toChar[i].clan # 0
      /\ 0 \notin list_clan
  BY Pieces, CopyTypes
<1>4. /\ avatar'[c].id \in {0, row[c].id} /\ avatar'[c].rank = row[c].rank
      /\ Existing(avatar'[c].id) = Existing(row[c].id)
  BY <1>2, NoneExists DEF Existing
<1>5. Founded' /\ Tabled'
  <2>1. avatar'[c].id <= founded
    BY <1>4, Pieces DEF ServersInv, Founded
  <2> QED
    BY <1>1, <1>2, <2>1 DEF ServersInv, Founded, Tabled, Loaded
<1>6. Apart'
  BY <1>1, <1>2, <1>3, <1>4 DEF ServersInv, Apart
<1>7. Founders'
  BY <1>1, <1>2, <1>3 DEF ServersInv, Founders, Loaded
<1>8. Ranked'
  BY <1>1, <1>2, <1>4 DEF ServersInv, Ranked
<1>9. Waiting'
  BY <1>1 DEF ServersInv, Waiting, Known, Existing
<1>10. Known(c) => /\ News(c) = {} /\ Existing(avatar'[c].id) = Existing(client[c].id)
                   /\ Existing(client[c].id) # 0 => avatar'[c].rank = Worldly(client[c].rank)
  <2> SUFFICES ASSUME Known(c)
               PROVE  /\ News(c) = {} /\ Existing(avatar'[c].id) = Existing(client[c].id)
                      /\ Existing(client[c].id) # 0 => avatar'[c].rank = Worldly(client[c].rank)
    OBVIOUS
  <2>1. /\ Existing(row[c].id) = Existing(client[c].id)
        /\ Existing(client[c].id) # 0 => row[c].rank = Worldly(client[c].rank)
    BY <1>1 DEF ServersInv, Waiting
  <2>2. News(c) = {}
    BY <1>1 DEF ServersInv, Ranked, Known, News
  <2> QED
    BY <1>4, <2>1, <2>2
<1>11. ClanSettles' /\ RankSettles'
  <2> SUFFICES ASSUME NEW u \in Char, Known(u), u \in inWorld \cup {c}
               PROVE  /\ \A i \in Changes(u) : (\A j \in Changes(u) : j <= i) =>
                           Existing(Gives(toWorld[i])) = Existing(client[u].id)
                      /\ Changes(u) = {} => Existing(avatar'[u].id) = Existing(client[u].id) \/ Founding(u)
                      /\ Existing(client[u].id) # 0 =>
                           /\ \A i \in News(u) : (\A j \in News(u) : j <= i) =>
                                RankGiven(toWorld[i]) = Worldly(client[u].rank)
                           /\ News(u) = {} => avatar'[u].rank = Worldly(client[u].rank)
    BY <1>1 DEF ClanSettles, RankSettles, Known, Changes, News, Founding, Existing, Gives
  <2>1. CASE u = c
    BY <1>10, <2>1 DEF Changes
  <2>2. CASE u # c
    BY <1>2, <2>2 DEF ServersInv, ClanSettles, RankSettles
  <2> QED
    BY <2>1, <2>2
<1> QED
  BY <1>5, <1>6, <1>7, <1>8, <1>9, <1>11 DEF ServersInv

\* Rows of players in the world do not matter.
LEMMA SaveServers ==
  ASSUME TypeInv, ServersInv, NEW c \in Char, Save(c)
  PROVE  ServersInv'
<1>1. /\ c \in inWorld
      /\ UNCHANGED <<client, avatar, atChar, inWorld, clanList, list_clan, founded, toChar, toWorld, missed>>
  BY DEF Save, tables, dialogs
<1>2. row'[c] = avatar[c] /\ \A u \in Char \ {c} : row'[u] = row[u]
  BY Pieces DEF Save
<1> QED
  BY <1>1, <1>2 DEF ServersInv, Founded, Tabled, Apart, Founders, Ranked, Waiting, ClanSettles,
     RankSettles, Known, Loaded, Changes, News, Founding, Existing, Gives, RankGiven

\* An avatar that leaves with nothing under way is saved as the char server has it.
LEMMA LeaveWorldServers ==
  ASSUME TypeInv, ServersInv, NEW c \in Char, LeaveWorld(c)
  PROVE  ServersInv'
<1>1. /\ c \in inWorld /\ inWorld' = inWorld \ {c}
      /\ missed' = IF Pending(c) THEN missed \cup {c} ELSE missed
      /\ UNCHANGED <<client, atChar, clanList, list_clan, founded, toChar, toWorld>>
  BY DEF LeaveWorld, tables, dialogs
<1>2. /\ row'[c] = avatar[c] /\ avatar'[c].id = 0
      /\ \A u \in Char \ {c} : row'[u] = row[u] /\ avatar'[u] = avatar[u]
  BY Pieces DEF LeaveWorld, None
<1>3. c \notin missed' => c \notin missed /\ ~Founding(c) /\ News(c) = {}
  <2> SUFFICES ASSUME ~Pending(c) PROVE ~Founding(c) /\ News(c) = {}
    BY <1>1
  <2>1. toWorld \in Seq(Messages)
    BY DEF TypeInv, ClanTypeOK
  <2> QED
    BY <2>1, EntriesOf DEF Pending, News
<1>4. \A i \in 1..Len(toChar) : Founding(toChar[i].who) /\ toChar[i].who \in Char
  <2>1. toChar \in Seq([who : Char, clan : ClanIds])
    BY DEF TypeInv, ClanTypeOK
  <2> QED
    BY <2>1, Pieces, EntriesOf DEF Founding
<1>5. missed \subseteq missed'
  BY <1>1
<1>6. Founded' /\ Tabled'
  <2>1. \A u \in Char : row'[u].id <= founded /\ client[u].id <= founded /\ avatar'[u].id <= founded
    <3>1. 0 <= founded
      BY Pieces
    <3> QED
      BY <1>1, <1>2, <3>1 DEF ServersInv, Founded
  <2>2. Founded'
    BY <1>1, <2>1 DEF ServersInv, Founded
  <2>3. Tabled'
    BY <1>1 DEF ServersInv, Tabled, Loaded
  <2> QED
    BY <2>2, <2>3
<1>7. Apart'
  <2>1. c \notin missed' => \A i \in 1..Len(toChar) : row'[c].id # toChar[i].clan
    BY <1>1, <1>2, <1>3, <1>4 DEF ServersInv, Apart
  <2> QED
    BY <1>1, <1>2, <1>5, <2>1 DEF ServersInv, Apart
<1>8. Founders'
  <2>1. \A i \in 1..Len(toChar) : toChar[i].who \notin missed' => toChar[i].who # c
    BY <1>3, <1>4
  <2> QED
    BY <1>1, <1>2, <1>4, <1>5, <2>1 DEF ServersInv, Founders, Loaded
<1>9. Ranked'
  <2>1. c \notin missed' => /\ row'[c].id # 0 => row'[c].rank # 0
                            /\ \A j \in 1..Len(toWorld) : toWorld[j].who # c
    BY <1>1, <1>2, <1>3 DEF ServersInv, Ranked, News
  <2> QED
    BY <1>1, <1>2, <1>5, <2>1 DEF ServersInv, Ranked
<1>10. \A u \in Char : Known(u)' => Known(u)
  BY <1>1, <1>5 DEF Known, Loaded
<1>11. Waiting'
  <2> SUFFICES ASSUME NEW u \in Char, Known(u)', u \notin inWorld'
               PROVE  /\ Existing(row'[u].id) = Existing(client[u].id)
                      /\ Existing(client[u].id) # 0 => row'[u].rank = Worldly(client[u].rank)
    BY <1>1 DEF Waiting, Existing
  <2>1. CASE u = c
    <3>1. News(c) = {} /\ ~Founding(c) /\ Changes(c) = {}
      BY <1>3, <2>1 DEF Known, Changes
    <3>2. /\ Existing(avatar[c].id) = Existing(client[c].id)
          /\ Existing(client[c].id) # 0 => avatar[c].rank = Worldly(client[c].rank)
      BY <1>1, <1>10, <2>1, <3>1 DEF ServersInv, ClanSettles, RankSettles
    <3> QED
      BY <1>2, <2>1, <3>2
  <2>2. CASE u # c
    BY <1>1, <1>2, <1>10, <2>2 DEF ServersInv, Waiting
  <2> QED
    BY <2>1, <2>2
<1>12. ClanSettles' /\ RankSettles'
  BY <1>1, <1>2, <1>10 DEF ServersInv, ClanSettles, RankSettles, Changes, News, Founding, Existing, Gives, RankGiven
<1> QED
  BY <1>6, <1>7, <1>8, <1>9, <1>11, <1>12 DEF ServersInv

\* A client that leaves is nobody the char server knows.
LEMMA LeaveCharServers ==
  ASSUME TypeInv, ServersInv, NEW c \in Char, LeaveChar(c)
  PROVE  ServersInv'
<1>1. /\ atChar' = atChar \ {c}
      /\ UNCHANGED <<row, avatar, inWorld, clanList, list_clan, founded, toChar, toWorld, missed>>
  BY DEF LeaveChar, tables
<1>2. client'[c].id = 0 /\ \A u \in Char \ {c} : client'[u] = client[u]
  BY Pieces DEF LeaveChar, None
<1>3. \A i \in 1..Len(toChar) : toChar[i].who \in Char /\ toChar[i].clan # 0
  BY Pieces, CopyTypes
<1>4. founded \in Nat
  BY Pieces
<1>5. \A u \in Char : Known(u)' => Known(u) /\ client'[u] = client[u]
  BY <1>1, <1>2 DEF Known, Loaded
<1>6. Founded' /\ Tabled'
  BY <1>1, <1>2, <1>4 DEF ServersInv, Founded, Tabled, Loaded
<1>7. Apart' /\ Founders' /\ Ranked'
  <2>1. Apart'
    BY <1>1, <1>2, <1>3 DEF ServersInv, Apart
  <2>2. Founders'
    <3>1. ASSUME NEW i \in 1..Len(toChar), toChar[i].who \notin missed
          PROVE  ~Loaded(client'[toChar[i].who].id)
      <4>1. ~Loaded(0)
        BY DEF Loaded, ClanIds
      <4> QED
        BY <1>2, <1>3, <3>1, <4>1 DEF ServersInv, Founders
    <3> QED
      BY <1>1, <3>1 DEF ServersInv, Founders, Loaded
  <2>3. Ranked'
    BY <1>1 DEF ServersInv, Ranked
  <2> QED
    BY <2>1, <2>2, <2>3
<1>8. Waiting' /\ ClanSettles' /\ RankSettles'
  BY <1>1, <1>5 DEF ServersInv, Waiting, ClanSettles, RankSettles, Changes, News, Founding, Existing,
     Gives, RankGiven
<1> QED
  BY <1>6, <1>7, <1>8 DEF ServersInv

\* A new clan has its founder, who has nothing under way, and nobody else.
LEMMA CreateServers ==
  ASSUME TypeInv, ServersInv, NEW c \in Char, CreateClan(c)
  PROVE  ServersInv'
<1> DEFINE k == founded + 1
           n == Len(toChar)
<1>1. /\ c \in inWorld /\ ~Loaded(client[c].id) /\ avatar[c].id = 0
      /\ founded' = k /\ list_clan' = list_clan \cup {k}
      /\ toChar' = Append(toChar, [who |-> c, clan |-> k])
      /\ UNCHANGED <<client, atChar, inWorld, clanList, toWorld, missed>>
  BY DEF CreateClan
<1>2. /\ avatar'[c] = [id |-> k, rank |-> 6] /\ row'[c] = [id |-> k, rank |-> 6]
      /\ \A u \in Char \ {c} : avatar'[u] = avatar[u] /\ row'[u] = row[u]
  BY Pieces DEF CreateClan
<1>3. toChar \in Seq([who : Char, clan : ClanIds]) /\ toWorld \in Seq(Messages) /\ n \in Nat
  BY Pieces DEF TypeInv, ClanTypeOK
<1>4. ~Founding(c) /\ News(c) = {}
  BY <1>3, EntriesOf DEF CreateClan, Pending, News
<1>5. \A i \in 1..n : toChar[i].who # c /\ toChar[i].who \in Char /\ Founding(toChar[i].who)
  BY <1>3, <1>4, Pieces, EntriesOf DEF Founding
<1>6. \A i \in 1..n : toChar[i].clan # k
  <2>1. \A j \in list_clan : j # k
    BY Pieces
  <2> QED
    BY <2>1 DEF ServersInv, Tabled
<1>7. k \in ClanIds /\ clanList[k] = NoList
  <2>1. k \in ClanIds
    BY Pieces, ClanAssumption DEF CreateClan, ClanIds
  <2>2. k \notin list_clan
    BY Pieces
  <2> QED
    BY <2>1, <2>2 DEF ServersInv, Tabled, Loaded
<1>8. /\ Len(toChar') = n + 1 /\ toChar'[n + 1] = [who |-> c, clan |-> k]
      /\ \A i \in 1..n : toChar'[i] = toChar[i]
      /\ \A i \in 1..Len(toChar') : i \in 1..n \/ i = n + 1
  <2>1. [who |-> c, clan |-> k] \in [who : Char, clan : ClanIds]
    BY <1>7
  <2> QED
    BY <1>1, <1>3, <2>1, AppendProperties
<1>9. /\ k \in Nat /\ founded \in Nat /\ founded < k
      /\ \A u \in Char : /\ row[u].id < k /\ client[u].id < k /\ avatar[u].id < k
                         /\ row[u].id <= k /\ client[u].id <= k /\ avatar[u].id <= k
      /\ \A i \in 1..Len(toWorld) : toWorld[i].kind = "joined" => toWorld[i].arg < k /\ toWorld[i].arg <= k
  <2>1. \A u \in Char : row[u].id \in Nat /\ client[u].id \in Nat /\ avatar[u].id \in Nat
    BY Pieces, CopyTypes, ClanAssumption
  <2>2. \A i \in 1..Len(toWorld) : toWorld[i].arg \in Nat
    BY Pieces DEF Messages
  <2> QED
    BY <2>1, <2>2, Pieces DEF ServersInv, Founded
<1> HIDE DEF k, n
<1>10. Founded'
  BY <1>1, <1>2, <1>9 DEF Founded
<1>11. Tabled'
  <2>1. \A j \in ClanIds : Loaded(j)' => j \in list_clan'
    BY <1>1 DEF ServersInv, Tabled, Loaded
  <2>2. \A i \in 1..Len(toChar') : toChar'[i].clan \in list_clan' /\ clanList'[toChar'[i].clan] = NoList
    BY <1>1, <1>7, <1>8 DEF ServersInv, Tabled, n
  <2>3. \A i, j \in 1..Len(toChar') :
          i # j => toChar'[i].clan # toChar'[j].clan /\ toChar'[i].who # toChar'[j].who
    <3> SUFFICES ASSUME NEW i \in 1..Len(toChar'), NEW j \in 1..Len(toChar'), i # j
                 PROVE  toChar'[i].clan # toChar'[j].clan /\ toChar'[i].who # toChar'[j].who
      OBVIOUS
    <3>1. CASE i \in 1..n /\ j \in 1..n
      BY <1>8, <3>1 DEF ServersInv, Tabled, n
    <3>2. CASE i \in 1..n /\ j = n + 1
      BY <1>5, <1>6, <1>8, <3>2
    <3>3. CASE i = n + 1 /\ j \in 1..n
      BY <1>5, <1>6, <1>8, <3>3
    <3> QED
      BY <1>8, <3>1, <3>2, <3>3
  <2>4. \A i \in 1..Len(toWorld) :
          toWorld[i].kind = "joined" /\ toWorld[i].arg \in list_clan' => Loaded(toWorld[i].arg)
    BY <1>1, <1>9 DEF ServersInv, Tabled
  <2> QED
    BY <1>1, <2>1, <2>2, <2>3, <2>4 DEF Tabled, Loaded
<1>12. Apart'
  <2> SUFFICES ASSUME NEW i \in 1..Len(toChar')
               PROVE  /\ \A u \in Char \ missed :
                           /\ client[u].id # toChar'[i].clan
                           /\ u \notin inWorld => row'[u].id # toChar'[i].clan
                           /\ u \in inWorld /\ avatar'[u].id = toChar'[i].clan => u = toChar'[i].who
                      /\ \A j \in 1..Len(toWorld) :
                           toWorld[j].kind = "joined" => toWorld[j].arg # toChar'[i].clan
    BY <1>1 DEF Apart
  <2>1. CASE i \in 1..n
    <3>1. toChar'[i] = toChar[i] /\ toChar[i].clan # k
      BY <1>6, <1>8, <2>1
    <3>2. /\ \A u \in Char \ missed :
               /\ client[u].id # toChar[i].clan
               /\ u \notin inWorld => row[u].id # toChar[i].clan
               /\ u \in inWorld /\ avatar[u].id = toChar[i].clan => u = toChar[i].who
          /\ \A j \in 1..Len(toWorld) :
               toWorld[j].kind = "joined" => toWorld[j].arg # toChar[i].clan
      BY <2>1 DEF ServersInv, Apart, n
    <3> QED
      BY <1>1, <1>2, <3>1, <3>2
  <2>2. CASE i = n + 1
    <3>1. toChar'[i].who = c /\ toChar'[i].clan = k
      BY <1>8, <2>2
    <3>2. \A u \in Char : client[u].id # k /\ row[u].id # k /\ avatar[u].id # k
      BY <1>9
    <3>3. \A j \in 1..Len(toWorld) : toWorld[j].kind = "joined" => toWorld[j].arg # k
      BY <1>9
    <3> QED
      BY <1>1, <1>2, <3>1, <3>2, <3>3
  <2> QED
    BY <1>8, <2>1, <2>2
<1>13. Founders'
  <2> SUFFICES ASSUME NEW i \in 1..Len(toChar'), toChar'[i].who \notin missed
               PROVE  /\ toChar'[i].who \in inWorld /\ ~Loaded(client[toChar'[i].who].id)
                      /\ avatar'[toChar'[i].who] = [id |-> toChar'[i].clan, rank |-> 6]
                      /\ \A j \in 1..Len(toWorld) : toWorld[j].who # toChar'[i].who
    BY <1>1 DEF Founders, Loaded
  <2>1. CASE i \in 1..n
    BY <1>2, <1>5, <1>8, <2>1 DEF ServersInv, Founders, n
  <2>2. CASE i = n + 1
    BY <1>1, <1>2, <1>4, <1>8, <2>2 DEF News
  <2> QED
    BY <1>8, <2>1, <2>2
<1>14. Ranked'
  BY <1>1, <1>2 DEF ServersInv, Ranked
<1>17. /\ \A u \in Char : Existing(client[u].id)' = Existing(client[u].id)
       /\ \A u \in Char \ {c} : /\ Existing(row[u].id)' = Existing(row[u].id)
                                /\ Existing(avatar[u].id)' = Existing(avatar[u].id)
       /\ \A i \in 1..Len(toWorld) : Existing(Gives(toWorld[i]))' = Existing(Gives(toWorld[i]))
  BY <1>1, <1>2, <1>9 DEF Existing, Gives
<1>15. Waiting'
  BY <1>1, <1>2, <1>17 DEF ServersInv, Waiting, Known
<1>16. ClanSettles' /\ RankSettles'
  <2>1. \A u : Founding(u) => Founding(u)'
    <3> SUFFICES ASSUME NEW u, Founding(u) PROVE Founding(u)'
      OBVIOUS
    <3>1. toChar' \in Seq([who : Char, clan : ClanIds])
      BY CreateTypes DEF TypeInv, ClanTypeOK
    <3>2. PICK i \in 1..n : toChar[i].who = u
      BY <1>3, EntriesOf DEF Founding, n
    <3>3. i \in 1..Len(toChar') /\ toChar'[i].who = u
      BY <1>3, <1>8, <3>2
    <3> QED
      BY <3>1, <3>3, EntriesOf DEF Founding
  <2>2. Founding(c)'
    <3>1. toChar' \in Seq([who : Char, clan : ClanIds])
      BY CreateTypes DEF TypeInv, ClanTypeOK
    <3>2. n + 1 \in 1..Len(toChar') /\ toChar'[n + 1].who = c
      BY <1>3, <1>8
    <3> QED
      BY <3>1, <3>2, EntriesOf DEF Founding
  <2>3. \A u : /\ News(u)' = News(u) /\ Changes(u)' = Changes(u)
               /\ (u \in Char => (Known(u)' <=> Known(u)))
    BY <1>1 DEF News, Changes, Known, Loaded
  <2>6. \A u : Changes(u) \subseteq 1..Len(toWorld)
    BY DEF Changes, News
  <2>4. ClanSettles'
    BY <1>1, <1>2, <1>17, <2>1, <2>2, <2>3, <2>6 DEF ServersInv, ClanSettles
  <2>7. Known(c) => Existing(client[c].id) = 0
    <3>1. Changes(c) = {} /\ Existing(avatar[c].id) = 0
      BY <1>1, <1>4, NoneExists DEF Changes
    <3> QED
      BY <1>1, <1>4, <3>1 DEF ServersInv, ClanSettles
  <2>8. \A i : RankGiven(toWorld[i])' = RankGiven(toWorld[i])
    BY <1>1 DEF RankGiven
  <2>5. RankSettles'
    BY <1>1, <1>2, <1>17, <2>3, <2>7, <2>8 DEF ServersInv, RankSettles
  <2> QED
    BY <2>4, <2>5
<1> QED
  BY <1>10, <1>11, <1>12, <1>13, <1>14, <1>15, <1>16 DEF ServersInv

\* The char server loads it: the founder has become what he is in the world.
LEMMA LoadServers ==
  ASSUME TypeInv, ServersInv, LoadNewClan
  PROVE  ServersInv'
<1> DEFINE w == toChar[1].who
           k == toChar[1].clan
<1>1. /\ toChar # <<>> /\ toChar' = Tail(toChar)
      /\ UNCHANGED <<row, avatar, atChar, inWorld, list_clan, founded, toWorld, missed>>
  BY DEF LoadNewClan, tables
<1>2. /\ 1 \in 1..Len(toChar) /\ w \in Char /\ k \in ClanIds /\ Head(toChar) = toChar[1]
      /\ Len(toChar') = Len(toChar) - 1 /\ Len(toChar) \in Nat
      /\ \A i \in 1..Len(toChar') : i + 1 \in 1..Len(toChar) /\ toChar'[i] = toChar[i + 1]
  BY <1>1, HeadOfNews, Pieces
<1>3. /\ \A u \in Char \ {w} : client'[u] = client[u]
      /\ w \in atChar => client'[w] = [id |-> k, rank |-> 6]
      /\ w \notin atChar => client'[w] = client[w]
      /\ DOMAIN clanList' = ClanIds /\ \A j \in ClanIds \ {k} : clanList'[j] = clanList[j]
  <2>1. CASE w \in atChar
    <3>1. /\ client' = [client EXCEPT ![w] = [id |-> k, rank |-> 6]]
          /\ clanList' = [clanList EXCEPT ![k] = <<[who |-> w, rank |-> 6]>>]
      BY <1>2, <2>1 DEF LoadNewClan
    <3> QED
      BY <1>2, <2>1, <3>1, Pieces DEF TypeInv, ClanTypeOK
  <2>2. CASE w \notin atChar
    BY <1>2, <2>2 DEF LoadNewClan, TypeInv, ClanTypeOK
  <2> QED
    BY <2>1, <2>2
<1>4. /\ k \in list_clan /\ k <= founded /\ k # 0
      /\ \A i \in 1..Len(toChar') : toChar'[i].clan # k /\ toChar'[i].who # w /\ toChar'[i].who \in Char
                                    /\ toChar'[i].clan \in ClanIds
  <2>1. \A i \in 1..Len(toChar') : i + 1 # 1
    BY <1>2
  <2>2. k \in list_clan
    BY <1>2 DEF ServersInv, Tabled
  <2>3. \A i \in 1..Len(toChar') : toChar[i + 1].clan # k /\ toChar[i + 1].who # w
    BY <1>2, <2>1 DEF ServersInv, Tabled
  <2>4. k <= founded /\ k # 0
    BY <2>2, Pieces
  <2> QED
    BY <1>2, <2>2, <2>3, <2>4, Pieces
<1>5. w \notin missed => w \in inWorld /\ News(w) = {} /\ avatar[w] = [id |-> k, rank |-> 6]
  BY <1>2 DEF ServersInv, Founders, News
<1>6. \A u \in Char : Known(u)' /\ u # w => Known(u) /\ client'[u] = client[u]
  BY <1>1, <1>3 DEF Known
<1>14. \A j : j # k => (Loaded(j)' <=> Loaded(j))
  BY <1>3 DEF Loaded
<1>15. /\ \A u \in Char \ missed : client[u].id # k
       /\ \A i \in 1..Len(toWorld) : toWorld[i].kind = "joined" => toWorld[i].arg # k
  BY <1>2 DEF ServersInv, Apart
<1> HIDE DEF w, k
<1>7. Founded'
  BY <1>1, <1>3, <1>4 DEF ServersInv, Founded
<1>8. Tabled'
  <2>1. \A j \in ClanIds : Loaded(j)' => j \in list_clan'
    BY <1>1, <1>3, <1>4 DEF ServersInv, Tabled, Loaded
  <2>2. \A i \in 1..Len(toChar') : toChar'[i].clan \in list_clan' /\ clanList'[toChar'[i].clan] = NoList
    BY <1>1, <1>2, <1>3, <1>4 DEF ServersInv, Tabled
  <2>3. \A i, j \in 1..Len(toChar') :
          i # j => toChar'[i].clan # toChar'[j].clan /\ toChar'[i].who # toChar'[j].who
    <3> SUFFICES ASSUME NEW i \in 1..Len(toChar'), NEW j \in 1..Len(toChar'), i # j
                 PROVE  toChar'[i].clan # toChar'[j].clan /\ toChar'[i].who # toChar'[j].who
      OBVIOUS
    <3>1. i + 1 # j + 1
      BY <1>2
    <3> QED
      BY <1>2, <3>1 DEF ServersInv, Tabled
  <2>4. ASSUME NEW i \in 1..Len(toWorld), toWorld[i].kind = "joined", toWorld[i].arg \in list_clan
        PROVE  Loaded(toWorld[i].arg)'
    <3>1. PICK x : x = toWorld[i].arg
      OBVIOUS
    <3>2. Loaded(x) /\ x # k
      BY <1>15, <2>4, <3>1 DEF ServersInv, Tabled
    <3>3. Loaded(x)'
      BY <1>14, <3>2
    <3> QED
      BY <1>1, <3>1, <3>3 DEF Loaded
  <2> QED
    BY <1>1, <2>1, <2>2, <2>3, <2>4 DEF Tabled
<1>9. Apart'
  <2>1. w \notin missed => \A i \in 1..Len(toChar') : client'[w].id # toChar'[i].clan
    <3>1. CASE w \in atChar
      <4>1. client'[w].id = k
        BY <1>3, <3>1
      <4> QED
        BY <1>4, <4>1
    <3>2. CASE w \notin atChar
      <4>1. client'[w] = client[w]
        BY <1>3, <3>2
      <4> QED
        BY <1>2, <4>1 DEF ServersInv, Apart
    <3> QED
      BY <3>1, <3>2
  <2>2. \A i \in 1..Len(toChar') :
          /\ \A c \in Char \ missed :
               /\ client'[c].id # toChar'[i].clan
               /\ c \notin inWorld => row[c].id # toChar'[i].clan
               /\ c \in inWorld /\ avatar[c].id = toChar'[i].clan => c = toChar'[i].who
          /\ \A j \in 1..Len(toWorld) :
               toWorld[j].kind = "joined" => toWorld[j].arg # toChar'[i].clan
    <3> SUFFICES ASSUME NEW i \in 1..Len(toChar')
                 PROVE  /\ \A c \in Char \ missed :
                             /\ client'[c].id # toChar'[i].clan
                             /\ c \notin inWorld => row[c].id # toChar'[i].clan
                             /\ c \in inWorld /\ avatar[c].id = toChar'[i].clan => c = toChar'[i].who
                        /\ \A j \in 1..Len(toWorld) :
                             toWorld[j].kind = "joined" => toWorld[j].arg # toChar'[i].clan
      OBVIOUS
    <3>1. i + 1 \in 1..Len(toChar) /\ toChar'[i] = toChar[i + 1]
      BY <1>2
    <3> QED
      BY <1>3, <2>1, <3>1 DEF ServersInv, Apart
  <2> QED
    BY <1>1, <2>2 DEF Apart
<1>10. Founders'
  <2>1. ASSUME NEW i \in 1..Len(toChar'), toChar'[i].who \notin missed
        PROVE  ~Loaded(client[toChar[i].who].id)'
    <3>1. PICK x : x = client[toChar[i + 1].who].id
      OBVIOUS
    <3>2. /\ i + 1 \in 1..Len(toChar) /\ toChar'[i] = toChar[i + 1]
          /\ toChar'[i].who \in Char \ {w}
      BY <1>2, <1>4
    <3>3. ~Loaded(x) /\ client'[toChar'[i].who].id = x
      BY <1>3, <2>1, <3>1, <3>2 DEF ServersInv, Founders
    <3>4. x # k
      BY <1>15, <2>1, <3>1, <3>2
    <3>5. ~Loaded(x)'
      BY <1>14, <3>3, <3>4
    <3> QED
      BY <3>3, <3>5 DEF Loaded
  <2> QED
    BY <1>1, <1>2, <1>3, <1>4, <2>1 DEF ServersInv, Founders
<1>11. Ranked'
  BY <1>1 DEF ServersInv, Ranked
<1>12. Waiting'
  <2> SUFFICES ASSUME NEW u \in Char, Known(u)', u \notin inWorld
               PROVE  /\ Existing(row[u].id) = Existing(client'[u].id)
                      /\ Existing(client'[u].id) # 0 => row[u].rank = Worldly(client'[u].rank)
    BY <1>1 DEF Waiting, Existing
  <2>1. u # w
    BY <1>1, <1>5 DEF Known
  <2> QED
    BY <1>6, <2>1 DEF ServersInv, Waiting
<1>13. ClanSettles' /\ RankSettles'
  <2> SUFFICES ASSUME NEW u \in Char, Known(u)', u \in inWorld
               PROVE  /\ \A i \in Changes(u) : (\A j \in Changes(u) : j <= i) =>
                           Existing(Gives(toWorld[i])) = Existing(client'[u].id)
                      /\ Changes(u) = {} => Existing(avatar[u].id) = Existing(client'[u].id) \/ Founding(u)'
                      /\ Existing(client'[u].id) # 0 =>
                           /\ \A i \in News(u) : (\A j \in News(u) : j <= i) =>
                                RankGiven(toWorld[i]) = Worldly(client'[u].rank)
                           /\ News(u) = {} => avatar[u].rank = Worldly(client'[u].rank)
    BY <1>1 DEF ClanSettles, RankSettles, Changes, News, Existing, Gives
  <2>1. CASE u = w
    <3>1. News(w) = {} /\ Changes(w) = {} /\ avatar[w] = [id |-> k, rank |-> 6]
      BY <1>1, <1>5, <2>1 DEF Known, Changes
    <3>2. client'[w] = [id |-> k, rank |-> 6]
      BY <1>1, <1>3, <2>1 DEF Known
    <3> QED
      BY <2>1, <3>1, <3>2 DEF Worldly
  <2>2. CASE u # w
    <3>1. Founding(u) => Founding(u)'
      <4> SUFFICES ASSUME Founding(u) PROVE Founding(u)'
        OBVIOUS
      <4>1. toChar \in Seq([who : Char, clan : ClanIds]) /\ toChar' \in Seq([who : Char, clan : ClanIds])
        BY LoadTypes DEF TypeInv, ClanTypeOK
      <4>2. PICK i \in 1..Len(toChar) : toChar[i].who = u
        BY <4>1, EntriesOf DEF Founding
      <4>3. i # 1
        BY <2>2, <4>2 DEF w
      <4>4. i - 1 \in 1..Len(toChar') /\ (i - 1) + 1 = i
        BY <1>2, <4>2, <4>3
      <4>5. toChar'[i - 1].who = u
        BY <1>2, <4>2, <4>4
      <4> QED
        BY <4>1, <4>4, <4>5, EntriesOf DEF Founding
    <3> QED
      BY <1>6, <2>2, <3>1 DEF ServersInv, ClanSettles, RankSettles
  <2> QED
    BY <2>1, <2>2
<1> QED
  BY <1>7, <1>8, <1>9, <1>10, <1>11, <1>12, <1>13 DEF ServersInv

\* News when the first message has been handled: the rest, each one place earlier.
LEMMA NewsShift ==
  ASSUME TypeInv, toWorld # <<>>, toWorld' = Tail(toWorld), NEW u
  PROVE  /\ \A i \in News(u)' : i \in Nat /\ i + 1 \in News(u) /\ toWorld'[i] = toWorld[i + 1]
         /\ \A i \in News(u) : i = 1 \/ (i \in Nat /\ i - 1 \in News(u)')
         /\ \A i \in Changes(u)' : i \in Nat /\ i + 1 \in Changes(u) /\ toWorld'[i] = toWorld[i + 1]
         /\ \A i \in Changes(u) : i = 1 \/ (i \in Nat /\ i - 1 \in Changes(u)')
<1>1. /\ Len(toWorld) \in Nat
      /\ \A i \in 1..Len(toWorld') : i + 1 \in 1..Len(toWorld) /\ toWorld'[i] = toWorld[i + 1]
      /\ \A i \in 2..Len(toWorld) : i - 1 \in 1..Len(toWorld')
  BY HeadOfMail, Pieces
<1>2. News(u)' = {i \in 1..Len(toWorld') : toWorld'[i].who = u}
  BY DEF News
<1>3. Changes(u)' = {i \in News(u)' : toWorld'[i].kind # "rank"}
  BY DEF Changes
<1>4. \A i \in News(u)' : i \in Nat /\ i + 1 \in News(u) /\ toWorld'[i] = toWorld[i + 1]
  BY <1>1, <1>2 DEF News
<1>5. \A i \in News(u) : i = 1 \/ (i \in Nat /\ i - 1 \in News(u)' /\ toWorld'[i - 1] = toWorld[i])
  <2> SUFFICES ASSUME NEW i \in News(u), i # 1
               PROVE  i \in Nat /\ i - 1 \in News(u)' /\ toWorld'[i - 1] = toWorld[i]
    OBVIOUS
  <2>1. i \in 2..Len(toWorld) /\ toWorld[i].who = u
    BY <1>1 DEF News
  <2>2. i - 1 \in 1..Len(toWorld') /\ (i - 1) + 1 = i
    BY <1>1, <2>1
  <2>3. toWorld'[i - 1] = toWorld[i]
    BY <1>1, <2>2
  <2> QED
    BY <1>2, <2>1, <2>2, <2>3
<1>6. \A i \in Changes(u)' : i \in Nat /\ i + 1 \in Changes(u) /\ toWorld'[i] = toWorld[i + 1]
  BY <1>3, <1>4 DEF Changes
<1>7. \A i \in Changes(u) : i = 1 \/ (i \in Nat /\ i - 1 \in Changes(u)')
  BY <1>3, <1>5 DEF Changes
<1> QED
  BY <1>4, <1>5, <1>6, <1>7

\* The last of what is shifted was the last before.
LEMMA LastShift ==
  ASSUME NEW S \in SUBSET Nat, NEW T \in SUBSET Nat, \A i \in S : i = 1 \/ i - 1 \in T,
         NEW l \in T, \A j \in T : j <= l
  PROVE  \A i \in S : i <= l + 1
<1> SUFFICES ASSUME NEW i \in S PROVE i <= l + 1
  OBVIOUS
<1>1. CASE i = 1
  BY <1>1
<1>2. CASE i # 1
  BY <1>2
<1> QED
  BY <1>1, <1>2

\* Nobody joins a clan while he has another in the world.
Joining ==
  \A c \in Char \ missed : \A i \in Changes(c) : toWorld[i].kind = "joined" =>
    /\ (\A j \in Changes(c) : i <= j) => Existing(avatar[c].id) = 0
    /\ \A j \in Changes(c) : j < i /\ (\A l \in Changes(c) : l <= j \/ i <= l) =>
         Existing(Gives(toWorld[j])) = 0

\* The world server handles a message.
LEMMA HearServers ==
  ASSUME TypeInv, ServersInv, Joining, HearChar
  PROVE  ServersInv'
<1> DEFINE m == toWorld[1]
           w == m.who
<1>1. /\ toWorld # <<>> /\ toWorld' = Tail(toWorld)
      /\ avatar' = IF w \in inWorld THEN [avatar EXCEPT ![w] = Heard(m)] ELSE avatar
      /\ missed' = IF w \in inWorld THEN missed ELSE missed \cup {w}
      /\ UNCHANGED <<row, client, atChar, inWorld, clanList, list_clan, founded, toChar>>
  BY HeadOfMail DEF HearChar, tables, dialogs
<1>2. m \in Messages /\ Sound(m) /\ w \in Char /\ 1 \in 1..Len(toWorld)
  BY <1>1, HeadOfMail
<1>3. \A i \in 1..Len(toWorld') : i + 1 \in 1..Len(toWorld) /\ toWorld'[i] = toWorld[i + 1]
  BY <1>1, HeadOfMail
<1>4. /\ \A u \in Char \ {w} : avatar'[u] = avatar[u]
      /\ avatar'[w] = IF w \in inWorld THEN Heard(m) ELSE avatar[w]
      /\ missed \subseteq missed' /\ (w \notin missed' => w \in inWorld)
  BY <1>1, <1>2, Pieces
<1>5. /\ Heard(m) \in Copies
      /\ m.kind = "joined" /\ m.arg \in list_clan => Heard(m) = [id |-> m.arg, rank |-> 1]
      /\ m.kind = "joined" /\ m.arg \notin list_clan => Heard(m) = avatar[w]
      /\ m.kind = "rank" => Heard(m) = [id |-> avatar[w].id, rank |-> m.arg]
      /\ m.kind \notin {"joined", "rank"} => Heard(m) = [id |-> 0, rank |-> RankGiven(m)]
  BY <1>2, HeardIs
<1>6. \A i \in 1..Len(toChar) : toChar[i].who \in Char /\ toChar[i].clan # 0
  BY Pieces, CopyTypes
<1>7. Founded'
  <2>1. Heard(m).id <= founded
    <3>1. m.kind = "joined" => m.arg <= founded
      BY <1>2 DEF ServersInv, Founded
    <3>2. avatar[w].id <= founded /\ 0 <= founded
      BY <1>2, Pieces DEF ServersInv, Founded
    <3> HIDE DEF m
    <3> QED
      BY <1>5, <3>1, <3>2
  <2> QED
    BY <1>1, <1>3, <1>4, <2>1 DEF ServersInv, Founded
<1>8. Tabled'
  BY <1>1, <1>3 DEF ServersInv, Tabled, Loaded
<1>9. Apart'
  <2> SUFFICES ASSUME NEW i \in 1..Len(toChar)
               PROVE  /\ \A u \in Char \ missed' :
                           /\ client[u].id # toChar[i].clan
                           /\ u \notin inWorld => row[u].id # toChar[i].clan
                           /\ u \in inWorld /\ avatar'[u].id = toChar[i].clan => u = toChar[i].who
                      /\ \A j \in 1..Len(toWorld') :
                           toWorld'[j].kind = "joined" => toWorld'[j].arg # toChar[i].clan
    BY <1>1 DEF Apart
  <2>1. /\ \A u \in Char \ missed :
             /\ client[u].id # toChar[i].clan
             /\ u \notin inWorld => row[u].id # toChar[i].clan
             /\ u \in inWorld /\ avatar[u].id = toChar[i].clan => u = toChar[i].who
        /\ \A j \in 1..Len(toWorld) :
             toWorld[j].kind = "joined" => toWorld[j].arg # toChar[i].clan
    BY DEF ServersInv, Apart
  <2>2. m.kind = "joined" => m.arg # toChar[i].clan
    BY <1>2, <2>1
  <2>3. w \in inWorld /\ Heard(m).id = toChar[i].clan => avatar[w].id = toChar[i].clan
    <3> HIDE DEF m
    <3> QED
      BY <1>5, <1>6, <2>2
  <2> QED
    BY <1>3, <1>4, <2>1, <2>3
<1>10. Founders'
  <2> SUFFICES ASSUME NEW i \in 1..Len(toChar), toChar[i].who \notin missed'
               PROVE  /\ toChar[i].who \in inWorld /\ ~Loaded(client[toChar[i].who].id)
                      /\ avatar'[toChar[i].who] = [id |-> toChar[i].clan, rank |-> 6]
                      /\ \A j \in 1..Len(toWorld') : toWorld'[j].who # toChar[i].who
    BY <1>1 DEF Founders, Loaded
  <2>1. /\ toChar[i].who \in inWorld /\ ~Loaded(client[toChar[i].who].id)
        /\ avatar[toChar[i].who] = [id |-> toChar[i].clan, rank |-> 6]
        /\ \A j \in 1..Len(toWorld) : toWorld[j].who # toChar[i].who
    BY <1>4 DEF ServersInv, Founders
  <2>2. toChar[i].who # w
    BY <1>2, <2>1
  <2> QED
    BY <1>3, <1>4, <1>6, <2>1, <2>2
<1>11. Ranked'
  <2>1. \A u \in Char \ missed' :
          /\ u \in inWorld => (avatar[u].id # 0 => avatar[u].rank # 0)
          /\ u \notin inWorld => /\ row[u].id # 0 => row[u].rank # 0
                                 /\ \A j \in 1..Len(toWorld) : toWorld[j].who # u
    BY <1>4 DEF ServersInv, Ranked
  <2>2. w \notin missed' => (Heard(m).id # 0 => Heard(m).rank # 0)
    <3>1. m.kind = "rank" => m.arg # 0
      BY <1>2 DEF Sound
    <3>2. w \notin missed' => (avatar[w].id # 0 => avatar[w].rank # 0)
      BY <1>2, <1>4, <2>1
    <3> HIDE DEF m, w
    <3> QED
      BY <1>5, <3>1, <3>2
  <2> QED
    BY <1>1, <1>3, <1>4, <2>1, <2>2 DEF Ranked
<1>12. \A u \in Char : Known(u)' => Known(u)
  BY <1>1, <1>4 DEF Known, Loaded
<1>13. Waiting'
  BY <1>1, <1>12 DEF ServersInv, Waiting, Existing
<1>14. ASSUME NEW u \in Char, Known(u)', u \in inWorld
       PROVE  /\ \A i \in Changes(u)' : (\A j \in Changes(u)' : j <= i) =>
                   Existing(Gives(toWorld'[i])) = Existing(client[u].id)
              /\ Changes(u)' = {} => Existing(avatar'[u].id) = Existing(client[u].id) \/ Founding(u)
              /\ Existing(client[u].id) # 0 =>
                   /\ \A i \in News(u)' : (\A j \in News(u)' : j <= i) =>
                        RankGiven(toWorld'[i]) = Worldly(client[u].rank)
                   /\ News(u)' = {} => avatar'[u].rank = Worldly(client[u].rank)
  <2>1. /\ \A i \in Changes(u) : (\A j \in Changes(u) : j <= i) =>
             Existing(Gives(toWorld[i])) = Existing(client[u].id)
        /\ Changes(u) = {} => Existing(avatar[u].id) = Existing(client[u].id) \/ Founding(u)
        /\ Existing(client[u].id) # 0 =>
             /\ \A i \in News(u) : (\A j \in News(u) : j <= i) =>
                  RankGiven(toWorld[i]) = Worldly(client[u].rank)
             /\ News(u) = {} => avatar[u].rank = Worldly(client[u].rank)
    BY <1>12, <1>14 DEF ServersInv, ClanSettles, RankSettles
  <2>2. /\ \A i \in News(u)' : i \in Nat /\ i + 1 \in News(u) /\ toWorld'[i] = toWorld[i + 1]
        /\ \A i \in News(u) : i = 1 \/ (i \in Nat /\ i - 1 \in News(u)')
        /\ \A i \in Changes(u)' : i \in Nat /\ i + 1 \in Changes(u) /\ toWorld'[i] = toWorld[i + 1]
        /\ \A i \in Changes(u) : i = 1 \/ (i \in Nat /\ i - 1 \in Changes(u)')
    BY <1>1, NewsShift
  <2>3. News(u) \in SUBSET Nat /\ Changes(u) \in SUBSET Nat
    BY DEF News, Changes
  <2>4. \A i \in Changes(u)' : (\A j \in Changes(u)' : j <= i) =>
                           Existing(Gives(toWorld'[i])) = Existing(client[u].id)
    <3> SUFFICES ASSUME NEW i \in Changes(u)', \A j \in Changes(u)' : j <= i
                 PROVE  Existing(Gives(toWorld[i + 1])) = Existing(client[u].id)
      BY <2>2
    <3>1. Changes(u)' \in SUBSET Nat
      BY <2>2
    <3>2. \A j \in Changes(u) : j <= i + 1
      BY <2>2, <2>3, <3>1, LastShift
    <3> QED
      BY <2>1, <2>2, <3>2
  <2>5. Existing(client[u].id) # 0 => \A i \in News(u)' : (\A j \in News(u)' : j <= i) =>
                              RankGiven(toWorld'[i]) = Worldly(client[u].rank)
    <3> SUFFICES ASSUME Existing(client[u].id) # 0, NEW i \in News(u)', \A j \in News(u)' : j <= i
                 PROVE  RankGiven(toWorld[i + 1]) = Worldly(client[u].rank)
      BY <2>2
    <3>1. News(u)' \in SUBSET Nat
      BY <2>2
    <3>2. \A j \in News(u) : j <= i + 1
      BY <2>2, <2>3, <3>1, LastShift
    <3> QED
      BY <2>1, <2>2, <3>2
  <2>6. /\ 1 \in News(u) <=> u = w
        /\ 1 \in Changes(u) <=> (u = w /\ m.kind # "rank")
    BY <1>2 DEF News, Changes
  \* The message is the last change of his clan.
  <2>8. Changes(u)' = {} /\ u = w /\ m.kind # "rank" =>
          /\ Existing(Heard(m).id) = Existing(client[u].id)
          /\ Existing(client[u].id) # 0 => Heard(m).rank = RankGiven(m)
    <3> SUFFICES ASSUME Changes(u)' = {}, u = w, m.kind # "rank"
                 PROVE  /\ Existing(Heard(m).id) = Existing(client[u].id)
                        /\ Existing(client[u].id) # 0 => Heard(m).rank = RankGiven(m)
      OBVIOUS
    <3>1. 1 \in Changes(u) /\ \A j \in Changes(u) : j = 1
      BY <2>2, <2>6
    <3>2. Existing(Gives(m)) = Existing(client[u].id)
      <4>1. \A j \in Changes(u) : j <= 1
        BY <3>1
      <4> QED
        BY <2>1, <3>1, <4>1
    <3>3. m.kind = "joined" => Existing(avatar[u].id) = 0
      <4>1. \A j \in Changes(u) : 1 <= j
        BY <3>1
      <4>2. u \in Char \ missed
        BY <1>12, <1>14 DEF Known
      <4> QED
        BY <3>1, <4>1, <4>2 DEF Joining
    <3>4. CASE m.kind = "joined" /\ m.arg \in list_clan
      <4>1. Heard(m).id = m.arg /\ Heard(m).rank = 1 /\ Gives(m) = m.arg /\ RankGiven(m) = 1
        <5> HIDE DEF m
        <5> QED
          BY <1>5, <3>4 DEF Gives, RankGiven
      <4> QED
        BY <3>2, <4>1
    <3>5. CASE m.kind = "joined" /\ m.arg \notin list_clan
      <4>1. Heard(m) = avatar[u] /\ Existing(Gives(m)) = 0
        BY <1>5, <3>5 DEF Gives, Existing
      <4> QED
        BY <3>2, <3>3, <3>5, <4>1
    <3>6. CASE m.kind # "joined"
      <4>1. Heard(m).id = 0 /\ Gives(m) = 0 /\ Existing(0) = 0
        <5> HIDE DEF m
        <5> QED
          BY <1>5, <3>6, NoneExists DEF Gives
      <4> QED
        BY <3>2, <4>1
    <3> QED
      BY <3>4, <3>5, <3>6
  <2>9. Changes(u)' = {} => Existing(avatar'[u].id) = Existing(client[u].id) \/ Founding(u)
    <3> SUFFICES ASSUME Changes(u)' = {} PROVE Existing(avatar'[u].id) = Existing(client[u].id) \/ Founding(u)
      OBVIOUS
    <3>1. CASE u = w /\ m.kind # "rank"
      BY <1>4, <1>14, <2>8, <3>1
    <3>2. CASE ~(u = w /\ m.kind # "rank")
      <4>1. Changes(u) = {}
        BY <2>2, <2>6, <3>2
      <4>2. avatar'[u].id = avatar[u].id
        BY <1>4, <1>5, <3>2
      <4> QED
        BY <2>1, <4>1, <4>2
    <3> QED
      BY <3>1, <3>2
  <2>10. Existing(client[u].id) # 0 /\ News(u)' = {} => avatar'[u].rank = Worldly(client[u].rank)
    <3> SUFFICES ASSUME Existing(client[u].id) # 0, News(u)' = {} PROVE avatar'[u].rank = Worldly(client[u].rank)
      OBVIOUS
    <3>1. Changes(u)' = {}
      BY DEF Changes
    <3>2. CASE u = w
      <4>1. 1 \in News(u) /\ \A j \in News(u) : j <= 1
        BY <2>2, <2>6, <3>2
      <4>2. RankGiven(m) = Worldly(client[u].rank)
        BY <2>1, <4>1
      <4>3. Heard(m).rank = RankGiven(m)
        BY <1>5, <2>8, <3>1, <3>2 DEF RankGiven
      <4> QED
        BY <1>4, <1>14, <3>2, <4>2, <4>3
    <3>3. CASE u # w
      BY <1>4, <2>1, <2>2, <2>6, <3>3
    <3> QED
      BY <3>2, <3>3
  <2> QED
    BY <2>4, <2>5, <2>9, <2>10
<1>15. ClanSettles'
  BY <1>1, <1>14 DEF ClanSettles, Founding, Existing
<1>16. RankSettles'
  BY <1>1, <1>14 DEF RankSettles, Existing
<1> QED
  BY <1>7, <1>8, <1>9, <1>10, <1>11, <1>13, <1>15, <1>16 DEF ServersInv

\* What changes none of the copies, lists and messages.
LEMMA SameServers ==
  ASSUME ServersInv,
         UNCHANGED <<row, client, avatar, atChar, inWorld, clanList, list_clan, founded,
                     toWorld, toChar, missed>>
  PROVE  ServersInv'
BY DEF ServersInv, Founded, Tabled, Apart, Founders, Ranked, Waiting, ClanSettles, RankSettles,
   Known, Loaded, Changes, News, Founding, Existing, Gives, RankGiven

\* Whatever happens keeps the invariant.
LEMMA StepServers ==
  ASSUME TypeInv, ServersInv, Joining, [ClanNext]_clanVars
  PROVE  ServersInv'
<1>0. TypeInv'
  BY StepTypes
<1>1. CASE UNCHANGED clanVars
  BY <1>1, SameServers DEF clanVars
<1>2. ASSUME NEW c \in Char, NEW d \in Char, Invite(c, d)
      PROVE  ServersInv'
  BY <1>2, SameServers DEF Invite, tables
<1>3. CASE ClanNext
  BY <1>0, <1>2, <1>3, LoadServers, HearServers, RequestServers, EnterServers, SaveServers,
     LeaveWorldServers, LeaveCharServers, CreateServers, LeaveServers, DisorganizeServers,
     AcceptServers, KickServers, UpServers, DownServers, GiveServers DEF ClanNext
<1> QED
  BY <1>1, <1>3

LEMMA InitServers == ClanInit => ServersInv
<1> SUFFICES ASSUME ClanInit PROVE ServersInv
  OBVIOUS
<1>1. /\ \A c \in Char : row[c] = None /\ client[c] = None /\ avatar[c] = None
      /\ None.id = 0 /\ 0 <= founded
  BY ClanAssumption DEF ClanInit, None
<1>2. Len(toWorld) = 0 /\ Len(toChar) = 0 /\ inWorld = {} /\ atChar = {}
  BY DEF ClanInit
<1>3. \A k : ~Loaded(k)
  BY DEF ClanInit, Loaded
<1>4. Founded /\ Tabled
  BY <1>1, <1>2, <1>3 DEF Founded, Tabled
<1>5. Apart /\ Founders /\ Ranked
  BY <1>1, <1>2 DEF Apart, Founders, Ranked
<1>6. Waiting /\ ClanSettles /\ RankSettles
  BY <1>2 DEF Waiting, ClanSettles, RankSettles, Known
<1> QED
  BY <1>4, <1>5, <1>6 DEF ServersInv

\* With nothing under way there is no news, and the copies are the same.
LEMMA SettledAgrees ==
  ASSUME TypeInv, ServersInv
  PROVE  WorldAgrees
<1> SUFFICES ASSUME NEW c \in (atChar \cap inWorld) \ missed, ~Pending(c)
             PROVE  /\ Existing(avatar[c].id) = Existing(client[c].id)
                    /\ Existing(client[c].id) # 0 =>
                         avatar[c].rank = IF client[c].rank = 0 THEN 1 ELSE client[c].rank
  BY DEF WorldAgrees
<1>1. c \in Char /\ Known(c) /\ c \in inWorld
  BY DEF Known, TypeInv, ClanTypeOK
<1>2. ~Founding(c) /\ News(c) = {} /\ Changes(c) = {}
  <2>1. toWorld \in Seq(Messages)
    BY DEF TypeInv, ClanTypeOK
  <2> QED
    BY <2>1, EntriesOf DEF Pending, News, Changes
<1> QED
  BY <1>1, <1>2 DEF ServersInv, ClanSettles, RankSettles, Worldly

-----------------------------------------------------------------------------
(* The lists. *)

\* Where the list of a clan names c, and whether that is one place.
Places(k, c) == {i \in DOMAIN clanList[k] : clanList[k][i].who = c}
OnceIn(k, c) == \E i \in DOMAIN clanList[k] : Places(k, c) = {i}

\* c is in the list of clan x, once, and in no other, as far as lists can be trusted.
Placing(c, x) ==
  \A k \in ClanIds \ scrambled : Loaded(k) =>
    /\ x = k => OnceIn(k, c)
    /\ x # k => Places(k, c) = {}

\* The clan of the copy that the next login or save will use.
Belongs(c) == IF c \in inWorld THEN avatar[c].id ELSE row[c].id

\* A player is where the last change of his clan that is under way puts him, and
\* without one where his avatar or row says.
Placed ==
  \A c \in Char \ missed :
    /\ \A i \in Changes(c) : (\A j \in Changes(c) : j <= i) => Placing(c, Gives(toWorld[i]))
    /\ Changes(c) = {} => Placing(c, Belongs(c))

\* A client is where the char server says.
Enlisted == \A c \in atChar \ missed : Placing(c, client[c].id)

ListsInv == Placed /\ Enlisted /\ Joining

\* The list of a loaded clan.
LEMMA ListIs ==
  ASSUME TypeInv, NEW k, Loaded(k)
  PROVE  /\ k \in ClanIds /\ clanList[k] \in Seq(Entries)
         /\ DOMAIN clanList[k] = 1..Len(clanList[k]) /\ Len(clanList[k]) \in Nat
         /\ \A n : n \in Listed(k) <=> Places(k, n) # {}
<1>1. k \in ClanIds /\ clanList[k] \in Seq(Entries)
  BY Pieces DEF Loaded
<1>2. /\ DOMAIN clanList[k] = 1..Len(clanList[k]) /\ Len(clanList[k]) \in Nat
      /\ \A e : e \in ToSet(clanList[k]) <=> \E i \in 1..Len(clanList[k]) : clanList[k][i] = e
  BY <1>1, EntriesOf
<1>3. \A n : n \in Listed(k) <=> \E i \in 1..Len(clanList[k]) : clanList[k][i].who = n
  BY <1>2 DEF Listed
<1> QED
  BY <1>1, <1>2, <1>3 DEF Places

\* What a handler leaves of who is named in a list.
Same(k, u) == /\ Places(k, u) = {} => Places(k, u)' = {}
              /\ OnceIn(k, u) => OnceIn(k, u)'

\* The lists of other clans stay.
LEMMA OthersSame ==
  ASSUME NEW k, NEW j, clanList'[j] = clanList[j]
  PROVE  \A u : Same(j, u) /\ Places(j, u)' = Places(j, u)
BY DEF Same, OnceIn, Places

\* The first entry of a name goes, and no other.
LEMMA FirstErasedPlaces ==
  ASSUME TypeInv, NEW k, Loaded(k), NEW n, clanList' = [clanList EXCEPT ![k] = WithoutFirst(k, n)]
  PROVE  /\ \A j \in ClanIds \ {k} : clanList'[j] = clanList[j]
         /\ \A u : u # n => Same(k, u)
         /\ Places(k, n) = {} \/ OnceIn(k, n) => Places(k, n)' = {}
<1> DEFINE old == clanList[k]
           new == clanList'[k]
           at  == Places(k, n)
<1>1. /\ k \in ClanIds /\ old \in Seq(Entries) /\ DOMAIN old = 1..Len(old) /\ Len(old) \in Nat
      /\ DOMAIN clanList = ClanIds
  BY ListIs DEF TypeInv, ClanTypeOK
<1>2. new = WithoutFirst(k, n) /\ \A j \in ClanIds \ {k} : clanList'[j] = clanList[j]
  BY <1>1
<1>3. CASE at = {}
  <2>1. new = old
    BY <1>2, <1>3 DEF WithoutFirst, Places
  <2> QED
    BY <1>2, <1>3, <2>1 DEF Same, OnceIn, Places
<1>4. CASE at # {}
  <2>1. at \in SUBSET Nat
    BY <1>1 DEF Places
  <2>2. \E i \in at : \A j \in at : i <= j
    BY <1>4, <2>1, LeastExists
  <2>3. PICK i \in at : new = RemoveAt(old, i)
    BY <1>2, <1>4, <2>2 DEF WithoutFirst, Places
  <2>4. i \in 1..Len(old) /\ old[i].who = n
    BY <1>1, <2>3 DEF Places
  <2> HIDE DEF old, new
  <2>5. /\ new \in Seq(Entries) /\ Len(new) = Len(old) - 1
        /\ \A j \in 1..Len(old) - 1 : new[j] = IF j < i THEN old[j] ELSE old[j + 1]
    <3>1. /\ RemoveAt(old, i) \in Seq(Entries) /\ Len(RemoveAt(old, i)) = Len(old) - 1
          /\ \A j \in 1..Len(old) - 1 : RemoveAt(old, i)[j] = IF j < i THEN old[j] ELSE old[j + 1]
      BY <1>1, <2>4, Erased
    <3> QED
      BY <2>3, <3>1
  <2>6. DOMAIN new = 1..(Len(old) - 1)
    BY <2>5, LenProperties
  <2>7. \A u : Places(k, u) = {j \in 1..Len(old) : old[j].who = u}
    BY <1>1 DEF Places, old
  <2>8. \A u : Places(k, u)' = {j \in 1..(Len(old) - 1) : new[j].who = u}
    BY <2>6 DEF Places, new
  <2>9. \A u, j : j \in Places(k, u)' => /\ j \in Nat /\ (j < i => j \in Places(k, u))
                                         /\ (~(j < i) => j + 1 \in Places(k, u))
    <3> SUFFICES ASSUME NEW u, NEW j \in Places(k, u)'
                 PROVE  j \in Nat /\ (j < i => j \in Places(k, u)) /\ (~(j < i) => j + 1 \in Places(k, u))
      OBVIOUS
    <3>1. j \in 1..(Len(old) - 1) /\ new[j].who = u
      BY <2>8
    <3>2. j \in 1..Len(old) /\ j + 1 \in 1..Len(old)
      BY <1>1, <3>1
    <3>3. IF j < i THEN old[j].who = u ELSE old[j + 1].who = u
      BY <2>5, <3>1
    <3> QED
      BY <2>7, <3>2, <3>3
  <2>10. ASSUME NEW u, u # n
         PROVE  Same(k, u)
    <3>1. Places(k, u) = {} => Places(k, u)' = {}
      BY <2>9
    <3>2. ASSUME OnceIn(k, u) PROVE OnceIn(k, u)'
      <4>1. PICK l \in 1..Len(old) : Places(k, u) = {l}
        BY <1>1, <3>2 DEF OnceIn, old
      <4>2. old[l].who = u /\ l # i
        BY <2>4, <2>7, <2>10, <4>1
      <4> DEFINE p == IF l < i THEN l ELSE l - 1
      <4>3. p \in 1..(Len(old) - 1) /\ new[p] = old[l]
        <5>1. CASE l < i
          BY <1>1, <2>4, <2>5, <4>1, <5>1
        <5>2. CASE i < l
          <6>1. l - 1 \in 1..(Len(old) - 1) /\ ~(l - 1 < i) /\ (l - 1) + 1 = l
            BY <1>1, <2>4, <4>1, <5>2
          <6>2. new[l - 1] = old[l]
            BY <2>5, <6>1
          <6> QED
            BY <2>4, <4>1, <5>2, <6>1, <6>2
        <5> QED
          BY <2>4, <4>1, <4>2, <5>1, <5>2
      <4>4. \A j \in Places(k, u)' : j = p
        BY <2>4, <2>9, <4>1
      <4>5. Places(k, u)' = {p}
        BY <2>8, <4>2, <4>3, <4>4
      <4> QED
        BY <2>6, <4>3, <4>5 DEF OnceIn, new
    <3> QED
      BY <3>1, <3>2 DEF Same
  <2>11. OnceIn(k, n) => Places(k, n)' = {}
    <3> SUFFICES ASSUME OnceIn(k, n) PROVE Places(k, n)' = {}
      OBVIOUS
    <3>1. at = {i}
      BY <2>3 DEF OnceIn
    <3> QED
      BY <2>4, <2>9, <3>1
  <2> QED
    BY <1>2, <1>4, <2>10, <2>11
<1> QED
  BY <1>3, <1>4

\* A new entry at the end.
LEMMA AppendedPlaces ==
  ASSUME TypeInv, NEW k, Loaded(k), NEW n \in Char, NEW x \in Ranks,
         clanList' = [clanList EXCEPT ![k] = Append(@, [who |-> n, rank |-> x])]
  PROVE  /\ \A j \in ClanIds \ {k} : clanList'[j] = clanList[j]
         /\ \A u : u # n => Same(k, u)
         /\ Places(k, n) = {} => OnceIn(k, n)'
<1> DEFINE old == clanList[k]
           new == clanList'[k]
           l   == Len(old)
           e   == [who |-> n, rank |-> x]
<1>1. /\ k \in ClanIds /\ old \in Seq(Entries) /\ DOMAIN old = 1..l /\ l \in Nat
      /\ DOMAIN clanList = ClanIds
  BY ListIs DEF TypeInv, ClanTypeOK
<1>2. new = Append(old, e) /\ \A j \in ClanIds \ {k} : clanList'[j] = clanList[j]
  BY <1>1
<1>3. e \in Entries /\ e.who = n
  BY DEF Entries
<1> HIDE DEF e
<1>4. /\ new \in Seq(Entries) /\ Len(new) = l + 1 /\ new[l + 1] = e
      /\ \A i \in 1..l : new[i] = old[i]
  BY <1>1, <1>2, <1>3, AppendProperties
<1>5. DOMAIN new = 1..(l + 1)
  BY <1>4, LenProperties
<1> HIDE DEF old, new, l
<1>6. \A u : Places(k, u) = {j \in 1..l : old[j].who = u}
  BY <1>1 DEF Places, old
<1>7. \A u : Places(k, u)' = {j \in 1..(l + 1) : new[j].who = u}
  BY <1>5 DEF Places, new
<1>8. \A u : u # n => Places(k, u)' = Places(k, u)
  <2> SUFFICES ASSUME NEW u, u # n PROVE Places(k, u)' = Places(k, u)
    OBVIOUS
  <2>1. \A j : j \in 1..(l + 1) <=> j \in 1..l \/ j = l + 1
    BY <1>1
  <2>2. Places(k, u) = {j \in 1..l : old[j].who = u}
    BY <1>6
  <2>3. Places(k, u)' = {j \in 1..(l + 1) : new[j].who = u}
    BY <1>7
  <2>4. \A j \in 1..(l + 1) : new[j].who = u <=> j \in 1..l /\ old[j].who = u
    BY <1>3, <1>4, <2>1
  <2> QED
    BY <2>1, <2>2, <2>3, <2>4
<1>9. Places(k, n)' = Places(k, n) \cup {l + 1}
  BY <1>1, <1>3, <1>4, <1>6, <1>7
<1>10. DOMAIN old \subseteq DOMAIN new /\ l + 1 \in DOMAIN new
  BY <1>1, <1>5
<1> QED
  BY <1>2, <1>8, <1>9, <1>10 DEF Same, OnceIn, old, new

\* A reload of a list whose names are those of the rows orders them anew.
LEMMA ReloadedPlaces ==
  ASSUME TypeInv, NEW k, Loaded(k), NEW r \in [Char -> Copies], Reload(k, r)
  PROVE  /\ \A j \in ClanIds \ {k} : clanList'[j] = clanList[j]
         /\ scrambled \subseteq scrambled'
         /\ k \notin scrambled' => \A u : Same(k, u)
<1> DEFINE old == clanList[k]
           new == clanList'[k]
<1>1. /\ k \in ClanIds /\ old \in Seq(Entries) /\ DOMAIN old = 1..Len(old) /\ Len(old) \in Nat
      /\ \A n : n \in Listed(k) <=> Places(k, n) # {}
      /\ DOMAIN clanList = ClanIds
  BY ListIs DEF TypeInv, ClanTypeOK
<1>2. \A j \in ClanIds \ {k} : clanList'[j] = clanList[j]
  BY Reloaded
<1>3. scrambled \subseteq scrambled'
  BY DEF Reload
<1>4. k \notin scrambled' => RowsOf(k) = Listed(k) /\ Cardinality(RowsOf(k)) = Len(old)
  BY DEF Reload
<1>5. PICK s \in Orders(k, r) :
        new = [i \in DOMAIN old |->
                 IF i <= Len(s) THEN [who |-> s[i], rank |-> r[s[i]].rank] ELSE old[i]]
  <2>1. PICK l \in Reloads(k, r) : clanList' = [clanList EXCEPT ![k] = l]
    BY DEF Reload
  <2>2. new = l
    BY <1>1, <2>1
  <2> QED
    BY <2>1, <2>2 DEF Reloads
<1>6. /\ IsFiniteSet(RowsOf(k)) /\ Cardinality(RowsOf(k)) \in Nat
      /\ s \in [1..Cardinality(RowsOf(k)) -> RowsOf(k)]
      /\ \A i, j \in 1..Cardinality(RowsOf(k)) : i # j => s[i] # s[j]
  <2>1. IsFiniteSet(RowsOf(k))
    BY ClanAssumption, FS_Subset DEF RowsOf
  <2> QED
    BY <1>5, <2>1, FS_CardinalityType DEF Orders, SetToSeqs
<1> HIDE DEF old, new
<1>7. ASSUME k \notin scrambled', NEW u
      PROVE  Same(k, u)
  <2> DEFINE n == Len(old)
  <2>1. /\ n \in Nat /\ s \in [1..n -> RowsOf(k)] /\ \A i, j \in 1..n : i # j => s[i] # s[j]
        /\ Cardinality(RowsOf(k)) = n /\ Len(s) = n
    BY <1>1, <1>4, <1>6, <1>7
  <2>2. DOMAIN new = 1..n /\ \A i \in 1..n : new[i].who = s[i]
    BY <1>1, <1>5, <2>1
  <2>3. Places(k, u)' = {i \in 1..n : s[i] = u}
    BY <2>2 DEF Places, new
  <2>4. CASE u \in RowsOf(k)
    <3>1. Places(k, u) # {}
      BY <1>1, <1>4, <1>7, <2>4
    <3>2. s \in Injection(1..n, RowsOf(k))
      BY <2>1 DEF Injection, IsInjective
    <3>3. Cardinality(1..n) = n /\ IsFiniteSet(1..n)
      <4> HIDE DEF n
      <4>1. 1 \in Int /\ n \in Int
        BY <2>1
      <4>2. IsFiniteSet(1..n) /\ Cardinality(1..n) = IF 1 > n THEN 0 ELSE n - 1 + 1
        BY <4>1, FS_Interval
      <4> QED
        BY <2>1, <4>2
    <3>4. s \in Surjection(1..n, RowsOf(k))
      BY <1>6, <2>1, <3>2, <3>3, FS_Injection
    <3>5. PICK i \in 1..n : s[i] = u
      BY <2>4, <3>4 DEF Surjection
    <3>6. Places(k, u)' = {i}
      BY <2>1, <2>3, <3>5
    <3> QED
      BY <2>2, <3>1, <3>5, <3>6 DEF Same, OnceIn, new
  <2>5. CASE u \notin RowsOf(k)
    <3>1. Places(k, u) = {}
      BY <1>1, <1>4, <1>7, <2>5
    <3>2. Places(k, u)' = {}
      BY <2>1, <2>3, <2>5
    <3> QED
      BY <3>1, <3>2 DEF Same, OnceIn
  <2> QED
    BY <2>4, <2>5
<1> QED
  BY <1>2, <1>3, <1>7

\* Placing in the next state, for a clan of either state.
NextPlacing(c, x) ==
  \A k \in ClanIds \ scrambled' : Loaded(k)' =>
    /\ x = k => OnceIn(k, c)'
    /\ x # k => Places(k, c)' = {}

BelongsNext(c) == IF c \in inWorld' THEN avatar'[c].id ELSE row'[c].id
ExistingNext(x) == IF x \in list_clan' THEN x ELSE 0

\* The three ways in which a handler of the char server concerns the place of a player:
\* it stays,
Unmoved(u, s) ==
  /\ \A k \in ClanIds \ scrambled' : Loaded(k)' => Same(k, u)
  /\ \A i \in 1..Len(s) : s[i].who = u => s[i].kind = "rank"
  /\ client'[u].id = client[u].id
  /\ u \notin inWorld => row'[u].id = row[u].id

\* he is moved and told once,
Moved(u, s) ==
  /\ u \in atChar /\ u \in inWorld /\ NextPlacing(u, client'[u].id)
  /\ \E i \in 1..Len(s) :
       /\ s[i].who = u /\ \A j \in 1..Len(s) : s[j].who = u => j = i
       /\ s[i].kind # "rank" /\ Gives(s[i]) = client'[u].id
       /\ s[i].kind = "joined" => ~Loaded(client[u].id) /\ Existing(avatar[u].id) = 0

\* or while he is nowhere.
Removed(u, s) ==
  /\ u \notin atChar /\ u \notin inWorld
  /\ row'[u].id = 0 /\ NextPlacing(u, 0) /\ \A i \in 1..Len(s) : s[i].who # u

\* Who stays is placed as before.
LEMMA UnmovedPlacing ==
  ASSUME NEW s, Telling(s), scrambled \subseteq scrambled', NEW u \in Char, Unmoved(u, s), NEW x,
         Placing(u, x)
  PROVE  NextPlacing(u, x)
<1>1. \A k \in ClanIds \ scrambled' : Loaded(k)' => k \in ClanIds \ scrambled /\ Loaded(k) /\ Same(k, u)
  BY DEF Telling, Unmoved
<1> QED
  BY <1>1 DEF Placing, NextPlacing, Same

\* What the invariant says of one player, in the next state.
ListedNext(u) ==
  /\ \A i \in Changes(u)' : (\A j \in Changes(u)' : j <= i) => NextPlacing(u, Gives(toWorld'[i]))
  /\ Changes(u)' = {} => NextPlacing(u, BelongsNext(u))
  /\ u \in atChar' => NextPlacing(u, client'[u].id)
  /\ \A i \in Changes(u)' : toWorld'[i].kind = "joined" =>
       /\ (\A j \in Changes(u)' : i <= j) => ExistingNext(avatar'[u].id) = 0
       /\ \A j \in Changes(u)' : j < i /\ (\A l \in Changes(u)' : l <= j \/ i <= l) =>
            ExistingNext(Gives(toWorld'[j])) = 0

LEMMA ListsNext ==
  ASSUME TypeInv', \A u \in Char \ missed' : ListedNext(u)
  PROVE  ListsInv'
<1>1. Placed'
  BY DEF ListedNext, Placed, Placing, NextPlacing, Belongs, BelongsNext
<1>2. Enlisted'
  BY DEF ListedNext, Enlisted, Placing, NextPlacing, TypeInv, ClanTypeOK
<1>3. Joining'
  BY DEF ListedNext, Joining, Existing, ExistingNext, Gives
<1> QED
  BY <1>1, <1>2, <1>3 DEF ListsInv

\* A handler of the char server that stays within these keeps the invariant.
LEMMA TellingLists ==
  ASSUME TypeInv, ServersInv, ListsInv, TypeInv', NEW s, Telling(s), scrambled \subseteq scrambled',
         \A u \in Char \ missed' : Unmoved(u, s) \/ Moved(u, s) \/ Removed(u, s)
  PROVE  ListsInv'
<1>0. UNCHANGED <<avatar, atChar, inWorld, founded, toChar, list_clan>> /\ missed \subseteq missed'
  BY DEF Telling
<1> DEFINE n == Len(toWorld)
<1>1. ASSUME NEW u \in Char \ missed' PROVE ListedNext(u)
  <2>1. /\ News(u) \subseteq 1..n /\ Changes(u) \subseteq News(u) /\ n \in Nat /\ Len(s) \in Nat
        /\ \A i \in 1..n : toWorld'[i] = toWorld[i]
        /\ News(u)' = News(u) \cup {n + j : j \in {x \in 1..Len(s) : s[x].who = u}}
        /\ Changes(u)' = Changes(u) \cup {n + j : j \in {x \in 1..Len(s) : s[x].who = u /\ s[x].kind # "rank"}}
        /\ \A i \in 1..Len(s) : toWorld'[n + i] = s[i]
    BY NewsAfter
  <2>2. u \notin missed
    BY <1>0
  <2>3. /\ \A i \in Changes(u) : (\A j \in Changes(u) : j <= i) => Placing(u, Gives(toWorld[i]))
        /\ Changes(u) = {} => Placing(u, Belongs(u))
        /\ u \in atChar => Placing(u, client[u].id)
        /\ \A i \in Changes(u) : toWorld[i].kind = "joined" =>
             /\ (\A j \in Changes(u) : i <= j) => Existing(avatar[u].id) = 0
             /\ \A j \in Changes(u) : j < i /\ (\A l \in Changes(u) : l <= j \/ i <= l) =>
                  Existing(Gives(toWorld[j])) = 0
    BY <2>2 DEF ListsInv, Placed, Enlisted, Joining
  <2>4. \A i \in Changes(u) : toWorld'[i] = toWorld[i] /\ i \in 1..n
    BY <2>1
  <2>8. \A x : ExistingNext(x) = Existing(x)
    BY <1>0 DEF ExistingNext, Existing
  <2>5. CASE Unmoved(u, s)
    <3>1. Changes(u)' = Changes(u)
      BY <2>1, <2>5 DEF Unmoved
    <3>2. \A x : Placing(u, x) => NextPlacing(u, x)
      BY <2>5, UnmovedPlacing
    <3>3. client'[u].id = client[u].id
      BY <2>5 DEF Unmoved
    <3>4. Changes(u) = {} => NextPlacing(u, BelongsNext(u))
      <4> SUFFICES ASSUME Changes(u) = {} PROVE NextPlacing(u, BelongsNext(u))
        OBVIOUS
      <4>1. Placing(u, Belongs(u))
        BY <2>3
      <4>2. CASE u \in inWorld
        <5>1. Belongs(u) = avatar[u].id /\ BelongsNext(u) = avatar[u].id
          BY <1>0, <4>2 DEF Belongs, BelongsNext
        <5> QED
          BY <3>2, <4>1, <5>1
      <4>3. CASE u \notin inWorld
        <5>1. Belongs(u) = row[u].id /\ BelongsNext(u) = row'[u].id
          BY <1>0, <4>3 DEF Belongs, BelongsNext
        <5>2. row'[u].id = row[u].id
          BY <2>5, <4>3 DEF Unmoved
        <5> QED
          BY <3>2, <4>1, <5>1, <5>2
      <4> QED
        BY <4>2, <4>3
    <3>5. \A i \in Changes(u) : (\A j \in Changes(u) : j <= i) => NextPlacing(u, Gives(toWorld'[i]))
      BY <2>3, <2>4, <3>2
    <3> QED
      BY <1>0, <2>3, <2>4, <2>8, <3>1, <3>2, <3>3, <3>4, <3>5 DEF ListedNext
  <2>6. CASE Moved(u, s)
    <3>1. PICK m \in 1..Len(s) :
             /\ s[m].who = u /\ \A j \in 1..Len(s) : s[j].who = u => j = m
             /\ s[m].kind # "rank" /\ Gives(s[m]) = client'[u].id
             /\ s[m].kind = "joined" => ~Loaded(client[u].id) /\ Existing(avatar[u].id) = 0
      BY <2>6 DEF Moved
    <3>2. u \in atChar /\ u \in inWorld /\ NextPlacing(u, client'[u].id)
      BY <2>6 DEF Moved
    <3>3. {n + j : j \in {x \in 1..Len(s) : s[x].who = u /\ s[x].kind # "rank"}} = {n + m}
      BY <3>1, Zenon
    <3>4. Changes(u)' = Changes(u) \cup {n + m} /\ toWorld'[n + m] = s[m]
      BY <2>1, <3>1, <3>3
    <3>5. \A i \in Changes(u)' : (\A j \in Changes(u)' : j <= i) => i = n + m
      <4>1. m \in Nat \ {0} /\ Changes(u) \in SUBSET (1..n)
        BY <2>1
      <4> QED
        BY <2>1, <3>4, <4>1, LaterOne
    <3>6. \A i \in Changes(u) : i < n + m
      BY <2>1, <2>4
    <3>7. Known(u)
      BY <2>2, <3>2 DEF Known
    \* What is new comes last, and after a change that took him out of his clan.
    <3>8. s[m].kind = "joined" =>
            /\ Changes(u) = {} => Existing(avatar[u].id) = 0
            /\ \A j \in Changes(u) : (\A l \in Changes(u) : l <= j) => Existing(Gives(toWorld[j])) = 0
      <4> SUFFICES ASSUME s[m].kind = "joined", NEW j \in Changes(u), \A l \in Changes(u) : l <= j,
                          Existing(Gives(toWorld[j])) # 0
                   PROVE  FALSE
        BY <3>1
      <4>1. Existing(Gives(toWorld[j])) = Existing(client[u].id)
        BY <3>2, <3>7 DEF ServersInv, ClanSettles
      <4>2. Gives(toWorld[j]) = client[u].id /\ client[u].id \in list_clan /\ client[u].id # 0
        BY <4>1, NoneExists
      <4>3. toWorld[j].kind = "joined" /\ toWorld[j].arg = client[u].id
        BY <4>2 DEF Gives
      <4> QED
        BY <2>4, <3>1, <4>2, <4>3 DEF ServersInv, Tabled
    <3>9. ASSUME NEW i \in Changes(u)', toWorld'[i].kind = "joined"
          PROVE  /\ (\A j \in Changes(u)' : i <= j) => Existing(avatar[u].id) = 0
                 /\ \A j \in Changes(u)' : j < i /\ (\A l \in Changes(u)' : l <= j \/ i <= l) =>
                      Existing(Gives(toWorld'[j])) = 0
      <4>1. CASE i \in Changes(u)
        <5>1. toWorld[i].kind = "joined"
          BY <2>4, <3>9, <4>1
        <5>2. (\A j \in Changes(u)' : i <= j) => Existing(avatar[u].id) = 0
          BY <2>3, <3>4, <4>1, <5>1
        <5>3. ASSUME NEW j \in Changes(u)', j < i, \A l \in Changes(u)' : l <= j \/ i <= l
              PROVE  Existing(Gives(toWorld'[j])) = 0
          <6>1. j \in Changes(u)
            BY <2>1, <3>4, <3>6, <4>1, <5>3
          <6>2. Existing(Gives(toWorld[j])) = 0
            BY <2>3, <3>4, <4>1, <5>1, <5>3, <6>1
          <6> QED
            BY <2>4, <6>1, <6>2
        <5> QED
          BY <5>2, <5>3
      <4>2. CASE i = n + m
        <5>1. s[m].kind = "joined"
          BY <3>4, <3>9, <4>2
        <5>2. ASSUME \A j \in Changes(u)' : i <= j PROVE Existing(avatar[u].id) = 0
          <6>1. Changes(u) = {}
            <7> SUFFICES ASSUME NEW j \in Changes(u) PROVE FALSE
              OBVIOUS
            <7>1. j \in 1..n /\ n + m <= j
              BY <2>4, <3>4, <4>2, <5>2
            <7> QED
              BY <2>1, <7>1
          <6> QED
            BY <3>8, <5>1, <6>1
        <5>3. ASSUME NEW j \in Changes(u)', j < i, \A l \in Changes(u)' : l <= j \/ i <= l
              PROVE  Existing(Gives(toWorld'[j])) = 0
          <6>1. j \in Changes(u)
            <7>1. j \in Changes(u) \/ j = n + m
              BY <3>4
            <7>2. ~(n + m < n + m)
              BY <2>1
            <7> QED
              BY <4>2, <5>3, <7>1, <7>2
          <6>2. \A l \in Changes(u) : l <= j
            <7> SUFFICES ASSUME NEW l \in Changes(u) PROVE l <= j
              OBVIOUS
            <7>1. l <= j \/ n + m <= l
              BY <3>4, <4>2, <5>3
            <7>2. l \in 1..n
              BY <2>4
            <7> QED
              BY <2>1, <7>1, <7>2
          <6>3. Existing(Gives(toWorld[j])) = 0
            BY <3>8, <5>1, <6>1, <6>2
          <6> QED
            BY <2>4, <6>1, <6>3
        <5> QED
          BY <5>2, <5>3
      <4> QED
        BY <3>4, <4>1, <4>2
    <3>10. Changes(u)' # {}
      BY <3>4
    <3>11. \A i \in Changes(u)' : (\A j \in Changes(u)' : j <= i) => NextPlacing(u, Gives(toWorld'[i]))
      BY <3>1, <3>2, <3>4, <3>5
    <3> QED
      BY <1>0, <2>8, <3>2, <3>9, <3>10, <3>11 DEF ListedNext
  <2>7. CASE Removed(u, s)
    <3>1. News(u) = {}
      BY <2>2, <2>7 DEF Removed, ServersInv, Ranked, News
    <3>2. Changes(u)' = {}
      BY <2>1, <2>7, <3>1 DEF Removed
    <3>3. BelongsNext(u) = 0
      BY <1>0, <2>7 DEF Removed, Belongs, BelongsNext
    <3> QED
      BY <1>0, <2>7, <3>2, <3>3 DEF Removed, ListedNext
  <2> QED
    BY <2>5, <2>6, <2>7
<1> QED
  BY <1>1, ListsNext

\* Who is in a list that can be trusted belongs to its clan.
LEMMA InList ==
  ASSUME TypeInv, NEW k, Loaded(k), k \notin scrambled, NEW u, NEW x, Placing(u, x), u \in Listed(k)
  PROVE  x = k
<1>1. k \in ClanIds /\ Places(k, u) # {}
  BY ListIs
<1> QED
  BY <1>1 DEF Placing

\* Who belongs to a clan is nowhere after his first entry goes from its list.
LEMMA ErasedPlacing ==
  ASSUME TypeInv, NEW k, Loaded(k), NEW n, scrambled' = scrambled,
         clanList' = [clanList EXCEPT ![k] = WithoutFirst(k, n)]
  PROVE  /\ \A u : u # n => \A j \in ClanIds \ scrambled' : Loaded(j)' => Same(j, u)
         /\ Placing(n, k) => NextPlacing(n, 0)
<1>1. /\ \A j \in ClanIds \ {k} : clanList'[j] = clanList[j]
      /\ \A u : u # n => Same(k, u)
      /\ Places(k, n) = {} \/ OnceIn(k, n) => Places(k, n)' = {}
  BY FirstErasedPlaces
<1>2. \A j \in ClanIds \ {k} : \A u : Same(j, u) /\ Places(j, u)' = Places(j, u)
  BY <1>1, OthersSame
<1>3. \A j \in ClanIds : j # 0
  BY DEF ClanIds
<1>4. ASSUME Placing(n, k), NEW j \in ClanIds \ scrambled', Loaded(j)'
      PROVE  Places(j, n)' = {}
  <2>1. CASE j = k
    BY <1>1, <1>4, <2>1 DEF Placing
  <2>2. CASE j # k
    <3>1. Loaded(j)
      BY <1>1, <1>4, <2>2 DEF Loaded
    <3> QED
      BY <1>2, <1>4, <2>2, <3>1 DEF Placing
  <2> QED
    BY <2>1, <2>2
<1>5. Placing(n, k) => NextPlacing(n, 0)
  BY <1>3, <1>4 DEF NextPlacing
<1> QED
  BY <1>1, <1>2, <1>5

\* Who is told once is moved.
LEMMA ToldMoves ==
  ASSUME NEW n \in Char, NEW kind \in {"joined", "kicked"}, NEW arg \in Nat,
         n \in atChar, n \in inWorld, NextPlacing(n, client'[n].id),
         client'[n].id = (IF kind = "joined" THEN arg ELSE 0),
         kind = "joined" => ~Loaded(client[n].id) /\ Existing(avatar[n].id) = 0
  PROVE  Moved(n, Told(n, kind, arg))
<1> DEFINE s == Told(n, kind, arg)
<1>1. 1 \in 1..Len(s) /\ \A i \in 1..Len(s) : i = 1
  BY ToldSays
<1>2. s[1].who = n /\ s[1].kind = kind /\ s[1].arg = arg
  BY <1>1, ToldSays
<1> HIDE DEF s
<1>3. s[1].kind # "rank" /\ Gives(s[1]) = client'[n].id
  BY <1>2 DEF Gives
<1>4. Moved(n, s)
  BY <1>1, <1>2, <1>3 DEF Moved
<1> QED
  BY <1>4 DEF s

\* A member is kicked.
LEMMA KickLists ==
  ASSUME TypeInv, ServersInv, ListsInv, TypeInv', NEW c \in Char, NEW n \in Char, Kick(c, n)
  PROVE  ListsInv'
<1> DEFINE k == client[c].id
           s == Told(n, "kicked", 0)
<1>1. /\ Loaded(k) /\ n \in Listed(k) /\ missed' = missed \cup Unheard(n) \cup Mistaken(k, n)
      /\ clanList' = [clanList EXCEPT ![k] = WithoutFirst(k, n)]
      /\ client' = IF n \in atChar THEN [client EXCEPT ![n] = [id |-> 0, rank |-> 1]] ELSE client
      /\ row' = [row EXCEPT ![n] = [id |-> 0, rank |-> 1]]
      /\ scrambled' = scrambled
  BY DEF Kick, KickedRow
<1>2. Telling(s)
  BY KickServers
<1>3. \A i \in 1..Len(s) : s[i].who = n /\ n \in atChar
  BY ToldSays
<1>4. \A u \in Char \ {n} : client'[u] = client[u] /\ row'[u] = row[u]
  BY <1>1, Pieces
<1>5. row'[n].id = 0 /\ (n \in atChar => client'[n].id = 0)
  BY <1>1, Pieces
<1> HIDE DEF s, k
<1>6. /\ \A u : u # n => \A j \in ClanIds \ scrambled' : Loaded(j)' => Same(j, u)
      /\ Placing(n, k) => NextPlacing(n, 0)
  BY <1>1, ErasedPlacing
<1>7. ASSUME NEW u \in Char \ missed' PROVE Unmoved(u, s) \/ Moved(u, s) \/ Removed(u, s)
  <2>1. CASE u # n
    BY <1>3, <1>4, <1>6, <2>1 DEF Unmoved
  <2>2. CASE u = n
    <3>1. /\ n \notin missed /\ n \in Char /\ k \notin scrambled
          /\ n \in inWorld <=> n \in atChar
      BY <1>1, <1>7, <2>2 DEF Unheard, Mistaken
    <3>2. CASE n \in atChar
      <4>1. Placing(n, client[n].id)
        BY <3>1, <3>2 DEF ListsInv, Enlisted
      <4>2. NextPlacing(n, 0)
        BY <1>1, <1>6, <3>1, <4>1, InList
      <4> QED
        BY <1>5, <2>2, <3>1, <3>2, <4>2, ToldMoves DEF s
    <3>3. CASE n \notin atChar
      <4>1. News(n) = {}
        BY <3>1, <3>3 DEF ServersInv, Ranked, News
      <4>2. Placing(n, Belongs(n))
        BY <3>1, <4>1 DEF ListsInv, Placed, Changes
      <4>3. NextPlacing(n, 0)
        BY <1>1, <1>6, <3>1, <4>2, InList
      <4> QED
        BY <1>3, <1>5, <2>2, <3>1, <3>3, <4>3 DEF Removed
    <3> QED
      BY <3>2, <3>3
  <2> QED
    BY <2>1, <2>2
<1> QED
  BY <1>1, <1>2, <1>7, TellingLists

\* A member leaves.
LEMMA LeaveLists ==
  ASSUME TypeInv, ServersInv, ListsInv, TypeInv', NEW c \in Char, LeaveClan(c)
  PROVE  ListsInv'
<1> DEFINE k == client[c].id
           s == Told(c, "kicked", 0)
<1>1. /\ c \in atChar /\ Loaded(k) /\ missed' = missed \cup Unheard(c)
      /\ clanList' = [clanList EXCEPT ![k] = WithoutFirst(k, c)]
      /\ client' = [client EXCEPT ![c] = [id |-> 0, rank |-> 1]]
      /\ row' = [row EXCEPT ![c] = BooleanRow(row[c], 0)]
      /\ scrambled' = scrambled
  BY DEF LeaveClan
<1>2. Telling(s)
  BY LeaveServers
<1>3. \A i \in 1..Len(s) : s[i].who = c
  BY ToldSays
<1>4. \A u \in Char \ {c} : client'[u] = client[u] /\ row'[u] = row[u]
  BY <1>1, Pieces
<1>5. client'[c].id = 0
  BY <1>1, Pieces
<1> HIDE DEF s
<1>6. /\ \A u : u # c => \A j \in ClanIds \ scrambled' : Loaded(j)' => Same(j, u)
      /\ Placing(c, k) => NextPlacing(c, 0)
  BY <1>1, ErasedPlacing
<1>7. ASSUME NEW u \in Char \ missed' PROVE Unmoved(u, s) \/ Moved(u, s) \/ Removed(u, s)
  <2>1. CASE u # c
    BY <1>3, <1>4, <1>6, <2>1 DEF Unmoved
  <2>2. CASE u = c
    <3>1. c \notin missed /\ c \in inWorld
      BY <1>1, <1>7, <2>2 DEF Unheard
    <3>2. NextPlacing(c, 0)
      BY <1>1, <1>6, <3>1 DEF ListsInv, Enlisted
    <3> QED
      BY <1>1, <1>5, <2>2, <3>1, <3>2, ToldMoves DEF s
  <2> QED
    BY <2>1, <2>2
<1> QED
  BY <1>1, <1>2, <1>7, TellingLists

\* A clan is dissolved with its list.
LEMMA DisorganizeLists ==
  ASSUME TypeInv, ServersInv, ListsInv, TypeInv', NEW c \in Char, Disorganize(c)
  PROVE  ListsInv'
<1>0. PICK k : k = client[c].id
  OBVIOUS
<1>1. /\ c \in atChar /\ Loaded(k)
      /\ clanList' = [clanList EXCEPT ![k] = NoList]
      /\ client' = [client EXCEPT ![c] = [id |-> 0, rank |-> 1]]
      /\ row' = [d \in Char |-> IF row[d].id = k THEN BooleanRow(row[d], 0) ELSE row[d]]
      /\ list_clan' = list_clan \ {k}
      /\ UNCHANGED <<avatar, atChar, inWorld, toWorld, missed, scrambled>>
  BY <1>0 DEF Disorganize
<1>2. clanList'[k] = NoList /\ \A j \in ClanIds \ {k} : clanList'[j] = clanList[j]
  BY <1>1 DEF Loaded, TypeInv, ClanTypeOK
<1>3. client'[c].id = 0 /\ \A u \in Char \ {c} : client'[u] = client[u]
  BY <1>1, Pieces
<1>4. \A u \in Char : row'[u] = row[u] \/ (row'[u].id = 0 /\ row[u].id = k)
  BY <1>1 DEF BooleanRow
<1>5. \A j \in ClanIds : Loaded(j)' => /\ j # k /\ Loaded(j)
                                    /\ \A u : Same(j, u) /\ Places(j, u)' = Places(j, u)
  BY <1>2, OthersSame DEF Loaded
<1>6. \A x : Existing(x) = 0 => ExistingNext(x) = 0
  BY <1>1 DEF Existing, ExistingNext
<1>7. ASSUME NEW u \in Char \ missed' PROVE ListedNext(u)
  <2>1. \A x : Placing(u, x) => NextPlacing(u, x) /\ (x = k => NextPlacing(u, 0))
    BY <1>1, <1>5 DEF Placing, NextPlacing, Same, ClanIds
  <2>2. News(u)' = News(u)
    BY <1>1 DEF News
  <2>3. Changes(u)' = Changes(u)
    BY <1>1, <2>2 DEF Changes
  <2>4. u \in Char \ missed
    BY <1>1
  <2>5. \A i \in Changes(u) : (\A j \in Changes(u) : j <= i) => NextPlacing(u, Gives(toWorld[i]))
    BY <2>1, <2>4 DEF ListsInv, Placed
  <2>6. Changes(u) = {} => NextPlacing(u, BelongsNext(u))
    <3> SUFFICES ASSUME Changes(u) = {} PROVE NextPlacing(u, BelongsNext(u))
      OBVIOUS
    <3>1. Placing(u, Belongs(u))
      BY <2>4 DEF ListsInv, Placed
    <3>2. BelongsNext(u) = Belongs(u) \/ (Belongs(u) = k /\ BelongsNext(u) = 0)
      BY <1>1, <1>4 DEF Belongs, BelongsNext
    <3> QED
      BY <2>1, <3>1, <3>2
  <2>7. u \in atChar => NextPlacing(u, client'[u].id)
    <3> SUFFICES ASSUME u \in atChar PROVE NextPlacing(u, client'[u].id)
      OBVIOUS
    <3>1. Placing(u, client[u].id)
      BY <2>4 DEF ListsInv, Enlisted
    <3>2. client'[u].id = client[u].id \/ (client[u].id = k /\ client'[u].id = 0)
      BY <1>0, <1>3
    <3> QED
      BY <2>1, <3>1, <3>2
  <2>8. \A i \in Changes(u) : toWorld[i].kind = "joined" =>
          /\ (\A j \in Changes(u) : i <= j) => ExistingNext(avatar[u].id) = 0
          /\ \A j \in Changes(u) : j < i /\ (\A l \in Changes(u) : l <= j \/ i <= l) =>
               ExistingNext(Gives(toWorld[j])) = 0
    BY <1>6, <2>4 DEF ListsInv, Joining
  <2> QED
    BY <1>1, <2>3, <2>5, <2>6, <2>7, <2>8 DEF ListedNext
<1> QED
  BY <1>7, ListsNext

\* An invitation is accepted: the list of the clan gets a new entry.
LEMMA AcceptLists ==
  ASSUME TypeInv, ServersInv, ListsInv, TypeInv', NEW d \in Char, NEW c \in Char, Accept(d, c)
  PROVE  ListsInv'
<1>0. PICK k : k = client[c].id
  OBVIOUS
<1>1. /\ d \in atChar /\ d \in inWorld /\ Existing(avatar[d].id) = 0 /\ ~Loaded(client[d].id)
      /\ client' = [client EXCEPT ![d] = [id |-> k, rank |-> 1]]
      /\ row' = [row EXCEPT ![d] = BooleanRow(row[d], k)]
      /\ UNCHANGED scrambled
  BY <1>0 DEF Accept
<1>2. client'[d].id = k /\ k \in Nat
  BY <1>0, <1>1, Pieces, CopyTypes, ClanAssumption
<1>3. \A u \in Char \ {d} : client'[u] = client[u] /\ row'[u] = row[u]
  BY <1>1, Pieces
<1>4. CASE Loaded(k)
  <2> DEFINE s == Told(d, "joined", k)
  <2>1. Telling(s)
    BY <1>0, <1>4, AcceptServers
  <2>2. /\ clanList' = [clanList EXCEPT ![k] = Append(@, [who |-> d, rank |-> 1])]
        /\ missed' = missed
    BY <1>0, <1>4 DEF Accept
  <2>3. 1 \in 1..Len(s) /\ \A i \in 1..Len(s) : s[i].who = d
    BY <1>1, <1>2, ToldSays
  <2>4. 1 \in Ranks
    BY CopyTypes
  <2>5. /\ \A j \in ClanIds \ {k} : clanList'[j] = clanList[j]
        /\ \A u : u # d => Same(k, u)
        /\ Places(k, d) = {} => OnceIn(k, d)'
    BY <1>4, <2>2, <2>4, AppendedPlaces
  <2>6. \A j \in ClanIds \ {k} : \A u : Same(j, u) /\ Places(j, u)' = Places(j, u)
    BY <2>5, OthersSame
  <2> HIDE DEF s
  <2>7. ASSUME NEW u \in Char \ missed' PROVE Unmoved(u, s) \/ Moved(u, s) \/ Removed(u, s)
    <3>1. CASE u # d
      BY <1>3, <2>3, <2>5, <2>6, <3>1 DEF Unmoved
    <3>2. CASE u = d
      <4>1. d \notin missed /\ Placing(d, client[d].id)
        BY <1>1, <2>2, <2>7, <3>2 DEF ListsInv, Enlisted
      <4>2. ASSUME NEW j \in ClanIds \ scrambled', Loaded(j)'
            PROVE  IF j = k THEN OnceIn(j, d)' ELSE Places(j, d)' = {}
        <5>1. j # client[d].id /\ Loaded(j)
          BY <1>1, <1>4, <2>5, <4>2 DEF Loaded
        <5>2. Places(j, d) = {}
          BY <1>1, <4>1, <4>2, <5>1 DEF Placing
        <5>3. CASE j = k
          BY <2>5, <5>2, <5>3
        <5>4. CASE j # k
          BY <2>6, <5>2, <5>4
        <5> QED
          BY <5>3, <5>4
      <4>3. NextPlacing(d, k)
        BY <4>2 DEF NextPlacing
      <4> QED
        BY <1>1, <1>2, <3>2, <4>3, ToldMoves DEF s
    <3> QED
      BY <3>1, <3>2
  <2> QED
    BY <1>1, <2>1, <2>7, TellingLists
<1>5. CASE ~Loaded(k)
  <2>1. Telling(<<>>)
    BY <1>0, <1>5, AcceptServers
  <2>2. clanList' = clanList /\ missed' = missed \cup {d}
    BY <1>0, <1>5 DEF Accept
  <2>3. \A j : \A u : Same(j, u)
    BY <2>2, OthersSame
  <2>4. \A u \in Char \ missed' : Unmoved(u, <<>>)
    BY <1>3, <2>2, <2>3 DEF Unmoved
  <2> QED
    BY <1>1, <2>1, <2>4, TellingLists
<1> QED
  BY <1>4, <1>5

\* A change of rank leaves the clans.
LEMMA RankIds ==
  ASSUME NEW r \in [Char -> Copies], NEW n \in Char, NEW x \in Ranks
  PROVE  SetRank(r, n, x) \in [Char -> Copies] /\ \A u \in Char : SetRank(r, n, x)[u].id = r[u].id
<1>1. /\ SetRank(r, n, x) \in [Char -> Copies]
      /\ SetRank(r, n, x)[n] = [id |-> r[n].id, rank |-> x]
      /\ \A u \in Char \ {n} : SetRank(r, n, x)[u] = r[u]
  BY RankSet
<1>2. SetRank(r, n, x)[n].id = r[n].id
  BY <1>1
<1> QED
  BY <1>1, <1>2

\* A reload after changes of rank.
LEMMA ReloadLists ==
  ASSUME TypeInv, ServersInv, ListsInv, TypeInv', NEW s, Telling(s), NEW k, Loaded(k),
         NEW r \in [Char -> Copies], Reload(k, r),
         \A i \in 1..Len(s) : s[i].kind = "rank",
         \A u \in Char : client'[u].id = client[u].id /\ r[u].id = row[u].id
  PROVE  ListsInv'
<1>1. /\ \A j \in ClanIds \ {k} : clanList'[j] = clanList[j]
      /\ scrambled \subseteq scrambled'
      /\ k \notin scrambled' => \A u : Same(k, u)
  BY ReloadedPlaces
<1>2. row' = r
  BY DEF Reload
<1>3. \A j \in ClanIds \ scrambled' : \A u : Same(j, u)
  BY <1>1, OthersSame
<1>4. \A u \in Char : Unmoved(u, s)
  BY <1>2, <1>3 DEF Unmoved
<1> QED
  BY <1>1, <1>4, TellingLists

\* A member's rank is changed.
LEMMA RankLists ==
  ASSUME TypeInv, ServersInv, ListsInv, TypeInv', NEW c \in Char, NEW n \in Char,
         NEW x \in Ranks, NEW y \in Ranks, ChangeRank(c, n, x, y),
         n \in atChar => y # 0 /\ y = Worldly(x),
         n \notin atChar => (row[n].rank # 0 => y # 0)
  PROVE  ListsInv'
<1> DEFINE s == Told(n, "rank", y)
           k == client[c].id
           r == SetRank(row, n, y)
<1>1. Telling(s)
  BY RankServers
<1>2. \A i \in 1..Len(s) : s[i].kind = "rank"
  <2>1. y \in Nat
    BY DEF Ranks
  <2> QED
    BY <2>1, ToldSays
<1>3. Loaded(k) /\ Reload(k, r) /\ client' = IF n \in atChar THEN SetRank(client, n, x) ELSE client
  BY DEF ChangeRank
<1>4. r \in [Char -> Copies] /\ \A u \in Char : r[u].id = row[u].id
  BY Pieces, RankIds
<1>5. \A u \in Char : SetRank(client, n, x)[u].id = client[u].id
  BY Pieces, RankIds
<1>6. \A u \in Char : client'[u].id = client[u].id
  BY <1>3, <1>5
<1> HIDE DEF s, k, r
<1> QED
  BY <1>1, <1>2, <1>3, <1>4, <1>6, ReloadLists

LEMMA UpLists ==
  ASSUME TypeInv, ServersInv, ListsInv, TypeInv', NEW c \in Char, NEW n \in Char, UpRank(c, n)
  PROVE  ListsInv'
<1> DEFINE x == Raised(RankOf(n))
<1>1. x \in Ranks /\ x # 0 /\ ChangeRank(c, n, x, x)
  BY NewRanks DEF UpRank
<1> HIDE DEF x
<1> QED
  BY <1>1, RankLists DEF Worldly

LEMMA DownLists ==
  ASSUME TypeInv, ServersInv, ListsInv, TypeInv', NEW c \in Char, NEW n \in Char, DownRank(c, n)
  PROVE  ListsInv'
BY Lowered, RankLists

\* Mastership is handed over.
LEMMA GiveLists ==
  ASSUME TypeInv, ServersInv, ListsInv, TypeInv', NEW c \in Char, NEW n \in Char, GiveMaster(c, n)
  PROVE  ListsInv'
<1> DEFINE k   == client[c].id
           mem == IF n \in atChar THEN SetRank(client, n, 6) ELSE client
           s   == Told(n, "rank", 6) \o Told(c, "rank", GiverRank)
           one == SetRank(row, n, 6)
           r   == SetRank(one, c, GiverRank)
<1>1. /\ c # n /\ c \in atChar /\ Loaded(k) /\ client' = SetRank(mem, c, GiverRank) /\ Reload(k, r)
  BY DEF GiveMaster
<1>2. Telling(s)
  BY GiveServers
<1>3. \A i \in 1..Len(s) : s[i].kind = "rank"
  <2>1. /\ Len(s) \in 1..2 /\ s[Len(s)] = [kind |-> "rank", who |-> c, arg |-> 4]
        /\ n \in atChar => Len(s) = 2 /\ s[1] = [kind |-> "rank", who |-> n, arg |-> 6]
        /\ n \notin atChar => Len(s) = 1
    BY <1>1, GiveMail
  <2> HIDE DEF s
  <2> QED
    BY <2>1
<1>4. GiverRank \in Ranks /\ 6 \in Ranks
  BY CopyTypes DEF GiverRank
<1>5. mem \in [Char -> Copies] /\ \A u \in Char : mem[u].id = client[u].id
  <2>1. client \in [Char -> Copies]
    BY Pieces
  <2>2. SetRank(client, n, 6) \in [Char -> Copies] /\ \A u \in Char : SetRank(client, n, 6)[u].id = client[u].id
    BY <1>4, <2>1, RankIds
  <2> QED
    BY <2>1, <2>2
<1>6. one \in [Char -> Copies] /\ \A u \in Char : one[u].id = row[u].id
  BY <1>4, Pieces, RankIds
<1> HIDE DEF mem, one
<1>7. \A u \in Char : client'[u].id = client[u].id
  BY <1>1, <1>4, <1>5, RankIds
<1>8. r \in [Char -> Copies] /\ \A u \in Char : r[u].id = row[u].id
  BY <1>4, <1>6, RankIds
<1> HIDE DEF k, s, r
<1> QED
  BY <1>1, <1>2, <1>3, <1>7, <1>8, ReloadLists

\* Lists that stay place everybody as before.
LEMMA PlacingStays ==
  ASSUME clanList' = clanList, scrambled' = scrambled
  PROVE  \A u, x : Placing(u, x) => NextPlacing(u, x)
<1>1. \A k, u : (Loaded(k)' => Loaded(k)) /\ (OnceIn(k, u) => OnceIn(k, u)') /\ Places(k, u)' = Places(k, u)
  BY DEF Loaded, OnceIn, Places
<1> QED
  BY <1>1 DEF Placing, NextPlacing

\* What there is of the clans that concern a player stays.
Lasting(u) ==
  /\ ExistingNext(avatar[u].id) = Existing(avatar[u].id)
  /\ \A i \in Changes(u) : ExistingNext(Gives(toWorld[i])) = Existing(Gives(toWorld[i]))

LEMMA TableStays ==
  ASSUME list_clan' = list_clan
  PROVE  \A u : Lasting(u)
BY DEF Lasting, Existing, ExistingNext

\* Whoever is not concerned by what happens is placed as he was.
LEMMA ListsOf ==
  ASSUME ListsInv, NEW u \in Char \ missed, toWorld' = toWorld, Lasting(u),
         \A x : Placing(u, x) => NextPlacing(u, x),
         Changes(u) = {} => BelongsNext(u) = Belongs(u),
         u \in atChar' => u \in atChar /\ client'[u].id = client[u].id,
         Changes(u) # {} => avatar'[u] = avatar[u]
  PROVE  ListedNext(u)
<1>1. Changes(u)' = Changes(u)
  BY DEF Changes, News
<1>2. /\ \A i \in Changes(u) : (\A j \in Changes(u) : j <= i) => Placing(u, Gives(toWorld[i]))
      /\ Changes(u) = {} => Placing(u, Belongs(u))
      /\ u \in atChar => Placing(u, client[u].id)
      /\ \A i \in Changes(u) : toWorld[i].kind = "joined" =>
           /\ (\A j \in Changes(u) : i <= j) => Existing(avatar[u].id) = 0
           /\ \A j \in Changes(u) : j < i /\ (\A l \in Changes(u) : l <= j \/ i <= l) =>
                Existing(Gives(toWorld[j])) = 0
  BY DEF ListsInv, Placed, Enlisted, Joining
<1>3. Changes(u)' = {} => NextPlacing(u, BelongsNext(u))
  <2> SUFFICES ASSUME Changes(u) = {} PROVE NextPlacing(u, BelongsNext(u))
    BY <1>1
  <2>1. BelongsNext(u) = Belongs(u) /\ NextPlacing(u, Belongs(u))
    BY <1>2
  <2> QED
    BY <2>1
<1>4. u \in atChar' => NextPlacing(u, client'[u].id)
  BY <1>2
<1> QED
  BY <1>1, <1>2, <1>3, <1>4 DEF ListedNext, Lasting

\* A login takes the clan of the row.
LEMMA RequestLists ==
  ASSUME ServersInv, ListsInv, TypeInv, TypeInv', NEW c \in Char, RequestWorld(c)
  PROVE  ListsInv'
<1>1. /\ atChar' = atChar \cup {c} /\ client' = [client EXCEPT ![c] = row[c]]
      /\ missed' = IF c \in inWorld /\ (row[c] # avatar[c] \/ Pending(c))
                   THEN missed \cup {c} ELSE missed
      /\ UNCHANGED <<row, avatar, inWorld, clanList, list_clan, toWorld, scrambled>>
  BY DEF RequestWorld, tables
<1>2. client'[c] = row[c] /\ \A u \in Char \ {c} : client'[u] = client[u]
  BY <1>1, Pieces
<1>3. /\ \A u, x : Placing(u, x) => NextPlacing(u, x)
      /\ \A u : Lasting(u)
  BY <1>1, PlacingStays, TableStays
<1>4. c \in inWorld /\ c \notin missed' => row[c] = avatar[c] /\ Changes(c) = {}
  <2>1. toWorld \in Seq(Messages)
    BY DEF TypeInv, ClanTypeOK
  <2> QED
    BY <1>1, <2>1, EntriesOf DEF Pending, Changes, News
<1>5. ASSUME NEW u \in Char \ missed' PROVE ListedNext(u)
  <2>1. BelongsNext(u) = Belongs(u) /\ u \in Char \ missed
    BY <1>1, <1>5 DEF Belongs, BelongsNext
  <2>2. CASE u # c
    <3>1. u \in atChar' => u \in atChar /\ client'[u].id = client[u].id
      BY <1>1, <1>2, <2>2
    <3> QED
      BY <1>1, <1>3, <2>1, <3>1, ListsOf
  <2>3. CASE u = c
    <3>1. Changes(c) = {} /\ Changes(c)' = {}
      <4>1. CASE c \in inWorld
        BY <1>1, <1>4, <1>5, <2>3, <4>1 DEF Changes, News
      <4>2. CASE c \notin inWorld
        BY <1>1, <2>1, <2>3, <4>2 DEF ServersInv, Ranked, Changes, News
      <4> QED
        BY <4>1, <4>2
    <3>2. Belongs(c) = row[c].id
      BY <1>4, <1>5, <2>3 DEF Belongs
    <3>3. Placing(c, row[c].id)
      BY <2>1, <2>3, <3>1, <3>2 DEF ListsInv, Placed
    <3> QED
      BY <1>2, <1>3, <2>1, <2>3, <3>1, <3>2, <3>3 DEF ListedNext
  <2> QED
    BY <2>2, <2>3
<1> QED
  BY <1>5, ListsNext

\* The avatar takes it too, or none when the clan has no list.
LEMMA EnterLists ==
  ASSUME ServersInv, ListsInv, TypeInv, TypeInv', NEW c \in Char, EnterWorld(c)
  PROVE  ListsInv'
<1>1. /\ c \notin inWorld /\ inWorld' = inWorld \cup {c}
      /\ UNCHANGED <<row, client, atChar, clanList, list_clan, toWorld, missed, scrambled>>
  BY DEF EnterWorld, tables
<1>2. /\ avatar'[c].id = IF row[c].id \in list_clan THEN row[c].id ELSE 0
      /\ \A u \in Char \ {c} : avatar'[u] = avatar[u]
  BY Pieces DEF EnterWorld, Existing
<1>3. /\ \A u, x : Placing(u, x) => NextPlacing(u, x)
      /\ \A u : Lasting(u)
  BY <1>1, PlacingStays, TableStays
<1>4. \A k \in ClanIds : Loaded(k) => k \in list_clan /\ k # 0
  BY DEF ServersInv, Tabled, ClanIds
<1>5. ASSUME NEW u \in Char \ missed' PROVE ListedNext(u)
  <2>1. u \notin missed
    BY <1>1, <1>5
  <2>2. CASE u # c
    <3>1. BelongsNext(u) = Belongs(u)
      BY <1>1, <1>2, <2>2 DEF Belongs, BelongsNext
    <3> QED
      BY <1>1, <1>2, <1>3, <2>1, <2>2, <3>1, ListsOf
  <2>3. CASE u = c
    <3>1. Changes(c) = {}
      BY <1>1, <2>1, <2>3 DEF ServersInv, Ranked, Changes, News
    <3>2. Placing(c, row[c].id)
      BY <1>1, <2>1, <2>3, <3>1 DEF ListsInv, Placed, Belongs, BelongsNext
    <3>3. row[c].id \notin list_clan => Placing(c, 0)
      BY <1>4, <3>2 DEF Placing
    <3>4. Placing(c, avatar'[c].id)
      BY <1>2, <3>2, <3>3
    <3>5. BelongsNext(c) = avatar'[c].id
      BY <1>1 DEF Belongs, BelongsNext
    <3>6. NextPlacing(c, BelongsNext(c))
      BY <1>3, <3>4, <3>5
    <3>7. c \in atChar => NextPlacing(c, client[c].id)
      BY <1>3, <2>1, <2>3 DEF ListsInv, Enlisted
    <3>8. Changes(c)' = {}
      BY <1>1, <3>1 DEF Changes, News
    <3> QED
      BY <1>1, <2>3, <3>6, <3>7, <3>8 DEF ListedNext
  <2> QED
    BY <2>2, <2>3
<1> QED
  BY <1>5, ListsNext

\* A save writes what the avatar has.
LEMMA SaveLists ==
  ASSUME ServersInv, ListsInv, TypeInv, TypeInv', NEW c \in Char, Save(c)
  PROVE  ListsInv'
<1>1. /\ c \in inWorld
      /\ UNCHANGED <<client, avatar, atChar, inWorld, clanList, list_clan, toWorld, missed, scrambled>>
  BY DEF Save, tables
<1>2. \A u \in Char \ {c} : row'[u] = row[u]
  BY Pieces DEF Save
<1>3. /\ \A u, x : Placing(u, x) => NextPlacing(u, x)
      /\ \A u : Lasting(u)
  BY <1>1, PlacingStays, TableStays
<1>4. \A u \in Char : BelongsNext(u) = Belongs(u)
  BY <1>1, <1>2 DEF Belongs, BelongsNext
<1>5. \A u \in Char \ missed' : ListedNext(u)
  BY <1>1, <1>3, <1>4, ListsOf
<1> QED
  BY <1>5, ListsNext

\* So does the last one, when nothing is under way.
LEMMA LeaveWorldLists ==
  ASSUME ServersInv, ListsInv, TypeInv, TypeInv', NEW c \in Char, LeaveWorld(c)
  PROVE  ListsInv'
<1>1. /\ c \in inWorld /\ inWorld' = inWorld \ {c}
      /\ missed' = IF Pending(c) THEN missed \cup {c} ELSE missed
      /\ UNCHANGED <<client, atChar, clanList, list_clan, toWorld, scrambled>>
  BY DEF LeaveWorld, tables
<1>2. row'[c] = avatar[c] /\ \A u \in Char \ {c} : row'[u] = row[u] /\ avatar'[u] = avatar[u]
  BY Pieces DEF LeaveWorld
<1>3. /\ \A u, x : Placing(u, x) => NextPlacing(u, x)
      /\ \A u : Lasting(u)
  BY <1>1, PlacingStays, TableStays
<1>4. c \notin missed' => Changes(c) = {}
  <2>1. toWorld \in Seq(Messages)
    BY DEF TypeInv, ClanTypeOK
  <2> QED
    BY <1>1, <2>1, EntriesOf DEF Pending, Changes, News
<1>5. \A u \in Char : BelongsNext(u) = Belongs(u)
  BY <1>1, <1>2 DEF Belongs, BelongsNext
<1>6. \A u \in Char \ missed' : u \notin missed /\ (Changes(u) # {} => avatar'[u] = avatar[u])
  BY <1>1, <1>2, <1>4
<1>7. \A u \in Char \ missed' : ListedNext(u)
  BY <1>1, <1>3, <1>5, <1>6, ListsOf
<1> QED
  BY <1>7, ListsNext

LEMMA LeaveCharLists ==
  ASSUME ServersInv, ListsInv, TypeInv, TypeInv', NEW c \in Char, LeaveChar(c)
  PROVE  ListsInv'
<1>1. /\ atChar' = atChar \ {c}
      /\ UNCHANGED <<row, avatar, inWorld, clanList, list_clan, toWorld, missed, scrambled>>
  BY DEF LeaveChar, tables
<1>2. \A u \in Char \ {c} : client'[u] = client[u]
  BY Pieces DEF LeaveChar
<1>3. /\ \A u, x : Placing(u, x) => NextPlacing(u, x)
      /\ \A u : Lasting(u)
  BY <1>1, PlacingStays, TableStays
<1>4. \A u \in Char : BelongsNext(u) = Belongs(u)
  BY <1>1 DEF Belongs, BelongsNext
<1>5. \A u \in Char \ missed' : ListedNext(u)
  BY <1>1, <1>2, <1>3, <1>4, ListsOf
<1> QED
  BY <1>5, ListsNext

\* A new clan has no list yet.
LEMMA CreateLists ==
  ASSUME ServersInv, ListsInv, TypeInv, TypeInv', NEW c \in Char, CreateClan(c)
  PROVE  ListsInv'
<1>1. /\ c \in inWorld /\ avatar[c].id = 0 /\ ~Pending(c) /\ founded' = founded + 1
      /\ list_clan' = list_clan \cup {founded + 1}
      /\ UNCHANGED <<client, atChar, inWorld, clanList, toWorld, missed, scrambled>>
  BY DEF CreateClan
<1>2. avatar'[c].id = founded + 1 /\ \A u \in Char \ {c} : row'[u] = row[u] /\ avatar'[u] = avatar[u]
  BY <1>1, Pieces DEF CreateClan
<1>3. \A u, x : Placing(u, x) => NextPlacing(u, x)
  BY <1>1, PlacingStays
<1>4. Changes(c) = {} /\ Changes(c)' = {}
  <2>1. toWorld \in Seq(Messages)
    BY DEF TypeInv, ClanTypeOK
  <2> QED
    BY <1>1, <2>1, EntriesOf DEF Pending, Changes, News
<1>5. \A k \in ClanIds : Loaded(k) => k # founded + 1 /\ k # 0
  BY LoadedApart, Pieces DEF ServersInv
<1>7. \A u \in Char : Lasting(u)
  <2>1. /\ \A u \in Char : avatar[u].id \in Nat /\ avatar[u].id <= founded
        /\ \A i \in 1..Len(toWorld) : toWorld[i].arg \in Nat /\ (toWorld[i].kind = "joined" => toWorld[i].arg <= founded)
        /\ founded \in Nat
    <3>1. \A u \in Char : avatar[u].id \in Nat
      BY Pieces, CopyTypes, ClanAssumption
    <3>2. \A i \in 1..Len(toWorld) : toWorld[i].arg \in Nat
      BY Pieces DEF Messages
    <3> QED
      BY <3>1, <3>2, Pieces DEF ServersInv, Founded
  <2> QED
    BY <1>1, <2>1 DEF Lasting, Existing, ExistingNext, Gives, Changes, News
<1>6. ASSUME NEW u \in Char \ missed' PROVE ListedNext(u)
  <2>1. u \notin missed
    BY <1>1, <1>6
  <2>2. CASE u # c
    <3>1. BelongsNext(u) = Belongs(u)
      BY <1>1, <1>2, <2>2 DEF Belongs, BelongsNext
    <3> QED
      BY <1>1, <1>2, <1>3, <1>7, <2>1, <2>2, <3>1, ListsOf
  <2>3. CASE u = c
    <3>1. Placing(c, 0)
      BY <1>1, <1>4, <2>1, <2>3 DEF ListsInv, Placed, Belongs, BelongsNext
    <3>2. Placing(c, founded + 1)
      BY <1>5, <3>1 DEF Placing
    <3>3. NextPlacing(c, BelongsNext(c))
      <4>1. BelongsNext(c) = founded + 1
        BY <1>1, <1>2 DEF Belongs, BelongsNext
      <4> QED
        BY <1>3, <3>2, <4>1
    <3>4. c \in atChar => NextPlacing(c, client[c].id)
      BY <1>3, <2>1, <2>3 DEF ListsInv, Enlisted
    <3> QED
      BY <1>1, <1>4, <2>3, <3>3, <3>4 DEF ListedNext
  <2> QED
    BY <2>2, <2>3
<1> QED
  BY <1>6, ListsNext

\* The char server loads it: the list names the founder.
LEMMA LoadLists ==
  ASSUME ServersInv, ListsInv, TypeInv, TypeInv', LoadNewClan
  PROVE  ListsInv'
<1>1. /\ toChar # <<>>
      /\ UNCHANGED <<row, avatar, atChar, inWorld, list_clan, toWorld, missed, scrambled>>
  BY DEF LoadNewClan, tables
<1>2. PICK w, k : w = toChar[1].who /\ k = toChar[1].clan
  OBVIOUS
<1>3. 1 \in 1..Len(toChar) /\ w \in Char /\ k \in ClanIds /\ Head(toChar) = toChar[1]
  BY <1>1, <1>2, HeadOfNews, Pieces
<1>4. \A u \in Char : BelongsNext(u) = Belongs(u)
  BY <1>1 DEF Belongs, BelongsNext
<1>7. \A u : Lasting(u)
  BY <1>1, TableStays
<1>5. CASE w \notin atChar
  <2>1. UNCHANGED <<clanList, client>>
    BY <1>2, <1>3, <1>5 DEF LoadNewClan
  <2>2. \A u, x : Placing(u, x) => NextPlacing(u, x)
    BY <1>1, <2>1, PlacingStays
  <2>3. \A u \in Char \ missed' : ListedNext(u)
    BY <1>1, <1>4, <1>7, <2>1, <2>2, ListsOf
  <2> QED
    BY <2>3, ListsNext
<1>6. CASE w \in atChar
  <2> DEFINE e == [who |-> w, rank |-> 6]
  <2>1. /\ client' = [client EXCEPT ![w] = [id |-> k, rank |-> 6]]
        /\ clanList' = [clanList EXCEPT ![k] = <<e>>]
    BY <1>2, <1>3, <1>6 DEF LoadNewClan
  <2>2. client'[w].id = k /\ \A u \in Char \ {w} : client'[u] = client[u]
    BY <1>3, <2>1, Pieces
  <2>3. clanList'[k] = <<e>> /\ \A j \in ClanIds \ {k} : clanList'[j] = clanList[j]
    BY <1>3, <2>1 DEF TypeInv, ClanTypeOK
  <2>4. e.who = w
    OBVIOUS
  <2> HIDE DEF e
  <2>5. DOMAIN clanList'[k] = {1} /\ clanList'[k][1].who = w
    BY <2>3, <2>4
  <2>6. Places(k, w)' = {1} /\ OnceIn(k, w)' /\ \A u : u # w => Places(k, u)' = {}
    BY <2>5 DEF Places, OnceIn
  <2>7. \A j \in ClanIds \ {k} : \A u : Same(j, u) /\ Places(j, u)' = Places(j, u)
    BY <2>3, OthersSame
  <2>8. \A j \in ClanIds \ {k} : Loaded(j)' => Loaded(j)
    BY <2>3 DEF Loaded
  <2>9. ASSUME NEW u, u # w, NEW x, x # k, Placing(u, x)
        PROVE  NextPlacing(u, x)
    BY <1>1, <2>6, <2>7, <2>8, <2>9 DEF Placing, NextPlacing, Same
  \* The others do not belong to the new clan.
  <2>10. ASSUME NEW u \in Char \ missed', u # w PROVE ListedNext(u)
    <3>1. Changes(u)' = Changes(u) /\ u \notin missed
      BY <1>1, <2>10 DEF Changes, News
    <3>2. client[u].id # k /\ Belongs(u) # k
      BY <1>2, <1>3, <2>10, <3>1 DEF ServersInv, Apart, Belongs, BelongsNext
    <3>3. \A i \in Changes(u) : Gives(toWorld[i]) # k
      <4>1. k # 0
        BY <1>3 DEF ClanIds
      <4> QED
        BY <1>2, <1>3, <4>1 DEF ServersInv, Apart, Gives, Changes, News
    <3>4. /\ \A i \in Changes(u) : (\A j \in Changes(u) : j <= i) => NextPlacing(u, Gives(toWorld[i]))
          /\ Changes(u) = {} => NextPlacing(u, Belongs(u))
          /\ u \in atChar => NextPlacing(u, client[u].id)
      BY <2>9, <2>10, <3>1, <3>2, <3>3 DEF ListsInv, Placed, Enlisted
    <3>5. BelongsNext(u) = Belongs(u)
      BY <1>4
    <3>6. Changes(u) = {} => NextPlacing(u, BelongsNext(u))
      BY <3>4, <3>5
    <3>7. \A i \in Changes(u) : toWorld[i].kind = "joined" =>
            /\ (\A j \in Changes(u) : i <= j) => Existing(avatar[u].id) = 0
            /\ \A j \in Changes(u) : j < i /\ (\A l \in Changes(u) : l <= j \/ i <= l) =>
                 Existing(Gives(toWorld[j])) = 0
      BY <3>1 DEF ListsInv, Joining
    <3> QED
      BY <1>1, <1>7, <2>2, <2>10, <3>1, <3>4, <3>6, <3>7 DEF ListedNext, Lasting
  \* The founder does, and to no other.
  <2>11. ASSUME w \notin missed PROVE ListedNext(w)
    <3>1. w \in inWorld /\ avatar[w].id = k /\ Changes(w) = {}
      <4>1. /\ w \in inWorld /\ avatar[w] = [id |-> k, rank |-> 6]
            /\ \A j \in 1..Len(toWorld) : toWorld[j].who # w
        BY <1>2, <1>3, <2>11 DEF ServersInv, Founders
      <4> QED
        BY <4>1 DEF Changes, News
    <3>2. Placing(w, k)
      BY <1>3, <2>11, <3>1 DEF ListsInv, Placed, Belongs, BelongsNext
    <3>3. NextPlacing(w, k)
      BY <1>1, <2>6, <2>7, <2>8, <3>2 DEF Placing, NextPlacing, Same
    <3>4. Changes(w)' = {}
      BY <1>1, <3>1 DEF Changes, News
    <3>5. BelongsNext(w) = k
      BY <1>1, <3>1 DEF Belongs, BelongsNext
    <3> QED
      BY <2>2, <3>3, <3>4, <3>5 DEF ListedNext
  <2>12. \A u \in Char \ missed' : ListedNext(u)
    BY <1>1, <2>10, <2>11
  <2> QED
    BY <2>12, ListsNext
<1> QED
  BY <1>5, <1>6

\* The world server handles a message.
LEMMA HearLists ==
  ASSUME ServersInv, ListsInv, TypeInv, TypeInv', HearChar
  PROVE  ListsInv'
<1>1. PICK m, w : m = toWorld[1] /\ w = m.who
  OBVIOUS
<1>2. /\ toWorld # <<>> /\ toWorld' = Tail(toWorld)
      /\ avatar' = IF w \in inWorld THEN [avatar EXCEPT ![w] = Heard(m)] ELSE avatar
      /\ missed' = IF w \in inWorld THEN missed ELSE missed \cup {w}
      /\ UNCHANGED <<row, client, atChar, inWorld, clanList, list_clan, scrambled>>
  BY <1>1, HeadOfMail DEF HearChar, tables
<1>3. m \in Messages /\ Sound(m) /\ w \in Char /\ 1 \in 1..Len(toWorld)
  BY <1>1, <1>2, HeadOfMail
<1>4. /\ \A u \in Char \ {w} : avatar'[u] = avatar[u]
      /\ w \in inWorld => avatar'[w] = Heard(m)
      /\ missed \subseteq missed' /\ (w \notin missed' => w \in inWorld)
  BY <1>2, <1>3, Pieces
<1>5. /\ m.kind = "joined" /\ m.arg \in list_clan => Heard(m) = [id |-> m.arg, rank |-> 1]
      /\ m.kind = "joined" /\ m.arg \notin list_clan => Heard(m) = avatar[w]
      /\ m.kind = "rank" => Heard(m) = [id |-> avatar[w].id, rank |-> m.arg]
      /\ m.kind \notin {"joined", "rank"} => Heard(m) = [id |-> 0, rank |-> RankGiven(m)]
  BY <1>1, <1>3, HeardIs
<1>6. \A u, x : Placing(u, x) => NextPlacing(u, x)
  BY <1>2, PlacingStays
<1>8. \A x : ExistingNext(x) = Existing(x)
  BY <1>2 DEF ExistingNext, Existing
<1>7. ASSUME NEW u \in Char \ missed' PROVE ListedNext(u)
  <2>1. /\ \A i \in Changes(u)' : i \in Nat /\ i + 1 \in Changes(u) /\ toWorld'[i] = toWorld[i + 1]
        /\ \A i \in Changes(u) : i = 1 \/ (i \in Nat /\ i - 1 \in Changes(u)')
    BY <1>2, NewsShift
  <2>2. u \notin missed
    BY <1>4, <1>7
  <2>3. /\ \A i \in Changes(u) : (\A j \in Changes(u) : j <= i) => Placing(u, Gives(toWorld[i]))
        /\ Changes(u) = {} => Placing(u, Belongs(u))
        /\ u \in atChar => Placing(u, client[u].id)
        /\ \A i \in Changes(u) : toWorld[i].kind = "joined" =>
             /\ (\A j \in Changes(u) : i <= j) => Existing(avatar[u].id) = 0
             /\ \A j \in Changes(u) : j < i /\ (\A l \in Changes(u) : l <= j \/ i <= l) =>
                  Existing(Gives(toWorld[j])) = 0
    BY <2>2 DEF ListsInv, Placed, Enlisted, Joining
  <2>4. 1 \in Changes(u) <=> u = w /\ m.kind # "rank"
    BY <1>1, <1>3 DEF Changes, News
  <2>5. Changes(u) \subseteq Nat \ {0}
    BY Pieces DEF Changes, News
  \* The last change stays the last.
  <2>6. ASSUME NEW i \in Changes(u)', \A j \in Changes(u)' : j <= i
        PROVE  NextPlacing(u, Gives(toWorld'[i]))
    <3>1. \A j \in Changes(u) : j <= i + 1
      <4> SUFFICES ASSUME NEW j \in Changes(u) PROVE j <= i + 1
        OBVIOUS
      <4>1. i \in Nat /\ (j = 1 \/ (j \in Nat /\ j - 1 <= i))
        BY <2>1, <2>6
      <4> QED
        BY <4>1
    <3> QED
      BY <1>6, <2>1, <2>3, <2>6, <3>1
  \* What the message changes is what it says, unless the clan is gone.
  <2>7. ASSUME Changes(u)' = {} PROVE NextPlacing(u, BelongsNext(u))
    <3>1. Changes(u) \subseteq {1}
      BY <2>1, <2>7
    <3>2. CASE 1 \notin Changes(u)
      <4>1. Placing(u, Belongs(u))
        BY <2>3, <3>1, <3>2
      <4>2. u \in inWorld => avatar'[u].id = avatar[u].id
        <5>1. CASE u # w
          BY <1>4, <5>1
        <5>2. CASE u = w
          <6>1. m.kind = "rank"
            BY <2>4, <3>2, <5>2
          <6> QED
            BY <1>4, <1>5, <5>2, <6>1
        <5> QED
          BY <5>1, <5>2
      <4>3. BelongsNext(u) = Belongs(u)
        BY <1>2, <4>2 DEF Belongs, BelongsNext
      <4> QED
        BY <1>6, <4>1, <4>3
    <3>3. CASE 1 \in Changes(u)
      <4>1. u = w /\ m.kind # "rank" /\ Placing(u, Gives(m)) /\ w \in inWorld
        BY <1>1, <1>4, <1>7, <2>3, <2>4, <3>1, <3>3
      <4>2. BelongsNext(u) = Heard(m).id
        <5>1. BelongsNext(u) = avatar'[w].id
          BY <1>2, <4>1 DEF Belongs, BelongsNext
        <5> QED
          BY <1>4, <4>1, <5>1
      <4>3. Placing(u, Heard(m).id)
        <5>1. CASE m.kind = "joined" /\ m.arg \in list_clan
          BY <1>5, <4>1, <5>1 DEF Gives
        <5>2. CASE m.kind = "joined" /\ m.arg \notin list_clan
          <6>1. Existing(avatar[w].id) = 0 /\ Heard(m) = avatar[w]
            <7>1. 1 \in Changes(u) /\ toWorld[1].kind = "joined" /\ \A j \in Changes(u) : 1 <= j
              BY <1>1, <2>5, <3>3, <5>2
            <7> QED
              BY <1>5, <2>3, <4>1, <5>2, <7>1
          <6>2. \A k \in ClanIds : Loaded(k) => k # m.arg /\ k # Heard(m).id
            BY <5>2, <6>1 DEF ServersInv, Tabled, ClanIds, Existing
          <6> QED
            BY <4>1, <5>2, <6>1, <6>2 DEF Placing, Gives
        <5>3. CASE m.kind # "joined"
          BY <1>5, <4>1, <5>3 DEF Gives
        <5> QED
          BY <5>1, <5>2, <5>3
      <4> QED
        BY <1>6, <4>2, <4>3
    <3> QED
      BY <3>2, <3>3
  <2>8. ASSUME NEW i \in Changes(u)', toWorld'[i].kind = "joined"
        PROVE  /\ (\A j \in Changes(u)' : i <= j) => ExistingNext(avatar'[u].id) = 0
               /\ \A j \in Changes(u)' : j < i /\ (\A l \in Changes(u)' : l <= j \/ i <= l) =>
                    ExistingNext(Gives(toWorld'[j])) = 0
    <3>1. i \in Nat /\ i + 1 \in Changes(u) /\ toWorld[i + 1].kind = "joined"
      BY <2>1, <2>8
    <3>2. ASSUME \A j \in Changes(u)' : i <= j PROVE ExistingNext(avatar'[u].id) = 0
      <4>1. \A j \in Changes(u) : j = 1 \/ i + 1 <= j
        <5> SUFFICES ASSUME NEW j \in Changes(u), j # 1 PROVE i + 1 <= j
          OBVIOUS
        <5>1. j \in Nat /\ i <= j - 1
          BY <2>1, <3>2
        <5> QED
          BY <3>1, <5>1
      <4>2. CASE 1 \notin Changes(u)
        <5>1. Existing(avatar[u].id) = 0
          BY <2>3, <3>1, <4>1, <4>2
        <5>2. u = w => m.kind = "rank" /\ u \in inWorld
          BY <1>4, <1>7, <2>4, <4>2
        <5> QED
          BY <1>4, <1>5, <1>8, <5>1, <5>2
      <4>3. CASE 1 \in Changes(u)
        <5>1. u = w /\ m.kind # "rank" /\ w \in inWorld
          BY <1>4, <1>7, <2>4, <4>3
        <5>2. 1 < i + 1
          BY <2>1, <2>5, <3>1, <3>2, <4>3 DEF Changes, News
        <5>3. Existing(Gives(m)) = 0
          BY <1>1, <2>3, <3>1, <4>1, <4>3, <5>2
        <5>4. CASE m.kind = "joined"
          <6>1. m.arg \notin list_clan
            BY <1>3, <5>3, <5>4 DEF Gives, Sound, ClanIds, Existing
          <6>2. \A j \in Changes(u) : 1 <= j
            BY <2>5
          <6>3. Existing(avatar[u].id) = 0
            BY <1>1, <2>3, <4>3, <5>4, <6>2
          <6> QED
            BY <1>4, <1>5, <1>8, <5>1, <5>4, <6>1, <6>3
        <5>5. CASE m.kind # "joined"
          BY <1>4, <1>5, <1>8, <5>1, <5>5, NoneExists
        <5> QED
          BY <5>4, <5>5
      <4> QED
        BY <4>2, <4>3
    <3>3. ASSUME NEW j \in Changes(u)', j < i, \A l \in Changes(u)' : l <= j \/ i <= l
          PROVE  ExistingNext(Gives(toWorld'[j])) = 0
      <4>1. j \in Nat /\ j + 1 \in Changes(u) /\ toWorld'[j] = toWorld[j + 1]
        BY <2>1
      <4>2. \A l \in Changes(u) : l <= j + 1 \/ i + 1 <= l
        <5> SUFFICES ASSUME NEW l \in Changes(u) PROVE l <= j + 1 \/ i + 1 <= l
          OBVIOUS
        <5>1. l = 1 \/ (l \in Nat /\ (l - 1 <= j \/ i <= l - 1))
          BY <2>1, <3>3
        <5> QED
          BY <3>1, <4>1, <5>1
      <4>3. j + 1 < i + 1
        BY <3>1, <3>3, <4>1
      <4> QED
        BY <1>8, <2>3, <3>1, <4>1, <4>2, <4>3
    <3> QED
      BY <3>2, <3>3
  <2>9. u \in atChar' => NextPlacing(u, client'[u].id)
    BY <1>2, <1>6, <2>3
  <2> QED
    BY <2>6, <2>7, <2>8, <2>9 DEF ListedNext
<1> QED
  BY <1>7, ListsNext

\* What changes none of the copies, lists and messages.
LEMMA SameLists ==
  ASSUME ListsInv, TypeInv',
         UNCHANGED <<row, client, avatar, atChar, inWorld, clanList, list_clan, toWorld, missed,
                     scrambled>>
  PROVE  ListsInv'
<1>1. \A u, x : Placing(u, x) => NextPlacing(u, x)
  BY PlacingStays
<1>4. \A u : Lasting(u)
  BY TableStays
<1>2. \A u \in Char : BelongsNext(u) = Belongs(u)
  BY DEF Belongs, BelongsNext
<1>3. \A u \in Char \ missed' : ListedNext(u)
  BY <1>1, <1>2, <1>4, ListsOf
<1> QED
  BY <1>3, ListsNext

\* Whatever happens keeps the invariant.
LEMMA StepLists ==
  ASSUME TypeInv, ServersInv, ListsInv, [ClanNext]_clanVars
  PROVE  ListsInv'
<1>0. TypeInv'
  BY StepTypes
<1>1. CASE UNCHANGED clanVars
  BY <1>0, <1>1, SameLists DEF clanVars
<1>2. ASSUME NEW c \in Char, NEW d \in Char, Invite(c, d)
      PROVE  ListsInv'
  BY <1>0, <1>2, SameLists DEF Invite, tables
<1>3. CASE ClanNext
  BY <1>0, <1>2, <1>3, LoadLists, HearLists, RequestLists, EnterLists, SaveLists,
     LeaveWorldLists, LeaveCharLists, CreateLists, LeaveLists, DisorganizeLists,
     AcceptLists, KickLists, UpLists, DownLists, GiveLists DEF ClanNext
<1> QED
  BY <1>1, <1>3

LEMMA InitLists == ClanInit => ListsInv
<1> SUFFICES ASSUME ClanInit PROVE ListsInv
  OBVIOUS
<1>1. Len(toWorld) = 0 /\ \A k : ~Loaded(k)
  BY DEF ClanInit, Loaded
<1>2. \A c : Changes(c) = {}
  BY <1>1 DEF Changes, News
<1>3. \A c, x : Placing(c, x)
  BY <1>1 DEF Placing
<1> QED
  BY <1>2, <1>3 DEF ListsInv, Placed, Enlisted, Joining

LEMMA ListsHold == ClanSpec => [](TypeInv /\ ServersInv /\ ListsInv)
<1> DEFINE Inv == TypeInv /\ ServersInv /\ ListsInv
<1>1. ClanInit => Inv
  BY InitTypes, InitServers, InitLists
<1>2. Inv /\ [ClanNext]_clanVars => Inv'
  BY StepTypes, StepServers, StepLists DEF ListsInv
<1> HIDE DEF Inv
<1>3. ClanSpec => []Inv
  BY <1>1, <1>2, PTL DEF ClanSpec
<1> QED
  BY <1>3 DEF Inv

\* When nothing is under way the world server has the clan and the rank of a player
\* that the char server has, a dissolved clan counting as none, in whatever order
\* clans were founded, joined, left and dissolved, ranks given, and players saved,
\* gone and back: unless a message or a write about him was missed (module Clans,
\* WorldAgrees).
THEOREM ServersAgree == ClanSpec => []WorldAgrees
<1>1. TypeInv /\ ServersInv => WorldAgrees
  BY SettledAgrees
<1> QED
  BY <1>1, ListsHold, PTL

\* A connected player is in the list of the clan that the char server has for
\* him, once, and in no other (module Clans, ListedMembers): what the handlers of
\* CharServer do to ClanList is what they do to clanid.
THEOREM MembersListed == ClanSpec => []ListedMembers
<1>1. TypeInv /\ ServersInv /\ ListsInv => ListedMembers
  <2> SUFFICES ASSUME ListsInv, NEW k \in ClanIds \ scrambled, Loaded(k), NEW c \in atChar \ missed
               PROVE  Cardinality({i \in DOMAIN clanList[k] : clanList[k][i].who = c}) =
                        IF client[c].id = k THEN 1 ELSE 0
    BY DEF ListedMembers
  <2>1. Placing(c, client[c].id)
    BY DEF ListsInv, Enlisted
  <2>2. CASE client[c].id = k
    <3>1. PICK i : Places(k, c) = {i}
      BY <2>1, <2>2 DEF Placing, OnceIn
    <3>2. Cardinality({i}) = 1
      BY FS_Singleton
    <3> QED
      BY <2>2, <3>1, <3>2 DEF Places
  <2>3. CASE client[c].id # k
    <3>1. Places(k, c) = {}
      BY <2>1, <2>3 DEF Placing
    <3>2. Cardinality({}) = 0
      BY FS_EmptySet
    <3> QED
      BY <2>3, <3>1, <3>2 DEF Places
  <2> QED
    BY <2>2, <2>3
<1> QED
  BY <1>1, ListsHold, PTL

\* A row that names a loaded clan is in its list, so that a reload after a change
\* of rank has an entry for it and at() does not throw; unless a message about
\* its character is under way, or his avatar has another clan (module Clans,
\* RowsListed).
THEOREM RowsAreListed == ClanSpec => []RowsListed
<1>1. TypeInv /\ ServersInv /\ ListsInv => RowsListed
  <2> SUFFICES ASSUME TypeInv, ListsInv, NEW k \in ClanIds \ scrambled, Loaded(k),
                      NEW c \in RowsOf(k) \ missed, ~Pending(c),
                      c \in inWorld => row[c].id = avatar[c].id
               PROVE  c \in Listed(k)
    BY DEF RowsListed
  <2>1. c \in Char /\ row[c].id = k
    BY DEF RowsOf
  <2>2. Changes(c) = {}
    <3>1. toWorld \in Seq(Messages)
      BY DEF TypeInv, ClanTypeOK
    <3> QED
      BY <3>1, EntriesOf DEF Pending, Changes, News
  <2>3. Placing(c, k)
    <3>1. Belongs(c) = k
      BY <2>1 DEF Belongs
    <3> QED
      BY <2>1, <2>2, <3>1 DEF ListsInv, Placed
  <2>4. Places(k, c) # {}
    BY <2>3 DEF Placing, OnceIn
  <2> QED
    BY <2>4, ListIs
<1> QED
  BY <1>1, ListsHold, PTL

-----------------------------------------------------------------------------
(* The master of a clan. *)

\* Whether c has, or will have when everything under way has been heard, the rank of
\* a master.
Chief(c) ==
  IF c \in atChar THEN client[c].rank = 6
  ELSE IF c \in inWorld
  THEN \/ News(c) = {} /\ avatar[c].rank = 6
       \/ \E i \in News(c) : (\A j \in News(c) : j <= i) /\ RankGiven(toWorld[i]) = 6
  ELSE row[c].rank = 6

Leads(k, c) == Places(k, c) # {} /\ Chief(c)

OneLeads(k) == \E c \in Char : \A d \in Char : Leads(k, d) <=> d = c

\* As long as nobody was missed, one member of a clan is its master.
Chiefs == missed = {} => \A k \in ClanIds \ scrambled : Loaded(k) => OneLeads(k)

\* It is enough that the lists keep their masters.
LEMMA ChiefsNext ==
  ASSUME Chiefs, missed \subseteq missed', scrambled \subseteq scrambled',
         missed' = {} => \A k \in ClanIds \ scrambled' : Loaded(k)' =>
           \/ OneLeads(k)'
           \/ Loaded(k) /\ \A d \in Char : Leads(k, d)' <=> Leads(k, d)
  PROVE  Chiefs'
<1> SUFFICES ASSUME missed' = {}, NEW k \in ClanIds \ scrambled', Loaded(k)' PROVE OneLeads(k)'
  BY DEF Chiefs
<1>1. CASE Loaded(k) /\ \A d \in Char : Leads(k, d)' <=> Leads(k, d)
  <2>1. PICK c \in Char : \A d \in Char : Leads(k, d) <=> d = c
    BY <1>1 DEF Chiefs, OneLeads
  <2> QED
    BY <1>1, <2>1 DEF OneLeads
<1> QED
  BY <1>1

\* Whom a handler of the char server does not concern has the rank he had.
LEMMA TellingChief ==
  ASSUME TypeInv, NEW s, Telling(s), NEW u \in Char, \A i \in 1..Len(s) : s[i].who # u,
         u \in atChar => client'[u].rank = client[u].rank,
         u \notin inWorld => row'[u].rank = row[u].rank
  PROVE  Chief(u)' <=> Chief(u)
<1>1. UNCHANGED <<avatar, atChar, inWorld>>
  BY DEF Telling
<1>2. News(u)' = News(u) /\ \A i \in News(u) : toWorld'[i] = toWorld[i]
  <2>1. /\ News(u) \subseteq 1..Len(toWorld)
        /\ \A i \in 1..Len(toWorld) : toWorld'[i] = toWorld[i]
        /\ News(u)' = News(u) \cup {Len(toWorld) + j : j \in {x \in 1..Len(s) : s[x].who = u}}
    BY NewsAfter
  <2>2. {x \in 1..Len(s) : s[x].who = u} = {}
    OBVIOUS
  <2> QED
    BY <2>1, <2>2
<1> QED
  BY <1>1, <1>2 DEF Chief

\* In the lists that can be trusted, who is at the char server or nowhere is a
\* member of his own clan only.
LEMMA MemberOf ==
  ASSUME TypeInv, ServersInv, ListsInv, NEW c \in Char \ missed, NEW k \in ClanIds \ scrambled, Loaded(k),
         Places(k, c) # {}
  PROVE  /\ OnceIn(k, c)
         /\ c \in atChar => client[c].id = k /\ Known(c)
         /\ c \notin inWorld => row[c].id = k
         /\ Changes(c) = {} => Belongs(c) = k
<1>1. Changes(c) = {} => Belongs(c) = k /\ OnceIn(k, c)
  BY DEF ListsInv, Placed, Placing
<1>2. c \in atChar => client[c].id = k /\ OnceIn(k, c)
  BY DEF ListsInv, Enlisted, Placing
<1>3. c \notin inWorld => Changes(c) = {}
  BY DEF ServersInv, Ranked, Changes, News
<1>4. OnceIn(k, c)
  <2>1. CASE Changes(c) = {}
    BY <1>1, <2>1
  <2>2. CASE Changes(c) # {}
    <3>1. Changes(c) \in SUBSET (1..Len(toWorld)) /\ Len(toWorld) \in Nat
      BY Pieces DEF Changes, News
    <3>2. PICK i \in Changes(c) : \A j \in Changes(c) : j <= i
      BY <2>2, <3>1, GreatestExists
    <3>3. Placing(c, Gives(toWorld[i]))
      BY <3>2 DEF ListsInv, Placed
    <3> QED
      BY <3>3 DEF Placing
  <2> QED
    BY <2>1, <2>2
<1>5. c \in atChar => Known(c)
  BY <1>2 DEF Known
<1>6. c \notin inWorld => row[c].id = k
  BY <1>1, <1>3 DEF Belongs
<1> QED
  BY <1>1, <1>2, <1>4, <1>5, <1>6

\* A member that stays, with the rank he has.
LEMMA SameLeads ==
  ASSUME TypeInv, ServersInv, ListsInv, NEW k \in ClanIds \ scrambled, Loaded(k), NEW u \in Char \ missed,
         Same(k, u), Chief(u)' <=> Chief(u)
  PROVE  Leads(k, u)' <=> Leads(k, u)
<1>1. Places(k, u) # {} => Places(k, u)' # {}
  <2> SUFFICES ASSUME Places(k, u) # {} PROVE Places(k, u)' # {}
    OBVIOUS
  <2>1. OnceIn(k, u)'
    BY MemberOf DEF Same
  <2> QED
    BY <2>1 DEF OnceIn
<1> QED
  BY <1>1 DEF Leads, Same

\* The master is not kicked.
LEMMA KickChiefs ==
  ASSUME TypeInv, ServersInv, ListsInv, Chiefs, TypeInv', NEW c \in Char, NEW n \in Char, Kick(c, n)
  PROVE  Chiefs'
<1> DEFINE s == Told(n, "kicked", 0)
<1>0. PICK k : k = client[c].id
  OBVIOUS
<1>1. /\ Loaded(k) /\ missed' = missed \cup Unheard(n) \cup Mistaken(k, n) /\ Standing(n).rank # 6
      /\ clanList' = [clanList EXCEPT ![k] = WithoutFirst(k, n)]
      /\ client' = IF n \in atChar THEN [client EXCEPT ![n] = [id |-> 0, rank |-> 1]] ELSE client
      /\ row' = [row EXCEPT ![n] = [id |-> 0, rank |-> 1]]
      /\ scrambled' = scrambled
  BY <1>0 DEF Kick, KickedRow
<1>2. Telling(s) /\ UNCHANGED <<atChar, inWorld>>
  BY KickServers DEF Telling
<1>3. \A i \in 1..Len(s) : s[i].who = n
  BY ToldSays
<1>4. \A u \in Char \ {n} : client'[u] = client[u] /\ row'[u] = row[u]
  BY <1>1, Pieces
<1>5. row'[n].rank = 1 /\ (n \in atChar => client'[n].rank = 1)
  BY <1>1, Pieces
<1> HIDE DEF s
<1>6. \A u : u # n => \A j \in ClanIds \ scrambled' : Loaded(j)' => Same(j, u)
  BY <1>1, ErasedPlacing
<1>7. ASSUME missed' = {}, NEW j \in ClanIds \ scrambled', Loaded(j)', NEW u \in Char
      PROVE  Leads(j, u)' <=> Leads(j, u)
  <2>1. Loaded(j) /\ u \notin missed /\ j \notin scrambled
    BY <1>1, <1>2, <1>7 DEF Telling
  <2>2. CASE u # n
    <3>1. Chief(u)' <=> Chief(u)
      BY <1>2, <1>3, <1>4, <2>2, TellingChief
    <3> QED
      BY <1>6, <1>7, <2>1, <2>2, <3>1, SameLeads
  <2>3. CASE u = n
    <3>1. n \in inWorld <=> n \in atChar
      BY <1>1, <1>7 DEF Unheard
    <3>2. ~Chief(n)
      BY <1>1, <3>1 DEF Chief, Standing
    <3>3. ~Chief(n)'
      BY <1>2, <1>5, <3>1 DEF Chief
    <3> QED
      BY <2>3, <3>2, <3>3 DEF Leads
  <2> QED
    BY <2>2, <2>3
<1>8. \A j \in ClanIds : Loaded(j)' => Loaded(j)
  BY <1>2 DEF Telling
<1>9. missed \subseteq missed'
  BY <1>1
<1> QED
  BY <1>1, <1>7, <1>8, <1>9, ChiefsNext

\* He does not leave.
LEMMA LeaveChiefs ==
  ASSUME TypeInv, ServersInv, ListsInv, Chiefs, TypeInv', NEW c \in Char, LeaveClan(c)
  PROVE  Chiefs'
<1> DEFINE s == Told(c, "kicked", 0)
<1>0. PICK k : k = client[c].id
  OBVIOUS
<1>1. /\ Loaded(k) /\ missed' = missed \cup Unheard(c) /\ c \in atChar /\ client[c].rank # 6
      /\ clanList' = [clanList EXCEPT ![k] = WithoutFirst(k, c)]
      /\ client' = [client EXCEPT ![c] = [id |-> 0, rank |-> 1]]
      /\ row' = [row EXCEPT ![c] = BooleanRow(row[c], 0)]
      /\ scrambled' = scrambled
  BY <1>0 DEF LeaveClan
<1>2. Telling(s) /\ UNCHANGED <<atChar, inWorld>>
  BY LeaveServers DEF Telling
<1>3. \A i \in 1..Len(s) : s[i].who = c
  BY ToldSays
<1>4. \A u \in Char \ {c} : client'[u] = client[u] /\ row'[u] = row[u]
  BY <1>1, Pieces
<1>5. client'[c].rank = 1
  BY <1>1, Pieces
<1> HIDE DEF s
<1>6. \A u : u # c => \A j \in ClanIds \ scrambled' : Loaded(j)' => Same(j, u)
  BY <1>1, ErasedPlacing
<1>7. ASSUME missed' = {}, NEW j \in ClanIds \ scrambled', Loaded(j)', NEW u \in Char
      PROVE  Leads(j, u)' <=> Leads(j, u)
  <2>1. Loaded(j) /\ u \notin missed /\ j \notin scrambled
    BY <1>1, <1>2, <1>7 DEF Telling
  <2>2. CASE u # c
    <3>1. Chief(u)' <=> Chief(u)
      BY <1>2, <1>3, <1>4, <2>2, TellingChief
    <3> QED
      BY <1>6, <1>7, <2>1, <2>2, <3>1, SameLeads
  <2>3. CASE u = c
    <3>1. ~Chief(c) /\ ~Chief(c)'
      BY <1>1, <1>2, <1>5 DEF Chief
    <3> QED
      BY <2>3, <3>1 DEF Leads
  <2> QED
    BY <2>2, <2>3
<1>8. \A j \in ClanIds : Loaded(j)' => Loaded(j)
  BY <1>2 DEF Telling
<1>9. missed \subseteq missed'
  BY <1>1
<1> QED
  BY <1>1, <1>7, <1>8, <1>9, ChiefsNext

\* When he dissolves the clan, he is master of no other.
LEMMA DisorganizeChiefs ==
  ASSUME TypeInv, ServersInv, ListsInv, Chiefs, TypeInv', NEW c \in Char, Disorganize(c)
  PROVE  Chiefs'
<1>0. PICK k : k = client[c].id
  OBVIOUS
<1>1. /\ c \in atChar /\ Loaded(k)
      /\ clanList' = [clanList EXCEPT ![k] = NoList]
      /\ client' = [client EXCEPT ![c] = [id |-> 0, rank |-> 1]]
      /\ row' = [d \in Char |-> IF row[d].id = k THEN BooleanRow(row[d], 0) ELSE row[d]]
      /\ UNCHANGED <<avatar, atChar, inWorld, toWorld, missed, scrambled>>
  BY <1>0 DEF Disorganize
<1>2. clanList'[k] = NoList /\ \A j \in ClanIds \ {k} : clanList'[j] = clanList[j]
  BY <1>1 DEF Loaded, TypeInv, ClanTypeOK
<1>3. client'[c].rank = 1 /\ \A u \in Char \ {c} : client'[u] = client[u]
  BY <1>1, Pieces
<1>4. \A u \in Char : row'[u].rank = row[u].rank
  BY <1>1 DEF BooleanRow
<1>5. \A j \in ClanIds : Loaded(j)' => j # k /\ Loaded(j) /\ \A u : Same(j, u)
  BY <1>2, OthersSame DEF Loaded
<1>6. \A u \in Char \ {c} : Chief(u)' <=> Chief(u)
  <2>1. \A u : News(u)' = News(u)
    BY <1>1 DEF News
  <2> QED
    BY <1>1, <1>3, <1>4, <2>1 DEF Chief
<1>7. ASSUME missed' = {}, NEW j \in ClanIds \ scrambled', Loaded(j)', NEW u \in Char
      PROVE  Leads(j, u)' <=> Leads(j, u)
  <2>1. Loaded(j) /\ u \notin missed /\ j \notin scrambled /\ j # k
    BY <1>1, <1>5, <1>7
  <2>2. CASE u # c
    BY <1>5, <1>6, <1>7, <2>1, <2>2, SameLeads
  <2>3. CASE u = c
    <3>1. ~Chief(c)'
      BY <1>1, <1>3 DEF Chief
    <3>2. Places(j, c) = {}
      BY <1>0, <1>1, <2>1, <2>3, MemberOf
    <3> QED
      BY <2>3, <3>1, <3>2 DEF Leads
  <2> QED
    BY <2>2, <2>3
<1> QED
  BY <1>1, <1>5, <1>7, ChiefsNext

\* A new member is not the master.
LEMMA AcceptChiefs ==
  ASSUME TypeInv, ServersInv, ListsInv, Chiefs, TypeInv', NEW d \in Char, NEW c \in Char, Accept(d, c)
  PROVE  Chiefs'
<1>0. PICK k : k = client[c].id
  OBVIOUS
<1>1. /\ d \in atChar /\ ~Loaded(client[d].id)
      /\ client' = [client EXCEPT ![d] = [id |-> k, rank |-> 1]]
      /\ row' = [row EXCEPT ![d] = BooleanRow(row[d], k)]
      /\ missed \subseteq missed'
      /\ UNCHANGED <<atChar, inWorld, scrambled>>
  BY <1>0 DEF Accept
<1>2. k \in Nat
  BY <1>0, Pieces, CopyTypes, ClanAssumption
<1>3. \A u \in Char \ {d} : client'[u] = client[u] /\ row'[u] = row[u]
  BY <1>1, Pieces
<1>4. client'[d].rank = 1
  BY <1>1, Pieces
<1>5. CASE Loaded(k)
  <2> DEFINE s == Told(d, "joined", k)
  <2>1. Telling(s)
    BY <1>0, <1>5, AcceptServers
  <2>2. clanList' = [clanList EXCEPT ![k] = Append(@, [who |-> d, rank |-> 1])]
    BY <1>0, <1>5 DEF Accept
  <2>3. \A i \in 1..Len(s) : s[i].who = d
    BY <1>2, ToldSays
  <2> HIDE DEF s
  <2>4. /\ \A j \in ClanIds \ {k} : clanList'[j] = clanList[j]
        /\ \A u : u # d => Same(k, u)
    <3>1. 1 \in Ranks
      BY CopyTypes
    <3> QED
      BY <1>5, <2>2, <3>1, AppendedPlaces
  <2>5. \A j \in ClanIds : Loaded(j)' => Loaded(j) /\ \A u : u # d => Same(j, u)
    BY <2>1, <2>4, OthersSame DEF Telling
  <2>6. ASSUME missed' = {}, NEW j \in ClanIds \ scrambled', Loaded(j)', NEW u \in Char
        PROVE  Leads(j, u)' <=> Leads(j, u)
    <3>1. Loaded(j) /\ u \notin missed /\ j \notin scrambled /\ j # 0
      BY <1>1, <2>5, <2>6 DEF ClanIds
    <3>2. CASE u # d
      <4>1. Chief(u)' <=> Chief(u)
        BY <1>3, <2>1, <2>3, <3>2, TellingChief
      <4> QED
        BY <2>5, <2>6, <3>1, <3>2, <4>1, SameLeads
    <3>3. CASE u = d
      <4>1. ~Chief(d)'
        BY <1>1, <1>4 DEF Chief
      <4>2. Places(j, d) = {}
        BY <1>1, <3>1, <3>3, MemberOf
      <4> QED
        BY <3>3, <4>1, <4>2 DEF Leads
    <3> QED
      BY <3>2, <3>3
  <2> QED
    BY <1>1, <2>5, <2>6, ChiefsNext
<1>6. CASE ~Loaded(k)
  <2>1. missed' # {}
    BY <1>0, <1>6 DEF Accept
  <2> QED
    BY <2>1 DEF Chiefs
<1> QED
  BY <1>5, <1>6

\* A change of rank that makes nobody master, nor unmakes one.
LEMMA RankChiefs ==
  ASSUME TypeInv, ServersInv, ListsInv, Chiefs, TypeInv', NEW c \in Char, NEW n \in Char,
         NEW x \in Ranks, NEW y \in Ranks, ChangeRank(c, n, x, y),
         n \in atChar => y # 0 /\ y = Worldly(x) /\ (x = 6 <=> client[n].rank = 6),
         n \notin atChar => (row[n].rank # 0 => y # 0) /\ (y = 6 <=> row[n].rank = 6)
  PROVE  Chiefs'
<1> DEFINE s == Told(n, "rank", y)
           r == SetRank(row, n, y)
<1>0. PICK k : k = client[c].id
  OBVIOUS
<1>1. /\ Loaded(k) /\ Reload(k, r) /\ missed' = missed \cup Unheard(n)
      /\ client' = IF n \in atChar THEN SetRank(client, n, x) ELSE client
  BY <1>0 DEF ChangeRank
<1>2. Telling(s) /\ UNCHANGED <<atChar, inWorld>>
  BY RankServers DEF Telling
<1>3. \A i \in 1..Len(s) : s[i].who = n
  <2>1. y \in Nat
    BY DEF Ranks
  <2> QED
    BY <2>1, ToldSays
<1>4. /\ r \in [Char -> Copies] /\ r[n] = [id |-> row[n].id, rank |-> y]
      /\ \A u \in Char \ {n} : r[u] = row[u]
  BY Pieces, RankSet
<1>10. /\ SetRank(client, n, x)[n] = [id |-> client[n].id, rank |-> x]
       /\ \A u \in Char \ {n} : SetRank(client, n, x)[u] = client[u]
  BY Pieces, RankSet
<1>5. row' = r
  BY <1>1 DEF Reload
<1> HIDE DEF s, r
<1>6. /\ \A u \in Char \ {n} : client'[u] = client[u] /\ row'[u] = row[u]
      /\ row'[n].rank = y /\ (n \in atChar => client'[n].rank = x)
  BY <1>1, <1>4, <1>5, <1>10
<1>7. /\ \A j \in ClanIds \ scrambled' : \A u : Same(j, u)
      /\ scrambled \subseteq scrambled'
  BY <1>1, <1>4, ReloadedPlaces, OthersSame
<1>8. ASSUME missed' = {}, NEW j \in ClanIds \ scrambled', Loaded(j)', NEW u \in Char
      PROVE  Leads(j, u)' <=> Leads(j, u)
  <2>1. Loaded(j) /\ u \notin missed /\ j \notin scrambled
    BY <1>2, <1>7, <1>8 DEF Telling
  <2>2. Chief(u)' <=> Chief(u)
    <3>1. CASE u # n
      BY <1>2, <1>3, <1>6, <3>1, TellingChief
    <3>2. CASE u = n
      <4>1. n \in inWorld <=> n \in atChar
        BY <1>1, <1>8 DEF Unheard
      <4> QED
        BY <1>2, <1>6, <3>2, <4>1 DEF Chief
    <3> QED
      BY <3>1, <3>2
  <2> QED
    BY <1>7, <1>8, <2>1, <2>2, SameLeads
<1>9. \A j \in ClanIds : Loaded(j)' => Loaded(j)
  BY <1>2 DEF Telling
<1> QED
  BY <1>1, <1>7, <1>8, <1>9, ChiefsNext

LEMMA UpChiefs ==
  ASSUME TypeInv, ServersInv, ListsInv, Chiefs, TypeInv', NEW c \in Char, NEW n \in Char, UpRank(c, n)
  PROVE  Chiefs'
<1> DEFINE x == Raised(RankOf(n))
<1>1. x \in Ranks /\ x # 0 /\ ChangeRank(c, n, x, x)
  BY NewRanks DEF UpRank
<1>2. RankOf(n) \in 0..6 /\ (x = 6 <=> RankOf(n) = 6)
  BY NewRanks DEF Raised, Ranks
<1>3. n \in atChar => (x = 6 <=> client[n].rank = 6)
  BY <1>2 DEF RankOf
<1>4. n \notin atChar => (x = 6 <=> row[n].rank = 6)
  BY <1>2 DEF RankOf
<1> HIDE DEF x
<1> QED
  BY <1>1, <1>3, <1>4, RankChiefs DEF Worldly

LEMMA DownChiefs ==
  ASSUME TypeInv, ServersInv, ListsInv, Chiefs, TypeInv', NEW c \in Char, NEW n \in Char, DownRank(c, n)
  PROVE  Chiefs'
<1> DEFINE x == IF n \in atChar THEN client[n].rank - 1 ELSE 0
           y == IF RankOf(n) > 1 THEN RankOf(n) - 1 ELSE RankOf(n)
<1>1. ChangeRank(c, n, x, y) /\ (n \in atChar => client[n].rank > 0) /\ RankOf(n) # 6
  BY DEF DownRank
<1>2. client[n].rank \in Ranks /\ RankOf(n) \in Ranks
  BY NewRanks, CopyTypes, Pieces
<1>3. x \in Ranks /\ y \in Ranks /\ x # 6 /\ y # 6
  BY <1>1, <1>2 DEF Ranks
<1>4. n \in atChar => y # 0 /\ y = Worldly(x) /\ client[n].rank # 6
  BY <1>1, <1>2, NewRanks DEF Ranks, Worldly
<1>5. n \notin atChar => (row[n].rank # 0 => y # 0) /\ row[n].rank # 6
  BY <1>1, <1>2, NewRanks DEF Ranks
<1> HIDE DEF x, y
<1> QED
  BY <1>1, <1>3, <1>4, <1>5, RankChiefs

\* Mastership passes from the one to the other.
LEMMA GiveChiefs ==
  ASSUME TypeInv, ServersInv, ListsInv, Chiefs, TypeInv', NEW c \in Char, NEW n \in Char, GiveMaster(c, n)
  PROVE  Chiefs'
<1> DEFINE mem == IF n \in atChar THEN SetRank(client, n, 6) ELSE client
           s   == Told(n, "rank", 6) \o Told(c, "rank", GiverRank)
           one == SetRank(row, n, 6)
           r   == SetRank(one, c, GiverRank)
<1>0. PICK k : k = client[c].id
  OBVIOUS
<1>1. /\ c # n /\ c \in atChar /\ client[c].rank = 6 /\ Loaded(k) /\ n \in Listed(k)
      /\ client' = SetRank(mem, c, GiverRank) /\ Reload(k, r)
      /\ missed' = missed \cup Unheard(n) \cup Unheard(c) \cup Mistaken(k, n)
  BY <1>0 DEF GiveMaster
<1>2. Telling(s) /\ UNCHANGED <<atChar, inWorld>>
  BY GiveServers DEF Telling
<1>3. GiverRank \in Ranks /\ 6 \in Ranks /\ GiverRank = 4
  BY CopyTypes DEF GiverRank
<1>4. /\ mem \in [Char -> Copies] /\ \A u \in Char \ {n} : mem[u] = client[u]
      /\ mem[n] = IF n \in atChar THEN [id |-> client[n].id, rank |-> 6] ELSE client[n]
  BY <1>3, Pieces, RankSet
<1>5. /\ one \in [Char -> Copies] /\ \A u \in Char \ {n} : one[u] = row[u]
      /\ one[n] = [id |-> row[n].id, rank |-> 6]
  BY <1>3, Pieces, RankSet
<1>6. \A i \in 1..Len(s) : s[i].who \in {c, n}
  <2>1. /\ Len(s) \in 1..2 /\ s[Len(s)] = [kind |-> "rank", who |-> c, arg |-> 4]
        /\ n \in atChar => Len(s) = 2 /\ s[1] = [kind |-> "rank", who |-> n, arg |-> 6]
        /\ n \notin atChar => Len(s) = 1
    BY <1>1, GiveMail
  <2> HIDE DEF s
  <2> QED
    BY <2>1
<1> HIDE DEF mem, one, s
<1>7. /\ \A u \in Char \ {c, n} : client'[u] = client[u]
      /\ client'[c] = [id |-> client[c].id, rank |-> 4]
      /\ client'[n] = IF n \in atChar THEN [id |-> client[n].id, rank |-> 6] ELSE client[n]
  BY <1>1, <1>3, <1>4, RankSet
<1>8. /\ r \in [Char -> Copies] /\ \A u \in Char \ {c, n} : r[u] = row[u]
      /\ r[c] = [id |-> row[c].id, rank |-> 4] /\ r[n] = [id |-> row[n].id, rank |-> 6]
  BY <1>1, <1>3, <1>5, RankSet
<1> HIDE DEF r
<1>9. row' = r
  BY <1>1 DEF Reload
<1>10. /\ \A j \in ClanIds \ scrambled' : \A u : Same(j, u)
       /\ scrambled \subseteq scrambled'
  BY <1>1, <1>8, ReloadedPlaces, OthersSame
<1>11. \A j \in ClanIds : Loaded(j)' => Loaded(j)
  BY <1>2 DEF Telling
\* Whom it does not concern.
<1>12. ASSUME missed' = {}, NEW j \in ClanIds \ scrambled', Loaded(j)', NEW u \in Char \ {c, n}
       PROVE  Leads(j, u)' <=> Leads(j, u)
  <2>1. Chief(u)' <=> Chief(u)
    BY <1>2, <1>6, <1>7, <1>8, <1>9, TellingChief
  <2> QED
    BY <1>1, <1>10, <1>11, <1>12, <2>1, SameLeads
\* Both are in the list, and were, if it can be trusted.
<1>13. ASSUME missed' = {}
       PROVE  /\ k \in ClanIds \ scrambled /\ missed = {}
              /\ n \in inWorld <=> n \in atChar
              /\ Places(k, c) # {} /\ Places(k, n) # {}
  <2>1. k \in ClanIds \ scrambled /\ missed = {} /\ (n \in inWorld <=> n \in atChar)
    BY <1>1, <1>13 DEF Unheard, Mistaken, Loaded
  <2>2. Places(k, n) # {}
    BY <1>1, ListIs
  <2>3. Placing(c, k)
    BY <1>0, <1>1, <2>1 DEF ListsInv, Enlisted
  <2> QED
    BY <1>1, <2>1, <2>2, <2>3 DEF Placing, OnceIn
\* Neither is in another.
<1>14. ASSUME missed' = {}, NEW j \in ClanIds \ scrambled', Loaded(j)', j # k, NEW u \in {c, n}
       PROVE  Leads(j, u)' <=> Leads(j, u)
  <2>1. Loaded(j) /\ j \notin scrambled /\ u \in Char \ missed
    BY <1>10, <1>11, <1>13, <1>14
  <2>2. Places(j, u) = {}
    BY <1>1, <1>13, <1>14, <2>1, MemberOf
  <2>3. Places(j, u)' = {}
    BY <1>10, <1>14, <2>2 DEF Same
  <2> QED
    BY <2>2, <2>3 DEF Leads
<1>15. ASSUME missed' = {}, k \in ClanIds \ scrambled', Loaded(k)'
       PROVE  OneLeads(k)'
  <2>1. PICK d \in Char : \A e \in Char : Leads(k, e) <=> e = d
    BY <1>1, <1>13, <1>15 DEF Chiefs, OneLeads
  <2>2. d = c
    BY <1>1, <1>13, <1>15, <2>1 DEF Leads, Chief
  <2>3. \A u \in Char \ {c, n} : ~Leads(k, u)'
    BY <1>12, <1>15, <2>1, <2>2
  <2>4. ~Leads(k, c)'
    BY <1>1, <1>2, <1>7 DEF Leads, Chief
  <2>5. Leads(k, n)'
    <3>1. Chief(n)'
      BY <1>2, <1>7, <1>8, <1>9, <1>13, <1>15 DEF Chief
    <3>2. OnceIn(k, n)
      BY <1>1, <1>13, <1>15, MemberOf
    <3>3. OnceIn(k, n)'
      BY <1>10, <1>15, <3>2 DEF Same
    <3> QED
      BY <3>1, <3>3 DEF Leads, OnceIn
  <2> QED
    BY <2>3, <2>4, <2>5 DEF OneLeads
<1>16. ASSUME missed' = {}, NEW j \in ClanIds \ scrambled', Loaded(j)'
       PROVE  OneLeads(j)' \/ (Loaded(j) /\ \A u \in Char : Leads(j, u)' <=> Leads(j, u))
  <2>1. CASE j = k
    BY <1>15, <1>16, <2>1
  <2>2. CASE j # k
    BY <1>11, <1>12, <1>14, <1>16, <2>2
  <2> QED
    BY <2>1, <2>2
<1> QED
  BY <1>1, <1>10, <1>16, ChiefsNext

\* While the lists stay, it is enough that their members are chiefs as before.
LEMMA StayChiefs ==
  ASSUME Chiefs, missed \subseteq missed', UNCHANGED <<clanList, scrambled>>,
         missed' = {} => \A k \in ClanIds \ scrambled : Loaded(k) =>
           \A u \in Char : Places(k, u) # {} => (Chief(u)' <=> Chief(u))
  PROVE  Chiefs'
<1>1. ASSUME missed' = {}, NEW k \in ClanIds \ scrambled', Loaded(k)'
      PROVE  Loaded(k) /\ \A u \in Char : Leads(k, u)' <=> Leads(k, u)
  <2>1. Loaded(k) /\ k \in ClanIds \ scrambled /\ \A u : Places(k, u)' = Places(k, u)
    BY <1>1 DEF Loaded, Places
  <2> QED
    BY <1>1, <2>1 DEF Leads
<1> QED
  BY <1>1, ChiefsNext

\* Who is where he was, with the rank he had.
LEMMA SameChief ==
  ASSUME NEW u, toWorld' = toWorld, u \in atChar' <=> u \in atChar, u \in inWorld' <=> u \in inWorld,
         u \in atChar => client'[u] = client[u],
         u \in inWorld => avatar'[u] = avatar[u],
         u \notin inWorld => row'[u] = row[u]
  PROVE  Chief(u)' <=> Chief(u)
<1>1. News(u)' = News(u)
  BY DEF News
<1> QED
  BY <1>1 DEF Chief

\* Logins, saves and departures keep the masters.
LEMMA RequestChiefs ==
  ASSUME TypeInv, Chiefs, NEW c \in Char, RequestWorld(c)
  PROVE  Chiefs'
<1>1. /\ c \notin atChar /\ atChar' = atChar \cup {c}
      /\ client' = [client EXCEPT ![c] = row[c]]
      /\ missed' = IF c \in inWorld /\ (row[c] # avatar[c] \/ Pending(c))
                   THEN missed \cup {c} ELSE missed
      /\ UNCHANGED <<row, avatar, inWorld, clanList, toWorld, scrambled>>
  BY DEF RequestWorld
<1>2. client'[c] = row[c] /\ \A u \in Char \ {c} : client'[u] = client[u]
  BY <1>1, Pieces
<1>3. \A u \in Char \ {c} : Chief(u)' <=> Chief(u)
  BY <1>1, <1>2, SameChief
\* An older avatar, to which nothing is under way, has the rank of the row.
<1>4. missed' = {} => (Chief(c)' <=> Chief(c))
  <2> SUFFICES ASSUME missed' = {} PROVE Chief(c)' <=> Chief(c)
    OBVIOUS
  <2>1. CASE c \in inWorld
    <3>1. row[c] = avatar[c] /\ ~Pending(c) /\ toWorld \in Seq(Messages)
      BY <1>1, <2>1 DEF TypeInv, ClanTypeOK
    <3>2. News(c) = {}
      BY <3>1, EntriesOf DEF Pending, News
    <3> QED
      BY <1>1, <1>2, <2>1, <3>1, <3>2 DEF Chief
  <2>2. CASE c \notin inWorld
    BY <1>1, <1>2, <2>2 DEF Chief
  <2> QED
    BY <2>1, <2>2
<1>5. missed \subseteq missed'
  BY <1>1
<1> QED
  BY <1>1, <1>3, <1>4, <1>5, StayChiefs

LEMMA EnterChiefs ==
  ASSUME TypeInv, Chiefs, NEW c \in Char, EnterWorld(c)
  PROVE  Chiefs'
<1>1. /\ c \in atChar /\ c \notin inWorld /\ inWorld' = inWorld \cup {c}
      /\ \A u \in Char \ {c} : avatar'[u] = avatar[u]
      /\ UNCHANGED <<row, client, atChar, clanList, toWorld, missed, scrambled>>
  BY Pieces DEF EnterWorld
<1>2. \A u \in Char \ {c} : Chief(u)' <=> Chief(u)
  BY <1>1, SameChief
<1>3. Chief(c)' <=> Chief(c)
  BY <1>1 DEF Chief
<1> QED
  BY <1>1, <1>2, <1>3, StayChiefs

LEMMA SaveChiefs ==
  ASSUME TypeInv, Chiefs, NEW c \in Char, Save(c)
  PROVE  Chiefs'
<1>1. /\ c \in inWorld /\ \A u \in Char \ {c} : row'[u] = row[u]
      /\ UNCHANGED <<client, avatar, atChar, inWorld, clanList, toWorld, missed, scrambled>>
  BY Pieces DEF Save
<1>2. \A u \in Char : Chief(u)' <=> Chief(u)
  BY <1>1, SameChief
<1> QED
  BY <1>1, <1>2, StayChiefs

\* An avatar without a client is saved with the rank it has.
LEMMA LeaveWorldChiefs ==
  ASSUME TypeInv, Chiefs, NEW c \in Char, LeaveWorld(c)
  PROVE  Chiefs'
<1>1. /\ c \in inWorld /\ inWorld' = inWorld \ {c}
      /\ row' = [row EXCEPT ![c] = avatar[c]]
      /\ \A u \in Char \ {c} : avatar'[u] = avatar[u]
      /\ missed' = IF Pending(c) THEN missed \cup {c} ELSE missed
      /\ UNCHANGED <<client, atChar, clanList, toWorld, scrambled>>
  BY Pieces DEF LeaveWorld
<1>2. row'[c] = avatar[c] /\ \A u \in Char \ {c} : row'[u] = row[u]
  BY <1>1, Pieces
<1>3. \A u \in Char \ {c} : Chief(u)' <=> Chief(u)
  BY <1>1, <1>2, SameChief
<1>4. missed' = {} => (Chief(c)' <=> Chief(c))
  <2> SUFFICES ASSUME missed' = {} PROVE Chief(c)' <=> Chief(c)
    OBVIOUS
  <2>1. News(c) = {}
    <3>1. ~Pending(c) /\ toWorld \in Seq(Messages)
      BY <1>1 DEF TypeInv, ClanTypeOK
    <3> QED
      BY <3>1, EntriesOf DEF Pending, News
  <2> QED
    BY <1>1, <1>2, <2>1 DEF Chief
<1>5. missed \subseteq missed'
  BY <1>1
<1> QED
  BY <1>1, <1>3, <1>4, <1>5, StayChiefs

\* When a client goes, the world server knows the rank, or will.
LEMMA LeaveCharChiefs ==
  ASSUME TypeInv, ServersInv, ListsInv, Chiefs, NEW c \in Char, LeaveChar(c)
  PROVE  Chiefs'
<1>1. /\ c \in atChar /\ atChar' = atChar \ {c}
      /\ \A u \in Char \ {c} : client'[u] = client[u]
      /\ UNCHANGED <<row, avatar, inWorld, clanList, toWorld, missed, scrambled>>
  BY Pieces DEF LeaveChar
<1>2. \A u \in Char \ {c} : Chief(u)' <=> Chief(u)
  BY <1>1, SameChief
<1>3. ASSUME missed' = {}, NEW k \in ClanIds \ scrambled, Loaded(k), Places(k, c) # {}
      PROVE  Chief(c)' <=> Chief(c)
  <2>1. c \notin missed /\ client[c].id = k /\ Known(c) /\ k # 0
    BY <1>1, <1>3, MemberOf DEF ClanIds
  <2>2. Existing(client[c].id) # 0
    BY <1>3, <2>1 DEF ServersInv, Tabled, Existing
  <2>3. Worldly(client[c].rank) = 6 <=> client[c].rank = 6
    BY DEF Worldly
  <2>4. News(c)' = News(c)
    BY <1>1 DEF News
  <2>5. CASE c \in inWorld
    <3>1. /\ \A i \in News(c) : (\A j \in News(c) : j <= i) =>
               RankGiven(toWorld[i]) = Worldly(client[c].rank)
          /\ News(c) = {} => avatar[c].rank = Worldly(client[c].rank)
      BY <2>1, <2>5, <2>2 DEF ServersInv, RankSettles
    <3>2. CASE News(c) = {}
      BY <1>1, <2>3, <2>4, <2>5, <3>1, <3>2 DEF Chief
    <3>3. CASE News(c) # {}
      <4>1. News(c) \in SUBSET (1..Len(toWorld)) /\ Len(toWorld) \in Nat
        BY Pieces DEF News
      <4>2. PICK i \in News(c) : \A j \in News(c) : j <= i
        BY <3>3, <4>1, GreatestExists
      <4> QED
        BY <1>1, <2>3, <2>4, <2>5, <3>1, <3>3, <4>2 DEF Chief
    <3> QED
      BY <3>2, <3>3
  <2>6. CASE c \notin inWorld
    <3>1. row[c].rank = Worldly(client[c].rank)
      BY <2>1, <2>6, <2>2 DEF ServersInv, Waiting
    <3> QED
      BY <1>1, <2>3, <2>6, <3>1 DEF Chief
  <2> QED
    BY <2>5, <2>6
<1> QED
  BY <1>1, <1>2, <1>3, StayChiefs

\* A founder was in no list, and is master of the new clan.
LEMMA CreateChiefs ==
  ASSUME TypeInv, ServersInv, ListsInv, Chiefs, NEW c \in Char, CreateClan(c)
  PROVE  Chiefs'
<1>1. /\ c \in inWorld /\ avatar[c].id = 0 /\ ~Pending(c)
      /\ \A u \in Char \ {c} : row'[u] = row[u] /\ avatar'[u] = avatar[u]
      /\ UNCHANGED <<client, atChar, inWorld, clanList, toWorld, missed, scrambled>>
  BY Pieces DEF CreateClan
<1>2. \A u \in Char \ {c} : Chief(u)' <=> Chief(u)
  BY <1>1, SameChief
<1>3. Changes(c) = {}
  <2>1. toWorld \in Seq(Messages)
    BY DEF TypeInv, ClanTypeOK
  <2> QED
    BY <1>1, <2>1, EntriesOf DEF Pending, Changes, News
<1>4. ASSUME missed' = {}, NEW k \in ClanIds \ scrambled, Loaded(k) PROVE Places(k, c) = {}
  BY <1>1, <1>3, <1>4, MemberOf DEF Belongs, ClanIds
<1> QED
  BY <1>1, <1>2, <1>4, StayChiefs

LEMMA LoadChiefs ==
  ASSUME TypeInv, ServersInv, ListsInv, Chiefs, LoadNewClan
  PROVE  Chiefs'
<1>1. /\ toChar # <<>>
      /\ UNCHANGED <<row, avatar, atChar, inWorld, toWorld, missed, scrambled>>
  BY DEF LoadNewClan
<1>2. PICK w, k : w = toChar[1].who /\ k = toChar[1].clan
  OBVIOUS
<1>3. 1 \in 1..Len(toChar) /\ w \in Char /\ k \in ClanIds /\ Head(toChar) = toChar[1]
  BY <1>1, <1>2, HeadOfNews, Pieces
<1>4. CASE w \notin atChar
  <2>1. UNCHANGED <<clanList, client>>
    BY <1>2, <1>3, <1>4 DEF LoadNewClan
  <2>2. \A u \in Char : Chief(u)' <=> Chief(u)
    BY <1>1, <2>1, SameChief
  <2> QED
    BY <1>1, <2>1, <2>2, StayChiefs
<1>5. CASE w \in atChar
  <2> DEFINE e == [who |-> w, rank |-> 6]
  <2>1. /\ client' = [client EXCEPT ![w] = [id |-> k, rank |-> 6]]
        /\ clanList' = [clanList EXCEPT ![k] = <<e>>]
    BY <1>2, <1>3, <1>5 DEF LoadNewClan
  <2>2. client'[w].rank = 6 /\ \A u \in Char \ {w} : client'[u] = client[u]
    BY <1>3, <2>1, Pieces
  <2>3. clanList'[k] = <<e>> /\ \A j \in ClanIds \ {k} : clanList'[j] = clanList[j]
    BY <1>3, <2>1 DEF TypeInv, ClanTypeOK
  <2>4. e.who = w
    OBVIOUS
  <2> HIDE DEF e
  <2>5. DOMAIN clanList'[k] = {1} /\ clanList'[k][1].who = w
    BY <2>3, <2>4
  <2>6. Places(k, w)' = {1} /\ \A u : u # w => Places(k, u)' = {}
    BY <2>5 DEF Places
  <2>7. OneLeads(k)'
    <3>1. Chief(w)'
      BY <1>1, <1>5, <2>2 DEF Chief
    <3> QED
      BY <1>3, <2>6, <3>1 DEF OneLeads, Leads
  <2>8. ASSUME missed' = {}, NEW j \in ClanIds \ scrambled', Loaded(j)', j # k
        PROVE  Loaded(j) /\ \A u \in Char : Leads(j, u)' <=> Leads(j, u)
    <3>1. Loaded(j) /\ j \in ClanIds \ scrambled /\ j # 0 /\ \A u : Places(j, u)' = Places(j, u)
      BY <1>1, <2>3, <2>8, OthersSame DEF Loaded, ClanIds
    <3>2. \A u \in Char \ {w} : Chief(u)' <=> Chief(u)
      BY <1>1, <2>2, SameChief
    <3>3. Places(j, w) = {}
      <4>1. ~Loaded(client[w].id)
        BY <1>1, <1>2, <1>3, <2>8 DEF ServersInv, Founders
      <4> QED
        BY <1>1, <1>3, <1>5, <2>8, <3>1, <4>1, MemberOf
    <3> QED
      BY <3>1, <3>2, <3>3 DEF Leads
  <2> QED
    BY <1>1, <2>7, <2>8, ChiefsNext
<1> QED
  BY <1>4, <1>5

\* The world server gives the rank it was told, and the last rank it is told stays.
LEMMA HearChiefs ==
  ASSUME TypeInv, ServersInv, ListsInv, Chiefs, HearChar
  PROVE  Chiefs'
<1>1. PICK m, w : m = toWorld[1] /\ w = m.who
  OBVIOUS
<1>2. /\ toWorld # <<>> /\ toWorld' = Tail(toWorld)
      /\ avatar' = IF w \in inWorld THEN [avatar EXCEPT ![w] = Heard(m)] ELSE avatar
      /\ missed' = IF w \in inWorld THEN missed ELSE missed \cup {w}
      /\ UNCHANGED <<row, client, atChar, inWorld, clanList, scrambled>>
  BY <1>1, HeadOfMail DEF HearChar
<1>3. m \in Messages /\ Sound(m) /\ w \in Char /\ 1 \in News(w)
  BY <1>1, <1>2, HeadOfMail DEF News
<1>4. /\ \A u \in Char \ {w} : avatar'[u] = avatar[u]
      /\ w \in inWorld => avatar'[w] = Heard(m)
      /\ missed \subseteq missed' /\ (missed' = {} => w \in inWorld)
  BY <1>2, <1>3, Pieces
<1>5. ASSUME missed' = {}, NEW k \in ClanIds \ scrambled, Loaded(k), NEW u \in Char, Places(k, u) # {}
      PROVE  Chief(u)' <=> Chief(u)
  <2>1. CASE u \in atChar \/ u \notin inWorld
    BY <1>2, <2>1 DEF Chief
  <2>2. CASE u \notin atChar /\ u \in inWorld /\ News(u)' # {}
    <3>1. News(u) \in SUBSET Nat /\ News(u)' \in SUBSET (1..Len(toWorld')) /\ Len(toWorld') \in Nat
      <4>1. toWorld' \in Seq(Messages) /\ Len(toWorld) \in Nat
        BY <1>2, HeadOfMail, Pieces
      <4> QED
        BY <4>1 DEF News
    <3>2. PICK l \in News(u)' : \A j \in News(u)' : j <= l
      BY <2>2, <3>1, GreatestExists
    <3>3. l \in Nat /\ l + 1 \in News(u) /\ toWorld'[l] = toWorld[l + 1]
      BY <1>2, <3>2, NewsShift
    <3>4. \A i \in News(u) : i <= l + 1
      <4>1. \A i \in News(u) : i = 1 \/ i - 1 \in News(u)'
        BY <1>2, NewsShift
      <4>2. News(u)' \in SUBSET Nat
        BY <3>1
      <4> QED
        BY <3>1, <3>2, <4>1, <4>2, LastShift
    <3>5. Chief(u)' <=> RankGiven(toWorld'[l]) = 6
      <4>1. \A i \in News(u)' : (\A j \in News(u)' : j <= i) => i = l
        BY <3>1, <3>2
      <4> QED
        BY <1>2, <2>2, <3>2, <4>1 DEF Chief
    <3>6. Chief(u) <=> RankGiven(toWorld[l + 1]) = 6
      <4>1. \A i \in News(u) : (\A j \in News(u) : j <= i) => i = l + 1
        BY <3>1, <3>3, <3>4
      <4> QED
        BY <2>2, <3>3, <3>4, <4>1 DEF Chief
    <3> QED
      BY <3>3, <3>5, <3>6
  <2>3. CASE u \notin atChar /\ u \in inWorld /\ News(u)' = {} /\ u # w
    <3>1. News(u) = {}
      <4>1. 1 \notin News(u)
        BY <1>1, <2>3 DEF News
      <4> QED
        BY <1>2, <2>3, <4>1, NewsShift
    <3> QED
      BY <1>2, <1>4, <2>3, <3>1 DEF Chief
  <2>4. CASE u \notin atChar /\ u \in inWorld /\ News(u)' = {} /\ u = w
    <3>1. News(w) = {1}
      BY <1>2, <1>3, <2>4, NewsShift
    <3>2. Chief(w) <=> RankGiven(m) = 6
      BY <1>1, <2>4, <3>1 DEF Chief
    <3>3. Chief(w)' <=> Heard(m).rank = 6
      BY <1>2, <1>4, <2>4 DEF Chief
    <3>4. Heard(m).rank = RankGiven(m)
      <4>1. /\ m.kind = "joined" /\ m.arg \in list_clan => Heard(m) = [id |-> m.arg, rank |-> 1]
            /\ m.kind = "rank" => Heard(m) = [id |-> avatar[w].id, rank |-> m.arg]
            /\ m.kind \notin {"joined", "rank"} => Heard(m) = [id |-> 0, rank |-> RankGiven(m)]
        BY <1>1, <1>3, HeardIs
      \* A clan that is still loaded is in the table.
      <4>2. m.kind = "joined" => m.arg \in list_clan
        <5> SUFFICES ASSUME m.kind = "joined" PROVE m.arg \in list_clan
          OBVIOUS
        <5>1. Changes(w) = {1} /\ w \notin missed
          BY <1>1, <1>4, <1>5, <3>1 DEF Changes
        <5>2. Placing(w, m.arg)
          BY <1>1, <1>3, <5>1 DEF ListsInv, Placed, Gives
        <5>3. m.arg = k
          BY <1>5, <2>4, <5>2 DEF Placing
        <5> QED
          BY <1>5, <5>3 DEF ServersInv, Tabled
      <4> QED
        BY <4>1, <4>2 DEF RankGiven
    <3> QED
      BY <2>4, <3>2, <3>3, <3>4
  <2> QED
    BY <2>1, <2>2, <2>3, <2>4
<1> QED
  BY <1>2, <1>4, <1>5, StayChiefs

\* What changes none of the copies, lists and messages.
LEMMA SameChiefs ==
  ASSUME Chiefs, UNCHANGED <<row, client, avatar, atChar, inWorld, clanList, toWorld, missed, scrambled>>
  PROVE  Chiefs'
<1>1. \A u : Chief(u)' <=> Chief(u)
  BY SameChief
<1> QED
  BY <1>1, StayChiefs

\* Whatever happens keeps the masters.
LEMMA StepChiefs ==
  ASSUME TypeInv, ServersInv, ListsInv, Chiefs, [ClanNext]_clanVars
  PROVE  Chiefs'
<1>0. TypeInv'
  BY StepTypes
<1>1. CASE UNCHANGED clanVars
  BY <1>1, SameChiefs DEF clanVars
<1>2. ASSUME NEW c \in Char, NEW d \in Char, Invite(c, d)
      PROVE  Chiefs'
  BY <1>2, SameChiefs DEF Invite
<1>3. CASE ClanNext
  BY <1>0, <1>2, <1>3, LoadChiefs, HearChiefs, RequestChiefs, EnterChiefs, SaveChiefs,
     LeaveWorldChiefs, LeaveCharChiefs, CreateChiefs, LeaveChiefs, DisorganizeChiefs,
     AcceptChiefs, KickChiefs, UpChiefs, DownChiefs, GiveChiefs DEF ClanNext
<1> QED
  BY <1>1, <1>3

LEMMA InitChiefs == ClanInit => Chiefs
BY DEF ClanInit, Chiefs, Loaded

\* A loaded clan has one master, and one only, when nothing about its members is
\* under way and the world server missed nobody (module Clans, OneMaster): mastership
\* may be handed over and back, to members that are away, and the master may log out
\* while the news is on its way.
THEOREM OneMasterEach == ClanSpec => []OneMaster
<1>1. TypeInv /\ ServersInv /\ ListsInv /\ Chiefs => OneMaster
  <2> SUFFICES ASSUME TypeInv, ServersInv, ListsInv, Chiefs, NEW k \in ClanIds \ scrambled,
                      Loaded(k), missed = {}, \A c \in Listed(k) : ~Pending(c)
               PROVE  Cardinality({c \in Listed(k) : Standing(c) = [id |-> k, rank |-> 6]}) = 1
    BY DEF OneMaster
  <2>1. PICK d \in Char : \A c \in Char : Leads(k, c) <=> c = d
    BY DEF Chiefs, OneLeads
  <2>2. ASSUME NEW c \in Listed(k)
        PROVE  c \in Char /\ (Standing(c) = [id |-> k, rank |-> 6] <=> Leads(k, c))
    <3>1. c \in Char /\ Places(k, c) # {}
      BY <2>2, ListIs, ListedIsChar
    <3>2. News(c) = {} /\ Changes(c) = {}
      <4>1. ~Pending(c) /\ toWorld \in Seq(Messages)
        BY <2>2 DEF TypeInv, ClanTypeOK
      <4> QED
        BY <4>1, EntriesOf DEF Pending, Changes, News
    <3>3. Standing(c) \in Copies /\ Standing(c).id = k
      <4>1. /\ c \in atChar => client[c].id = k
            /\ c \notin inWorld => row[c].id = k
            /\ Belongs(c) = k
        BY <3>1, <3>2, MemberOf
      <4> QED
        BY <3>1, <4>1, Pieces DEF Standing, Belongs
    <3>4. Standing(c).rank = 6 <=> Chief(c)
      BY <3>2 DEF Standing, Chief
    <3>5. Standing(c) = [id |-> k, rank |-> 6] <=> Standing(c).rank = 6
      BY <3>3 DEF Copies
    <3> QED
      BY <3>1, <3>4, <3>5 DEF Leads
  <2>3. d \in Listed(k)
    BY <2>1, ListIs DEF Leads
  <2>4. {c \in Listed(k) : Standing(c) = [id |-> k, rank |-> 6]} = {d}
    BY <2>1, <2>2, <2>3
  <2> QED
    BY <2>4, FS_Singleton
<1>2. TypeInv /\ ServersInv /\ ListsInv /\ Chiefs /\ [ClanNext]_clanVars => Chiefs'
  BY StepChiefs
<1> QED
  BY <1>1, <1>2, ListsHold, InitChiefs, PTL DEF ClanSpec
=============================================================================
