-------------------------- MODULE ChatRoomsProofs --------------------------
(* Theorems about ChatRooms for every set of clients, every number of ids  *)
(* and every room size.                                                    *)
EXTENDS ChatRooms, SequenceFacts

\* Who is in a room is found by GetClientByID: he has chosen a character.
InsidersFound == \A k \in Client : chatroom_id[k] # 0 => Found(k)

Inv == /\ RoomTypeOK /\ ClientIsListed /\ OnlyAbandonedEntries /\ RoomBound
       /\ InsidersFound

-----------------------------------------------------------------------------
\* Picking positions P: entry n of the result comes from a position of its own,
\* and every position gives an entry.
LEMMA PickedEntries ==
  ASSUME NEW S, NEW s \in Seq(S), NEW P \in SUBSET (1..Len(s))
  PROVE  /\ Picked(s, P) \in Seq(S) /\ Len(Picked(s, P)) = Cardinality(P)
         /\ Cardinality(P) \in Nat /\ (Cardinality(P) = 0 <=> P = {})
         /\ \E f \in [1..Cardinality(P) -> P] :
              /\ \A n \in 1..Cardinality(P) : Picked(s, P)[n] = s[f[n]]
              /\ \A m, n \in 1..Cardinality(P) : f[m] = f[n] => m = n
              /\ \A i \in P : \E n \in 1..Cardinality(P) : f[n] = i
<1> DEFINE N      == Cardinality(P)
           Low(i) == {j \in P : j <= i}
           rank   == [i \in P |-> Cardinality(Low(i))]
           f      == [n \in 1..N |-> CHOOSE i \in P : Cardinality(Low(i)) = n]
<1>1. Len(s) \in Nat /\ \A i \in P : i \in Nat /\ s[i] \in S
  BY EntriesOf, ElementOfSeq
<1>2. IsFiniteSet(P) /\ N \in Nat /\ (N = 0 <=> P = {})
  <2>1. IsFiniteSet(1..Len(s))
    BY <1>1, FS_Interval
  <2> QED
    BY <2>1, FS_Subset, FS_CardinalityType, FS_EmptySet
<1>3. \A i \in P : /\ IsFiniteSet(Low(i)) /\ Cardinality(Low(i)) \in 1..N
  <2> SUFFICES ASSUME NEW i \in P
               PROVE  IsFiniteSet(Low(i)) /\ Cardinality(Low(i)) \in 1..N
    OBVIOUS
  <2>1. Low(i) \in SUBSET P /\ i \in Low(i)
    BY <1>1
  <2> HIDE DEF Low
  <2>2. IsFiniteSet(Low(i)) /\ Cardinality(Low(i)) <= N
    BY <1>2, <2>1, FS_Subset
  <2>3. Cardinality(Low(i)) \in Nat /\ Cardinality(Low(i)) # 0
    BY <2>1, <2>2, FS_CardinalityType, FS_EmptySet
  <2> QED
    BY <1>2, <2>2, <2>3
<1>4. ASSUME NEW i \in P, NEW j \in P, i < j
      PROVE  Cardinality(Low(i)) # Cardinality(Low(j))
  <2>1. i \in Nat /\ j \in Nat /\ \A k \in P : k \in Nat
    BY <1>1
  <2>2. j \in Low(j) /\ j \notin Low(i)
    BY <1>4, <2>1
  <2>3. ASSUME NEW k \in Low(i) PROVE k \in Low(j)
    <3>1. k \in P /\ k \in Nat /\ k <= i
      BY <2>1
    <3>2. k <= j
      BY <1>4, <2>1, <3>1
    <3> QED
      BY <3>1, <3>2
  <2> HIDE DEF Low
  <2> QED
    BY <1>3, <2>2, <2>3, FS_Subset
<1>5. \A i, j \in P : Cardinality(Low(i)) = Cardinality(Low(j)) => i = j
  <2> HIDE DEF Low
  <2> QED
    BY <1>1, <1>4
<1>6. rank \in Injection(P, 1..N)
  <2> HIDE DEF Low
  <2> QED
    BY <1>3, <1>5 DEF Injection, IsInjective
<1>7. rank \in Surjection(P, 1..N)
  <2>1. IsFiniteSet(1..N) /\ Cardinality(1..N) = N
    BY <1>2, FS_Interval
  <2> HIDE DEF rank
  <2> QED
    BY <1>6, <2>1, FS_Injection
<1>8. \A n \in 1..N : \E i \in P : Cardinality(Low(i)) = n
  <2> HIDE DEF Low
  <2> QED
    BY <1>7 DEF Surjection
<1>9. \A n \in 1..N : f[n] \in P /\ Cardinality(Low(f[n])) = n
  <2> HIDE DEF Low
  <2> QED
    BY <1>8
<1>10. \A n \in 1..N : Picked(s, P)[n] = s[f[n]]
  BY DEF Picked
<1>11. Picked(s, P) = [n \in 1..N |-> s[f[n]]]
  BY DEF Picked
<1>12. f \in [1..N -> P]
  BY <1>9
<1> HIDE DEF f, Low, N
<1>13. Picked(s, P) \in Seq(S) /\ Len(Picked(s, P)) = N
  <2>1. Picked(s, P) \in [1..N -> S]
    BY <1>1, <1>9, <1>11
  <2>2. Picked(s, P) \in Seq(S)
    BY <1>2, <2>1, SeqDef
  <2>3. 1..Len(Picked(s, P)) = 1..N /\ Len(Picked(s, P)) \in Nat
    BY <1>11, <2>2, LenProperties
  <2> QED
    BY <1>2, <2>2, <2>3
<1>14. \A m, n \in 1..N : f[m] = f[n] => m = n
  BY <1>9
<1>15. \A i \in P : \E n \in 1..N : f[n] = i
  BY <1>3, <1>5, <1>9
<1> QED
  BY <1>2, <1>10, <1>12, <1>13, <1>14, <1>15 DEF N

\* What the loop over People_list keeps and removes: who is found keeps his
\* entries, and at most one entry of somebody who is not found stays.
LEMMA PrunedEntries ==
  ASSUME NEW s \in Seq(Client)
  PROVE  /\ Pruned(s) \in Seq(Client) /\ ToSet(Pruned(s)) \subseteq ToSet(s)
         /\ \A k \in ToSet(s) : Found(k) => k \in ToSet(Pruned(s))
         /\ \A k : Found(k) /\ Once(s, k) => Once(Pruned(s), k)
         /\ \A m, n \in DOMAIN Pruned(s) :
              ~Found(Pruned(s)[m]) /\ ~Found(Pruned(s)[n]) => m = n
<1> DEFINE P == {i \in DOMAIN s : Found(s[i]) \/ (i = 2 /\ ~Found(s[1]))}
           N == Cardinality(P)
           t == Picked(s, P)
<1>1. DOMAIN s = 1..Len(s) /\ P \in SUBSET (1..Len(s))
  BY EntriesOf
<1>2. /\ t \in Seq(Client) /\ Len(t) = N
      /\ \E f \in [1..N -> P] :
           /\ \A n \in 1..N : t[n] = s[f[n]]
           /\ \A m, n \in 1..N : f[m] = f[n] => m = n
           /\ \A i \in P : \E n \in 1..N : f[n] = i
  <2> HIDE DEF P
  <2>1. P \in SUBSET (1..Len(s))
    BY <1>1
  <2>2. t \in Seq(Client) /\ Len(t) = N
    BY <2>1, PickedEntries
  <2>3. \E f \in [1..Cardinality(P) -> P] :
           /\ \A n \in 1..Cardinality(P) : Picked(s, P)[n] = s[f[n]]
           /\ \A m, n \in 1..Cardinality(P) : f[m] = f[n] => m = n
           /\ \A i \in P : \E n \in 1..Cardinality(P) : f[n] = i
    BY <2>1, PickedEntries, SMTT(30)
  <2> QED
    BY <2>2, <2>3
<1>3. PICK f \in [1..N -> P] :
           /\ \A n \in 1..N : t[n] = s[f[n]]
           /\ \A m, n \in 1..N : f[m] = f[n] => m = n
           /\ \A i \in P : \E n \in 1..N : f[n] = i
  BY <1>2
<1>4. DOMAIN t = 1..N
  BY <1>2, EntriesOf
<1>5. Pruned(s) = t
  BY DEF Pruned
<1>6. \A i \in P : i \in DOMAIN s /\ (Found(s[i]) \/ i = 2)
  OBVIOUS
<1>7. \A i \in DOMAIN s : Found(s[i]) => i \in P
  OBVIOUS
<1> HIDE DEF P, N, t
<1>8. ToSet(t) \subseteq ToSet(s)
  BY <1>3, <1>4, <1>6 DEF ToSet
<1>9. ASSUME NEW k \in ToSet(s), Found(k) PROVE k \in ToSet(t)
  <2>1. PICK i \in DOMAIN s : s[i] = k
    BY DEF ToSet
  <2>2. PICK n \in 1..N : f[n] = i
    BY <1>3, <1>7, <1>9, <2>1
  <2> QED
    BY <1>3, <1>4, <2>1, <2>2 DEF ToSet
<1>10. ASSUME NEW k, Found(k), Once(s, k) PROVE Once(t, k)
  <2>1. PICK i \in DOMAIN s : s[i] = k /\ \A j \in DOMAIN s : s[j] = k => j = i
    BY <1>10 DEF Once
  <2>2. PICK n \in 1..N : f[n] = i
    BY <1>3, <1>7, <1>10, <2>1
  <2>3. \A m \in 1..N : t[m] = k => m = n
    BY <1>3, <1>6, <2>1, <2>2
  <2> QED
    BY <1>3, <1>4, <2>1, <2>2, <2>3 DEF Once
<1>11. \A m, n \in DOMAIN t : ~Found(t[m]) /\ ~Found(t[n]) => m = n
  BY <1>3, <1>4, <1>6
<1> QED
  BY <1>2, <1>5, <1>8, <1>9, <1>10, <1>11

\* GetChatroomID returns an id that no room has, or the last one.
LEMMA FreeRoomIdFacts ==
  ASSUME RoomTypeOK
  PROVE  FreeRoomId \in RoomIds /\ (FreeRoomId # MaxRoomId => ~Exists(FreeRoomId))
<1> DEFINE up       == {i \in last_chatroom_id + 1..MaxRoomId - 1 : ~Exists(i)}
           again    == {i \in 1..last_chatroom_id : ~Exists(i)}
           least(S) == CHOOSE i \in S : \A j \in S : i <= j
<1>1. /\ up \in SUBSET Nat /\ again \in SUBSET Nat
      /\ \A i \in up \cup again : i \in RoomIds /\ ~Exists(i)
  BY RoomAssumption DEF RoomTypeOK, RoomIds
<1>2. ASSUME NEW S \in SUBSET Nat, S # {} PROVE least(S) \in S
  <2>1. \E i \in S : \A j \in S : i <= j
    BY <1>2, LeastExists
  <2> QED
    BY <2>1
<1>3. FreeRoomId = IF up # {} THEN least(up)
                   ELSE IF again # {} THEN least(again) ELSE MaxRoomId
  BY DEF FreeRoomId
<1>4. MaxRoomId \in RoomIds
  BY RoomAssumption DEF RoomIds
<1>5. /\ up # {} => least(up) \in up
      /\ again # {} => least(again) \in again
  BY <1>1, <1>2
<1> HIDE DEF least, up, again
<1> QED
  BY <1>1, <1>3, <1>4, <1>5

\* What an existing room is.
LEMMA RoomFacts ==
  ASSUME Inv, NEW r \in RoomIds, Exists(r)
  PROVE  /\ chatroom_list[r] = [people |-> People(r), nb_max |-> chatroom_list[r].nb_max]
         /\ People(r) \in Seq(Client) /\ chatroom_list[r].nb_max \in RoomSizes
         /\ chatroom_list[r].nb_max \in Nat
         /\ DOMAIN People(r) = 1..Len(People(r)) /\ Len(People(r)) \in Nat
         /\ ToSet(People(r)) \subseteq Client
         /\ People(r) # <<>>
         /\ \A k \in ToSet(People(r)) \ abandoned :
              chatroom_id[k] = r /\ Once(People(r), k)
         /\ Cardinality(ToSet(People(r))) <= chatroom_list[r].nb_max + 1
         /\ IsFiniteSet(ToSet(People(r)))
<1>1. chatroom_list[r] \in Rooms
  BY DEF Exists, Inv, RoomTypeOK
<1>2. People(r) \in Seq(Client) /\ chatroom_list[r].nb_max \in RoomSizes
  BY <1>1 DEF People, Rooms
<1>3. chatroom_list[r] = [people |-> People(r), nb_max |-> chatroom_list[r].nb_max]
  BY <1>1 DEF People, Rooms
<1>4. chatroom_list[r].nb_max \in Nat
  <2>1. \A n \in RoomSizes : n \in Nat
    BY RoomAssumption
  <2> QED
    BY <1>2, <2>1
<1>5. /\ DOMAIN People(r) = 1..Len(People(r)) /\ Len(People(r)) \in Nat
      /\ ToSet(People(r)) \subseteq Client /\ IsFiniteSet(ToSet(People(r)))
  BY <1>2, EntriesOf, ElementsBounded
<1>6. \A k \in ToSet(People(r)) \ abandoned :
        chatroom_id[k] = r /\ Once(People(r), k)
  BY <1>2, OnceCounted DEF Inv, OnlyAbandonedEntries
<1> QED
  BY <1>2, <1>3, <1>4, <1>5, <1>6 DEF Inv, OnlyAbandonedEntries, RoomBound

-----------------------------------------------------------------------------
\* A state is as it should be when its rooms are: this is how the lemmas below
\* show it, room by room, with Once for the count of entries.
LEMMA Reestablished ==
  ASSUME RoomTypeOK',
         \A k \in Client : chatroom_id'[k] # 0 => Found(k)',
         \A k \in Client : chatroom_id'[k] \in RoomIds \ {MaxRoomId} =>
           Exists(chatroom_id[k])' /\ k \in ToSet(People(chatroom_id[k])'),
         \A r \in RoomIds : Exists(r)' =>
           /\ People(r)' # <<>>
           /\ \A k \in ToSet(People(r)') \ abandoned' :
                chatroom_id'[k] = r /\ Once(People(r)', k)
           /\ Cardinality(ToSet(People(r)')) <= chatroom_list'[r].nb_max + 1
  PROVE  Inv'
<1>1. ASSUME NEW r \in RoomIds, Exists(r)' PROVE People(r)' \in Seq(Client)
  BY <1>1 DEF RoomTypeOK, Exists, People, Rooms
<1>2. ClientIsListed'
  BY DEF ClientIsListed
<1>3. OnlyAbandonedEntries'
  <2> SUFFICES ASSUME NEW r \in RoomIds, Exists(r)',
                      NEW k \in ToSet(People(r)') \ abandoned'
               PROVE  Cardinality({i \in DOMAIN People(r)' : People(r)'[i] = k}) = 1
    BY DEF OnlyAbandonedEntries
  <2>1. Once(People(r)', k) /\ People(r)' \in Seq(Client)
    BY <1>1
  <2> QED
    BY <2>1, OnceCounted
<1>4. RoomBound' /\ InsidersFound'
  BY DEF RoomBound, InsidersFound
<1> QED
  BY <1>2, <1>3, <1>4 DEF Inv

\* No client and no room.
LEMMA EmptyServer ==
  ASSUME session' = [k \in Client |-> "none"],
         chatroom_id' = [k \in Client |-> 0],
         chatroom_list' = [r \in RoomIds |-> NoRoom],
         last_chatroom_id' = 0, abandoned' = {}
  PROVE  Inv'
<1>1. RoomTypeOK'
  BY RoomAssumption DEF RoomTypeOK, Sessions
<1>2. \A r \in RoomIds : ~Exists(r)'
  BY DEF Exists
<1>3. 0 \notin RoomIds
  BY RoomAssumption DEF RoomIds
<1> QED
  BY <1>1, <1>2, <1>3, Reestablished

\* A server starts with no room and no client.
LEMMA InvInit == RoomInit => Inv
<1> SUFFICES ASSUME RoomInit PROVE Inv
  OBVIOUS
<1>1. RoomTypeOK
  BY RoomAssumption DEF RoomInit, RoomTypeOK, Sessions
<1>2. (\A r \in RoomIds : ~Exists(r)) /\ 0 \notin RoomIds
  BY RoomAssumption DEF RoomInit, Exists, RoomIds
<1>3. ClientIsListed /\ OnlyAbandonedEntries /\ RoomBound /\ InsidersFound
  BY <1>2 DEF RoomInit, ClientIsListed, OnlyAbandonedEntries, RoomBound, InsidersFound
<1> QED
  BY <1>1, <1>3 DEF Inv

-----------------------------------------------------------------------------
\* Steps that touch no room: a client goes from one place to another, and one
\* whose disconnect returned early is remembered among the abandoned.
LEMMA QuietStep ==
  ASSUME Inv, UNCHANGED <<chatroom_list, last_chatroom_id>>,
         session' \in [Client -> Sessions], chatroom_id' \in [Client -> 0..MaxRoomId],
         abandoned \subseteq abandoned', abandoned' \subseteq Client,
         \A j \in Client : /\ chatroom_id'[j] # chatroom_id[j] =>
                                chatroom_id'[j] = 0 /\ j \in abandoned'
                           /\ chatroom_id'[j] # 0 => Found(j)'
  PROVE  Inv'
<1>1. RoomTypeOK'
  BY DEF Inv, RoomTypeOK
<1>2. 0 \notin RoomIds /\ \A r \in RoomIds : People(r)' = People(r) /\ Exists(r)' = Exists(r)
  BY RoomAssumption DEF RoomIds, People, Exists
<1>3. ASSUME NEW k \in Client, chatroom_id'[k] \in RoomIds \ {MaxRoomId}
      PROVE  Exists(chatroom_id[k])' /\ k \in ToSet(People(chatroom_id[k])')
  <2>1. chatroom_id'[k] = chatroom_id[k]
    BY <1>2, <1>3
  <2> QED
    BY <1>2, <1>3, <2>1 DEF Inv, ClientIsListed, Exists, People
<1>4. ASSUME NEW r \in RoomIds, Exists(r)'
      PROVE  /\ People(r)' # <<>>
             /\ \A k \in ToSet(People(r)') \ abandoned' :
                  chatroom_id'[k] = r /\ Once(People(r)', k)
             /\ Cardinality(ToSet(People(r)')) <= chatroom_list'[r].nb_max + 1
  <2>1. /\ People(r) # <<>> /\ ToSet(People(r)) \subseteq Client
        /\ \A k \in ToSet(People(r)) \ abandoned : chatroom_id[k] = r /\ Once(People(r), k)
        /\ Cardinality(ToSet(People(r))) <= chatroom_list[r].nb_max + 1
    BY <1>2, <1>4, RoomFacts
  <2> QED
    BY <1>2, <2>1
<1> QED
  BY <1>1, <1>3, <1>4, Reestablished

\* What DisconnectClientFromChat does to the rooms: the client's first entry
\* goes from the room he believes to be in, if it exists and has one.
LEMMA LeaveFacts ==
  ASSUME Inv, NEW k \in Client, LeaveChat(k), NEW r \in RoomIds
  PROVE  \/ /\ chatroom_list'[r] = chatroom_list[r]
            /\ Exists(r) /\ chatroom_id[k] = r => k \notin ToSet(People(r))
         \/ /\ Exists(r)
            /\ \E i \in 1..Len(People(r)) :
                 LET rest == RemoveAt(People(r), i)
                 IN  /\ People(r)[i] = k
                     /\ chatroom_list'[r] =
                          IF rest = <<>> THEN NoRoom
                          ELSE [people |-> rest, nb_max |-> chatroom_list[r].nb_max]
<1> DEFINE q    == chatroom_id[k]
           at   == IF Exists(q) THEN {i \in DOMAIN People(q) : People(q)[i] = k} ELSE {}
           m    == CHOOSE i \in at : \A j \in at : i <= j
           left == IF at = {} THEN People(q) ELSE RemoveAt(People(q), m)
<1>1. chatroom_list' =
           IF ~Exists(q) THEN chatroom_list
           ELSE [chatroom_list EXCEPT ![q] =
                   IF left = <<>> THEN NoRoom ELSE [@ EXCEPT !.people = left]]
  BY DEF LeaveChat
<1>2. CASE ~Exists(r) \/ q # r
  <2> HIDE DEF q, left
  <2>1. chatroom_list'[r] = chatroom_list[r]
    BY <1>1, <1>2 DEF Inv, RoomTypeOK
  <2> QED
    BY <1>2, <2>1 DEF q
<1>3. CASE Exists(r) /\ q = r
  <2>1. /\ People(r) \in Seq(Client) /\ People(r) # <<>>
        /\ DOMAIN People(r) = 1..Len(People(r))
        /\ chatroom_list[r] = [people |-> People(r), nb_max |-> chatroom_list[r].nb_max]
    BY <1>3, RoomFacts
  <2>2. at = {i \in 1..Len(People(r)) : People(r)[i] = k}
    BY <1>3, <2>1
  <2>3. chatroom_list'[r] = IF left = <<>> THEN NoRoom
                            ELSE [people |-> left, nb_max |-> chatroom_list[r].nb_max]
    <3> HIDE DEF left
    <3> QED
      BY <1>1, <1>3, <2>1 DEF Inv, RoomTypeOK
  <2>4. CASE at = {}
    <3>1. left = People(r)
      BY <1>3, <2>4
    <3>2. k \notin ToSet(People(r))
      BY <2>1, <2>2, <2>4, EntriesOf
    <3> QED
      BY <1>3, <2>1, <2>3, <3>1, <3>2
  <2>5. CASE at # {}
    <3>1. at \in SUBSET Nat
      BY <2>2
    <3>2. m \in at
      <4>1. \E i \in at : \A j \in at : i <= j
        BY <2>5, <3>1, LeastExists
      <4> HIDE DEF at
      <4> QED
        BY <4>1
    <3>3. left = RemoveAt(People(r), m)
      BY <1>3, <2>5
    <3>4. m \in 1..Len(People(r)) /\ People(r)[m] = k
      BY <2>2, <3>2
    <3> HIDE DEF left, m
    <3> QED
      BY <1>3, <2>3, <3>3, <3>4
  <2> QED
    BY <2>4, <2>5
<1> QED
  BY <1>2, <1>3

\* Leaving by the packet, by the character list or with a clean disconnect.
LEMMA LeaveStep ==
  ASSUME Inv, NEW k \in Client, LeaveChat(k), session' \in [Client -> Sessions],
         \A j \in Client \ {k} : session'[j] = session[j],
         UNCHANGED <<last_chatroom_id, abandoned>>
  PROVE  Inv'
<1>1. chatroom_id' = [chatroom_id EXCEPT ![k] = 0]
  BY DEF LeaveChat
<1>2. \A j \in Client : chatroom_id'[j] = IF j = k THEN 0 ELSE chatroom_id[j]
  BY <1>1 DEF Inv, RoomTypeOK
<1> DEFINE Same(r) == /\ chatroom_list'[r] = chatroom_list[r]
                      /\ Exists(r) /\ chatroom_id[k] = r => k \notin ToSet(People(r))
           Less(r, i) == LET rest == RemoveAt(People(r), i)
                         IN  /\ People(r)[i] = k
                             /\ chatroom_list'[r] =
                                  IF rest = <<>> THEN NoRoom
                                  ELSE [people |-> rest, nb_max |-> chatroom_list[r].nb_max]
<1>3. ASSUME NEW r \in RoomIds
      PROVE  Same(r) \/ (Exists(r) /\ \E i \in 1..Len(People(r)) : Less(r, i))
  BY LeaveFacts
<1>4. ASSUME NEW r \in RoomIds, Exists(r), NEW i \in 1..Len(People(r)), Less(r, i)
      PROVE  LET rest == RemoveAt(People(r), i)
             IN  /\ rest = <<>> => chatroom_list'[r] = NoRoom
                 /\ rest # <<>> => /\ chatroom_list'[r] \in Rooms /\ Exists(r)'
                                   /\ People(r)' = rest
                                   /\ chatroom_list'[r].nb_max = chatroom_list[r].nb_max
  <2> DEFINE rest == RemoveAt(People(r), i)
  <2>1. rest \in Seq(Client) /\ chatroom_list[r].nb_max \in RoomSizes
    BY <1>4, RoomFacts, Erased
  <2>2. rest # <<>> =>
          chatroom_list'[r] = [people |-> rest, nb_max |-> chatroom_list[r].nb_max]
    BY <1>4
  <2>3. rest = <<>> => chatroom_list'[r] = NoRoom
    BY <1>4
  <2> HIDE DEF rest, Less
  <2> QED
    BY <2>1, <2>2, <2>3, NoRoomAssumption DEF Rooms, Exists, People, rest
<1> HIDE DEF Less
<1>5. RoomTypeOK'
  <2>1. \A r \in RoomIds : chatroom_list'[r] \in Rooms \cup {NoRoom}
    BY <1>3, <1>4 DEF Inv, RoomTypeOK
  <2>2. chatroom_list' \in [RoomIds -> Rooms \cup {NoRoom}]
    BY <2>1 DEF LeaveChat, Inv, RoomTypeOK
  <2> QED
    BY <1>1, <2>2, RoomAssumption DEF Inv, RoomTypeOK
<1>6. ASSUME NEW j \in Client, chatroom_id'[j] # 0 PROVE Found(j)'
  BY <1>2, <1>6 DEF Inv, InsidersFound, Found
<1>7. ASSUME NEW j \in Client, chatroom_id'[j] \in RoomIds \ {MaxRoomId}
      PROVE  Exists(chatroom_id[j])' /\ j \in ToSet(People(chatroom_id[j])')
  <2>1. PICK r \in RoomIds :
             j # k /\ chatroom_id'[j] = r /\ Exists(r) /\ j \in ToSet(People(r))
    BY <1>2, <1>7, RoomAssumption DEF RoomIds, Inv, ClientIsListed
  <2>2. CASE Same(r)
    BY <2>1, <2>2 DEF Exists, People
  <2>3. ASSUME NEW i \in 1..Len(People(r)), Less(r, i)
        PROVE  Exists(r)' /\ j \in ToSet(People(r)')
    <3>1. People(r)[i] = k /\ People(r) \in Seq(Client)
      BY <2>1, <2>3, RoomFacts DEF Less
    <3>2. j \in ToSet(RemoveAt(People(r), i))
      BY <2>1, <3>1, ErasedOthers
    <3>3. RemoveAt(People(r), i) # <<>>
      BY <3>2, EmptyList
    <3> QED
      BY <1>4, <2>1, <2>3, <3>2, <3>3
  <2>4. Exists(r)' /\ j \in ToSet(People(r)')
    BY <1>3, <2>1, <2>2, <2>3
  <2> QED
    BY <2>1, <2>4
<1>8. ASSUME NEW r \in RoomIds, Exists(r)'
      PROVE  /\ People(r)' # <<>>
             /\ \A j \in ToSet(People(r)') \ abandoned' :
                  chatroom_id'[j] = r /\ Once(People(r)', j)
             /\ Cardinality(ToSet(People(r)')) <= chatroom_list'[r].nb_max + 1
  <2>1. CASE Same(r)
    <3>1. Exists(r) /\ People(r)' = People(r)
      BY <1>8, <2>1 DEF Exists, People
    <3>2. /\ People(r) # <<>> /\ ToSet(People(r)) \subseteq Client
          /\ \A j \in ToSet(People(r)) \ abandoned : chatroom_id[j] = r /\ Once(People(r), j)
          /\ Cardinality(ToSet(People(r))) <= chatroom_list[r].nb_max + 1
      BY <3>1, RoomFacts
    <3>3. \A j \in ToSet(People(r)) \ abandoned : j # k
      BY <2>1, <3>1, <3>2
    <3> QED
      BY <1>2, <2>1, <3>1, <3>2, <3>3
  <2>2. ASSUME Exists(r), NEW i \in 1..Len(People(r)), Less(r, i)
        PROVE  /\ People(r)' # <<>>
               /\ \A j \in ToSet(People(r)') \ abandoned' :
                    chatroom_id'[j] = r /\ Once(People(r)', j)
               /\ Cardinality(ToSet(People(r)')) <= chatroom_list'[r].nb_max + 1
    <3> DEFINE rest == RemoveAt(People(r), i)
    <3>1. /\ People(r) \in Seq(Client) /\ ToSet(People(r)) \subseteq Client
          /\ \A j \in ToSet(People(r)) \ abandoned : chatroom_id[j] = r /\ Once(People(r), j)
          /\ Cardinality(ToSet(People(r))) <= chatroom_list[r].nb_max + 1
          /\ IsFiniteSet(ToSet(People(r))) /\ chatroom_list[r].nb_max \in Nat
      BY <2>2, RoomFacts
    <3>2. rest # <<>>
      BY <1>4, <1>8, <2>2 DEF Exists
    <3>3. People(r)' = rest /\ chatroom_list'[r].nb_max = chatroom_list[r].nb_max
      BY <1>4, <2>2, <3>2
    <3>4. People(r)[i] = k
      BY <2>2 DEF Less
    <3>5. \A j : /\ j \in ToSet(rest) => j \in ToSet(People(r))
                 /\ Once(People(r), j) /\ j # k => Once(rest, j)
                 /\ Once(People(r), j) /\ j = k => j \notin ToSet(rest)
      BY <3>1, <3>4, ErasedOthers
    <3> HIDE DEF rest
    <3>6. \A j \in ToSet(rest) \ abandoned : chatroom_id'[j] = r /\ Once(rest, j)
      BY <1>2, <3>1, <3>5
    <3>7. Cardinality(ToSet(rest)) <= Cardinality(ToSet(People(r)))
      BY <3>1, <3>5, FS_Subset
    <3>8. Cardinality(ToSet(rest)) \in Nat /\ Cardinality(ToSet(People(r))) \in Nat
      <4>1. ToSet(rest) \in SUBSET ToSet(People(r))
        BY <3>5
      <4> QED
        BY <3>1, <4>1, FS_Subset, FS_CardinalityType
    <3> QED
      BY <3>1, <3>2, <3>3, <3>6, <3>7, <3>8
  <2> QED
    BY <1>3, <2>1, <2>2
<1> QED
  BY <1>5, <1>6, <1>7, <1>8, Reestablished

\* A new room, under a free id or in the place of the last one.
LEMMA CreateStep ==
  ASSUME Inv, NEW k \in Client, NEW n \in RoomSizes, CreateRoom(k, n)
  PROVE  Inv'
<1> DEFINE id == FreeRoomId
<1>1. /\ chatroom_list' = [chatroom_list EXCEPT ![id] = [people |-> <<k>>, nb_max |-> n]]
      /\ last_chatroom_id' = id /\ chatroom_id' = [chatroom_id EXCEPT ![k] = id]
      /\ chatroom_id[k] = 0 /\ Found(k) /\ UNCHANGED <<session, abandoned>>
  BY DEF CreateRoom, Found
<1>2. PICK q \in RoomIds : q = id /\ (q # MaxRoomId => ~Exists(q))
  BY FreeRoomIdFacts DEF Inv
<1> HIDE DEF id
<1>3. n \in Nat /\ 0 \notin RoomIds /\ RoomIds \subseteq 0..MaxRoomId
  <2>1. \A i \in RoomSizes : i \in Nat
    BY RoomAssumption
  <2> QED
    BY <2>1, RoomAssumption DEF RoomIds
<1>4. /\ <<k>> \in Seq(Client) /\ <<k>> # <<>> /\ ToSet(<<k>>) = {k} /\ Once(<<k>>, k)
  BY SingleList
<1>5. [people |-> <<k>>, nb_max |-> n] \in Rooms
  BY <1>4 DEF Rooms
<1>6. /\ \A r \in RoomIds : chatroom_list'[r] =
           IF r = q THEN [people |-> <<k>>, nb_max |-> n] ELSE chatroom_list[r]
      /\ \A j \in Client : chatroom_id'[j] = IF j = k THEN q ELSE chatroom_id[j]
  BY <1>1, <1>2 DEF Inv, RoomTypeOK
<1>7. RoomTypeOK'
  <2>1. /\ chatroom_list' \in [RoomIds -> Rooms \cup {NoRoom}]
        /\ chatroom_id' \in [Client -> 0..MaxRoomId]
    BY <1>1, <1>2, <1>3, <1>5 DEF Inv, RoomTypeOK
  <2> QED
    BY <1>1, <1>2, <1>3, <2>1 DEF Inv, RoomTypeOK
<1>8. /\ Exists(q)' /\ People(q)' = <<k>> /\ chatroom_list'[q].nb_max = n
      /\ \A r \in RoomIds \ {q} : /\ Exists(r)' = Exists(r) /\ People(r)' = People(r)
                                  /\ chatroom_list'[r] = chatroom_list[r]
  BY <1>5, <1>6, NoRoomAssumption DEF Exists, People
<1>9. \A j \in Client : chatroom_id'[j] # 0 => Found(j)'
  BY <1>1, <1>6 DEF Inv, InsidersFound, Found
<1>10. ASSUME NEW j \in Client, chatroom_id'[j] \in RoomIds \ {MaxRoomId}
       PROVE  Exists(chatroom_id[j])' /\ j \in ToSet(People(chatroom_id[j])')
  <2>1. PICK r \in RoomIds : r = chatroom_id'[j] /\ r # MaxRoomId
    BY <1>10
  <2>2. CASE j = k
    BY <1>4, <1>6, <1>8, <2>1, <2>2
  <2>3. CASE j # k
    <3>1. r = chatroom_id[j] /\ Exists(r) /\ j \in ToSet(People(r))
      BY <1>6, <2>1, <2>3 DEF Inv, ClientIsListed
    <3>2. r # q
      BY <1>2, <2>1, <3>1
    <3> QED
      BY <1>8, <2>1, <3>1, <3>2
  <2> QED
    BY <2>2, <2>3
<1>11. ASSUME NEW r \in RoomIds, Exists(r)'
       PROVE  /\ People(r)' # <<>>
              /\ \A j \in ToSet(People(r)') \ abandoned' :
                   chatroom_id'[j] = r /\ Once(People(r)', j)
              /\ Cardinality(ToSet(People(r)')) <= chatroom_list'[r].nb_max + 1
  <2>1. CASE r = q
    <3>1. People(r)' = <<k>> /\ chatroom_list'[r].nb_max = n
      BY <1>8, <2>1
    <3>2. Cardinality(ToSet(<<k>>)) = 1
      BY <1>4, FS_Singleton
    <3>3. Cardinality(ToSet(<<k>>)) <= n + 1
      BY <1>3, <3>2
    <3>4. \A j \in ToSet(<<k>>) : chatroom_id'[j] = r /\ Once(<<k>>, j)
      BY <1>4, <1>6, <2>1
    <3> QED
      BY <1>4, <3>1, <3>3, <3>4
  <2>2. CASE r # q
    <3>1. /\ People(r) # <<>> /\ ToSet(People(r)) \subseteq Client
          /\ \A j \in ToSet(People(r)) \ abandoned : chatroom_id[j] = r /\ Once(People(r), j)
          /\ Cardinality(ToSet(People(r))) <= chatroom_list[r].nb_max + 1
      BY <1>8, <1>11, <2>2, RoomFacts
    <3>2. \A j \in ToSet(People(r)) \ abandoned : j # k
      BY <1>1, <1>3, <3>1
    <3> QED
      BY <1>1, <1>6, <1>8, <2>2, <3>1, <3>2
  <2> QED
    BY <2>1, <2>2
<1> QED
  BY <1>7, <1>9, <1>10, <1>11, Reestablished

\* Joining, also from another room and also a second time.
LEMMA JoinStep ==
  ASSUME Inv, NEW k \in Client, NEW q \in RoomIds, JoinRoom(k, q)
  PROVE  Inv'
<1>1. /\ Exists(q) /\ Fits(k, q) /\ Found(k)
      /\ chatroom_list' = [chatroom_list EXCEPT ![q].people = Append(@, k)]
      /\ chatroom_id' = [chatroom_id EXCEPT ![k] = q]
      /\ abandoned' = IF chatroom_id[k] = 0 THEN abandoned ELSE abandoned \cup {k}
      /\ UNCHANGED <<session, last_chatroom_id>>
  BY DEF JoinRoom, Found
<1> DEFINE s    == People(q)
           more == Append(s, k)
<1>2. /\ s \in Seq(Client) /\ chatroom_list[q] = [people |-> s, nb_max |-> chatroom_list[q].nb_max]
      /\ chatroom_list[q].nb_max \in RoomSizes /\ chatroom_list[q].nb_max \in Nat
      /\ \A j \in ToSet(s) \ abandoned : chatroom_id[j] = q /\ Once(s, j)
      /\ Cardinality(ToSet(s)) <= chatroom_list[q].nb_max + 1
      /\ IsFiniteSet(ToSet(s)) /\ ToSet(s) \subseteq Client
      /\ DOMAIN s = 1..Len(s) /\ Len(s) \in Nat
  BY <1>1, RoomFacts
<1>3. /\ more \in Seq(Client) /\ ToSet(more) = ToSet(s) \cup {k} /\ more # <<>>
      /\ \A j : Once(s, j) /\ j # k => Once(more, j)
      /\ k \notin ToSet(s) => Once(more, k)
  BY <1>2, Appended, AppendProperties, AppendedOthers
<1>4. 0 \notin RoomIds /\ RoomIds \subseteq 0..MaxRoomId
  BY RoomAssumption DEF RoomIds
<1>5. \A r \in RoomIds : chatroom_list'[r] =
        IF r = q THEN [people |-> more, nb_max |-> chatroom_list[q].nb_max]
        ELSE chatroom_list[r]
  <2>1. [chatroom_list[q] EXCEPT !.people = more] =
          [people |-> more, nb_max |-> chatroom_list[q].nb_max]
    <3>1. PICK n : n = chatroom_list[q].nb_max
      OBVIOUS
    <3>2. chatroom_list[q] = [people |-> s, nb_max |-> n]
      BY <1>2, <3>1
    <3> HIDE DEF s, more
    <3>3. [chatroom_list[q] EXCEPT !.people = more] = [people |-> more, nb_max |-> n]
      BY <3>2
    <3> QED
      BY <3>1, <3>3
  <2>2. \A r \in RoomIds : chatroom_list'[r] =
          IF r = q THEN [chatroom_list[q] EXCEPT !.people = more] ELSE chatroom_list[r]
    BY <1>1 DEF Inv, RoomTypeOK, People
  <2> QED
    BY <2>1, <2>2
<1>6. CountedBefore(k, q) <= chatroom_list[q].nb_max
  BY <1>1 DEF Fits
<1>7. k \notin ToSet(s) => CountedBefore(k, q) = Len(s)
  <2>1. k \notin ToSet(s) => {i \in DOMAIN People(q) : People(q)[i] = k} = {}
    BY DEF ToSet
  <2> QED
    BY <2>1 DEF CountedBefore
<1> HIDE DEF more
<1>8. Cardinality(ToSet(more)) <= chatroom_list[q].nb_max + 1
  <2>1. CASE k \in ToSet(s)
    <3>1. ToSet(more) = ToSet(s)
      BY <1>3, <2>1
    <3> QED
      BY <1>2, <3>1
  <2>2. CASE k \notin ToSet(s)
    <3>1. Cardinality(ToSet(more)) = Cardinality(ToSet(s)) + 1
      BY <1>2, <1>3, <2>2, FS_AddElement
    <3>2. Cardinality(ToSet(s)) <= Len(s) /\ Cardinality(ToSet(s)) \in Nat
      BY <1>2, ElementsBounded, FS_CardinalityType
    <3>3. Len(s) <= chatroom_list[q].nb_max
      BY <1>6, <1>7, <2>2
    <3> HIDE DEF s
    <3> QED
      BY <1>2, <3>1, <3>2, <3>3
  <2> QED
    BY <2>1, <2>2
<1>9. \A j \in Client : chatroom_id'[j] = IF j = k THEN q ELSE chatroom_id[j]
  BY <1>1 DEF Inv, RoomTypeOK
<1>10. [people |-> more, nb_max |-> chatroom_list[q].nb_max] \in Rooms
  BY <1>2, <1>3 DEF Rooms
<1>11. RoomTypeOK'
  <2>1. DOMAIN chatroom_list' = RoomIds
    BY <1>1 DEF Inv, RoomTypeOK
  <2>2. \A r \in RoomIds : chatroom_list'[r] \in Rooms \cup {NoRoom}
    BY <1>5, <1>10 DEF Inv, RoomTypeOK
  <2>3. chatroom_list' = [r \in RoomIds |-> chatroom_list'[r]]
    BY <1>1, <2>1 DEF Inv, RoomTypeOK
  <2>4. chatroom_list' \in [RoomIds -> Rooms \cup {NoRoom}]
    BY <2>2, <2>3
  <2> QED
    BY <1>1, <1>4, <2>4 DEF Inv, RoomTypeOK
<1>12. /\ Exists(q)' /\ People(q)' = more /\ chatroom_list'[q].nb_max = chatroom_list[q].nb_max
       /\ \A r \in RoomIds \ {q} : /\ Exists(r)' = Exists(r) /\ People(r)' = People(r)
                                   /\ chatroom_list'[r] = chatroom_list[r]
  BY <1>5, <1>10, NoRoomAssumption DEF Exists, People
<1>13. \A j \in Client : chatroom_id'[j] # 0 => Found(j)'
  BY <1>1, <1>9 DEF Inv, InsidersFound, Found
<1>14. ASSUME NEW j \in Client, chatroom_id'[j] \in RoomIds \ {MaxRoomId}
       PROVE  Exists(chatroom_id[j])' /\ j \in ToSet(People(chatroom_id[j])')
  <2>1. PICK r \in RoomIds : r = chatroom_id'[j] /\ r # MaxRoomId
    BY <1>14
  <2>2. CASE j = k
    BY <1>3, <1>9, <1>12, <2>1, <2>2
  <2>3. CASE j # k
    <3>1. Exists(r) /\ j \in ToSet(People(r))
      BY <1>9, <2>1, <2>3 DEF Inv, ClientIsListed
    <3> QED
      BY <1>3, <1>12, <2>1, <3>1
  <2> QED
    BY <2>2, <2>3
<1>15. ASSUME NEW r \in RoomIds, Exists(r)'
       PROVE  /\ People(r)' # <<>>
              /\ \A j \in ToSet(People(r)') \ abandoned' :
                   chatroom_id'[j] = r /\ Once(People(r)', j)
              /\ Cardinality(ToSet(People(r)')) <= chatroom_list'[r].nb_max + 1
  <2>1. CASE r = q
    <3>1. \A j \in ToSet(more) \ abandoned' : chatroom_id'[j] = q /\ Once(more, j)
      <4> SUFFICES ASSUME NEW j \in ToSet(more) \ abandoned'
                   PROVE  chatroom_id'[j] = q /\ Once(more, j)
        OBVIOUS
      <4>1. j \notin abandoned /\ (j = k => chatroom_id[k] = 0)
        BY <1>1
      <4>2. CASE j = k
        BY <1>2, <1>3, <1>4, <1>9, <4>1, <4>2
      <4>3. CASE j # k
        BY <1>2, <1>3, <1>9, <4>1, <4>3
      <4> QED
        BY <4>2, <4>3
    <3> QED
      BY <1>3, <1>8, <1>12, <2>1, <3>1
  <2>2. CASE r # q
    <3>1. /\ People(r) # <<>> /\ ToSet(People(r)) \subseteq Client
          /\ \A j \in ToSet(People(r)) \ abandoned : chatroom_id[j] = r /\ Once(People(r), j)
          /\ Cardinality(ToSet(People(r))) <= chatroom_list[r].nb_max + 1
      BY <1>12, <1>15, <2>2, RoomFacts
    <3>2. \A j \in ToSet(People(r)) \ abandoned' : j # k /\ j \notin abandoned
      BY <1>1, <1>4, <3>1
    <3> QED
      BY <1>9, <1>12, <2>2, <3>1, <3>2
  <2> QED
    BY <2>1, <2>2
<1> QED
  BY <1>11, <1>13, <1>14, <1>15, Reestablished

-----------------------------------------------------------------------------
\* What a request for the list leaves of a room, wherever its loop ended.
LEMMA ListFacts ==
  ASSUME Inv, NEW k \in Client, ListRooms(k), NEW r \in RoomIds
  PROVE  \/ chatroom_list'[r] = chatroom_list[r]
         \/ /\ Exists(r) /\ Pruned(People(r)) = <<>> /\ chatroom_list'[r] = NoRoom
         \/ /\ Exists(r) /\ Pruned(People(r)) # <<>>
            /\ chatroom_list'[r] = [people |-> Pruned(People(r)),
                                    nb_max |-> chatroom_list[r].nb_max]
<1>1. PICK last : PruneUpTo(last)
  BY DEF ListRooms
<1>2. chatroom_list'[r] =
        IF ~Exists(r) \/ r > last THEN chatroom_list[r]
        ELSE IF r \in Emptied THEN NoRoom
        ELSE [chatroom_list[r] EXCEPT !.people = Pruned(@)]
  BY <1>1 DEF PruneUpTo
<1>3. CASE Exists(r)
  <2>1. chatroom_list[r] = [people |-> People(r), nb_max |-> chatroom_list[r].nb_max]
    BY <1>3, RoomFacts
  <2>2. [chatroom_list[r] EXCEPT !.people = Pruned(@)] =
          [people |-> Pruned(People(r)), nb_max |-> chatroom_list[r].nb_max]
    BY <2>1 DEF People
  <2> QED
    BY <1>2, <1>3, <2>2 DEF Emptied
<1> QED
  BY <1>2, <1>3

\* The request for the list removes nobody who is in a room.
LEMMA ListStep ==
  ASSUME Inv, NEW k \in Client, ListRooms(k)
  PROVE  Inv'
<1>1. UNCHANGED <<session, chatroom_id, last_chatroom_id, abandoned>>
  BY DEF ListRooms
<1>2. \A j \in Client : Found(j)' = Found(j)
  BY <1>1 DEF Found
<1>3. ASSUME NEW r \in RoomIds, Exists(r)
      PROVE  LET s == People(r)
                 t == Pruned(s)
             IN  /\ t \in Seq(Client) /\ ToSet(t) \subseteq ToSet(s)
                 /\ \A j \in ToSet(s) : Found(j) => j \in ToSet(t)
                 /\ \A j : Found(j) /\ Once(s, j) => Once(t, j)
                 /\ \A j \in ToSet(s) \ abandoned : chatroom_id[j] = r /\ Once(s, j) /\ Found(j)
                 /\ Cardinality(ToSet(t)) <= chatroom_list[r].nb_max + 1
                 /\ t # <<>> => [people |-> t, nb_max |-> chatroom_list[r].nb_max] \in Rooms
  <2> DEFINE s == People(r)
             t == Pruned(s)
  <2>1. /\ s \in Seq(Client) /\ ToSet(s) \subseteq Client /\ IsFiniteSet(ToSet(s))
        /\ chatroom_list[r].nb_max \in RoomSizes /\ chatroom_list[r].nb_max \in Nat
        /\ \A j \in ToSet(s) \ abandoned : chatroom_id[j] = r /\ Once(s, j)
        /\ Cardinality(ToSet(s)) <= chatroom_list[r].nb_max + 1
    BY <1>3, RoomFacts
  <2>2. /\ t \in Seq(Client) /\ ToSet(t) \subseteq ToSet(s)
        /\ \A j \in ToSet(s) : Found(j) => j \in ToSet(t)
        /\ \A j : Found(j) /\ Once(s, j) => Once(t, j)
    BY <2>1, PrunedEntries
  <2>3. \A j \in ToSet(s) \ abandoned : Found(j)
    BY <2>1, RoomAssumption DEF Inv, InsidersFound, RoomIds
  <2> HIDE DEF s, t
  <2>4. /\ Cardinality(ToSet(t)) <= Cardinality(ToSet(s))
        /\ Cardinality(ToSet(t)) \in Nat /\ Cardinality(ToSet(s)) \in Nat
    <3>1. ToSet(t) \in SUBSET ToSet(s)
      BY <2>2
    <3> QED
      BY <2>1, <3>1, FS_Subset, FS_CardinalityType
  <2>5. [people |-> t, nb_max |-> chatroom_list[r].nb_max] \in Rooms
    BY <2>1, <2>2 DEF Rooms
  <2>6. Cardinality(ToSet(t)) <= chatroom_list[r].nb_max + 1
    BY <2>1, <2>4
  <2> QED
    BY <2>1, <2>2, <2>3, <2>5, <2>6 DEF s, t
<1>4. \A r \in RoomIds :
         \/ chatroom_list'[r] = chatroom_list[r]
         \/ /\ Exists(r) /\ Pruned(People(r)) = <<>> /\ chatroom_list'[r] = NoRoom
         \/ /\ Exists(r) /\ Pruned(People(r)) # <<>>
            /\ chatroom_list'[r] = [people |-> Pruned(People(r)),
                                    nb_max |-> chatroom_list[r].nb_max]
  BY ListFacts
<1>10. ASSUME NEW r \in RoomIds
       PROVE  \/ chatroom_list'[r] = chatroom_list[r]
              \/ ~Exists(r)' /\ chatroom_list'[r] = NoRoom /\ Pruned(People(r)) = <<>>
              \/ chatroom_list'[r] \in Rooms
  <2>1. CASE Exists(r) /\ Pruned(People(r)) # <<>>
    <3>1. [people |-> Pruned(People(r)), nb_max |-> chatroom_list[r].nb_max] \in Rooms
      BY <1>3, <2>1
    <3> QED
      BY <1>4, <2>1, <3>1
  <2>2. CASE ~(Exists(r) /\ Pruned(People(r)) # <<>>)
    BY <1>4, <2>2 DEF Exists
  <2> QED
    BY <2>1, <2>2
<1>5. RoomTypeOK'
  <2>1. ASSUME NEW r \in RoomIds PROVE chatroom_list'[r] \in Rooms \cup {NoRoom}
    <3>1. chatroom_list[r] \in Rooms \cup {NoRoom}
      BY DEF Inv, RoomTypeOK
    <3> QED
      BY <1>10, <3>1
  <2>2. chatroom_list' \in [RoomIds -> Rooms \cup {NoRoom}]
    BY <2>1 DEF ListRooms, PruneUpTo
  <2> QED
    BY <1>1, <2>2 DEF Inv, RoomTypeOK
<1>6. ASSUME NEW r \in RoomIds, Exists(r)'
      PROVE  /\ Exists(r)
             /\ \/ /\ People(r)' = People(r) /\ chatroom_list'[r] = chatroom_list[r]
                \/ /\ People(r)' = Pruned(People(r)) /\ Pruned(People(r)) # <<>>
                   /\ chatroom_list'[r].nb_max = chatroom_list[r].nb_max
  <2>1. chatroom_list'[r] # NoRoom
    BY <1>6 DEF Exists
  <2>2. chatroom_list'[r] = chatroom_list[r] => Exists(r) /\ People(r)' = People(r)
    BY <2>1 DEF Exists, People
  <2>3. chatroom_list'[r] = [people |-> Pruned(People(r)),
                             nb_max |-> chatroom_list[r].nb_max] =>
          /\ People(r)' = Pruned(People(r))
          /\ chatroom_list'[r].nb_max = chatroom_list[r].nb_max
    BY DEF People
  <2> QED
    BY <1>4, <2>1, <2>2, <2>3
<1>7. ASSUME NEW j \in Client, chatroom_id'[j] \in RoomIds \ {MaxRoomId}
      PROVE  Exists(chatroom_id[j])' /\ j \in ToSet(People(chatroom_id[j])')
  <2>1. PICK r \in RoomIds : r = chatroom_id[j] /\ r = chatroom_id'[j] /\ r # MaxRoomId
    BY <1>1, <1>7
  <2>2. Exists(r) /\ j \in ToSet(People(r)) /\ Found(j)
    <3>1. chatroom_id[j] # 0
      BY <2>1, RoomAssumption DEF RoomIds
    <3> QED
      BY <2>1, <3>1 DEF Inv, ClientIsListed, InsidersFound
  <2>3. j \in ToSet(Pruned(People(r))) /\ Pruned(People(r)) # <<>>
    BY <1>3, <2>2, EmptyList
  <2>4. chatroom_list'[r] = chatroom_list[r] \/ chatroom_list'[r] \in Rooms
    BY <1>10, <2>3
  <2>5. Exists(r)'
    BY <2>2, <2>4, NoRoomAssumption DEF Exists
  <2>6. j \in ToSet(People(r)')
    BY <1>6, <2>2, <2>3, <2>5
  <2> QED
    BY <2>1, <2>5, <2>6
<1>8. ASSUME NEW r \in RoomIds, Exists(r)'
      PROVE  /\ People(r)' # <<>>
             /\ \A j \in ToSet(People(r)') \ abandoned' :
                  chatroom_id'[j] = r /\ Once(People(r)', j)
             /\ Cardinality(ToSet(People(r)')) <= chatroom_list'[r].nb_max + 1
  <2>1. Exists(r)
    BY <1>6, <1>8
  <2>2. /\ People(r) # <<>>
        /\ Cardinality(ToSet(People(r))) <= chatroom_list[r].nb_max + 1
    BY <2>1, RoomFacts
  <2>3. /\ ToSet(Pruned(People(r))) \subseteq ToSet(People(r))
        /\ \A j : Found(j) /\ Once(People(r), j) => Once(Pruned(People(r)), j)
        /\ \A j \in ToSet(People(r)) \ abandoned :
             chatroom_id[j] = r /\ Once(People(r), j) /\ Found(j)
        /\ Cardinality(ToSet(Pruned(People(r)))) <= chatroom_list[r].nb_max + 1
    BY <1>3, <2>1
  <2>4. CASE People(r)' = People(r) /\ chatroom_list'[r] = chatroom_list[r]
    BY <1>1, <2>2, <2>4, <2>3
  <2>5. CASE /\ People(r)' = Pruned(People(r)) /\ Pruned(People(r)) # <<>>
             /\ chatroom_list'[r].nb_max = chatroom_list[r].nb_max
    BY <1>1, <2>5, <2>3
  <2> QED
    BY <1>6, <1>8, <2>4, <2>5
<1>9. \A j \in Client : chatroom_id'[j] # 0 => Found(j)'
  BY <1>1, <1>2 DEF Inv, InsidersFound
<1> QED
  BY <1>5, <1>7, <1>8, <1>9, Reestablished

-----------------------------------------------------------------------------
\* Every handler keeps clients and rooms in step, up to the abandoned entries.
LEMMA InvStep == Inv /\ [RoomNext]_roomVars => Inv'
<1> SUFFICES ASSUME Inv, [RoomNext]_roomVars PROVE Inv'
  OBVIOUS
<1> USE RoomAssumption DEF Sessions
<1>1. ASSUME NEW k \in Client, Identify(k) \/ RequestWorld(k) \/ WSCharSelect(k)
      PROVE  Inv'
  <2>1. /\ UNCHANGED <<chatroom_id, chatroom_list, last_chatroom_id, abandoned>>
        /\ session' \in [Client -> Sessions]
        /\ \A j \in Client : Found(j) => Found(j)'
    BY <1>1 DEF Identify, RequestWorld, WSCharSelect, Inv, RoomTypeOK, Found
  <2>2. /\ chatroom_id' \in [Client -> 0..MaxRoomId]
        /\ abandoned \subseteq abandoned' /\ abandoned' \subseteq Client
    BY <2>1 DEF Inv, RoomTypeOK
  <2>3. \A j \in Client : /\ chatroom_id'[j] # chatroom_id[j] =>
                               chatroom_id'[j] = 0 /\ j \in abandoned'
                          /\ chatroom_id'[j] # 0 => Found(j)'
    BY <2>1 DEF Inv, InsidersFound
  <2> QED
    BY <2>1, <2>2, <2>3, QuietStep
<1>2. ASSUME NEW k \in Client, DisconnectEarlyReturn(k) PROVE Inv'
  <2>1. /\ UNCHANGED <<chatroom_list, last_chatroom_id>>
        /\ session' \in [Client -> Sessions] /\ chatroom_id' \in [Client -> 0..MaxRoomId]
        /\ abandoned \subseteq abandoned' /\ abandoned' \subseteq Client
    BY <1>2 DEF DisconnectEarlyReturn, Inv, RoomTypeOK
  <2>2. \A j \in Client : /\ j # k => chatroom_id'[j] = chatroom_id[j]
                                      /\ session'[j] = session[j]
                          /\ j = k => chatroom_id'[j] = 0
    BY <1>2 DEF DisconnectEarlyReturn, Inv, RoomTypeOK
  <2>3. chatroom_id[k] # 0 => k \in abandoned'
    BY <1>2 DEF DisconnectEarlyReturn
  <2>4. \A j \in Client : /\ chatroom_id'[j] # chatroom_id[j] =>
                               chatroom_id'[j] = 0 /\ j \in abandoned'
                          /\ chatroom_id'[j] # 0 => Found(j)'
    BY <2>2, <2>3 DEF Inv, InsidersFound, Found
  <2> QED
    BY <2>1, <2>4, QuietStep
<1>3. ASSUME NEW k \in Client, GetCharacters(k) \/ LeaveRoom(k) \/ DisconnectCleanly(k)
      PROVE  Inv'
  <2>1. /\ LeaveChat(k) /\ session' \in [Client -> Sessions]
        /\ \A j \in Client \ {k} : session'[j] = session[j]
        /\ UNCHANGED <<last_chatroom_id, abandoned>>
    BY <1>3 DEF GetCharacters, LeaveRoom, DisconnectCleanly, Inv, RoomTypeOK
  <2> QED
    BY <2>1, LeaveStep
<1>4. ASSUME NEW k \in Client, ListRoomsCrash(k) PROVE Inv'
  BY <1>4, EmptyServer DEF ListRoomsCrash
<1>5. CASE UNCHANGED roomVars
  <2>1. UNCHANGED <<session, chatroom_id, chatroom_list, last_chatroom_id, abandoned>>
    BY <1>5 DEF roomVars
  <2>2. /\ session' \in [Client -> Sessions] /\ chatroom_id' \in [Client -> 0..MaxRoomId]
        /\ abandoned \subseteq abandoned' /\ abandoned' \subseteq Client
    BY <2>1 DEF Inv, RoomTypeOK
  <2>3. \A j \in Client : chatroom_id'[j] # 0 => Found(j)'
    BY <2>1 DEF Inv, InsidersFound, Found
  <2> QED
    BY <2>1, <2>2, <2>3, QuietStep
<1> QED
  BY <1>1, <1>2, <1>3, <1>4, <1>5, CreateStep, JoinStep, ListStep DEF RoomNext

\* Everything the proofs rest on, in every reachable state.
THEOREM Invariance == RoomSpec => []Inv
BY InvInit, InvStep, PTL DEF RoomSpec

\* The variables keep their types: an id never exceeds the last one, though the
\* numbering goes on from the last id given.
THEOREM TypeCorrect == RoomSpec => []RoomTypeOK
<1>1. Inv => RoomTypeOK
  BY DEF Inv
<1> QED
  BY <1>1, Invariance, PTL

\* The room a client believes to be in exists and lists him, unless it has the
\* id that is given when all are taken.
THEOREM ListedWhereHeIs == RoomSpec => []ClientIsListed
<1>1. Inv => ClientIsListed
  BY DEF Inv
<1> QED
  BY <1>1, Invariance, PTL

\* No room is empty, and an entry whose client is elsewhere was left behind by
\* a disconnect that returned early or by joining from another room.
THEOREM StrayEntriesExplained == RoomSpec => []OnlyAbandonedEntries
<1>1. Inv => OnlyAbandonedEntries
  BY DEF Inv
<1> QED
  BY <1>1, Invariance, PTL

\* A room holds at most one character more than the size it was made for,
\* whatever entries were left behind in it.
THEOREM RoomsBounded == RoomSpec => []RoomBound
<1>1. Inv => RoomBound
  BY DEF Inv
<1> QED
  BY <1>1, Invariance, PTL

\* A request for the list that gets through leaves at most one stray entry in a
\* room and takes nobody out who is found.
THEOREM RequestPrunes == RoomSpec => ListingPrunes
<1> DEFINE A == (\E k \in Client : ListRooms(k)) /\ Emptied = {} =>
                  \A r \in RoomIds : Exists(r) =>
                    /\ Cardinality({i \in DOMAIN People(r)' : ~Found(People(r)'[i])}) <= 1
                    /\ \A k \in ToSet(People(r)) : Found(k) => k \in ToSet(People(r)')
<1>1. Inv /\ [RoomNext]_roomVars => [A]_roomVars
  <2> SUFFICES ASSUME Inv, NEW j \in Client, ListRooms(j), Emptied = {},
                      NEW r \in RoomIds, Exists(r)
               PROVE  /\ Cardinality({i \in DOMAIN People(r)' : ~Found(People(r)'[i])}) <= 1
                      /\ \A k \in ToSet(People(r)) :
                           Found(k) => k \in ToSet(People(r)')
    OBVIOUS
  <2> DEFINE t == Pruned(People(r))
             X == {i \in DOMAIN t : ~Found(t[i])}
  <2>1. PruneUpTo(MaxRoomId)
    BY DEF ListRooms
  <2>2. /\ People(r) \in Seq(Client)
        /\ chatroom_list[r] = [people |-> People(r), nb_max |-> chatroom_list[r].nb_max]
    BY RoomFacts
  <2>3. r \in 1..MaxRoomId /\ ~(r > MaxRoomId)
    BY RoomAssumption DEF RoomIds
  <2>4. chatroom_list'[r] = [chatroom_list[r] EXCEPT !.people = Pruned(@)]
    BY <2>1, <2>3 DEF PruneUpTo
  <2>5. People(r)' = t
    BY <2>2, <2>4 DEF People
  <2>6. /\ \A k \in ToSet(People(r)) : Found(k) => k \in ToSet(t)
        /\ \A m, n \in DOMAIN t : ~Found(t[m]) /\ ~Found(t[n]) => m = n
    BY <2>2, PrunedEntries
  <2>7. X = {} \/ \E i : X = {i}
    <3> HIDE DEF t
    <3> QED
      BY <2>6
  <2>8. Cardinality(X) <= 1
    <3> HIDE DEF X
    <3>1. CASE X = {}
      BY <3>1, FS_EmptySet
    <3>2. ASSUME NEW i, X = {i} PROVE Cardinality(X) <= 1
      <4>1. Cardinality({i}) = 1
        BY FS_Singleton
      <4> QED
        BY <3>2, <4>1
    <3> QED
      BY <2>7, <3>1, <3>2
  <2> QED
    BY <2>5, <2>6, <2>8
<1>2. ListingPrunes <=> [][A]_roomVars
  BY DEF ListingPrunes
<1> HIDE DEF A
<1> QED
  BY <1>1, <1>2, Invariance, PTL DEF RoomSpec
=============================================================================
