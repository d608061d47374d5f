----------------------------- MODULE ChatRooms -----------------------------
(***************************************************************************)
(* The chat rooms of the char server.                                      *)
(*                                                                         *)
(* A room keeps the characters in it (People_list), a client keeps the id  *)
(* of its room (chatroom_id), and nothing ties the two together but the    *)
(* handlers: rooms are left by a packet, by the character list, and by     *)
(* OnClientDisconnect, which gives up early when the messenger has logged  *)
(* the player out or he has no clan.  What is left behind is removed when  *)
(* somebody asks for the list of rooms.                                    *)
(*                                                                         *)
(* An account has one socket at the char server (module Session) and, in   *)
(* this module, one character, so a Client stands for all three.  Names,   *)
(* passwords and talk change no state but refuse some requests, which is   *)
(* the case that the client does not ask.                                  *)
(***************************************************************************)
EXTENDS Naturals, FiniteSets, SequencesExt

CONSTANTS Client,      \* clients of the char server, with their character
          MaxRoomId,   \* where GetChatroomID stops, and what it returns when
                       \* no id is free (0xff)
          RoomSizes,   \* nb_max asked for
          NoRoom,      \* an id that is not in chatroom_list
          MaxEntries   \* bound: entries of all People_lists together

ASSUME RoomAssumption ==
  /\ MaxRoomId \in Nat \ {0}
  /\ RoomSizes \subseteq 0..255
  /\ MaxEntries \in Nat \ {0}

RoomIds == 1..MaxRoomId
Rooms   == [people : Seq(Client), nb_max : RoomSizes]

ASSUME NoRoomAssumption == NoRoom \notin Rooms

VARIABLES
  session,         \* what the client is doing
  chatroom_id,     \* CCharClient::chatroom_id, 0 for none
  chatroom_list,   \* CCharServer::chatroom_list
  last_chatroom_id,
  abandoned        \* history: clients that have left an entry behind

roomVars == <<session, chatroom_id, chatroom_list, last_chatroom_id, abandoned>>

\* "new": identified, no character chosen, so charid is 0.  "select": the world
\* server has reported that he goes back to character select.
Sessions == {"none", "new", "playing", "select"}

RoomTypeOK ==
  /\ session \in [Client -> Sessions]
  /\ chatroom_id \in [Client -> 0..MaxRoomId]
  /\ chatroom_list \in [RoomIds -> Rooms \cup {NoRoom}]
  /\ last_chatroom_id \in 0..MaxRoomId
  /\ abandoned \subseteq Client

RoomInit ==
  /\ session = [k \in Client |-> "none"]
  /\ chatroom_id = [k \in Client |-> 0]
  /\ chatroom_list = [r \in RoomIds |-> NoRoom]
  /\ last_chatroom_id = 0
  /\ abandoned = {}

Exists(r) == r \in RoomIds /\ chatroom_list[r] # NoRoom
People(r) == chatroom_list[r].people
Entries   == FoldSet(LAMBDA r, n : Len(People(r)) + n, 0, {r \in RoomIds : Exists(r)})

\* GetClientByID: charid is set by pakRequestWorld and kept until the end.
Found(k) == session[k] \in {"playing", "select"}

-----------------------------------------------------------------------------
Identify(k) ==
  /\ session[k] = "none"
  /\ session' = [session EXCEPT ![k] = "new"]
  /\ UNCHANGED <<chatroom_id, chatroom_list, last_chatroom_id, abandoned>>

RequestWorld(k) ==
  /\ session[k] \in {"new", "select"}
  /\ session' = [session EXCEPT ![k] = "playing"]
  /\ UNCHANGED <<chatroom_id, chatroom_list, last_chatroom_id, abandoned>>

\* pakWSCharSelect: the clean-up is applied to the socket of the world server,
\* which is in no room.
WSCharSelect(k) ==
  /\ session[k] = "playing"
  /\ session' = [session EXCEPT ![k] = "select"]
  /\ UNCHANGED <<chatroom_id, chatroom_list, last_chatroom_id, abandoned>>

\* Variant: the client forgets its room, the room keeps the client.
LeaveChatOneSided(k) ==
  /\ chatroom_id' = [chatroom_id EXCEPT ![k] = 0]
  /\ UNCHANGED chatroom_list

\* DisconnectClientFromChat: the first entry of the client goes, and the room
\* with its last entry.
LeaveChat(k) ==
  LET r    == chatroom_id[k]
      at   == IF Exists(r) THEN {i \in DOMAIN People(r) : People(r)[i] = k} ELSE {}
      left == IF at = {} THEN People(r)
              ELSE RemoveAt(People(r), CHOOSE i \in at : \A j \in at : i <= j)
  IN  /\ chatroom_id' = [chatroom_id EXCEPT ![k] = 0]
      /\ chatroom_list' =
           IF ~Exists(r) THEN chatroom_list
           ELSE [chatroom_list EXCEPT ![r] =
                   IF left = <<>> THEN NoRoom ELSE [@ EXCEPT !.people = left]]

\* pakGetCharacters cleans the chat id (without one nothing changes).
GetCharacters(k) ==
  /\ session[k] \in {"new", "select"} /\ chatroom_id[k] # 0
  /\ LeaveChat(k)
  /\ UNCHANGED <<session, last_chatroom_id, abandoned>>

\* OnClientDisconnect, when the messenger has not logged the player out before
\* and GetClanByID finds his clan.
DisconnectCleanly(k) ==
  /\ session[k] # "none"
  /\ session' = [session EXCEPT ![k] = "none"]
  /\ LeaveChat(k)
  /\ UNCHANGED <<last_chatroom_id, abandoned>>

\* The other cases: the object goes, the room keeps its entry.
DisconnectEarlyReturn(k) ==
  /\ session[k] # "none"
  /\ session' = [session EXCEPT ![k] = "none"]
  /\ chatroom_id' = [chatroom_id EXCEPT ![k] = 0]
  /\ abandoned' = IF chatroom_id[k] = 0 THEN abandoned ELSE abandoned \cup {k}
  /\ UNCHANGED <<chatroom_list, last_chatroom_id>>

-----------------------------------------------------------------------------
\* Variant: the second scan does not look at the list.
FreeRoomIdUnchecked ==
  LET up == {i \in last_chatroom_id + 1..MaxRoomId - 1 : ~Exists(i)}
  IN  IF up # {} THEN CHOOSE i \in up : \A j \in up : i <= j ELSE 1

\* Variant: the ids are taken in turn and never again.
FreeRoomIdInTurn == last_chatroom_id + 1

\* GetChatroomID: upwards from the last one, then from 1, then MaxRoomId, which
\* the caller does not recognise as a failure (it compares with 0xffff).
FreeRoomId ==
  LET up    == {i \in last_chatroom_id + 1..MaxRoomId - 1 : ~Exists(i)}
      again == {i \in 1..last_chatroom_id : ~Exists(i)}
      least(S) == CHOOSE i \in S : \A j \in S : i <= j
  IN  IF up # {} THEN least(up) ELSE IF again # {} THEN least(again) ELSE MaxRoomId

CreateRoom(k, n) ==
  /\ session[k] = "playing" /\ chatroom_id[k] = 0 /\ Entries < MaxEntries
  /\ chatroom_list' =
       [chatroom_list EXCEPT ![FreeRoomId] = [people |-> <<k>>, nb_max |-> n]]
  /\ last_chatroom_id' = FreeRoomId
  /\ chatroom_id' = [chatroom_id EXCEPT ![k] = FreeRoomId]
  /\ UNCHANGED <<session, abandoned>>

\* The entries counted before the joiner's own: the loop stops there.
CountedBefore(k, r) ==
  LET at == {i \in DOMAIN People(r) : People(r)[i] = k}
  IN  IF at = {} THEN Len(People(r)) ELSE (CHOOSE i \in at : \A j \in at : i <= j) - 1

\* Variant: nobody is turned away.
FitsAlways(k, r) == TRUE

Fits(k, r) == CountedBefore(k, r) <= chatroom_list[r].nb_max

\* Joining asks neither whether the client is in a room already nor whether he
\* is in this one: is_ok is set again by the test of the size.
JoinRoom(k, r) ==
  /\ session[k] = "playing" /\ Exists(r) /\ Fits(k, r) /\ Entries < MaxEntries
  /\ chatroom_list' = [chatroom_list EXCEPT ![r].people = Append(@, k)]
  /\ chatroom_id' = [chatroom_id EXCEPT ![k] = r]
  /\ abandoned' = IF chatroom_id[k] = 0 THEN abandoned ELSE abandoned \cup {k}
  /\ UNCHANGED <<session, last_chatroom_id>>

LeaveRoom(k) ==
  /\ session[k] = "playing" /\ chatroom_id[k] # 0
  /\ LeaveChat(k)
  /\ UNCHANGED <<session, last_chatroom_id, abandoned>>

\* The entries of s at the positions P, in their order.
Picked(s, P) ==
  [n \in 1..Cardinality(P) |->
     s[CHOOSE i \in P : Cardinality({j \in P : j <= i}) = n]]

\* Variant: entries that are found are removed, the others kept.
PrunedReversed(s) == Picked(s, {i \in DOMAIN s : ~Found(s[i])})

\* The loop over People_list.  After an erasure the index is set to 0 and then
\* raised, so the entry that follows an erased first one is never looked at.
Pruned(s) == Picked(s, {i \in DOMAIN s : Found(s[i]) \/ (i = 2 /\ ~Found(s[1]))})

Emptied == {r \in RoomIds : Exists(r) /\ Pruned(People(r)) = <<>>}

\* Rooms that the request for the list cleans, given where it ends.
PruneUpTo(last) ==
  chatroom_list' =
    [r \in RoomIds |->
       IF ~Exists(r) \/ r > last THEN chatroom_list[r]
       ELSE IF r \in Emptied THEN NoRoom
       ELSE [chatroom_list[r] EXCEPT !.people = Pruned(@)]]

\* The list of rooms is asked for.  Erasing a room invalidates the iterator that
\* is raised next: the loop goes on, ends early, or the server dies.
ListRooms(k) ==
  /\ session[k] = "playing" /\ chatroom_id[k] = 0
  /\ \/ PruneUpTo(MaxRoomId)
     \/ \E r \in Emptied : PruneUpTo(r)
  /\ UNCHANGED <<session, chatroom_id, last_chatroom_id, abandoned>>

\* A server that died comes back with no rooms and no clients.
ListRoomsCrash(k) ==
  /\ session[k] = "playing" /\ chatroom_id[k] = 0
  /\ Emptied # {}
  /\ session' = [j \in Client |-> "none"]
  /\ chatroom_id' = [j \in Client |-> 0]
  /\ chatroom_list' = [r \in RoomIds |-> NoRoom]
  /\ last_chatroom_id' = 0
  /\ abandoned' = {}

RoomNext ==
  \/ \E k \in Client :
       \/ Identify(k) \/ RequestWorld(k) \/ WSCharSelect(k)
       \/ GetCharacters(k) \/ LeaveRoom(k)
       \/ DisconnectCleanly(k) \/ DisconnectEarlyReturn(k)
       \/ ListRooms(k) \/ ListRoomsCrash(k)
  \/ \E k \in Client, n \in RoomSizes : CreateRoom(k, n)
  \/ \E k \in Client, r \in RoomIds : JoinRoom(k, r)

RoomSpec == RoomInit /\ [][RoomNext]_roomVars

-----------------------------------------------------------------------------
(* What the handlers keep.                                                 *)

\* The room a client believes to be in exists and lists him, whoever has left,
\* been disconnected or asked for the list meanwhile; pakTalkChatroom relies on
\* it.  Only the id that GetChatroomID returns when all are taken is excepted:
\* the next room made there replaces the last one.
ClientIsListed ==
  \A k \in Client :
    chatroom_id[k] \in RoomIds \ {MaxRoomId} =>
      Exists(chatroom_id[k]) /\ k \in ToSet(People(chatroom_id[k]))

\* An entry whose client is elsewhere is due to one of three things: a
\* disconnect that returned early, or a client that joined while in a room.
\* Every other way out (packet, character list, disconnect of a clan member)
\* leaves no entry, and a room is never left empty.
OnlyAbandonedEntries ==
  \A r \in RoomIds : Exists(r) =>
    /\ People(r) # <<>>
    /\ \A k \in ToSet(People(r)) \ abandoned :
         /\ chatroom_id[k] = r
         /\ Cardinality({i \in DOMAIN People(r) : People(r)[i] = k}) = 1

\* At most one character more than the size asked for (the test is <=), however
\* often members leave entries behind and join again.
RoomBound ==
  \A r \in RoomIds : Exists(r) =>
    Cardinality(ToSet(People(r))) <= chatroom_list[r].nb_max + 1

\* A request for the list that gets through leaves at most one entry of a
\* character that is gone in a room, and no client of a room loses his.
ListingPrunes ==
  [][(\E k \in Client : ListRooms(k)) /\ Emptied = {} =>
       \A r \in RoomIds : Exists(r) =>
         /\ Cardinality({i \in DOMAIN People(r)' : ~Found(People(r)'[i])}) <= 1
         /\ \A k \in ToSet(People(r)) : Found(k) => k \in ToSet(People(r)')]_roomVars
=============================================================================
