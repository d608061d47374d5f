------------------------------ MODULE Sockets ------------------------------
(***************************************************************************)
(* The server loop that the three programs share: accept, poll, receive,   *)
(* and the removal of clients that were marked inactive.                   *)
(*                                                                         *)
(* FillFDS and HandleClients walk ClientList by index while                *)
(* DisconnectClient erases from it, so whoever follows an erased client is *)
(* passed over for the rest of that walk.  The loop is single-threaded     *)
(* (usethreads = 0); one step below is one turn of a walk, and the         *)
(* handlers are abstracted to what they do to sockets: a handler may mark  *)
(* any client inactive (a kick), or fail, which closes its own.            *)
(***************************************************************************)
EXTENDS Naturals, SequencesExt

CONSTANTS Peer,        \* game programs, each with an address of its own
          MaxClients,  \* the bound on ConnectedClients (1024)
          MaxChanges   \* bound: rows an administrator puts into ban_list

ASSUME SockAssumption == MaxClients \in Nat \ {0} /\ MaxChanges \in Nat

VARIABLES
  clientList,  \* CServerSocket::ClientList
  isActive,    \* CClientSocket::isActive
  connected,   \* ConnectedClients
  backlog,     \* connections the listening socket has not handed out
  data,        \* the peer's bytes, or the end of them, wait to be read
  gone,        \* the peer has closed or lost the connection
  walk,        \* the loop that runs: "fill" FillFDS, "handle" HandleClients
  turn,        \* its index i, from 1
  fds,         \* filled by FillFDS, then what select has left in it
  ban,         \* the peer's row in ban_list
  changes      \* rows entered so far

peerVars == <<backlog, data, gone>>
banVars  == <<ban, changes>>
sockVars == <<clientList, isActive, connected, backlog, data, gone, walk, turn,
              fds, ban, changes>>

\* "running" and "over": startban + bantime is still to come, or has passed.
Bans == {"none", "permanent", "running", "over"}

\* Types of the loop's state; a walk stays within one place of the list's end.
SockTypeOK ==
  /\ clientList \in Seq(Peer)
  /\ isActive \in [Peer -> BOOLEAN]
  /\ connected \in Nat
  /\ backlog \in Seq(Peer)
  /\ data \in [Peer -> BOOLEAN] /\ gone \in [Peer -> BOOLEAN]
  /\ walk \in {"fill", "handle"}
  /\ turn \in Nat \ {0}
  /\ fds \subseteq Peer
  /\ ban \in [Peer -> Bans] /\ changes \in 0..MaxChanges

SockInit ==
  /\ clientList = <<>> /\ backlog = <<>>
  /\ isActive = [k \in Peer |-> FALSE]
  /\ connected = 0
  /\ data = [k \in Peer |-> FALSE] /\ gone = [k \in Peer |-> FALSE]
  /\ walk = "fill" /\ turn = 1 /\ fds = {}
  /\ ban = [k \in Peer |-> "none"] /\ changes = 0

InList(k)  == k \in ToSet(clientList)
Waiting(k) == k \in ToSet(backlog)

-----------------------------------------------------------------------------
\* A game program connects; the listening socket queues it.
Dial(k) ==
  /\ ~InList(k) /\ ~Waiting(k)
  /\ backlog' = Append(backlog, k)
  /\ data' = [data EXCEPT ![k] = FALSE] /\ gone' = [gone EXCEPT ![k] = FALSE]
  /\ UNCHANGED <<clientList, isActive, connected, walk, turn, fds, banVars>>

Send(k) ==
  /\ InList(k) /\ ~gone[k] /\ ~data[k]
  /\ data' = [data EXCEPT ![k] = TRUE]
  /\ UNCHANGED <<clientList, isActive, connected, backlog, gone, walk, turn,
                 fds, banVars>>

HangUp(k) ==
  /\ InList(k) /\ ~gone[k]
  /\ gone' = [gone EXCEPT ![k] = TRUE] /\ data' = [data EXCEPT ![k] = TRUE]
  /\ UNCHANGED <<clientList, isActive, connected, backlog, walk, turn, fds,
                 banVars>>

\* Nothing in the servers writes ban_list: rows are entered by hand.
EnterBan(k, b) ==
  /\ changes < MaxChanges /\ ban[k] = "none"
  /\ ban' = [ban EXCEPT ![k] = b] /\ changes' = changes + 1
  /\ UNCHANGED <<clientList, isActive, connected, peerVars, walk, turn, fds>>

RunOut(k) ==
  /\ ban[k] = "running"
  /\ ban' = [ban EXCEPT ![k] = "over"]
  /\ UNCHANGED <<clientList, isActive, connected, peerVars, walk, turn, fds,
                 changes>>

-----------------------------------------------------------------------------
\* The first entry of the client is erased from the list.
Unlist(k) ==
  \E i \in 1..Len(clientList) :
    /\ clientList[i] = k /\ \A j \in 1..i - 1 : clientList[j] # k
    /\ clientList' = RemoveAt(clientList, i)

\* Variant: the counter is left alone.
DisconnectUncounted(k) ==
  /\ UNCHANGED connected
  /\ Unlist(k)
  /\ data' = [data EXCEPT ![k] = FALSE] /\ gone' = [gone EXCEPT ![k] = FALSE]

\* Variant: the failing client is counted down here and by the caller.
DisconnectTwiceCounted(k) ==
  /\ connected' = connected - 2
  /\ Unlist(k)
  /\ data' = [data EXCEPT ![k] = FALSE] /\ gone' = [gone EXCEPT ![k] = FALSE]

\* The counter, the socket, the first entry of the client, and the object.
DisconnectClient(k) ==
  /\ connected' = connected - 1
  /\ Unlist(k)
  /\ data' = [data EXCEPT ![k] = FALSE] /\ gone' = [gone EXCEPT ![k] = FALSE]

\* Variant: inactive clients are passed over.
FillLazy ==
  /\ walk = "fill" /\ turn <= Len(clientList)
  /\ fds' = {k \in fds \cup {clientList[turn]} : isActive[k]}
  /\ turn' = turn + 1
  /\ UNCHANGED <<clientList, connected, data, gone, isActive, backlog, walk,
                 banVars>>

\* One turn of FillFDS.  The index is raised after an erasure as well.
Fill ==
  /\ walk = "fill" /\ turn <= Len(clientList)
  /\ LET k == clientList[turn] IN
     \/ /\ isActive[k]
        /\ fds' = fds \cup {k}
        /\ UNCHANGED <<clientList, connected, data, gone>>
     \/ /\ ~isActive[k]
        /\ DisconnectClient(k)
        /\ UNCHANGED fds
  /\ turn' = turn + 1
  /\ UNCHANGED <<isActive, backlog, walk, banVars>>

\* isBanned: "finishban >= GetServerTime" deletes the row and lets the peer in,
\* and refuses him when the ban is over; its comment promises "true if the client
\* is banned".
IsBanned(k) ==
  /\ ban' = [ban EXCEPT ![k] = IF @ = "running" THEN "none" ELSE @]
  /\ ban[k] \in {"permanent", "over"}

\* The same call when it answers no.
NotBanned(k) ==
  /\ ban' = [ban EXCEPT ![k] = IF @ = "running" THEN "none" ELSE @]
  /\ ban[k] \in {"none", "running"}

AddUser(k) ==
  /\ connected' = connected + 1
  /\ isActive' = [isActive EXCEPT ![k] = TRUE]
  /\ clientList' = Append(clientList, k)

\* Variant: the limit is tested one too late.
AcceptRoomLate == connected <= MaxClients

AcceptRoom == connected < MaxClients

\* accept, for the connection at the head of the queue.
Accept ==
  /\ backlog # <<>> /\ AcceptRoom
  /\ backlog' = Tail(backlog)
  /\ \/ NotBanned(Head(backlog)) /\ AddUser(Head(backlog))
     \/ IsBanned(Head(backlog)) /\ UNCHANGED <<connected, isActive, clientList>>

\* The end of FillFDS: select, accept, and on to HandleClients; with nothing to
\* do the next round begins at once.
Select ==
  /\ walk = "fill" /\ turn > Len(clientList)
  /\ turn' = 1
  /\ LET ready == {k \in fds : data[k]} IN
     IF ready = {} /\ backlog = <<>>
     THEN /\ fds' = {}
          /\ UNCHANGED <<walk, clientList, isActive, connected, backlog, ban>>
     ELSE /\ fds' = ready
          /\ walk' = "handle"
          /\ \/ Accept
             \/ /\ backlog = <<>> \/ ~AcceptRoom
                /\ UNCHANGED <<clientList, isActive, connected, backlog, ban>>
  /\ UNCHANGED <<data, gone, changes>>

\* ReceiveData succeeds; its handler may mark clients inactive, as a kick does.
\* It reads one block, a header or the rest of a packet; the next is a Send.
Receive(k) ==
  /\ ~gone[k]
  /\ data' = [data EXCEPT ![k] = FALSE]
  /\ isActive' \in {isActive} \cup {[isActive EXCEPT ![j] = FALSE] :
                                       j \in ToSet(clientList)}
  /\ UNCHANGED <<clientList, connected, gone>>

\* recv or the handler fails.
Fail(k) ==
  /\ isActive' = [isActive EXCEPT ![k] = FALSE]
  /\ DisconnectClient(k)

\* Variant: the walk ends before the last client.
HandleShort ==
  /\ walk = "handle" /\ turn <= Len(clientList)
  /\ LET k == clientList[turn] IN
     IF isActive[k] /\ k \in fds /\ turn < Len(clientList)
     THEN Receive(k) \/ Fail(k)
     ELSE UNCHANGED <<clientList, connected, data, gone, isActive>>
  /\ turn' = turn + 1
  /\ UNCHANGED <<backlog, walk, fds, banVars>>

\* One turn of HandleClients.
Handle ==
  /\ walk = "handle" /\ turn <= Len(clientList)
  /\ LET k == clientList[turn] IN
     IF isActive[k] /\ k \in fds
     THEN Receive(k) \/ Fail(k)
     ELSE UNCHANGED <<clientList, connected, data, gone, isActive>>
  /\ turn' = turn + 1
  /\ UNCHANGED <<backlog, walk, fds, banVars>>

NextRound ==
  /\ walk = "handle" /\ turn > Len(clientList)
  /\ walk' = "fill" /\ turn' = 1 /\ fds' = {}
  /\ UNCHANGED <<clientList, isActive, connected, peerVars, banVars>>

ServerLoop == Fill \/ Select \/ Handle \/ NextRound

SockNext ==
  \/ ServerLoop
  \/ \E k \in Peer : Dial(k) \/ Send(k) \/ HangUp(k) \/ RunOut(k)
  \/ \E k \in Peer, b \in {"permanent", "running"} : EnterBan(k, b)

\* Without fairness: what the proofs of safety start from.
SockSpec == SockInit /\ [][SockNext]_sockVars

-----------------------------------------------------------------------------
(* What the loop keeps.                                                    *)

\* ConnectedClients is the length of ClientList, nobody is in the list twice,
\* and the limit holds: the counter is raised and lowered in AddUser and
\* DisconnectClient only, far from the list operations.
CounterExact ==
  /\ connected = Len(clientList)
  /\ IsInjective(clientList)
  /\ connected <= MaxClients

\* A client that was marked inactive leaves the list, though FillFDS may pass
\* over it in a round in which it erases the one before.
InactiveIsSwept ==
  \A k \in Peer : (InList(k) /\ ~isActive[k]) ~> ~InList(k)

\* What a client has sent is read, or the client is closed, though both walks
\* pass over the neighbour of a client they erase.
ReadyIsServed ==
  \A k \in Peer : (InList(k) /\ data[k]) ~> (~InList(k) \/ ~data[k])

\* A connection in the queue is accepted or refused if there is room again and
\* again: the counter does not leak.
QueueIsServed ==
  \A k \in Peer : []<>(Len(clientList) < MaxClients) => (Waiting(k) ~> ~Waiting(k))
=============================================================================
