--------------------------- MODULE SocketsProofs ---------------------------
(* Theorems about Sockets for every set of peers, every limit and any      *)
(* number of bans.                                                         *)
EXTENDS Sockets, SequenceFacts

\* A peer waits in the queue once, and not while he is in the list.
QueueApart ==
  /\ IsInjective(backlog)
  /\ ToSet(backlog) \cap ToSet(clientList) = {}

Inv == SockTypeOK /\ CounterExact /\ QueueApart

\* The server starts with an empty list and an empty queue.
LEMMA InvInit == SockInit => Inv
<1> SUFFICES ASSUME SockInit PROVE Inv
  OBVIOUS
<1> USE SockAssumption, EmptyList DEF SockInit
<1>1. SockTypeOK
  BY DEF SockTypeOK, Bans
<1>2. CounterExact /\ QueueApart
  BY DEF CounterExact, QueueApart
<1> QED
  BY <1>1, <1>2 DEF Inv

-----------------------------------------------------------------------------
\* Taking the head off the queue.
LEMMA Dequeued ==
  ASSUME NEW s \in Seq(Peer), s # <<>>, IsInjective(s)
  PROVE  /\ Head(s) \in Peer /\ Head(s) \in ToSet(s) /\ Tail(s) \in Seq(Peer)
         /\ IsInjective(Tail(s)) /\ ToSet(Tail(s)) = ToSet(s) \ {Head(s)}
<1>1. Len(s) \in Nat /\ 1 \in 1..Len(s)
  BY EmptySeq
<1>2. Tail(s) = SubSeq(s, 2, Len(s)) /\ Head(s) = s[1]
  BY TailIsSubSeq
<1>3. SubSeq(s, 1, 0) = <<>> /\ SubSeq(s, 2, Len(s)) \in Seq(Peer)
  BY <1>2, SubSeqEmpty, HeadTailProperties
<1>4. RemoveAt(s, 1) = Tail(s)
  BY <1>2, <1>3, ConcatEmptySeq DEF RemoveAt
<1>5. IsInjective(Tail(s)) /\ ToSet(Tail(s)) = ToSet(s) \ {s[1]}
  <2>1. IsInjective(RemoveAt(s, 1)) /\ ToSet(RemoveAt(s, 1)) = ToSet(s) \ {s[1]}
    BY <1>1, ErasedInjective
  <2> QED
    BY <1>4, <2>1
<1>6. s[1] \in ToSet(s) /\ s[1] \in Peer
  BY <1>1, EntriesOf
<1> QED
  BY <1>2, <1>3, <1>5, <1>6

\* The list without one client.
LEMMA Unlisted ==
  ASSUME Inv, NEW k, Unlist(k)
  PROVE  /\ clientList' \in Seq(Peer) /\ IsInjective(clientList')
         /\ Len(clientList') = Len(clientList) - 1 /\ Len(clientList) \in Nat \ {0}
         /\ ToSet(clientList') = ToSet(clientList) \ {k}
<1>1. PICK i \in 1..Len(clientList) :
        clientList[i] = k /\ clientList' = RemoveAt(clientList, i)
  BY DEF Unlist
<1>2. clientList \in Seq(Peer) /\ IsInjective(clientList)
  BY DEF Inv, SockTypeOK, CounterExact
<1>3. Len(clientList) \in Nat
  BY <1>2, EntriesOf
<1> QED
  BY <1>1, <1>2, <1>3, Erased, ErasedInjective

\* DisconnectClient counts down by one and shortens the list by one; with the
\* rest of its caller's step, whatever else that does to flags and to fds.
LEMMA DisconnectStep ==
  ASSUME Inv, NEW k \in Peer, DisconnectClient(k),
         isActive' \in [Peer -> BOOLEAN], fds' \subseteq Peer, turn' \in Nat \ {0},
         UNCHANGED <<backlog, walk, banVars>>
  PROVE  Inv'
<1>1. /\ connected' = connected - 1 /\ Unlist(k)
      /\ data' \in [Peer -> BOOLEAN] /\ gone' \in [Peer -> BOOLEAN]
  BY DEF DisconnectClient, Inv, SockTypeOK
<1>2. /\ clientList' \in Seq(Peer) /\ IsInjective(clientList')
      /\ Len(clientList') = Len(clientList) - 1 /\ Len(clientList) \in Nat \ {0}
      /\ ToSet(clientList') = ToSet(clientList) \ {k}
  BY <1>1, Unlisted
<1>3. SockTypeOK'
  BY <1>1, <1>2 DEF Inv, SockTypeOK, CounterExact, banVars
<1>4. CounterExact'
  BY <1>1, <1>2, SockAssumption DEF Inv, CounterExact
<1>5. QueueApart'
  BY <1>2 DEF Inv, QueueApart
<1> QED
  BY <1>3, <1>4, <1>5 DEF Inv

\* A step that leaves the list, the counter and the queue alone.
LEMMA QuietStep ==
  ASSUME Inv, UNCHANGED <<clientList, connected, backlog>>, SockTypeOK'
  PROVE  Inv'
BY DEF Inv, CounterExact, QueueApart

\* What happens outside: connecting, sending, hanging up, and ban_list.
LEMMA PeerStep ==
  ASSUME Inv, NEW k \in Peer,
         Dial(k) \/ Send(k) \/ HangUp(k) \/ RunOut(k)
           \/ (\E b \in {"permanent", "running"} : EnterBan(k, b))
  PROVE  Inv'
<1>1. CASE Dial(k)
  <2>1. /\ k \notin ToSet(clientList) /\ k \notin ToSet(backlog)
        /\ backlog' = Append(backlog, k)
        /\ data' = [data EXCEPT ![k] = FALSE] /\ gone' = [gone EXCEPT ![k] = FALSE]
        /\ UNCHANGED <<clientList, isActive, connected, walk, turn, fds, banVars>>
    BY <1>1 DEF Dial, InList, Waiting
  <2>2. /\ backlog' \in Seq(Peer) /\ ToSet(backlog') = ToSet(backlog) \cup {k}
        /\ IsInjective(backlog')
    BY <2>1, Appended DEF Inv, SockTypeOK, QueueApart
  <2>3. SockTypeOK'
    BY <2>1, <2>2 DEF Inv, SockTypeOK, banVars
  <2>4. CounterExact' /\ QueueApart'
    BY <2>1, <2>2 DEF Inv, CounterExact, QueueApart
  <2> QED
    BY <2>3, <2>4 DEF Inv
<1>2. CASE Send(k) \/ HangUp(k)
  <2>1. SockTypeOK'
    BY <1>2 DEF Send, HangUp, Inv, SockTypeOK, banVars
  <2> QED
    BY <1>2, <2>1, QuietStep DEF Send, HangUp
<1>3. CASE RunOut(k) \/ \E b \in {"permanent", "running"} : EnterBan(k, b)
  <2>1. ban' \in [Peer -> Bans]
    BY <1>3 DEF RunOut, EnterBan, Inv, SockTypeOK, Bans
  <2>2. changes' \in 0..MaxChanges
    BY <1>3, SockAssumption DEF RunOut, EnterBan, Inv, SockTypeOK
  <2>3. UNCHANGED <<clientList, isActive, connected, peerVars, walk, turn, fds>>
    BY <1>3 DEF RunOut, EnterBan
  <2>4. SockTypeOK'
    BY <2>1, <2>2, <2>3 DEF Inv, SockTypeOK, peerVars
  <2> QED
    BY <2>3, <2>4, QuietStep DEF peerVars
<1> QED
  BY <1>1, <1>2, <1>3

\* One turn of FillFDS.
LEMMA FillStep ==
  ASSUME Inv, Fill
  PROVE  Inv'
<1> DEFINE k == clientList[turn]
<1>1. turn \in 1..Len(clientList) /\ k \in Peer /\ turn' = turn + 1 /\ turn \in Nat
  BY EntriesOf, ElementOfSeq DEF Fill, Inv, SockTypeOK
<1>2. UNCHANGED <<isActive, backlog, walk, banVars>>
  BY DEF Fill
<1>3. \/ fds' = fds \cup {k} /\ UNCHANGED <<clientList, connected, data, gone>>
      \/ DisconnectClient(k) /\ UNCHANGED fds
  BY DEF Fill
<1> HIDE DEF k
<1>4. fds' \subseteq Peer /\ turn' \in Nat \ {0} /\ isActive' \in [Peer -> BOOLEAN]
  BY <1>1, <1>2, <1>3 DEF Inv, SockTypeOK
<1>5. CASE UNCHANGED <<clientList, connected, data, gone>>
  <2>1. SockTypeOK'
    BY <1>2, <1>4, <1>5 DEF Inv, SockTypeOK, banVars
  <2> QED
    BY <1>2, <1>5, <2>1, QuietStep
<1> QED
  BY <1>1, <1>2, <1>3, <1>4, <1>5, DisconnectStep

\* One turn of HandleClients.
LEMMA HandleStep ==
  ASSUME Inv, Handle
  PROVE  Inv'
<1> DEFINE k == clientList[turn]
<1>1. turn \in 1..Len(clientList) /\ k \in Peer /\ turn' = turn + 1 /\ turn \in Nat
  BY EntriesOf, ElementOfSeq DEF Handle, Inv, SockTypeOK
<1>2. UNCHANGED <<backlog, walk, fds, banVars>>
  BY DEF Handle
<1>3. Receive(k) \/ Fail(k) \/ UNCHANGED <<clientList, connected, data, gone, isActive>>
  BY DEF Handle
<1> HIDE DEF k
<1>4. fds' \subseteq Peer /\ turn' \in Nat \ {0}
  BY <1>1, <1>2 DEF Inv, SockTypeOK
<1>5. isActive' \in [Peer -> BOOLEAN]
  BY <1>3 DEF Receive, Fail, Inv, SockTypeOK
<1>6. CASE Receive(k) \/ UNCHANGED <<clientList, connected, data, gone, isActive>>
  <2>1. UNCHANGED <<clientList, connected>>
        /\ data' \in [Peer -> BOOLEAN] /\ gone' \in [Peer -> BOOLEAN]
    BY <1>6 DEF Receive, Inv, SockTypeOK
  <2>2. SockTypeOK'
    BY <1>2, <1>4, <1>5, <2>1 DEF Inv, SockTypeOK, banVars
  <2> QED
    BY <1>2, <2>1, <2>2, QuietStep
<1>7. CASE Fail(k)
  BY <1>1, <1>2, <1>4, <1>5, <1>7, DisconnectStep DEF Fail
<1> QED
  BY <1>3, <1>6, <1>7

\* accept takes one connection off the queue and lists it or closes it.
LEMMA AcceptFacts ==
  ASSUME Inv, Accept
  PROVE  /\ backlog' \in Seq(Peer) /\ clientList' \in Seq(Peer)
         /\ isActive' \in [Peer -> BOOLEAN] /\ connected' \in Nat
         /\ ban' \in [Peer -> Bans]
         /\ CounterExact' /\ QueueApart'
<1> DEFINE k == Head(backlog)
<1>1. /\ backlog' = Tail(backlog) /\ backlog # <<>> /\ connected < MaxClients
      /\ \/ NotBanned(k) /\ AddUser(k)
         \/ IsBanned(k) /\ UNCHANGED <<connected, isActive, clientList>>
  BY DEF Accept, AcceptRoom
<1>2. /\ k \in Peer /\ k \in ToSet(backlog) /\ backlog' \in Seq(Peer)
      /\ IsInjective(backlog') /\ ToSet(backlog') = ToSet(backlog) \ {k}
  BY <1>1, Dequeued DEF Inv, SockTypeOK, QueueApart
<1> HIDE DEF k
<1>3. ban' \in [Peer -> Bans]
  BY <1>1 DEF NotBanned, IsBanned, Inv, SockTypeOK, Bans
<1>4. k \notin ToSet(clientList)
  BY <1>2 DEF Inv, QueueApart
<1>5. CASE NotBanned(k) /\ AddUser(k)
  <2>1. /\ connected' = connected + 1 /\ clientList' = Append(clientList, k)
        /\ isActive' = [isActive EXCEPT ![k] = TRUE]
    BY <1>5 DEF AddUser
  <2>2. /\ clientList' \in Seq(Peer) /\ Len(clientList') = Len(clientList) + 1
        /\ ToSet(clientList') = ToSet(clientList) \cup {k} /\ IsInjective(clientList')
    BY <1>2, <1>4, <2>1, Appended DEF Inv, SockTypeOK, CounterExact
  <2>3. isActive' \in [Peer -> BOOLEAN] /\ connected' \in Nat
    BY <1>2, <2>1 DEF Inv, SockTypeOK
  <2>4. CounterExact'
    BY <1>1, <2>1, <2>2, SockAssumption DEF Inv, SockTypeOK, CounterExact
  <2>5. QueueApart'
    BY <1>2, <2>2 DEF Inv, QueueApart
  <2> QED
    BY <1>2, <1>3, <2>2, <2>3, <2>4, <2>5
<1>6. CASE UNCHANGED <<connected, isActive, clientList>>
  BY <1>2, <1>3, <1>6 DEF Inv, SockTypeOK, CounterExact, QueueApart
<1> QED
  BY <1>1, <1>5, <1>6

\* select, accept, and on to the other walk or to the next round.
LEMMA SelectStep ==
  ASSUME Inv, Select
  PROVE  Inv'
<1>1. /\ turn' = 1 /\ fds' \subseteq Peer /\ walk' \in {"fill", "handle"}
      /\ UNCHANGED <<data, gone, changes>>
  BY DEF Select, Inv, SockTypeOK
<1>2. Accept \/ UNCHANGED <<clientList, isActive, connected, backlog, ban>>
  BY DEF Select
<1>3. CASE Accept
  <2>1. SockTypeOK'
    BY <1>1, <1>3, AcceptFacts DEF Inv, SockTypeOK
  <2> QED
    BY <1>3, <2>1, AcceptFacts DEF Inv
<1>4. CASE UNCHANGED <<clientList, isActive, connected, backlog, ban>>
  <2>1. SockTypeOK'
    BY <1>1, <1>4 DEF Inv, SockTypeOK
  <2> QED
    BY <1>4, <2>1, QuietStep
<1> QED
  BY <1>2, <1>3, <1>4

-----------------------------------------------------------------------------
\* Every turn of the two walks and every event outside keeps the counter exact.
LEMMA InvStep == Inv /\ [SockNext]_sockVars => Inv'
<1> SUFFICES ASSUME Inv, [SockNext]_sockVars PROVE Inv'
  OBVIOUS
<1>1. CASE NextRound
  <2>1. SockTypeOK' /\ UNCHANGED <<clientList, connected, backlog>>
    BY <1>1 DEF NextRound, Inv, SockTypeOK, peerVars, banVars
  <2> QED
    BY <2>1, QuietStep
<1>2. CASE UNCHANGED sockVars
  BY <1>2 DEF sockVars, Inv, SockTypeOK, CounterExact, QueueApart
<1> QED
  BY <1>1, <1>2, FillStep, SelectStep, HandleStep, PeerStep DEF SockNext, ServerLoop

\* Everything the proofs rest on, in every reachable state.
THEOREM Invariance == SockSpec => []Inv
BY InvInit, InvStep, PTL DEF SockSpec

\* The loop's variables keep their types; the counter is never negative.
THEOREM TypeCorrect == SockSpec => []SockTypeOK
<1>1. Inv => SockTypeOK
  BY DEF Inv
<1> QED
  BY <1>1, Invariance, PTL

\* ConnectedClients is the length of ClientList, which holds nobody twice, and
\* the limit holds, through every interleaving of erasures with both walks.
THEOREM CounterFollows == SockSpec => []CounterExact
<1>1. Inv => CounterExact
  BY DEF Inv
<1> QED
  BY <1>1, Invariance, PTL
=============================================================================
