------------------------------- MODULE Party -------------------------------
(***************************************************************************)
(* Parties of a world server: invitations, membership, mastership, the     *)
(* capacity and the numbering of parties, and what becomes of all that     *)
(* when a member logs out.                                                 *)
(*                                                                         *)
(* A party is held together by pointers in two directions, CParty::Members *)
(* and CPlayer::Party->party, and by two flat lists, PartyList and the id  *)
(* table PartyIDList.  Every handler below runs to its end under the       *)
(* PlayerMutex of the server loop, so a handler is one action.             *)
(***************************************************************************)
EXTENDS Naturals, FiniteSets, SequencesExt

CONSTANTS Player,      \* characters
          Slot,        \* addresses a CParty can be allocated at
          None,        \* the null pointer
          Levels,      \* party levels considered, a subset of 0..50
          MaxPid,      \* where the first scan for an id stops (0xffff)
          TableSize,   \* entries of PartyIDList (0x1000)
          Garbage,     \* ids whose byte was nonzero before any party: the table is
                       \* not initialised, and other members follow it in memory
          MaxPrompts   \* bound: invitations not yet answered

ASSUME ConstAssumption ==
  /\ None \notin Slot
  /\ Levels \subseteq 0..50 /\ 1 \in Levels
  /\ MaxPid \in Nat \ {0} /\ TableSize \in Nat \ {0}
  /\ Garbage \subseteq 1..MaxPid
  /\ MaxPrompts \in Nat

VARIABLES
  life,       \* the CPlayer: "off" deleted, "in" logged in, "closing"
              \* back at character select and not yet swept
  party,      \* CPlayer::Party->party
  master,     \* CPlayer::Party->IsMaster
  prompts,    \* <<to, from>>: invitations shown by the game program of "to"
  partyList,  \* CWorldServer::PartyList
  members,    \* CParty::Members
  level,      \* CParty::PartyLevel
  pid,        \* CParty::PartyId
  pidUsed,    \* the ids whose byte, in PartyIDList or past it, is nonzero
  lastPid     \* last_pid

playerVars == <<life, party, master>>
partyVars  == <<partyList, members, level, pid, pidUsed, lastPid>>
vars == <<life, party, master, prompts, partyList, members, level, pid,
          pidUsed, lastPid>>

TypeOK ==
  /\ life \in [Player -> {"off", "in", "closing"}]
  /\ party \in [Player -> Slot \cup {None}]
  /\ master \in [Player -> BOOLEAN]
  /\ prompts \subseteq Player \X Player
  /\ partyList \subseteq Slot
  /\ members \in [Slot -> Seq(Player)]
  /\ level \in [Slot -> 0..50]
  /\ pid \in [Slot -> Nat]
  /\ pidUsed \subseteq Nat \ {0}
  /\ lastPid \in Nat \ {0}

Init ==
  /\ life = [p \in Player |-> "off"]
  /\ party = [p \in Player |-> None]
  /\ master = [p \in Player |-> TRUE]
  /\ prompts = {}
  /\ partyList = {}
  /\ members = [q \in Slot |-> <<>>]
  /\ level = [q \in Slot |-> 1]
  /\ pid = [q \in Slot |-> 0]
  /\ pidUsed = Garbage
  /\ lastPid = 1

-----------------------------------------------------------------------------
\* RefreshMax, called before every test of the capacity.
Capacity(l) ==
  CASE l \in 1..4   -> 4
    [] l \in 5..9   -> 5
    [] l \in 10..14 -> 6
    [] l >= 15      -> 7
    [] l = 0        -> 0

\* Variant: one too many.
FullLate(q) == Len(members[q]) > Capacity(level[q])

Full(q) == Len(members[q]) >= Capacity(level[q])

\* The player is in the map's and the server's lists.
Listed(p) == life[p] # "off"

\* Variant: the second scan does not look at the table.
FreePidUnchecked ==
  LET up == {i \in lastPid..MaxPid - 1 : i \notin pidUsed}
  IN  IF up # {} THEN CHOOSE i \in up : \A j \in up : i <= j ELSE 1

\* GetNewPartyID: from last_pid upwards, then from 1 again; 0 when none is free.
\* Neither scan looks at the size of the table; the bytes past it are taken to
\* keep what they hold as far as the rest of the server is concerned.
FreePid ==
  LET up    == {i \in lastPid..MaxPid - 1 : i \notin pidUsed}
      again == {i \in 1..lastPid : i \notin pidUsed}
      least(S) == CHOOSE i \in S : \A j \in S : i <= j
  IN  IF up # {} THEN least(up) ELSE IF again # {} THEN least(again) ELSE 0

\* Variants of the next three: dissolve only when nobody stays, forget the
\* pointer of the one who stays, promote nobody.
DissolvesEmpty(rest) == rest = <<>>
ReleasedLeaver(p, rest) == {p}
PromotedNobody(rest) == {}

\* What the callers of RemovePlayer do to those who stay: with at least two of
\* them the first becomes master, otherwise the party is dissolved.
Dissolves(rest) == Len(rest) <= 1

Released(p, rest) == {p} \cup IF Dissolves(rest) THEN ToSet(rest) ELSE {}

Promoted(rest) == IF Dissolves(rest) THEN {} ELSE {rest[1]}

\* RemovePlayer takes out the first entry that is p and makes p his own master,
\* which is what the callers then test: somebody is promoted whoever has left.
RemoveMember(q, p) ==
  \E i \in 1..Len(members[q]) :
    LET rest == RemoveAt(members[q], i) IN
    /\ members[q][i] = p /\ \A j \in 1..i - 1 : members[q][j] # p
    /\ party' = [m \in Player |->
                   IF m \in Released(p, rest) THEN None ELSE party[m]]
    /\ master' = [m \in Player |->
                    m \in Released(p, rest) \cup Promoted(rest) \/ master[m]]
    /\ IF Dissolves(rest)
       THEN /\ members' = [members EXCEPT ![q] = <<>>]
            /\ partyList' = partyList \ {q}
            /\ pidUsed' = pidUsed \ {pid[q]}
       ELSE /\ members' = [members EXCEPT ![q] = rest]
            /\ UNCHANGED <<partyList, pidUsed>>
    /\ UNCHANGED <<level, pid, lastPid>>

-----------------------------------------------------------------------------
\* Variant: a constructor that leaves IsMaster false.
ConnectFollower(p) ==
  /\ life[p] = "off" /\ \A q \in partyList : p \notin ToSet(members[q])
  /\ life' = [life EXCEPT ![p] = "in"]
  /\ party' = [party EXCEPT ![p] = None]
  /\ master' = [master EXCEPT ![p] = FALSE]
  /\ UNCHANGED <<prompts, partyVars>>

\* A character is loaded into a new CPlayer, at an address no party holds.
Connect(p) ==
  /\ life[p] = "off" /\ \A q \in partyList : p \notin ToSet(members[q])
  /\ life' = [life EXCEPT ![p] = "in"]
  /\ party' = [party EXCEPT ![p] = None]
  /\ master' = [master EXCEPT ![p] = TRUE]
  /\ UNCHANGED <<prompts, partyVars>>

\* 0x7d0, 0x00 and 0x01: the invitation reaches the other program only if
\* its player has no party and there is room.
Invite(p, other) ==
  /\ life[p] = "in" /\ life[other] = "in" /\ p # other
  /\ party[p] # None => ~Full(party[p])
  /\ party[other] = None
  /\ Cardinality(prompts) < MaxPrompts
  /\ prompts' = prompts \cup {<<other, p>>}
  /\ UNCHANGED <<playerVars, partyVars>>

\* The party of "other", or a new one of which he is the master.
Join(p, other, q) ==
  LET fresh == party[other] = None
      id    == FreePid
  IN
  /\ IF fresh
     THEN /\ q \in Slot \ partyList
          /\ partyList' = partyList \cup {q}
          /\ members' = [members EXCEPT ![q] = <<other, p>>]
          /\ level' = [level EXCEPT ![q] = 1]
          /\ pid' = [pid EXCEPT ![q] = id]
          /\ pidUsed' = IF id = 0 THEN pidUsed ELSE pidUsed \cup {id}
          /\ lastPid' = IF id = 0 THEN lastPid ELSE id + 1
          /\ party' = [party EXCEPT ![other] = q, ![p] = q]
          /\ master' = [master EXCEPT ![other] = TRUE, ![p] = FALSE]
     ELSE /\ q = party[other] /\ ~Full(q)
          /\ members' = [members EXCEPT ![q] = Append(@, p)]
          /\ party' = [party EXCEPT ![p] = q]
          /\ master' = [master EXCEPT ![p] = FALSE]
          /\ UNCHANGED <<partyList, level, pid, pidUsed, lastPid>>

\* 0x7d1, 0x02: the answer to an invitation that may be old - the one who
\* invited may be anywhere by now - and that the server does not remember.
Accept(p, other) ==
  /\ life[p] = "in" /\ <<p, other>> \in prompts
  /\ party[p] = None /\ Listed(other)
  /\ prompts' = prompts \ {<<p, other>>}
  /\ \E q \in Slot : Join(p, other, q)
  /\ UNCHANGED life

\* 0x7d1, 0x04, and an acceptance refused: p has a party meanwhile, the other
\* has left, his party is full or the levels are too far apart.
Decline(p, other) ==
  /\ <<p, other>> \in prompts
  /\ prompts' = prompts \ {<<p, other>>}
  /\ UNCHANGED <<playerVars, partyVars>>

\* 0x7d0, 0x02.
Leave(p) ==
  /\ life[p] = "in" /\ party[p] # None
  /\ RemoveMember(party[p], p)
  /\ UNCHANGED <<life, prompts>>

\* 0x7d0, 0x03: the new master is looked up among all players of the server.
\* The leader's program names a member it shows, who may have left since.
GiveLeader(p, other) ==
  /\ life[p] = "in" /\ party[p] # None /\ master[p]
  /\ other # p /\ Listed(other)
  /\ master' = [master EXCEPT ![other] = TRUE, ![p] = FALSE]
  /\ UNCHANGED <<life, party, prompts, partyVars>>

\* 0x7d0, 0x81.
Kick(p, other) ==
  /\ life[p] = "in" /\ party[p] # None /\ master[p]
  /\ other # p /\ other \in ToSet(members[party[p]])
  /\ RemoveMember(party[p], other)
  /\ UNCHANGED <<life, prompts>>

\* GiveExp: the party gains levels, several at once if the experience does.
GainLevel(q) ==
  /\ q \in partyList
  /\ \E l \in Levels : l > level[q] /\ level' = [level EXCEPT ![q] = l]
  /\ UNCHANGED <<playerVars, prompts, partyList, members, pid, pidUsed, lastPid>>

\* Variant: the GM command without its range check.
GMPartylvlUnchecked(q) ==
  /\ q \in partyList
  /\ \E l \in Levels \cup {51} : level' = [level EXCEPT ![q] = l]
  /\ UNCHANGED <<playerVars, prompts, partyList, members, pid, pidUsed, lastPid>>

\* The GM command sets any level from 0 to 50, also a lower one.
GMPartylvl(q) ==
  /\ q \in partyList
  /\ \E l \in Levels : level' = [level EXCEPT ![q] = l]
  /\ UNCHANGED <<playerVars, prompts, partyList, members, pid, pidUsed, lastPid>>

-----------------------------------------------------------------------------
\* The invitations a program shows end with the program.
PromptsOf(p) == {pr \in prompts : pr[1] = p}

LeaveIfAny(p) ==
  IF party[p] = None
  THEN UNCHANGED <<party, master, partyVars>>
  ELSE RemoveMember(party[p], p)

\* OnClientDisconnect of a player who is logged in, then the deletion.
Disconnect(p) ==
  /\ life[p] = "in"
  /\ LeaveIfAny(p)
  /\ life' = [life EXCEPT ![p] = "off"]
  /\ prompts' = prompts \ PromptsOf(p)

\* pakCharSelect: the same clean-up, but the CPlayer stays in the lists.
CharSelect(p) ==
  /\ life[p] = "in"
  /\ LeaveIfAny(p)
  /\ life' = [life EXCEPT ![p] = "closing"]
  /\ prompts' = prompts \ PromptsOf(p)

\* DisconnectClient of such a player: OnClientDisconnect returns at once since
\* isLoggedIn is reset, and the CPlayer is deleted.
Sweep(p) ==
  /\ life[p] = "closing"
  /\ life' = [life EXCEPT ![p] = "off"]
  /\ UNCHANGED <<party, master, prompts, partyVars>>

\* A handler touches a deleted CPlayer through Members and the process dies;
\* it starts again empty.
GhostCrash ==
  /\ \E q \in partyList : \E p \in ToSet(members[q]) : ~Listed(p)
  /\ life' = [p \in Player |-> "off"]
  /\ party' = [p \in Player |-> None]
  /\ master' = [p \in Player |-> TRUE]
  /\ prompts' = {} /\ partyList' = {} /\ pidUsed' = Garbage /\ lastPid' = 1
  /\ members' = [q \in Slot |-> <<>>]
  /\ UNCHANGED <<level, pid>>

PlayerNext(p) == Connect(p) \/ Leave(p) \/ Disconnect(p) \/ CharSelect(p) \/ Sweep(p)

PairNext(p, other) ==
  \/ Invite(p, other) \/ Accept(p, other) \/ Decline(p, other)
  \/ GiveLeader(p, other) \/ Kick(p, other)

Next ==
  \/ \E p \in Player : PlayerNext(p)
  \/ \E p, other \in Player : PairNext(p, other)
  \/ \E q \in Slot : GainLevel(q) \/ GMPartylvl(q)
  \/ GhostCrash

Spec == Init /\ [][Next]_vars

-----------------------------------------------------------------------------
\* The two directions of membership agree: a player's pointer names the one
\* party of the list that holds him, once (all callers of RemovePlayer).
MembershipAgrees ==
  /\ \A q \in Slot, p \in Player :
       p \in ToSet(members[q]) <=> (party[p] = q /\ q \in partyList)
  /\ \A q \in Slot : IsInjective(members[q])

\* No party of one member, or of none, stays in PartyList, whichever way the
\* others have gone (leave, kick, logout, character select).
NoSolitaryParty == \A q \in partyList : Len(members[q]) >= 2

\* PartyIDList marks the ids of the listed parties and, apart from what the
\* memory held before, no other: each party frees its id once, however often
\* the numbering has wrapped, and two parties share none (GetPVPid tells the
\* sides of a fight apart by it).
PidsInUse ==
  /\ pidUsed = Garbage \cup ({pid[q] : q \in partyList} \ {0})
  /\ \A q, r \in partyList : pid[q] = pid[r] /\ pid[q] # 0 => q = r

\* The id of a party indexes PartyIDList, the table of "Party IDs".
PidsInTable == \A q \in partyList : pid[q] < TableSize

\* A player without a party is his own master, as the constructor leaves him.
LonersLead == \A p \in Player : party[p] = None => master[p]

Led(q) == \E p \in ToSet(members[q]) : master[p]

\* A party loses its last master only when he hands the lead to somebody who
\* is not a member: no departure, in any order, leaves it without one.
MastershipKept ==
  [][ \A q \in partyList \cap partyList' :
        Led(q) /\ ~Led(q)' =>
          \E p, other \in Player :
            GiveLeader(p, other) /\ other \notin ToSet(members[q]) ]_vars

\* A party grows only up to the capacity of its level at that moment, whatever
\* was true when the invitation went out.
CapacityRespected ==
  [][ \A q \in Slot : Len(members'[q]) > Len(members[q]) =>
        Len(members'[q]) <= Capacity(level'[q]) ]_vars

\* No listed party holds a player who has been deleted: what calling
\* OnClientDisconnect from pakCharSelect is there for.
NoGhostMember == \A q \in partyList : \A p \in ToSet(members[q]) : Listed(p)
=============================================================================
