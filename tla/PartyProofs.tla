---------------------------- MODULE PartyProofs ----------------------------
(* Theorems about Party for every set of players, every number of parties  *)
(* and every size of the id table.                                         *)
EXTENDS Party, SequenceFacts

\* A player's pointer is null or names a party of the list.
PointsToListed == \A p \in Player : party[p] # None => party[p] \in partyList

\* A party's id was free when it was given, so it is none of those that the
\* memory held before.
OwnIds == \A q \in partyList : pid[q] \notin Garbage

\* Nobody invites himself.
PromptsApart == \A pr \in prompts : pr[1] # pr[2]

Inv == /\ TypeOK /\ MembershipAgrees /\ NoSolitaryParty /\ LonersLead
       /\ PidsInUse /\ PointsToListed /\ OwnIds /\ PromptsApart

-----------------------------------------------------------------------------
\* GetNewPartyID returns 0 or an id that no party uses.
LEMMA FreePidIsFree ==
  ASSUME TypeOK
  PROVE  FreePid \in Nat /\ (FreePid # 0 => FreePid \notin pidUsed)
<1> DEFINE up       == {i \in lastPid..MaxPid - 1 : i \notin pidUsed}
           again    == {i \in 1..lastPid : i \notin pidUsed}
           least(S) == CHOOSE i \in S : \A j \in S : i <= j
<1>1. up \in SUBSET Nat /\ again \in SUBSET Nat
  BY ConstAssumption DEF TypeOK
<1>2. ASSUME NEW S \in SUBSET Nat, S # {} PROVE least(S) \in S
  <2>1. \E i \in S : \A j \in S : i <= j
    BY <1>2, LeastExists
  <2> QED
    BY <2>1
<1>3. FreePid = IF up # {} THEN least(up) ELSE IF again # {} THEN least(again) ELSE 0
  BY DEF FreePid
<1>4. \A i \in up \cup again : i \in Nat /\ i \notin pidUsed
  BY <1>1
<1>5. CASE up # {}
  <2>1. least(up) \in up
    BY <1>1, <1>2, <1>5
  <2> HIDE DEF least, up, again
  <2> QED
    BY <1>3, <1>4, <1>5, <2>1
<1>6. CASE up = {} /\ again # {}
  <2>1. least(again) \in again
    BY <1>1, <1>2, <1>6
  <2> HIDE DEF least, up, again
  <2> QED
    BY <1>3, <1>4, <1>6, <2>1
<1>7. CASE up = {} /\ again = {}
  <2> HIDE DEF least, up, again
  <2> QED
    BY <1>3, <1>7
<1> QED
  BY <1>5, <1>6, <1>7

\* RefreshMax gives a number for every level a party can have.
LEMMA CapacityType == \A l \in 0..50 : Capacity(l) \in Nat
BY DEF Capacity

\* A server starts with no player and no party.
LEMMA InvInit == Init => Inv
<1> SUFFICES ASSUME Init PROVE Inv
  OBVIOUS
<1> USE ConstAssumption DEF Init
<1>1. TypeOK
  BY EmptyList DEF TypeOK
<1>2. MembershipAgrees
  BY EmptyList DEF MembershipAgrees
<1>3. PidsInUse
  BY DEF PidsInUse
<1> QED
  BY <1>1, <1>2, <1>3
  DEF Inv, NoSolitaryParty, LonersLead, PointsToListed, OwnIds, PromptsApart

-----------------------------------------------------------------------------
\* Who stays when one member is taken out of a party.
LEMMA Rest ==
  ASSUME Inv, NEW q \in partyList, NEW p \in Player,
         NEW i \in 1..Len(members[q]), members[q][i] = p
  PROVE  LET rest == RemoveAt(members[q], i)
         IN  /\ rest \in Seq(Player) /\ IsInjective(rest)
             /\ Len(rest) = Len(members[q]) - 1 /\ Len(members[q]) \in Nat
             /\ ToSet(rest) = ToSet(members[q]) \ {p}
             /\ p \in ToSet(members[q]) /\ party[p] = q
<1>1. members[q] \in Seq(Player) /\ IsInjective(members[q]) /\ q \in Slot
  BY DEF Inv, TypeOK, MembershipAgrees
<1>2. Len(members[q]) \in Nat /\ p \in ToSet(members[q])
  BY <1>1, EntriesOf
<1>3. party[p] = q
  BY <1>1, <1>2 DEF Inv, MembershipAgrees
<1> QED
  BY <1>1, <1>2, <1>3, Erased, ErasedInjective

\* RemovePlayer and what its callers do to those who stay.
LEMMA RemoveMemberStep ==
  ASSUME Inv, NEW q \in partyList, NEW p \in Player, RemoveMember(q, p),
         life' \in [Player -> {"off", "in", "closing"}], prompts' \subseteq prompts
  PROVE  Inv'
<1>1. PICK i \in 1..Len(members[q]) :
        LET rest == RemoveAt(members[q], i)
        IN  /\ members[q][i] = p
            /\ party' = [m \in Player |->
                           IF m \in Released(p, rest) THEN None ELSE party[m]]
            /\ master' = [m \in Player |->
                            m \in Released(p, rest) \cup Promoted(rest) \/ master[m]]
            /\ IF Dissolves(rest)
               THEN /\ members' = [members EXCEPT ![q] = <<>>]
                    /\ partyList' = partyList \ {q}
                    /\ pidUsed' = pidUsed \ {pid[q]}
               ELSE /\ members' = [members EXCEPT ![q] = rest]
                    /\ UNCHANGED <<partyList, pidUsed>>
            /\ UNCHANGED <<level, pid, lastPid>>
  BY DEF RemoveMember
<1> DEFINE rest == RemoveAt(members[q], i)
<1>2. /\ rest \in Seq(Player) /\ IsInjective(rest)
      /\ Len(rest) = Len(members[q]) - 1 /\ Len(members[q]) \in Nat
      /\ ToSet(rest) = ToSet(members[q]) \ {p}
      /\ p \in ToSet(members[q]) /\ party[p] = q
  BY <1>1, Rest
<1>3. q \in Slot /\ UNCHANGED <<level, pid, lastPid>>
  BY <1>1 DEF Inv, TypeOK
<1>4. /\ party' = [m \in Player |->
                     IF m \in Released(p, rest) THEN None ELSE party[m]]
      /\ master' = [m \in Player |->
                      m \in Released(p, rest) \cup Promoted(rest) \/ master[m]]
  BY <1>1
<1>5. /\ Dissolves(rest) =>
           /\ members' = [members EXCEPT ![q] = <<>>]
           /\ partyList' = partyList \ {q} /\ pidUsed' = pidUsed \ {pid[q]}
      /\ ~Dissolves(rest) =>
           /\ members' = [members EXCEPT ![q] = rest]
           /\ partyList' = partyList /\ pidUsed' = pidUsed
  BY <1>1
<1> HIDE DEF rest
<1>6. Dissolves(rest) => Released(p, rest) = ToSet(members[q])
  BY <1>2 DEF Released
<1>7. ~Dissolves(rest) => Released(p, rest) = {p}
  BY DEF Released
<1>8. <<>> \in Seq(Player) /\ ToSet(<<>>) = {} /\ IsInjective(<<>>)
  BY EmptyList
<1>9. TypeOK'
  <2>1. members' \in [Slot -> Seq(Player)]
    <3>1. members \in [Slot -> Seq(Player)]
      BY DEF Inv, TypeOK
    <3>2. \E l \in Seq(Player) : members' = [members EXCEPT ![q] = l]
      BY <1>2, <1>5, <1>8
    <3> QED
      BY <3>1, <3>2
  <2>2. party' \in [Player -> Slot \cup {None}] /\ master' \in [Player -> BOOLEAN]
    BY <1>4 DEF Inv, TypeOK
  <2> QED
    BY <1>3, <1>5, <2>1, <2>2 DEF Inv, TypeOK
<1>10. MembershipAgrees'
  <2>1. \A r \in Slot : IsInjective(members'[r])
    <3> SUFFICES ASSUME NEW r \in Slot PROVE IsInjective(members'[r])
      OBVIOUS
    <3>1. members'[r] \in {members[r], rest, <<>>}
      BY <1>5 DEF Inv, TypeOK
    <3> QED
      BY <1>2, <1>8, <3>1 DEF Inv, MembershipAgrees
  <2>2. ASSUME NEW r \in Slot, NEW m \in Player
        PROVE  m \in ToSet(members'[r]) <=> party'[m] = r /\ r \in partyList'
    <3>1. m \in ToSet(members[r]) <=> party[m] = r /\ r \in partyList
      BY DEF Inv, MembershipAgrees
    <3>2. CASE Dissolves(rest)
      <4>1. members'[r] = IF r = q THEN <<>> ELSE members[r]
        BY <1>5, <3>2 DEF Inv, TypeOK
      <4>2. party'[m] = IF m \in ToSet(members[q]) THEN None ELSE party[m]
        BY <1>4, <1>6, <3>2
      <4>3. m \in ToSet(members[q]) <=> party[m] = q /\ q \in partyList
        BY <1>3 DEF Inv, MembershipAgrees
      <4> QED
        BY <1>5, <1>8, <3>1, <3>2, <4>1, <4>2, <4>3, ConstAssumption
    <3>3. CASE ~Dissolves(rest)
      <4>1. members'[r] = IF r = q THEN rest ELSE members[r]
        BY <1>5, <3>3 DEF Inv, TypeOK
      <4>2. party'[m] = IF m = p THEN None ELSE party[m]
        BY <1>4, <1>7, <3>3
      <4> QED
        BY <1>2, <1>5, <3>1, <3>3, <4>1, <4>2, ConstAssumption
    <3> QED
      BY <3>2, <3>3
  <2> QED
    BY <2>1, <2>2 DEF MembershipAgrees
<1>11. NoSolitaryParty'
  <2> SUFFICES ASSUME NEW r \in partyList' PROVE Len(members'[r]) >= 2
    BY DEF NoSolitaryParty
  <2>1. r \in partyList /\ r \in Slot
    BY <1>5 DEF Inv, TypeOK
  <2>2. members'[r] = IF r = q THEN rest ELSE members[r]
    BY <1>3, <1>5, <2>1 DEF Inv, TypeOK
  <2>3. r = q => Len(rest) >= 2
    BY <1>2, <1>5 DEF Dissolves
  <2> QED
    BY <2>1, <2>2, <2>3 DEF Inv, NoSolitaryParty
<1>12. LonersLead'
  BY <1>4 DEF Inv, LonersLead
<1>13. PidsInUse'
  <2>1. \A a, b \in partyList : pid[a] = pid[b] /\ pid[a] # 0 => a = b
    BY DEF Inv, PidsInUse
  <2>2. pidUsed = Garbage \cup ({pid[a] : a \in partyList} \ {0})
    BY DEF Inv, PidsInUse
  <2>3. pid[q] \notin Garbage /\ 0 \notin Garbage
    BY ConstAssumption DEF Inv, OwnIds
  <2>4. CASE Dissolves(rest)
    <3>1. {pid[a] : a \in partyList \ {q}} \ {0} =
            ({pid[a] : a \in partyList} \ {0}) \ {pid[q]}
      BY <2>1
    <3>2. pidUsed' = Garbage \cup ({pid[a] : a \in partyList'} \ {0})
      BY <1>5, <2>2, <2>3, <2>4, <3>1
    <3> QED
      BY <1>3, <1>5, <2>1, <2>4, <3>2 DEF PidsInUse
  <2>5. CASE ~Dissolves(rest)
    BY <1>3, <1>5, <2>1, <2>2, <2>5 DEF PidsInUse
  <2> QED
    BY <2>4, <2>5
<1>14. PointsToListed'
  <2>1. ASSUME NEW m \in Player, party'[m] # None PROVE party'[m] \in partyList'
    <3>1. party'[m] = party[m] /\ party[m] \in partyList /\ m \notin Released(p, rest)
      BY <1>4, <2>1 DEF Inv, PointsToListed
    <3>2. Dissolves(rest) => party[m] # q
      BY <1>3, <1>6, <3>1 DEF Inv, MembershipAgrees
    <3> QED
      BY <1>5, <3>1, <3>2
  <2> QED
    BY <2>1 DEF PointsToListed
<1>15. OwnIds' /\ PromptsApart'
  BY <1>3, <1>5 DEF Inv, OwnIds, PromptsApart
<1> QED
  BY <1>9, <1>10, <1>11, <1>12, <1>13, <1>14, <1>15 DEF Inv

\* The answer "yes" when neither of the two has a party: a new one.
LEMMA FoundStep ==
  ASSUME Inv, NEW p \in Player, NEW other \in Player, NEW q \in Slot,
         Accept(p, other), Join(p, other, q), party[other] = None
  PROVE  Inv'
<1> DEFINE id == FreePid
<1>1. /\ q \in Slot \ partyList /\ partyList' = partyList \cup {q}
      /\ members' = [members EXCEPT ![q] = <<other, p>>]
      /\ level' = [level EXCEPT ![q] = 1]
      /\ pid' = [pid EXCEPT ![q] = id]
      /\ pidUsed' = IF id = 0 THEN pidUsed ELSE pidUsed \cup {id}
      /\ lastPid' = IF id = 0 THEN lastPid ELSE id + 1
      /\ party' = [party EXCEPT ![other] = q, ![p] = q]
      /\ master' = [master EXCEPT ![other] = TRUE, ![p] = FALSE]
  BY DEF Join
<1>2. /\ party[p] = None /\ party[other] = None /\ p # other
      /\ prompts' \subseteq prompts /\ life' = life
  BY DEF Accept, Inv, PromptsApart
<1>3. id \in Nat /\ (id # 0 => id \notin pidUsed)
  BY FreePidIsFree DEF Inv
<1> HIDE DEF id
<1>4. /\ <<other, p>> \in Seq(Player) /\ Len(<<other, p>>) = 2
      /\ ToSet(<<other, p>>) = {other, p} /\ IsInjective(<<other, p>>)
  BY <1>2, ShortLists
<1>5. None \notin Slot
  BY ConstAssumption
<1>6. TypeOK'
  <2>1. members' \in [Slot -> Seq(Player)]
    BY <1>1, <1>4 DEF Inv, TypeOK
  <2>2. level' \in [Slot -> 0..50] /\ pid' \in [Slot -> Nat]
    <3>1. level \in [Slot -> 0..50] /\ pid \in [Slot -> Nat]
      BY DEF Inv, TypeOK
    <3>2. level' \in [Slot -> 0..50]
      BY <1>1, <3>1
    <3>3. pid' \in [Slot -> Nat]
      BY <1>1, <1>3, <3>1
    <3> QED
      BY <3>2, <3>3
  <2>3. pidUsed' \subseteq Nat \ {0} /\ lastPid' \in Nat \ {0}
    BY <1>1, <1>3 DEF Inv, TypeOK
  <2>4. party' \in [Player -> Slot \cup {None}] /\ master' \in [Player -> BOOLEAN]
    BY <1>1 DEF Inv, TypeOK
  <2> QED
    BY <1>1, <1>2, <2>1, <2>2, <2>3, <2>4 DEF Inv, TypeOK
<1>7. \A r \in Slot : members'[r] = IF r = q THEN <<other, p>> ELSE members[r]
  BY <1>1 DEF Inv, TypeOK
<1>8. \A m \in Player : party'[m] = IF m \in {other, p} THEN q ELSE party[m]
  BY <1>1 DEF Inv, TypeOK
<1>9. MembershipAgrees'
  <2>1. \A r \in Slot : IsInjective(members'[r])
    BY <1>4, <1>7 DEF Inv, MembershipAgrees
  <2>2. ASSUME NEW r \in Slot, NEW m \in Player
        PROVE  m \in ToSet(members'[r]) <=> party'[m] = r /\ r \in partyList'
    <3>1. m \in ToSet(members[r]) <=> party[m] = r /\ r \in partyList
      BY DEF Inv, MembershipAgrees
    <3>2. party[m] # q /\ q \in partyList'
      BY <1>1, <1>5 DEF Inv, PointsToListed
    <3>3. CASE r = q
      BY <1>4, <1>7, <1>8, <3>2, <3>3
    <3>4. CASE r # q
      <4>1. r \in partyList' <=> r \in partyList
        BY <1>1, <3>4
      <4> QED
        BY <1>2, <1>5, <1>7, <1>8, <3>1, <3>4, <4>1
    <3> QED
      BY <3>3, <3>4
  <2> QED
    BY <2>1, <2>2 DEF MembershipAgrees
<1>10. NoSolitaryParty'
  BY <1>1, <1>4, <1>7 DEF Inv, TypeOK, NoSolitaryParty
<1>11. LonersLead'
  BY <1>1, <1>5, <1>8 DEF Inv, TypeOK, LonersLead
<1>12. \A r \in Slot : pid'[r] = IF r = q THEN id ELSE pid[r]
  BY <1>1 DEF Inv, TypeOK
<1>13. PidsInUse'
  <2>1. \A r \in partyList : pid'[r] = pid[r] /\ (pid[r] # 0 => pid[r] \in pidUsed)
    BY <1>1, <1>12 DEF Inv, TypeOK, PidsInUse
  <2>2. \A a, b \in partyList' : pid'[a] = pid'[b] /\ pid'[a] # 0 => a = b
    BY <1>1, <1>3, <1>12, <2>1 DEF Inv, TypeOK, PidsInUse
  <2>3. {pid'[a] : a \in partyList'} = {pid[a] : a \in partyList} \cup {id}
    BY <1>1, <1>12, <2>1
  <2> QED
    BY <1>1, <2>2, <2>3 DEF Inv, PidsInUse
<1>14. PointsToListed'
  <2>1. ASSUME NEW m \in Player, party'[m] # None PROVE party'[m] \in partyList'
    <3>1. party'[m] = q \/ (party'[m] = party[m] /\ party[m] \in partyList)
      BY <1>8, <2>1 DEF Inv, PointsToListed
    <3> QED
      BY <1>1, <3>1
  <2> QED
    BY <2>1 DEF PointsToListed
<1>15. OwnIds'
  <2>1. Garbage \subseteq pidUsed /\ 0 \notin Garbage
    BY ConstAssumption DEF Inv, PidsInUse
  <2> QED
    BY <1>1, <1>3, <1>12, <2>1 DEF Inv, TypeOK, OwnIds
<1>16. PromptsApart'
  BY <1>2 DEF Inv, PromptsApart
<1> QED
  BY <1>6, <1>9, <1>10, <1>11, <1>13, <1>14, <1>15, <1>16 DEF Inv

\* The answer "yes" when the one who invited has a party that is not full.
LEMMA JoinStep ==
  ASSUME Inv, NEW p \in Player, NEW other \in Player, NEW q \in Slot,
         Accept(p, other), Join(p, other, q), party[other] # None
  PROVE  Inv'
<1>1. /\ q = party[other] /\ q \in partyList
      /\ members' = [members EXCEPT ![q] = Append(@, p)]
      /\ party' = [party EXCEPT ![p] = q]
      /\ master' = [master EXCEPT ![p] = FALSE]
      /\ UNCHANGED <<partyList, level, pid, pidUsed, lastPid>>
  BY DEF Join, Inv, PointsToListed
<1>2. party[p] = None /\ prompts' \subseteq prompts /\ life' = life
  BY DEF Accept
<1>3. None \notin Slot
  BY ConstAssumption
<1>4. p \notin ToSet(members[q])
  BY <1>2, <1>3 DEF Inv, MembershipAgrees
<1> DEFINE more == Append(members[q], p)
<1>5. /\ more \in Seq(Player) /\ Len(more) = Len(members[q]) + 1
      /\ ToSet(more) = ToSet(members[q]) \cup {p} /\ IsInjective(more)
      /\ Len(members[q]) \in Nat
  BY <1>4, Appended, EntriesOf DEF Inv, TypeOK, MembershipAgrees
<1>6. members' = [members EXCEPT ![q] = more]
  BY <1>1
<1> HIDE DEF more
<1>7. TypeOK'
  BY <1>1, <1>2, <1>5, <1>6 DEF Inv, TypeOK
<1>8. \A r \in Slot : members'[r] = IF r = q THEN more ELSE members[r]
  BY <1>6 DEF Inv, TypeOK
<1>9. \A m \in Player : party'[m] = IF m = p THEN q ELSE party[m]
  BY <1>1 DEF Inv, TypeOK
<1>10. MembershipAgrees'
  BY <1>1, <1>2, <1>3, <1>5, <1>8, <1>9 DEF Inv, MembershipAgrees
<1>11. NoSolitaryParty'
  BY <1>1, <1>5, <1>8 DEF Inv, TypeOK, NoSolitaryParty
<1>12. LonersLead'
  BY <1>1, <1>3, <1>9 DEF Inv, TypeOK, LonersLead
<1>13. PointsToListed'
  BY <1>1, <1>9 DEF Inv, PointsToListed
<1>14. PidsInUse' /\ OwnIds' /\ PromptsApart'
  BY <1>1, <1>2 DEF Inv, PidsInUse, OwnIds, PromptsApart
<1> QED
  BY <1>7, <1>10, <1>11, <1>12, <1>13, <1>14 DEF Inv

-----------------------------------------------------------------------------
\* A connection, whose CPlayer no list of members holds, as the guard says.
LEMMA ConnectStep ==
  ASSUME Inv, NEW p \in Player, Connect(p)
  PROVE  Inv'
<1>1. /\ \A q \in partyList : p \notin ToSet(members[q])
      /\ life' = [life EXCEPT ![p] = "in"]
      /\ party' = [party EXCEPT ![p] = None]
      /\ master' = [master EXCEPT ![p] = TRUE]
      /\ UNCHANGED <<prompts, partyList, members, level, pid, pidUsed, lastPid>>
  BY DEF Connect, partyVars
<1>2. TypeOK'
  BY <1>1 DEF Inv, TypeOK
<1>3. MembershipAgrees' /\ PointsToListed'
  BY <1>1, ConstAssumption DEF Inv, TypeOK, MembershipAgrees, PointsToListed
<1>4. LonersLead'
  BY <1>1 DEF Inv, TypeOK, LonersLead
<1> QED
  BY <1>1, <1>2, <1>3, <1>4
  DEF Inv, NoSolitaryParty, PidsInUse, OwnIds, PromptsApart

\* Handing over the lead changes the two flags, wherever the other one is.
LEMMA GiveLeaderStep ==
  ASSUME Inv, NEW p \in Player, NEW other \in Player, GiveLeader(p, other)
  PROVE  Inv'
<1>1. /\ party[p] # None
      /\ master' = [master EXCEPT ![other] = TRUE, ![p] = FALSE]
      /\ UNCHANGED <<life, party, prompts, partyVars>>
  BY DEF GiveLeader
<1>2. TypeOK' /\ LonersLead'
  BY <1>1 DEF Inv, TypeOK, LonersLead, partyVars
<1> QED
  BY <1>1, <1>2 DEF Inv, MembershipAgrees, NoSolitaryParty, PidsInUse,
                    PointsToListed, OwnIds, PromptsApart, partyVars

\* Invitations: only what the programs show changes.
LEMMA PromptStep ==
  ASSUME Inv, NEW p \in Player, NEW other \in Player,
         Invite(p, other) \/ Decline(p, other)
  PROVE  Inv'
<1>1. /\ UNCHANGED <<playerVars, partyVars>>
      /\ prompts' \subseteq Player \X Player
      /\ \A pr \in prompts' : pr[1] # pr[2]
  BY DEF Invite, Decline, Inv, TypeOK, PromptsApart
<1> QED
  BY <1>1 DEF Inv, TypeOK, MembershipAgrees, NoSolitaryParty, LonersLead, PidsInUse,
              PointsToListed, OwnIds, PromptsApart, playerVars, partyVars

\* The level of a party is no part of who belongs to it.
LEMMA LevelStep ==
  ASSUME Inv, NEW q \in Slot, GainLevel(q) \/ GMPartylvl(q)
  PROVE  Inv'
<1>1. /\ level' \in [Slot -> 0..50]
      /\ UNCHANGED <<playerVars, prompts, partyList, members, pid, pidUsed, lastPid>>
  BY ConstAssumption DEF GainLevel, GMPartylvl, Inv, TypeOK
<1> QED
  BY <1>1 DEF Inv, TypeOK, MembershipAgrees, NoSolitaryParty, LonersLead, PidsInUse,
              PointsToListed, OwnIds, PromptsApart, playerVars

\* After a crash the process starts again with nobody and no party.
LEMMA CrashStep ==
  ASSUME Inv, GhostCrash
  PROVE  Inv'
<1>1. /\ life' = [p \in Player |-> "off"] /\ party' = [p \in Player |-> None]
      /\ master' = [p \in Player |-> TRUE]
      /\ prompts' = {} /\ partyList' = {} /\ pidUsed' = Garbage /\ lastPid' = 1
      /\ members' = [q \in Slot |-> <<>>]
      /\ UNCHANGED <<level, pid>>
  BY DEF GhostCrash
<1>2. TypeOK'
  BY <1>1, EmptyList, ConstAssumption DEF Inv, TypeOK
<1>3. MembershipAgrees'
  BY <1>1, EmptyList, ConstAssumption DEF MembershipAgrees
<1>4. PidsInUse'
  BY <1>1, ConstAssumption DEF PidsInUse
<1> QED
  BY <1>1, <1>2, <1>3, <1>4
  DEF Inv, NoSolitaryParty, LonersLead, PointsToListed, OwnIds, PromptsApart

\* The two ways out of the game, with or without a party, and the sweep.
LEMMA DepartStep ==
  ASSUME Inv, NEW p \in Player, Disconnect(p) \/ CharSelect(p) \/ Sweep(p)
  PROVE  Inv'
<1>1. /\ life' \in [Player -> {"off", "in", "closing"}] /\ prompts' \subseteq prompts
      /\ LeaveIfAny(p) \/ UNCHANGED <<party, master, partyVars>>
  BY DEF Disconnect, CharSelect, Sweep, Inv, TypeOK
<1>2. CASE party[p] # None /\ RemoveMember(party[p], p)
  <2>1. party[p] \in partyList
    BY <1>2 DEF Inv, PointsToListed
  <2> QED
    BY <1>1, <1>2, <2>1, RemoveMemberStep
<1>3. CASE UNCHANGED <<party, master, partyVars>>
  BY <1>1, <1>3 DEF Inv, TypeOK, MembershipAgrees, NoSolitaryParty, LonersLead,
                    PidsInUse, PointsToListed, OwnIds, PromptsApart, partyVars
<1> QED
  BY <1>1, <1>2, <1>3 DEF LeaveIfAny

-----------------------------------------------------------------------------
\* Every handler of the server loop keeps the two directions of membership,
\* the list of parties and the table of ids in step.
LEMMA InvStep == Inv /\ [Next]_vars => Inv'
<1> SUFFICES ASSUME Inv, [Next]_vars PROVE Inv'
  OBVIOUS
<1>1. ASSUME NEW p \in Player, PlayerNext(p) PROVE Inv'
  <2>1. CASE Leave(p)
    <3>1. /\ party[p] \in partyList /\ RemoveMember(party[p], p)
          /\ life' \in [Player -> {"off", "in", "closing"}] /\ prompts' \subseteq prompts
      BY <2>1 DEF Leave, Inv, TypeOK, PointsToListed
    <3> QED
      BY <3>1, RemoveMemberStep
  <2> QED
    BY <1>1, <2>1, ConnectStep, DepartStep DEF PlayerNext
<1>2. ASSUME NEW p \in Player, NEW other \in Player, PairNext(p, other) PROVE Inv'
  <2>1. CASE Accept(p, other)
    <3>1. PICK q \in Slot : Join(p, other, q)
      BY <2>1 DEF Accept
    <3> QED
      BY <2>1, <3>1, FoundStep, JoinStep
  <2>2. CASE Kick(p, other)
    <3>1. /\ party[p] \in partyList /\ RemoveMember(party[p], other)
          /\ life' \in [Player -> {"off", "in", "closing"}] /\ prompts' \subseteq prompts
      BY <2>2 DEF Kick, Inv, TypeOK, PointsToListed
    <3> QED
      BY <3>1, RemoveMemberStep
  <2> QED
    BY <1>2, <2>1, <2>2, PromptStep, GiveLeaderStep DEF PairNext
<1>3. CASE UNCHANGED vars
  BY <1>3 DEF vars, Inv, TypeOK, MembershipAgrees, NoSolitaryParty, LonersLead,
              PidsInUse, PointsToListed, OwnIds, PromptsApart
<1> QED
  BY <1>1, <1>2, <1>3, LevelStep, CrashStep DEF Next

\* Everything the proofs rest on, in every reachable state.
THEOREM Invariance == Spec => []Inv
BY InvInit, InvStep, PTL DEF Spec

\* The variables keep their types: levels stay in 0..50, the ids in the table
\* are positive and the scan for the next one starts at a positive number.
THEOREM TypeCorrect == Spec => []TypeOK
<1>1. Inv => TypeOK
  BY DEF Inv
<1> QED
  BY <1>1, Invariance, PTL

\* A player's pointer and the lists of members agree in every state: he is in
\* the one party he points to and in no other, once.
THEOREM Membership == Spec => []MembershipAgrees
<1>1. Inv => MembershipAgrees
  BY DEF Inv
<1> QED
  BY <1>1, Invariance, PTL

\* A listed party has two members at least, however the others have gone.
THEOREM NotAlone == Spec => []NoSolitaryParty
<1>1. Inv => NoSolitaryParty
  BY DEF Inv
<1> QED
  BY <1>1, Invariance, PTL

\* The id table marks just the ids of listed parties, and each of them belongs
\* to one party, for every size of the table.
THEOREM IdsAreOwned == Spec => []PidsInUse
<1>1. Inv => PidsInUse
  BY DEF Inv
<1> QED
  BY <1>1, Invariance, PTL

\* Whoever has no party is his own master.
THEOREM MastersOfThemselves == Spec => []LonersLead
<1>1. Inv => LonersLead
  BY DEF Inv
<1> QED
  BY <1>1, Invariance, PTL

-----------------------------------------------------------------------------
\* RemovePlayer and its callers make no list of members longer and leave a
\* party that stays listed with a master if it had one.
LEMMA RemoveMemberKeeps ==
  ASSUME Inv, NEW q \in partyList, NEW p \in Player, RemoveMember(q, p)
  PROVE  /\ \A r \in Slot : Len(members'[r]) <= Len(members[r])
         /\ \A r \in partyList \cap partyList' : Led(r) => Led(r)'
<1>1. PICK i \in 1..Len(members[q]) :
        LET rest == RemoveAt(members[q], i)
        IN  /\ members[q][i] = p
            /\ master' = [m \in Player |->
                            m \in Released(p, rest) \cup Promoted(rest) \/ master[m]]
            /\ IF Dissolves(rest)
               THEN /\ members' = [members EXCEPT ![q] = <<>>]
                    /\ partyList' = partyList \ {q}
               ELSE /\ members' = [members EXCEPT ![q] = rest]
                    /\ UNCHANGED partyList
  BY DEF RemoveMember
<1> DEFINE rest == RemoveAt(members[q], i)
<1>2. /\ rest \in Seq(Player) /\ Len(rest) = Len(members[q]) - 1
      /\ Len(members[q]) \in Nat /\ q \in Slot
  BY <1>1, Rest DEF Inv, TypeOK
<1>3. \A r \in Slot : members[r] \in Seq(Player) /\ Len(members[r]) \in Nat
                      /\ ToSet(members[r]) \subseteq Player
  BY EntriesOf DEF Inv, TypeOK
<1>4. \A m \in Player : /\ master[m] => master'[m]
                        /\ m \in Promoted(rest) => master'[m]
  BY <1>1
<1>5. /\ Dissolves(rest) =>
           members' = [members EXCEPT ![q] = <<>>] /\ partyList' = partyList \ {q}
      /\ ~Dissolves(rest) => members' = [members EXCEPT ![q] = rest]
  BY <1>1
<1> HIDE DEF rest
<1>6. ASSUME NEW r \in Slot PROVE Len(members'[r]) <= Len(members[r])
  <2>1. Len(<<>>) = 0
    BY EmptyList
  <2>2. members'[r] = members[r] \/ (r = q /\ members'[r] \in {rest, <<>>})
    BY <1>5 DEF Inv, TypeOK
  <2> QED
    BY <1>2, <1>3, <2>1, <2>2
<1>7. ASSUME NEW r \in partyList \cap partyList', Led(r) PROVE Led(r)'
  <2>1. r \in Slot
    BY DEF Inv, TypeOK
  <2>2. CASE r = q
    <3>1. ~Dissolves(rest) /\ members'[r] = rest
      BY <1>2, <1>5, <2>2 DEF Inv, TypeOK
    <3>2. Len(rest) \in Nat /\ 1 \in 1..Len(rest)
      BY <1>2, <3>1 DEF Dissolves
    <3>3. rest[1] \in ToSet(rest) /\ rest[1] \in Player
      BY <1>2, <3>2, EntriesOf
    <3> QED
      BY <1>4, <3>1, <3>3 DEF Led, Promoted
  <2>3. CASE r # q
    <3>1. members'[r] = members[r]
      BY <1>5, <2>1, <2>3 DEF Inv, TypeOK
    <3> QED
      BY <1>3, <1>4, <1>7, <2>1, <3>1 DEF Led
  <2> QED
    BY <2>2, <2>3
<1> QED
  BY <1>6, <1>7

\* A step of a player alone: connecting, leaving, logging out, being swept.
LEMMA PlayerKeeps ==
  ASSUME Inv, NEW p \in Player, PlayerNext(p)
  PROVE  /\ \A r \in Slot : Len(members'[r]) <= Len(members[r])
         /\ \A r \in partyList \cap partyList' : Led(r) => Led(r)'
<1>1. \A r \in Slot : Len(members[r]) \in Nat
  BY EntriesOf DEF Inv, TypeOK
<1>2. CASE party[p] # None /\ RemoveMember(party[p], p)
  <2>1. party[p] \in partyList
    BY <1>2 DEF Inv, PointsToListed
  <2> QED
    BY <1>2, <2>1, RemoveMemberKeeps
<1>3. CASE Connect(p)
  <2>1. /\ UNCHANGED <<members, partyList>>
        /\ master' = [master EXCEPT ![p] = TRUE]
    BY <1>3 DEF Connect, partyVars
  <2>2. \A r \in partyList : ToSet(members[r]) \subseteq Player
    BY EntriesOf DEF Inv, TypeOK
  <2> QED
    BY <1>1, <2>1, <2>2 DEF Inv, TypeOK, Led
<1>4. CASE UNCHANGED <<party, master, partyVars>>
  BY <1>1, <1>4 DEF Led, partyVars
<1> QED
  BY <1>2, <1>3, <1>4
  DEF PlayerNext, Leave, Disconnect, CharSelect, Sweep, LeaveIfAny

\* A party grows only by an acceptance, which has looked at its capacity.
LEMMA AcceptRespects ==
  ASSUME Inv, NEW p \in Player, NEW other \in Player, Accept(p, other),
         NEW r \in Slot, Len(members'[r]) > Len(members[r])
  PROVE  Len(members'[r]) <= Capacity(level'[r])
<1>1. PICK q \in Slot : Join(p, other, q)
  BY DEF Accept
<1>2. p # other /\ Len(members[r]) \in Nat
  BY EntriesOf DEF Accept, Inv, TypeOK, PromptsApart
<1>3. CASE party[other] = None
  <2>1. members' = [members EXCEPT ![q] = <<other, p>>] /\ level' = [level EXCEPT ![q] = 1]
    BY <1>1, <1>3 DEF Join
  <2>2. r = q
    BY <1>2, <2>1 DEF Inv, TypeOK
  <2>3. members'[r] = <<other, p>> /\ level'[r] = 1
    BY <2>1, <2>2 DEF Inv, TypeOK
  <2>4. Len(members'[r]) = 2 /\ Capacity(level'[r]) = 4
    BY <1>2, <2>3, ShortLists DEF Capacity
  <2> QED
    BY <2>4
<1>4. CASE party[other] # None
  <2>1. /\ ~Full(q) /\ level' = level
        /\ members' = [members EXCEPT ![q] = Append(members[q], p)]
    BY <1>1, <1>4 DEF Join
  <2>2. r = q
    BY <1>2, <2>1 DEF Inv, TypeOK
  <2>3. Len(members'[r]) = Len(members[r]) + 1
    BY <2>1, <2>2, Appended DEF Inv, TypeOK
  <2>4. Capacity(level[r]) \in Nat
    BY CapacityType DEF Inv, TypeOK
  <2> QED
    BY <1>2, <2>1, <2>2, <2>3, <2>4 DEF Full
<1> QED
  BY <1>3, <1>4

\* Whoever joins a party was in none, so none loses its master by it.
LEMMA AcceptKeepsMasters ==
  ASSUME Inv, NEW p \in Player, NEW other \in Player, Accept(p, other),
         NEW r \in partyList, Led(r)
  PROVE  Led(r)'
<1>1. PICK q \in Slot : Join(p, other, q)
  BY DEF Accept
<1>2. PICK m \in ToSet(members[r]) : master[m]
  BY DEF Led
<1>3. r \in Slot /\ m \in Player /\ party[m] = r /\ r # None
  BY <1>2, EntriesOf, ConstAssumption DEF Inv, TypeOK, MembershipAgrees
<1>4. m # p
  BY <1>3 DEF Accept
<1>5. master'[m]
  <2>1. master' \in {[master EXCEPT ![other] = TRUE, ![p] = FALSE],
                     [master EXCEPT ![p] = FALSE]}
    BY <1>1 DEF Join
  <2> QED
    BY <1>2, <1>3, <1>4, <2>1 DEF Inv, TypeOK
<1>6. m \in ToSet(members'[r])
  <2>1. CASE party[other] = None
    <3>1. q # r /\ members' = [members EXCEPT ![q] = <<other, p>>]
      BY <1>1, <2>1 DEF Join
    <3> QED
      BY <1>2, <1>3, <3>1 DEF Inv, TypeOK
  <2>2. CASE party[other] # None
    <3>1. members' = [members EXCEPT ![q] = Append(members[q], p)]
      BY <1>1, <2>2 DEF Join
    <3>2. ToSet(Append(members[r], p)) = ToSet(members[r]) \cup {p}
      BY <1>3, Appended DEF Inv, TypeOK
    <3> QED
      BY <1>2, <1>3, <3>1, <3>2 DEF Inv, TypeOK
  <2> QED
    BY <2>1, <2>2
<1> QED
  BY <1>5, <1>6 DEF Led

\* Each party grows up to the capacity of its level at that moment and no
\* further: the capacity is looked at when somebody joins, not when he is asked.
THEOREM GrowthBounded == Spec => CapacityRespected
<1> DEFINE A == \A q \in Slot : Len(members'[q]) > Len(members[q]) =>
                                  Len(members'[q]) <= Capacity(level'[q])
<1>1. Inv /\ [Next]_vars => [A]_vars
  <2> SUFFICES ASSUME Inv, Next, NEW q \in Slot, Len(members'[q]) > Len(members[q])
               PROVE  Len(members'[q]) <= Capacity(level'[q])
    OBVIOUS
  <2>1. Len(members[q]) \in Nat
    BY EntriesOf DEF Inv, TypeOK
  <2>2. Inv'
    BY InvStep
  <2>3. Len(members'[q]) \in Nat
    <3>1. members'[q] \in Seq(Player)
      BY <2>2 DEF Inv, TypeOK
    <3> QED
      BY <3>1, EntriesOf
  <2>4. members' # members
    BY <2>1
  <2>5. ASSUME NEW p \in Player, NEW other \in Player, Kick(p, other) PROVE FALSE
    <3>1. party[p] \in partyList /\ RemoveMember(party[p], other)
      BY <2>5 DEF Kick, Inv, PointsToListed
    <3> QED
      BY <2>1, <2>3, <3>1, RemoveMemberKeeps
  <2>6. ASSUME NEW p \in Player, PlayerNext(p) PROVE FALSE
    BY <2>1, <2>3, <2>6, PlayerKeeps
  <2>7. CASE GhostCrash
    <3>1. members'[q] = <<>>
      BY <2>7 DEF GhostCrash
    <3> QED
      BY <2>1, <3>1, EmptyList
  <2>8. ASSUME NEW p \in Player, NEW other \in Player, PairNext(p, other)
        PROVE  Accept(p, other)
    BY <2>4, <2>5, <2>8 DEF PairNext, Invite, Decline, GiveLeader, partyVars
  <2>9. ASSUME NEW r \in Slot, GainLevel(r) \/ GMPartylvl(r) PROVE FALSE
    BY <2>4, <2>9 DEF GainLevel, GMPartylvl
  <2> QED
    BY <2>6, <2>7, <2>8, <2>9, AcceptRespects DEF Next
<1>2. CapacityRespected <=> [][A]_vars
  BY DEF CapacityRespected
<1> HIDE DEF A
<1> QED
  BY <1>1, <1>2, Invariance, PTL DEF Spec

\* A party that stays listed loses its last master only when he hands the
\* lead to somebody outside it: nobody's departure leaves it without one.
THEOREM NeverLeaderless == Spec => MastershipKept
<1> DEFINE A == \A q \in partyList \cap partyList' :
                  Led(q) /\ ~Led(q)' =>
                    \E p, other \in Player :
                      GiveLeader(p, other) /\ other \notin ToSet(members[q])
<1>1. Inv /\ [Next]_vars => [A]_vars
  <2> SUFFICES ASSUME Inv, Next, NEW q \in partyList \cap partyList',
                      Led(q), ~Led(q)'
               PROVE  \E p, other \in Player :
                        GiveLeader(p, other) /\ other \notin ToSet(members[q])
    OBVIOUS
  <2>1. q \in Slot /\ ToSet(members[q]) \subseteq Player
    BY EntriesOf DEF Inv, TypeOK
  <2>2. members' # members \/ master' # master
    BY DEF Led
  <2>3. ASSUME NEW p \in Player, NEW other \in Player, GiveLeader(p, other)
        PROVE  other \notin ToSet(members[q])
    <3>1. /\ members' = members
          /\ master' = [master EXCEPT ![other] = TRUE, ![p] = FALSE] /\ other # p
      BY <2>3 DEF GiveLeader, partyVars
    <3>2. master'[other]
      BY <3>1 DEF Inv, TypeOK
    <3> QED
      BY <3>1, <3>2 DEF Led
  <2>4. ASSUME NEW p \in Player, NEW other \in Player, Kick(p, other) PROVE FALSE
    <3>1. party[p] \in partyList /\ RemoveMember(party[p], other)
      BY <2>4 DEF Kick, Inv, PointsToListed
    <3> QED
      BY <3>1, RemoveMemberKeeps
  <2>5. ASSUME NEW p \in Player, NEW other \in Player, PairNext(p, other)
        PROVE  GiveLeader(p, other)
    BY <2>2, <2>4, <2>5, AcceptKeepsMasters
    DEF PairNext, Invite, Decline, playerVars, partyVars
  <2>6. ASSUME NEW p \in Player, PlayerNext(p) PROVE FALSE
    BY <2>6, PlayerKeeps
  <2>7. ASSUME NEW r \in Slot, GainLevel(r) \/ GMPartylvl(r) PROVE FALSE
    BY <2>2, <2>7 DEF GainLevel, GMPartylvl, playerVars
  <2>8. ~GhostCrash
    BY DEF GhostCrash
  <2> QED
    BY <2>3, <2>5, <2>6, <2>7, <2>8 DEF Next
<1>2. MastershipKept <=> [][A]_vars
  BY DEF MastershipKept
<1> HIDE DEF A
<1> QED
  BY <1>1, <1>2, Invariance, PTL DEF Spec
=============================================================================
