---------------------------- MODULE WorldThreads ----------------------------
(***************************************************************************)
(* The threads of a world server, their mutexes, the table of client ids   *)
(* they share and the drops of a map.                                      *)
(*                                                                         *)
(* The server loop handles packets under PlayerMutex; MapProcess and       *)
(* VisibilityProcess take PlayerMutex and MapMutex; WorldProcess takes     *)
(* MapMutex only, so it runs beside the server loop.  GetNewClientID and   *)
(* ClearClientID try both mutexes, go on whatever comes of it, and release *)
(* those they got.                                                         *)
(*                                                                         *)
(* One map is modelled; somebody is always on it, or WorldProcess would    *)
(* pass it by.  Ids are those that start-up has left free.  A pass of a    *)
(* thread does at most one thing here: a pass that does more is several    *)
(* passes between which the thread takes the mutexes back at once.         *)
(***************************************************************************)
EXTENDS Naturals

CONSTANTS Players,   \* players' CPlayer objects
          Monsters,  \* addresses a CMonster can have
          Drops,     \* addresses a CDrop can have
          MaxId      \* bound: ids 1..MaxId (0xfffe in the code)

ASSUME ConstAssumption ==
  /\ MaxId \in Nat \ {0}
  /\ Players \cap Monsters = {} /\ Players \cap Drops = {}
  /\ Monsters \cap Drops = {}
  /\ 0 \notin Players \cup Monsters \cup Drops   \* 0 is no address

Threads == {"loop", "map", "vis", "world"}
Mutexes == {"Player", "Map", "Monster", "Drop"}
Ids == 1..MaxId
Objects == Players \cup Monsters \cup Drops

VARIABLES
  pc,       \* where a thread is
  call,     \* what it is doing: operation, object, id found, mutexes a trylock got
  holder,   \* owner of each mutex, or "none"
  cid,      \* ClientIDList: "used" (0), "recent" (cleared within 10 s), "old"
  lastCid,  \* last_cid
  wears,    \* clientid of an object, 0 when it never had one
  stage,    \* a player: "out", "loading" a map, "in" it, "leaving" to character select
  alive,    \* MonsterList
  listed,   \* DropsList
  forgotten, \* history: ids of players who were given another while they had them
  online,   \* ServerOnline
  active,   \* isActive of the server
  dead      \* the process died of undefined behaviour

tableVars == <<cid, lastCid>>
objVars   == <<wears, stage, alive, listed, forgotten>>
runVars   == <<online, active, dead>>
vars == <<pc, call, holder, cid, lastCid, wears, stage, alive, listed, forgotten,
          online, active, dead>>

Ops == {"none", "enter", "spawn", "drop", "abort", "teleport", "leave",
        "sweep", "kill", "delete"}
Call(op, o) == [op |-> op, obj |-> o, id |-> 0, got |-> {}]
Idle == Call("none", 0)

TypeOK ==
  /\ pc \in [Threads -> {"top", "packet", "work", "clean", "respawn", "get",
                         "scan", "mark", "clear", "erase", "give", "viewing",
                         "lockDrop", "lockMonster", "lockMap", "release", "ended"}]
  /\ call \in [Threads -> [op : Ops, obj : Objects \cup {0}, id : 0..MaxId,
                           got : SUBSET {"Player", "Map"}]]
  /\ holder \in [Mutexes -> Threads \cup {"none"}]
  /\ cid \in [Ids -> {"used", "recent", "old"}]
  /\ lastCid \in 1..(MaxId + 1)
  /\ wears \in [Objects -> 0..MaxId]
  /\ stage \in [Players -> {"out", "loading", "in", "leaving"}]
  /\ alive \subseteq Monsters /\ listed \subseteq Drops /\ forgotten \subseteq 0..MaxId
  /\ online \in BOOLEAN /\ active \in BOOLEAN /\ dead \in BOOLEAN

Init ==
  /\ pc = [t \in Threads |-> "top"]
  /\ call = [t \in Threads |-> Idle]
  /\ holder = [m \in Mutexes |-> "none"]
  /\ cid = [i \in Ids |-> "old"] /\ lastCid = 1
  /\ wears = [o \in Objects |-> 0]
  /\ stage = [p \in Players |-> "out"]
  /\ alive = {} /\ listed = {} /\ forgotten = {}
  /\ online = TRUE /\ active = TRUE /\ dead = FALSE

-----------------------------------------------------------------------------
(* Mutexes: they are not recursive, and an unlock does not ask who owns.   *)

Goto(t, l) == pc' = [pc EXCEPT ![t] = l]
Take(t, ms) == [m \in Mutexes |-> IF m \in ms THEN t ELSE holder[m]]
Free(ms) == [m \in Mutexes |-> IF m \in ms THEN "none" ELSE holder[m]]

Lock(t, m, from, to) ==
  /\ pc[t] = from /\ holder[m] = "none"
  /\ holder' = Take(t, {m})
  /\ Goto(t, to)
  /\ UNCHANGED <<call, tableVars, objVars, runVars>>

\* The mutexes a thread holds for the whole of a pass.
PassMutexes(t) ==
  CASE t = "loop"  -> {"Player"}
    [] t = "map"   -> {"Player", "Map", "Monster"}
    [] t = "vis"   -> {"Player", "Map"}
    [] t = "world" -> {"Map", "Monster"}

Release(t) ==
  /\ pc[t] = "release"
  /\ holder' = Free(PassMutexes(t))
  /\ Goto(t, "top")
  /\ UNCHANGED <<call, tableVars, objVars, runVars>>

\* Variant: WorldProcess waits for the flag that is cleared after the joins.
EndLate(t) ==
  /\ pc[t] = "top"
  /\ IF t \in {"loop", "world"} THEN ~active ELSE ~online
  /\ Goto(t, "ended")
  /\ UNCHANGED <<call, holder, tableVars, objVars, runVars>>

\* The conditions of the threads' loops.
End(t) ==
  /\ pc[t] = "top"
  /\ IF t = "loop" THEN ~active ELSE ~online
  /\ Goto(t, "ended")
  /\ UNCHANGED <<call, holder, tableVars, objVars, runVars>>

Start(t, m, to) == (IF t = "loop" THEN active ELSE online) /\ Lock(t, m, "top", to)

\* An operation on o begins; it first allocates ("get") or clears an id.
Begin(t, op, o, l) ==
  /\ call' = [call EXCEPT ![t] = Call(op, o)]
  /\ Goto(t, l)
  /\ UNCHANGED <<holder, tableVars, objVars, runVars>>

\* An operation is over.
Finish(t, l) == call' = [call EXCEPT ![t] = Idle] /\ Goto(t, l)

-----------------------------------------------------------------------------
(* GetNewClientID and ClearClientID.                                       *)

\* Variant: the results of the trylocks are not looked at.
TryLocksBlind(t) ==
  /\ pc[t] \in {"get", "clear"}
  /\ LET got == {m \in {"Player", "Map"} : holder[m] = "none"}
     IN holder' = Take(t, got)
  /\ call' = [call EXCEPT ![t].got = {"Player", "Map"}]
  /\ Goto(t, IF pc[t] = "get" THEN "scan" ELSE "erase")
  /\ UNCHANGED <<tableVars, objVars, runVars>>

\* Every caller owns one of the two mutexes, so at most one trylock succeeds.
TryLocks(t) ==
  /\ pc[t] \in {"get", "clear"}
  /\ LET got == {m \in {"Player", "Map"} : holder[m] = "none"}
     IN /\ holder' = Take(t, got)
        /\ call' = [call EXCEPT ![t].got = got]
  /\ Goto(t, IF pc[t] = "get" THEN "scan" ELSE "erase")
  /\ UNCHANGED <<tableVars, objVars, runVars>>

First(S) == {i \in S : \A j \in S : i <= j}

\* Variant: no test that the second scan has found something.
FoundUnchecked ==
  LET free == {i \in Ids : cid[i] = "old"}
      above == {i \in free : i >= lastCid}
  IN IF above # {} THEN First(above) ELSE IF free # {} THEN First(free) ELSE {lastCid}

\* The id a scan finds: from last_cid up, then from 1; 0 when there is none.
Found ==
  LET free == {i \in Ids : cid[i] = "old"}
      above == {i \in free : i >= lastCid}
  IN IF above # {} THEN First(above) ELSE IF free # {} THEN First(free) ELSE {0}

\* The entry is read here and written in Mark.
Scan(t) ==
  /\ pc[t] = "scan"
  /\ \E i \in Found : call' = [call EXCEPT ![t].id = i]
  /\ Goto(t, "mark")
  /\ UNCHANGED <<holder, tableVars, objVars, runVars>>

Marked(i) ==
  IF i = 0 THEN UNCHANGED tableVars
  ELSE cid' = [cid EXCEPT ![i] = "used"] /\ lastCid' = i + 1

\* The caller goes on with the id it got: pakDoID overwrites the player's and, when
\* it got none, ends his connection; a drop is put on the map or given up
\* (GetPYDrop), a monster is put on the map.
Mark(t) ==
  LET c == call[t] IN
  /\ pc[t] = "mark"
  /\ Marked(c.id)
  /\ holder' = Free(c.got)
  /\ wears' = [wears EXCEPT ![c.obj] = c.id]
  /\ forgotten' = IF c.op = "enter" /\ stage[c.obj] = "in"
                  THEN forgotten \cup {wears[c.obj]} ELSE forgotten
  /\ \/ /\ c.op = "enter" /\ c.id # 0
        /\ stage' = [stage EXCEPT ![c.obj] = "in"]
        /\ Finish(t, "release") /\ UNCHANGED <<alive, listed>>
     \/ /\ c.op = "enter" /\ c.id = 0
        /\ call' = [call EXCEPT ![t] = Call("sweep", c.obj)]
        /\ Goto(t, "lockMap") /\ UNCHANGED <<stage, alive, listed>>
     \/ /\ c.op = "spawn"
        /\ alive' = alive \cup {c.obj}
        /\ Finish(t, "release") /\ UNCHANGED <<stage, listed>>
     \/ /\ c.op = "drop"
        /\ listed' = listed \cup {c.obj}
        /\ Finish(t, "release") /\ UNCHANGED <<stage, alive>>
     \/ /\ c.op = "drop"
        /\ call' = [call EXCEPT ![t] = Call("abort", c.obj)]
        /\ Goto(t, "clear") /\ UNCHANGED <<stage, alive, listed>>
  /\ UNCHANGED runVars

\* Variant: the test of "has already been cleared" is the wrong way round.
ClearedAgain(i) ==
  IF i # 0 /\ cid[i] = "old" THEN [cid EXCEPT ![i] = "recent"] ELSE cid

Cleared(i) ==
  IF i # 0 /\ cid[i] = "used" THEN [cid EXCEPT ![i] = "recent"] ELSE cid

\* Mutexes an operation has taken beside those of its pass, and gives back.
OpMutexes(op) ==
  CASE op = "sweep" -> {"Map"} [] op = "delete" -> {"Drop"} [] OTHER -> {}

\* The object is gone, and no other thread has its address.
Gone(t) ==
  /\ call[t].op \in {"sweep", "kill", "abort", "delete"}
  /\ \A u \in Threads \ {t} : call[u].obj # call[t].obj

Erase(t) ==
  LET c == call[t] IN
  /\ pc[t] = "erase"
  /\ cid' = Cleared(wears[c.obj])
  /\ holder' = Free(c.got \cup OpMutexes(c.op))
  /\ stage' = CASE c.op = "teleport" -> [stage EXCEPT ![c.obj] = "loading"]
                [] c.op = "leave"    -> [stage EXCEPT ![c.obj] = "leaving"]
                [] c.op = "sweep"    -> [stage EXCEPT ![c.obj] = "out"]
                [] OTHER -> stage
  /\ wears' = IF Gone(t) THEN [wears EXCEPT ![c.obj] = 0] ELSE wears
  /\ alive' = IF c.op = "kill" THEN alive \ {c.obj} ELSE alive
  /\ listed' = IF c.op = "delete" THEN listed \ {c.obj} ELSE listed
  /\ forgotten' = forgotten \ {wears[c.obj]}
  /\ Finish(t, IF t = "world" THEN "lockMonster" ELSE "release")
  /\ UNCHANGED <<lastCid, runVars>>

-----------------------------------------------------------------------------
(* What the server loop does with a packet, or with a dead connection.     *)

Connect(p) ==
  /\ stage[p] = "out" /\ stage' = [stage EXCEPT ![p] = "loading"]
  /\ Goto("loop", "release")
  /\ UNCHANGED <<call, holder, tableVars, wears, alive, listed, forgotten, runVars>>

\* Packets are read while the connection is active.  pakDoID and pakGate do not ask
\* where the player is; pakCharSelect does.
Reading(p) == stage[p] \in {"loading", "in"}

pakDoID(p)        == Reading(p) /\ Begin("loop", "enter", p, "get")
TeleportPlayer(p) == Reading(p) /\ Begin("loop", "teleport", p, "clear")
pakCharSelect(p)  == stage[p] = "in" /\ Begin("loop", "leave", p, "clear")

\* DisconnectClient: DeleteClientSocket locks MapMutex around RemovePlayer.
Disconnect(p) == stage[p] # "out" /\ Begin("loop", "sweep", p, "lockMap")

\* pakPickDrop finds the drop without DropMutex.
pakPickDrop(d) == d \in listed /\ Begin("loop", "delete", d, "give")

\* It gives what is in the drop and deletes it, or gives nothing (no room,
\* or not this player's drop).
Give ==
  /\ pc["loop"] = "give"
  /\ \/ Goto("loop", "lockDrop") /\ UNCHANGED call
     \/ Finish("loop", "release")
  /\ UNCHANGED <<holder, tableVars, objVars, runVars>>

\* Addresses where nothing is, nor is being made.
Unused(S) == S \ (alive \cup listed \cup {call[t].obj : t \in Threads})

\* Monsters and drops made by combat, skills, items and commands.
Combat(t) ==
  \/ \E m \in Unused(Monsters) : Begin(t, "spawn", m, "get")
  \/ \E m \in alive : Begin(t, "kill", m, "clear")
  \/ \E d \in Unused(Drops) : Begin(t, "drop", d, "get")

Packet ==
  /\ pc["loop"] = "packet"
  /\ \/ \E p \in Players : \/ Connect(p) \/ pakDoID(p) \/ TeleportPlayer(p)
                           \/ pakCharSelect(p) \/ Disconnect(p)
     \/ \E d \in listed : pakPickDrop(d)
     \/ Combat("loop")
     \/ Begin("loop", "none", 0, "lockMonster")   \* the spawn commands of a GM
     \/ Begin("loop", "none", 0, "release")       \* nothing to handle

ServerLoop ==
  \/ Start("loop", "Player", "packet") \/ Packet \/ Give
  \/ Lock("loop", "Map", "lockMap", "clear")
  \/ Lock("loop", "Drop", "lockDrop", "clear")
  \/ Lock("loop", "Monster", "lockMonster", "viewing")
  \/ /\ pc["loop"] = "viewing" /\ holder' = Free({"Monster"})
     /\ Goto("loop", "release")
     /\ UNCHANGED <<call, tableVars, objVars, runVars>>

MapProcess ==
  \/ Start("map", "Player", "lockMap")
  \/ Lock("map", "Map", "lockMap", "lockMonster")
  \/ Lock("map", "Monster", "lockMonster", "work")
  \/ pc["map"] = "work" /\ (Combat("map") \/ Begin("map", "none", 0, "release"))

VisibilityProcess ==
  Start("vis", "Player", "lockMap") \/ Lock("vis", "Map", "lockMap", "release")

\* CleanDrops deletes a drop of 50 s or more, or finds none.
CleanDrops ==
  /\ pc["world"] = "clean"
  /\ \/ \E d \in listed : Begin("world", "delete", d, "clear")
     \/ /\ holder' = Free({"Drop"}) /\ Goto("world", "lockMonster")
        /\ UNCHANGED <<call, tableVars, objVars, runVars>>

RespawnMonster ==
  /\ pc["world"] = "respawn"
  /\ \/ \E m \in Unused(Monsters) : Begin("world", "spawn", m, "get")
     \/ Begin("world", "none", 0, "release")

\* Variant: RespawnMonster without MonsterMutex.
WorldProcessUnlocked ==
  \/ Start("world", "Map", "lockDrop")
  \/ Lock("world", "Drop", "lockDrop", "clean") \/ CleanDrops
  \/ /\ pc["world"] = "lockMonster" /\ Goto("world", "respawn")
     /\ UNCHANGED <<call, holder, tableVars, objVars, runVars>>
  \/ RespawnMonster

WorldProcess ==
  \/ Start("world", "Map", "lockDrop")
  \/ Lock("world", "Drop", "lockDrop", "clean") \/ CleanDrops
  \/ Lock("world", "Monster", "lockMonster", "respawn") \/ RespawnMonster

-----------------------------------------------------------------------------
(* Undefined behaviour: the process may die of it, or go on.               *)

Cleaning   == pc["world"] \in {"clean", "clear", "erase"}
Respawning == pc["world"] \in {"respawn", "get", "scan", "mark"}

\* The server loop goes on with a CDrop that CleanDrops has deleted.
StaleDrop ==
  /\ call["loop"].op = "delete" /\ call["loop"].obj \notin listed
  /\ pc["loop"] \in {"give", "lockDrop", "clear", "erase"}

\* Two threads are in a vector that one of them changes.
TwoInList ==
  \/ Cleaning /\ \/ pc["loop"] = "mark" /\ call["loop"].op = "drop"
                 \/ pc["loop"] = "give"
  \/ Respawning /\ \/ pc["loop"] = "mark" /\ call["loop"].op = "spawn"
                   \/ pc["loop"] = "erase" /\ call["loop"].op = "kill"

Crash ==
  /\ StaleDrop \/ TwoInList
  /\ dead' = TRUE
  /\ UNCHANGED <<pc, call, holder, tableVars, objVars, online, active>>

\* Ten seconds after it was cleared an id may be handed out again.
TenSeconds(i) ==
  /\ cid[i] = "recent" /\ cid' = [cid EXCEPT ![i] = "old"]
  /\ UNCHANGED <<pc, call, holder, lastCid, objVars, runVars>>

\* ShutdownServer: DisconnectAll, then ServerOnline; then it joins the threads.
ShutdownServer ==
  /\ online /\ online' = FALSE
  /\ UNCHANGED <<pc, call, holder, tableVars, objVars, active, dead>>

JoinThreads ==
  /\ ~online /\ active
  /\ \A t \in Threads \ {"loop"} : pc[t] = "ended"
  /\ active' = FALSE
  /\ UNCHANGED <<pc, call, holder, tableVars, objVars, online, dead>>

Body(t) ==
  CASE t = "loop"  -> ServerLoop
    [] t = "map"   -> MapProcess
    [] t = "vis"   -> VisibilityProcess
    [] t = "world" -> WorldProcess

Thread(t) ==
  ~dead /\ (Body(t) \/ TryLocks(t) \/ Scan(t) \/ Mark(t) \/ Erase(t)
            \/ Release(t) \/ End(t))

Stopped == dead \/ \A t \in Threads : pc[t] = "ended"

Next ==
  \/ \E t \in Threads : Thread(t)
  \/ ~dead /\ (ShutdownServer \/ JoinThreads \/ Crash)
  \/ ~dead /\ \E i \in Ids : TenSeconds(i)
  \/ Stopped /\ UNCHANGED vars

\* Every thread sleeps between two passes, so that a thread that waits for a
\* mutex which is released again and again gets it.
Fairness ==
  /\ \A t \in Threads : SF_vars(Thread(t))
  /\ WF_vars(~dead /\ JoinThreads)

Spec == Init /\ [][Next]_vars /\ Fairness

-----------------------------------------------------------------------------
(* Properties.                                                             *)

\* A thread owns, all along a pass, the mutexes it has locked for it: the
\* trylocks of GetNewClientID and ClearClientID, in the thread or in another,
\* never take or give back a mutex that somebody else locked.
LocksKept ==
  \A t \in Threads :
    /\ t # "world" /\ pc[t] \notin {"top", "ended"} => holder["Player"] = t
    /\ t # "loop" /\ pc[t] \notin {"top", "lockMap", "ended"}
         => holder["Map"] = t
    /\ t = "loop" /\ call[t].op = "sweep" /\ pc[t] \in {"clear", "erase"}
         => holder["Map"] = t
    /\ pc[t] \in {"clear", "erase"} /\ call[t].op = "delete" => holder["Drop"] = t

\* An id that is marked as used belongs to something on the map or to a drop that is
\* being given up, or its player has sent 0x753 again and was given another:
\* however the threads race, ids are lost in no other way.
Present == alive \cup listed \cup {p \in Players : stage[p] = "in"}
NoIdLeak ==
  \A i \in Ids : cid[i] = "used" =>
    \/ \E o \in Present : wears[o] = i
    \/ \E t \in Threads : call[t].op = "abort" /\ wears[call[t].obj] = i
    \/ i \in forgotten

\* "doing a mutext to be sure we're alone touching this one": while a GM's
\* command reads MonsterList, no other thread changes it.
ViewingAlone ==
  pc["loop"] = "viewing" =>
    ~Respawning /\ pc["map"] \notin {"work", "get", "scan", "mark", "clear", "erase"}

\* A shutdown that has begun stops every thread: no thread waits for a mutex
\* that nobody gives back, and no two wait for each other.
ShutdownCompletes == ~online ~> Stopped

\* "serial version with a mutex": no two things on the map wear one id.
NoSharedId ==
  \A o1, o2 \in Present : o1 # o2 /\ wears[o1] = wears[o2] => wears[o1] = 0

\* "This function will free our clientID": an id is not freed for one object
\* while another that is on the map wears it.
ClearsOwnId ==
  \A t \in Threads : pc[t] = "erase" =>
    \A o \in Present \ {call[t].obj} :
      wears[o] = wears[call[t].obj] => wears[o] = 0
=============================================================================
