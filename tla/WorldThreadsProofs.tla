------------------------- MODULE WorldThreadsProofs -------------------------
(* Theorems about WorldThreads for all sets of players, monsters and drops *)
(* and any number of ids.                                                  *)
EXTENDS WorldThreads, TLAPS

Labels == {"top", "packet", "work", "clean", "respawn", "get", "scan", "mark",
           "clear", "erase", "give", "viewing", "lockDrop", "lockMonster",
           "lockMap", "release", "ended"}
Erasing(t) == pc[t] \in {"clear", "erase"}
Trying(t)  == pc[t] \in {"scan", "mark", "erase"}

\* What the place a thread has reached says it owns.
Owns(t, m) ==
  \/ m = "Player" /\ t # "world" /\ pc[t] \notin {"top", "ended"}
  \/ m = "Map" /\ \/ t \in {"map", "vis"} /\ pc[t] \notin {"top", "lockMap", "ended"}
                  \/ t = "world" /\ pc[t] \notin {"top", "ended"}
                  \/ t = "loop" /\ call[t].op = "sweep" /\ Erasing(t)
  \/ m = "Monster" /\ \/ t = "map" /\ pc[t] \notin {"top", "lockMap", "lockMonster", "ended"}
                      \/ t = "world" /\ pc[t] \in {"respawn", "get", "scan", "mark", "release"}
                      \/ t = "loop" /\ pc[t] = "viewing"
  \/ m = "Drop" /\ \/ t = "world" /\ pc[t] = "clean"
                   \/ call[t].op = "delete" /\ Erasing(t)
  \/ Trying(t) /\ m \in call[t].got

Held == \A t \in Threads, m \in Mutexes : Owns(t, m) => holder[m] = t

\* Where each thread gets.
Place(t) ==
  /\ t = "loop" => pc[t] \in Labels \ {"work", "clean", "respawn"}
  /\ t = "map" => pc[t] \in {"top", "lockMap", "lockMonster", "work", "get", "scan",
                             "mark", "clear", "erase", "release", "ended"}
  /\ t = "vis" => pc[t] \in {"top", "lockMap", "release", "ended"}
  /\ t = "world" => pc[t] \in {"top", "lockDrop", "clean", "clear", "erase",
                               "lockMonster", "respawn", "get", "scan", "mark",
                               "release", "ended"}

\* Which operation it is in there.
Operation(t) ==
  /\ pc[t] \in {"get", "scan", "mark"} => call[t].op \in {"enter", "spawn", "drop"}
  /\ Erasing(t) => call[t].op \in {"abort", "teleport", "leave", "sweep", "kill", "delete"}
  /\ call[t].op \in {"enter", "teleport", "leave", "sweep"} => t = "loop"
  /\ call[t].op = "delete" => t \in {"loop", "world"}
  /\ t = "world" => call[t].op \in {"none", "spawn", "delete"}
  /\ t = "loop" /\ pc[t] = "lockMap" => call[t].op = "sweep"
  /\ t = "loop" /\ pc[t] \in {"give", "lockDrop"} => call[t].op = "delete"

\* An operation works on an object of its kind.
Kind(t) ==
  /\ call[t].op \in {"enter", "teleport", "leave", "sweep"} => call[t].obj \in Players
  /\ call[t].op \in {"spawn", "kill"} => call[t].obj \in Monsters
  /\ call[t].op \in {"drop", "abort", "delete"} => call[t].obj \in Drops

\* A trylock gets no mutex that the thread has locked for its pass.
TriedNew(t) ==
  Trying(t) => /\ t # "world" => "Player" \notin call[t].got
               /\ t # "loop" \/ call[t].op = "sweep" => "Map" \notin call[t].got

Local(t) == Place(t) /\ Operation(t) /\ Kind(t) /\ TriedNew(t)

Inv == TypeOK /\ (\A t \in Threads : Local(t)) /\ Held

-----------------------------------------------------------------------------
\* The threads start outside their passes, owning nothing (start of OnServerReady).
LEMMA InvInit == Init => Inv
<1> SUFFICES ASSUME Init PROVE Inv
  OBVIOUS
<1> USE ConstAssumption DEF Init, Idle, Call
<1>1. TypeOK
  <2>1. call \in [Threads -> [op : Ops, obj : Objects \cup {0}, id : 0..MaxId,
                              got : SUBSET {"Player", "Map"}]]
    BY DEF Ops
  <2>2. lastCid \in 1..(MaxId + 1)
    OBVIOUS
  <2>3. wears \in [Objects -> 0..MaxId]
    OBVIOUS
  <2> QED
    BY <2>1, <2>2, <2>3 DEF TypeOK
<1>2. \A t \in Threads : Local(t)
  BY DEF Local, Place, Operation, Kind, TriedNew, Threads, Labels, Erasing, Trying
<1>3. Held
  BY DEF Held, Owns, Erasing, Trying, Threads
<1> QED
  BY <1>1, <1>2, <1>3 DEF Inv

\* A step of one thread.  What the others own depends on their own places and
\* calls, so it is theirs still when the thread takes only free mutexes and
\* gives back only its own.
LEMMA StepOf ==
  ASSUME Inv, NEW t \in Threads, NEW l, NEW c,
         pc' = [pc EXCEPT ![t] = l],
         call' = [call EXCEPT ![t] = c] \/ call' = call,
         TypeOK', Local(t)',
         \A m \in Mutexes : holder'[m] # holder[m] =>
                              holder[m] = "none" \/ Owns(t, m),
         \A m \in Mutexes : Owns(t, m)' => holder'[m] = t
  PROVE  Inv'
<1>1. \A u \in Threads \ {t} : pc'[u] = pc[u] /\ call'[u] = call[u]
  BY DEF Inv, TypeOK
<1>2. \A u \in Threads : Local(u)'
  BY <1>1 DEF Inv, Local, Place, Operation, Kind, TriedNew, Erasing, Trying
<1>3. ASSUME NEW u \in Threads, NEW m \in Mutexes, Owns(u, m)'
      PROVE  holder'[m] = u
  <2>1. CASE u = t
    BY <1>3, <2>1
  <2>2. CASE u # t
    <3>1. Owns(u, m)
      BY <1>1, <1>3, <2>2 DEF Owns, Erasing, Trying
    <3>2. holder[m] = u /\ u # "none"
      BY <3>1 DEF Inv, Held, Threads
    <3>3. ~Owns(t, m)
      BY <2>2, <3>2 DEF Inv, Held
    <3> QED
      BY <3>2, <3>3
  <2> QED
    BY <2>1, <2>2
<1> QED
  BY <1>2, <1>3 DEF Inv, Held

-----------------------------------------------------------------------------
\* Locking a mutex at the places where the threads do.
LEMMA LockStep ==
  ASSUME Inv, NEW t \in Threads, NEW m \in Mutexes, NEW from, NEW to,
         Lock(t, m, from, to),
         <<t, m, from, to>> \in
           {<<"loop", "Player", "top", "packet">>, <<"loop", "Map", "lockMap", "clear">>,
            <<"loop", "Drop", "lockDrop", "clear">>,
            <<"loop", "Monster", "lockMonster", "viewing">>,
            <<"map", "Player", "top", "lockMap">>,
            <<"map", "Map", "lockMap", "lockMonster">>,
            <<"map", "Monster", "lockMonster", "work">>,
            <<"vis", "Player", "top", "lockMap">>, <<"vis", "Map", "lockMap", "release">>,
            <<"world", "Map", "top", "lockDrop">>, <<"world", "Drop", "lockDrop", "clean">>,
            <<"world", "Monster", "lockMonster", "respawn">>}
  PROVE  Inv'
<1>1. /\ pc' = [pc EXCEPT ![t] = to] /\ pc[t] = from /\ pc'[t] = to
      /\ call' = call /\ holder' = Take(t, {m}) /\ holder[m] = "none"
  BY DEF Lock, Goto, Inv, TypeOK
<1>2. TypeOK'
  BY DEF Lock, Goto, Take, Inv, TypeOK, tableVars, objVars, runVars, Threads
<1>3. Local(t)'
  BY <1>1 DEF Inv, Local, Place, Operation, Kind, TriedNew, Trying, Erasing, Labels
<1>4. \A k \in Mutexes : holder'[k] # holder[k] => holder[k] = "none"
  BY <1>1 DEF Take
<1>5. ASSUME NEW k \in Mutexes, Owns(t, k)' PROVE holder'[k] = t
  <2>1. k = m \/ Owns(t, k)
    BY <1>1, <1>5 DEF Inv, Local, Operation, Owns, Trying, Erasing
  <2> QED
    BY <1>1, <2>1 DEF Inv, Held, Take
<1> QED
  BY <1>1, <1>2, <1>3, <1>4, <1>5, StepOf

\* Beginning an operation, at the places where the threads do.
LEMMA BeginStep ==
  ASSUME Inv, NEW t \in Threads, NEW op \in Ops, NEW o \in Objects \cup {0}, NEW l,
         Begin(t, op, o, l),
         <<t, pc[t], op, l>> \in
           {<<"loop", "packet", "enter", "get">>, <<"loop", "packet", "teleport", "clear">>,
            <<"loop", "packet", "leave", "clear">>, <<"loop", "packet", "sweep", "lockMap">>,
            <<"loop", "packet", "delete", "give">>, <<"loop", "packet", "spawn", "get">>,
            <<"loop", "packet", "kill", "clear">>, <<"loop", "packet", "drop", "get">>,
            <<"loop", "packet", "none", "lockMonster">>,
            <<"loop", "packet", "none", "release">>,
            <<"map", "work", "spawn", "get">>, <<"map", "work", "kill", "clear">>,
            <<"map", "work", "drop", "get">>, <<"map", "work", "none", "release">>,
            <<"world", "clean", "delete", "clear">>,
            <<"world", "respawn", "spawn", "get">>,
            <<"world", "respawn", "none", "release">>},
         op \in {"enter", "teleport", "leave", "sweep"} => o \in Players,
         op \in {"spawn", "kill"} => o \in Monsters,
         op \in {"drop", "delete"} => o \in Drops
  PROVE  Inv'
<1> DEFINE c == Call(op, o)
<1>1. /\ pc' = [pc EXCEPT ![t] = l] /\ pc'[t] = l
      /\ call' = [call EXCEPT ![t] = c] /\ call'[t] = c
      /\ holder' = holder
  BY DEF Begin, Goto, Inv, TypeOK
<1>2. 0 \in 0..MaxId
  BY ConstAssumption
<1>3. TypeOK'
  <2>1. c \in [op : Ops, obj : Objects \cup {0}, id : 0..MaxId,
               got : SUBSET {"Player", "Map"}]
    BY <1>2 DEF Call
  <2>2. l \in Labels
    BY DEF Labels
  <2> HIDE DEF c
  <2> QED
    BY <1>1, <2>1, <2>2 DEF Begin, Inv, TypeOK, Labels, tableVars, objVars, runVars
<1>4. c.op = op /\ c.obj = o /\ c.got = {}
  BY DEF Call
<1> HIDE DEF c
<1>5. Local(t)'
  BY <1>1, <1>4 DEF Local, Place, Operation, Kind, TriedNew, Trying, Erasing, Labels
<1>6. ASSUME NEW k \in Mutexes, Owns(t, k)' PROVE holder'[k] = t
  <2>1. Owns(t, k)
    BY <1>1, <1>4, <1>6 DEF Owns, Trying, Erasing
  <2> QED
    BY <1>1, <2>1 DEF Inv, Held
<1> QED
  BY <1>1, <1>3, <1>5, <1>6, StepOf

\* The end of a pass gives back the mutexes of the pass.
LEMMA ReleaseStep ==
  ASSUME Inv, NEW t \in Threads, Release(t) PROVE Inv'
<1>1. /\ pc' = [pc EXCEPT ![t] = "top"] /\ pc[t] = "release" /\ pc'[t] = "top"
      /\ call' = call /\ holder' = Free(PassMutexes(t))
  BY DEF Release, Goto, Inv, TypeOK
<1>2. TypeOK'
  BY DEF Release, Goto, Free, Inv, TypeOK, tableVars, objVars, runVars
<1>3. Local(t)'
  BY <1>1 DEF Inv, Local, Place, Operation, Kind, TriedNew, Trying, Erasing, Labels
<1>4. \A k \in Mutexes : holder'[k] # holder[k] => Owns(t, k)
  BY <1>1 DEF Free, PassMutexes, Threads, Owns, Inv, Local, Place
<1>5. \A k \in Mutexes : ~Owns(t, k)'
  BY <1>1 DEF Owns, Trying, Erasing
<1> QED
  BY <1>1, <1>2, <1>3, <1>4, <1>5, StepOf

\* A thread ends between two passes.
LEMMA EndStep ==
  ASSUME Inv, NEW t \in Threads, End(t) PROVE Inv'
<1>1. /\ pc' = [pc EXCEPT ![t] = "ended"] /\ pc[t] = "top" /\ pc'[t] = "ended"
      /\ call' = call /\ holder' = holder
  BY DEF End, Goto, Inv, TypeOK
<1>2. TypeOK'
  BY DEF End, Goto, Inv, TypeOK, tableVars, objVars, runVars
<1>3. Local(t)'
  BY <1>1 DEF Inv, Local, Place, Operation, Kind, TriedNew, Trying, Erasing, Labels, Threads
<1>4. \A k \in Mutexes : ~Owns(t, k)'
  BY <1>1 DEF Owns, Trying, Erasing
<1> QED
  BY <1>1, <1>2, <1>3, <1>4, StepOf

\* The trylocks of GetNewClientID and ClearClientID.
LEMMA TryLocksStep ==
  ASSUME Inv, NEW t \in Threads, TryLocks(t) PROVE Inv'
<1> DEFINE got == {m \in {"Player", "Map"} : holder[m] = "none"}
           l == IF pc[t] = "get" THEN "scan" ELSE "erase"
           c == [call[t] EXCEPT !.got = got]
<1>1. /\ pc' = [pc EXCEPT ![t] = l] /\ pc[t] \in {"get", "clear"} /\ pc'[t] = l
      /\ call' = [call EXCEPT ![t] = c] /\ call'[t] = c
      /\ holder' = Take(t, got)
  BY DEF TryLocks, Goto, Inv, TypeOK
<1>2. c \in [op : Ops, obj : Objects \cup {0}, id : 0..MaxId, got : SUBSET {"Player", "Map"}]
      /\ c.op = call[t].op /\ c.obj = call[t].obj /\ c.got = got
  BY DEF Inv, TypeOK
<1>3. l = (IF pc[t] = "get" THEN "scan" ELSE "erase")
  OBVIOUS
<1>4. \A m \in got : m \in {"Player", "Map"} /\ holder[m] = "none"
  OBVIOUS
<1> HIDE DEF got, l, c
<1>5. TypeOK'
  <2>1. Take(t, got) \in [Mutexes -> Threads \cup {"none"}]
    BY DEF Take, Inv, TypeOK
  <2> QED
    BY <1>1, <1>2, <1>3, <2>1, ZenonT(40) DEF TryLocks, Inv, TypeOK, tableVars, objVars, runVars
<1>6. Local(t)'
  <2>1. (Place(t) /\ Operation(t) /\ Kind(t))'
    BY <1>1, <1>2, <1>3 DEF Inv, Local, Place, Operation, Kind, Erasing, Labels
  <2>2. TriedNew(t)'
    <3>1. t # "world" => holder["Player"] = t
      BY <1>1 DEF Inv, Held, Owns, Mutexes
    <3>2. t # "loop" \/ call[t].op = "sweep" => holder["Map"] = t
      BY <1>1 DEF Inv, Held, Owns, Mutexes, Threads, Local, Place, Operation, Erasing
    <3>3. t # "none"
      BY DEF Threads
    <3> QED
      BY <1>1, <1>2, <1>4, <3>1, <3>2, <3>3 DEF TriedNew
  <2> QED
    BY <2>1, <2>2 DEF Local
<1>7. \A k \in Mutexes : holder'[k] # holder[k] => holder[k] = "none"
  BY <1>1, <1>4 DEF Take
<1>8. ASSUME NEW k \in Mutexes, Owns(t, k)' PROVE holder'[k] = t
  <2>1. k \in got \/ Owns(t, k)
    BY <1>1, <1>2, <1>3, <1>8 DEF Owns, Trying, Erasing
  <2> QED
    BY <1>1, <2>1 DEF Inv, Held, Take
<1> QED
  BY <1>1, <1>5, <1>6, <1>7, <1>8, StepOf

\* What a scan of ClientIDList finds is an id, or 0.
LEMMA FoundRange == Found \subseteq 0..MaxId
BY ConstAssumption DEF Found, First, Ids

\* A scan touches no mutex.
LEMMA ScanStep ==
  ASSUME Inv, NEW t \in Threads, Scan(t) PROVE Inv'
<1>1. PICK i \in Found : call' = [call EXCEPT ![t].id = i]
  BY DEF Scan
<1> DEFINE c == [call[t] EXCEPT !.id = i]
<1>2. /\ pc' = [pc EXCEPT ![t] = "mark"] /\ pc[t] = "scan" /\ pc'[t] = "mark"
      /\ call' = [call EXCEPT ![t] = c] /\ call'[t] = c
      /\ holder' = holder
  BY <1>1 DEF Scan, Goto, Inv, TypeOK
<1>3. /\ c \in [op : Ops, obj : Objects \cup {0}, id : 0..MaxId,
                got : SUBSET {"Player", "Map"}]
      /\ c.op = call[t].op /\ c.obj = call[t].obj /\ c.got = call[t].got
  BY FoundRange DEF Inv, TypeOK
<1> HIDE DEF c
<1>4. TypeOK'
  BY <1>2, <1>3 DEF Scan, Inv, TypeOK, tableVars, objVars, runVars
<1>5. Local(t)'
  BY <1>2, <1>3 DEF Inv, Local, Place, Operation, Kind, TriedNew, Trying, Erasing, Labels
<1>6. ASSUME NEW k \in Mutexes, Owns(t, k)' PROVE holder'[k] = t
  <2>1. Owns(t, k)
    BY <1>2, <1>3, <1>6 DEF Owns, Trying, Erasing
  <2> QED
    BY <1>2, <2>1 DEF Inv, Held
<1> QED
  BY <1>2, <1>4, <1>5, <1>6, StepOf

\* After the marking the thread gives back what its trylocks got.
LEMMA MarkStep ==
  ASSUME Inv, NEW t \in Threads, Mark(t) PROVE Inv'
<1> DEFINE c == call[t]
           d == call'[t]
           l == pc'[t]
<1>1. /\ pc' = [pc EXCEPT ![t] = l] /\ pc[t] = "mark"
      /\ call' = [call EXCEPT ![t] = d]
      /\ holder' = Free(c.got)
      /\ \/ l = "release" /\ d = Call("none", 0)
         \/ l = "clear" /\ d = Call("abort", c.obj) /\ c.op = "drop"
         \/ l = "lockMap" /\ d = Call("sweep", c.obj) /\ c.op = "enter"
  BY DEF Mark, Finish, Goto, Idle, Inv, TypeOK
<1>2. /\ c \in [op : Ops, obj : Objects \cup {0}, id : 0..MaxId,
                got : SUBSET {"Player", "Map"}]
      /\ c.op = "enter" => c.obj \in Players
      /\ c.op = "spawn" => c.obj \in Monsters
      /\ c.op = "drop" => c.obj \in Drops
  BY DEF Inv, TypeOK, Local, Kind
<1>3. \/ l = "release" /\ d.op = "none" /\ d.got = {}
      \/ /\ l = "clear" /\ d.op = "abort" /\ d.got = {} /\ d.obj = c.obj
         /\ c.op = "drop"
      \/ /\ l = "lockMap" /\ d.op = "sweep" /\ d.got = {} /\ d.obj = c.obj
         /\ c.op = "enter"
  BY <1>1 DEF Call
<1>4. TypeOK'
  <2>1. d \in [op : Ops, obj : Objects \cup {0}, id : 0..MaxId,
               got : SUBSET {"Player", "Map"}]
    BY <1>1, <1>2, ConstAssumption DEF Call, Ops
  <2>2. l \in Labels
    BY <1>1 DEF Labels
  <2> HIDE DEF d, l
  <2>3. pc' \in [Threads -> Labels]
    BY <1>1, <2>2 DEF Inv, TypeOK, Labels
  <2>4. call' \in [Threads -> [op : Ops, obj : Objects \cup {0}, id : 0..MaxId,
                               got : SUBSET {"Player", "Map"}]]
    BY <1>1, <2>1 DEF Inv, TypeOK
  <2>5. holder' \in [Mutexes -> Threads \cup {"none"}]
    BY <1>1 DEF Free, Inv, TypeOK
  <2>6. cid' \in [Ids -> {"used", "recent", "old"}] /\ lastCid' \in 1..(MaxId + 1)
    <3>1. c.id = 0 \/ (c.id \in Ids /\ c.id + 1 \in 1..(MaxId + 1))
      BY <1>2, ConstAssumption DEF Ids
    <3> QED
      BY <3>1 DEF Mark, Marked, tableVars, Inv, TypeOK
  <2>7. wears' \in [Objects -> 0..MaxId]
    BY <1>2 DEF Mark, Inv, TypeOK
  <2>8. stage' \in [Players -> {"out", "loading", "in", "leaving"}]
    BY DEF Mark, Inv, TypeOK
  <2>9. alive' \subseteq Monsters /\ listed' \subseteq Drops /\ forgotten' \subseteq 0..MaxId
    <3>1. alive' \subseteq Monsters /\ listed' \subseteq Drops
      BY <1>2 DEF Mark, Inv, TypeOK
    <3>2. c.op = "enter" => wears[c.obj] \in 0..MaxId
      BY <1>2 DEF Inv, TypeOK, Objects
    <3>3. forgotten' \subseteq forgotten \cup (IF c.op = "enter" THEN {wears[c.obj]} ELSE {})
      BY DEF Mark
    <3> QED
      BY <3>1, <3>2, <3>3 DEF Inv, TypeOK
  <2>10. online' \in BOOLEAN /\ active' \in BOOLEAN /\ dead' \in BOOLEAN
    BY DEF Mark, runVars, Inv, TypeOK
  <2> QED
    BY <2>3, <2>4, <2>5, <2>6, <2>7, <2>8, <2>9, <2>10 DEF TypeOK, Labels
<1>5. Local(t) /\ c.got \subseteq {"Player", "Map"}
  BY <1>2 DEF Inv
<1>6. Local(t)'
  <2>1. pc'[t] = l /\ call'[t] = d
    OBVIOUS
  <2>2. (c.op # "drop" \/ t \in {"loop", "map"}) /\ (c.op = "enter" => t = "loop")
    BY <1>1, <1>5 DEF Local, Operation, Place, Threads
  <2> HIDE DEF d, l
  <2>3. (Place(t) /\ Operation(t))'
    BY <1>1, <1>3, <1>5, <2>1, <2>2 DEF Local, Place, Operation, Erasing, Labels
  <2>4. (Kind(t) /\ TriedNew(t))'
    BY <1>1, <1>2, <1>3, <2>1 DEF Kind, TriedNew, Trying
  <2> QED
    BY <2>3, <2>4 DEF Local
<1>7. \A k \in Mutexes : holder'[k] # holder[k] => Owns(t, k)
  BY <1>1 DEF Free, Owns, Trying
<1>8. ASSUME NEW k \in Mutexes, Owns(t, k)' PROVE holder'[k] = t
  <2>1. Owns(t, k) /\ k \notin c.got
    BY <1>1, <1>3, <1>5, <1>8
       DEF Owns, Trying, Erasing, Local, Place, TriedNew
  <2> QED
    BY <1>1, <2>1 DEF Inv, Held, Free
<1> QED
  BY <1>1, <1>4, <1>6, <1>7, <1>8, StepOf

\* The same for the clearing of an id.
LEMMA EraseStep ==
  ASSUME Inv, NEW t \in Threads, Erase(t) PROVE Inv'
<1> DEFINE c == call[t]
           l == IF t = "world" THEN "lockMonster" ELSE "release"
<1>1. /\ pc' = [pc EXCEPT ![t] = l] /\ pc[t] = "erase" /\ pc'[t] = l
      /\ call' = [call EXCEPT ![t] = Idle] /\ call'[t] = Idle
      /\ holder' = Free(c.got \cup OpMutexes(c.op))
  BY DEF Erase, Finish, Goto, Inv, TypeOK
<1>2. Idle.op = "none" /\ Idle.got = {}
  BY DEF Idle, Call
<1>3. TypeOK'
  <2>1. Idle \in [op : Ops, obj : Objects \cup {0}, id : 0..MaxId,
                  got : SUBSET {"Player", "Map"}]
    BY ConstAssumption DEF Idle, Call, Ops
  <2>2. pc' \in [Threads -> Labels] /\ l \in Labels
    BY <1>1 DEF Inv, TypeOK, Labels
  <2>3. call' \in [Threads -> [op : Ops, obj : Objects \cup {0}, id : 0..MaxId,
                               got : SUBSET {"Player", "Map"}]]
    BY <1>1, <2>1 DEF Inv, TypeOK
  <2>4. holder' \in [Mutexes -> Threads \cup {"none"}]
    BY <1>1 DEF Free, Inv, TypeOK
  <2>5. cid' \in [Ids -> {"used", "recent", "old"}] /\ lastCid' \in 1..(MaxId + 1)
    BY DEF Erase, Cleared, Inv, TypeOK
  <2>6. wears' \in [Objects -> 0..MaxId]
    <3>1. 0 \in 0..MaxId /\ wears \in [Objects -> 0..MaxId]
      BY ConstAssumption DEF Inv, TypeOK
    <3>2. wears' = [wears EXCEPT ![c.obj] = 0] \/ wears' = wears
      BY DEF Erase
    <3> QED
      BY <3>1, <3>2
  <2>7. stage' \in [Players -> {"out", "loading", "in", "leaving"}]
    BY DEF Erase, Inv, TypeOK
  <2>8. alive' \subseteq Monsters /\ listed' \subseteq Drops /\ forgotten' \subseteq 0..MaxId
    BY DEF Erase, Inv, TypeOK
  <2>9. online' \in BOOLEAN /\ active' \in BOOLEAN /\ dead' \in BOOLEAN
    BY DEF Erase, runVars, Inv, TypeOK
  <2> QED
    BY <2>2, <2>3, <2>4, <2>5, <2>6, <2>7, <2>8, <2>9 DEF TypeOK, Labels
<1>4. Local(t) /\ c.got \subseteq {"Player", "Map"}
  BY DEF Inv, TypeOK
<1>5. Local(t)'
  BY <1>1, <1>2, <1>4
     DEF Local, Place, Operation, Kind, TriedNew, Trying, Erasing, Labels, Threads
<1>6. \A k \in Mutexes : holder'[k] # holder[k] => Owns(t, k)
  BY <1>1, <1>4 DEF Free, OpMutexes, Owns, Trying, Erasing, Local, Operation
<1>7. ASSUME NEW k \in Mutexes, Owns(t, k)' PROVE holder'[k] = t
  <2>1. Owns(t, k) /\ k \notin c.got \cup OpMutexes(c.op)
    BY <1>1, <1>2, <1>4, <1>7
       DEF Owns, Trying, Erasing, Local, Place, Operation, TriedNew, OpMutexes
  <2> QED
    BY <1>1, <2>1 DEF Inv, Held, Free
<1> QED
  BY <1>1, <1>3, <1>5, <1>6, <1>7, StepOf

\* A step that neither moves a thread to another call nor touches a mutex.
LEMMA GotoStep ==
  ASSUME Inv, NEW t \in Threads, NEW l,
         pc' = [pc EXCEPT ![t] = l], UNCHANGED <<call, holder>>,
         TypeOK',
         <<t, pc[t], l>> \in {<<"loop", "packet", "release">>, <<"loop", "give", "lockDrop">>}
  PROVE  Inv'
<1>1. pc'[t] = l
  BY DEF Inv, TypeOK
<1>2. Local(t)'
  BY <1>1 DEF Inv, Local, Place, Operation, Kind, TriedNew, Trying, Erasing, Labels
<1>3. ASSUME NEW k \in Mutexes, Owns(t, k)' PROVE holder'[k] = t
  <2>1. Owns(t, k)
    BY <1>1, <1>3 DEF Owns, Trying, Erasing
  <2> QED
    BY <2>1 DEF Inv, Held
<1> QED
  BY <1>2, <1>3, StepOf

\* Combat's operations fit BeginStep in the two threads that fight.
LEMMA CombatStep ==
  ASSUME Inv, NEW t \in {"loop", "map"},
         pc[t] = IF t = "loop" THEN "packet" ELSE "work",
         Combat(t)
  PROVE  Inv'
<1> USE DEF Threads, Ops, Objects
<1>1. CASE \E m \in Unused(Monsters) : Begin(t, "spawn", m, "get")
  BY <1>1, BeginStep DEF Unused
<1>2. CASE \E m \in alive : Begin(t, "kill", m, "clear")
  BY <1>2, BeginStep DEF Inv, TypeOK
<1>3. CASE \E d \in Unused(Drops) : Begin(t, "drop", d, "get")
  BY <1>3, BeginStep DEF Unused
<1> QED
  BY <1>1, <1>2, <1>3 DEF Combat

\* A packet is handled with PlayerMutex held by the server loop.
LEMMA PacketStep ==
  ASSUME Inv, Packet PROVE Inv'
<1> USE DEF Threads, Ops, Objects
<1>0. pc["loop"] = "packet"
  BY DEF Packet
<1>1. ASSUME NEW p \in Players, Connect(p) PROVE Inv'
  <2>1. TypeOK'
    BY <1>1 DEF Connect, Goto, Inv, TypeOK, tableVars, runVars
  <2> QED
    BY <1>0, <1>1, <2>1, GotoStep DEF Connect, Goto
<1>2. ASSUME NEW p \in Players, pakDoID(p) PROVE Inv'
  BY <1>0, <1>2, BeginStep DEF pakDoID
<1>3. ASSUME NEW p \in Players, TeleportPlayer(p) PROVE Inv'
  BY <1>0, <1>3, BeginStep DEF TeleportPlayer
<1>4. ASSUME NEW p \in Players, pakCharSelect(p) PROVE Inv'
  BY <1>0, <1>4, BeginStep DEF pakCharSelect
<1>5. ASSUME NEW p \in Players, Disconnect(p) PROVE Inv'
  BY <1>0, <1>5, BeginStep DEF Disconnect
<1>6. ASSUME NEW d \in listed, pakPickDrop(d) PROVE Inv'
  BY <1>0, <1>6, BeginStep DEF pakPickDrop, Inv, TypeOK
<1>7. CASE Combat("loop")
  BY <1>0, <1>7, CombatStep
<1>8. CASE Begin("loop", "none", 0, "lockMonster")
  BY <1>0, <1>8, BeginStep
<1>9. CASE Begin("loop", "none", 0, "release")
  BY <1>0, <1>9, BeginStep
<1> QED
  BY <1>1, <1>2, <1>3, <1>4, <1>5, <1>6, <1>7, <1>8, <1>9 DEF Packet

\* The gift of a drop changes no mutex but DropMutex.
LEMMA GiveStep ==
  ASSUME Inv, Give PROVE Inv'
<1>1. CASE Goto("loop", "lockDrop") /\ UNCHANGED call
  <2>1. TypeOK'
    BY <1>1 DEF Give, Goto, Inv, TypeOK, tableVars, objVars, runVars
  <2> QED
    BY <1>1, <2>1, GotoStep DEF Give, Goto, Threads
<1>2. CASE Finish("loop", "release")
  <2>1. /\ pc' = [pc EXCEPT !["loop"] = "release"] /\ pc["loop"] = "give"
        /\ call' = [call EXCEPT !["loop"] = Idle] /\ holder' = holder
        /\ pc'["loop"] = "release" /\ call'["loop"] = Idle /\ "loop" \in Threads
    BY <1>2 DEF Give, Finish, Goto, Inv, TypeOK, Threads
  <2>2. Idle.op = "none" /\ Idle.got = {}
        /\ Idle \in [op : Ops, obj : Objects \cup {0}, id : 0..MaxId,
                     got : SUBSET {"Player", "Map"}]
    BY ConstAssumption DEF Idle, Call, Ops
  <2>3. TypeOK'
    BY <2>1, <2>2 DEF Give, Inv, TypeOK, tableVars, objVars, runVars
  <2>4. Local("loop")'
    BY <2>1, <2>2 DEF Local, Place, Operation, Kind, TriedNew, Trying, Erasing, Labels
  <2>5. ASSUME NEW k \in Mutexes, Owns("loop", k)' PROVE holder'[k] = "loop"
    <3>1. Owns("loop", k)
      BY <2>1, <2>2, <2>5 DEF Owns, Trying, Erasing
    <3> QED
      BY <2>1, <3>1 DEF Inv, Held
  <2> QED
    BY <2>1, <2>3, <2>4, <2>5, StepOf
<1> QED
  BY <1>1, <1>2 DEF Give

\* A mutex that was taken inside a pass is given back before its end.
LEMMA UnlockStep ==
  ASSUME Inv, NEW t \in Threads, NEW m \in Mutexes, NEW l,
         <<t, pc[t], m, l>> \in {<<"loop", "viewing", "Monster", "release">>,
                                 <<"world", "clean", "Drop", "lockMonster">>},
         holder' = Free({m}), Goto(t, l),
         UNCHANGED <<call, tableVars, objVars, runVars>>
  PROVE  Inv'
<1>1. pc' = [pc EXCEPT ![t] = l] /\ pc'[t] = l /\ call' = call /\ holder' = Free({m})
  BY DEF Goto, Inv, TypeOK
<1>2. TypeOK'
  BY DEF Goto, Free, Inv, TypeOK, tableVars, objVars, runVars
<1>3. Local(t)'
  BY <1>1 DEF Inv, Local, Place, Operation, Kind, TriedNew, Trying, Erasing, Labels
<1>4. \A k \in Mutexes : holder'[k] # holder[k] => Owns(t, k)
  BY <1>1 DEF Free, Owns
<1>5. ASSUME NEW k \in Mutexes, Owns(t, k)' PROVE holder'[k] = t
  <2>1. Owns(t, k) /\ k # m
    BY <1>1, <1>5 DEF Owns, Trying, Erasing
  <2> QED
    BY <1>1, <2>1 DEF Inv, Held, Free
<1> QED
  BY <1>1, <1>2, <1>3, <1>4, <1>5, StepOf

\* The rest of a pass, by thread.
LEMMA BodyStep ==
  ASSUME Inv, NEW t \in Threads, Body(t) PROVE Inv'
<1> USE DEF Threads, Mutexes
<1>1. CASE t = "loop"
  <2>0. ServerLoop
    BY <1>1 DEF Body
  <2>1. CASE Start("loop", "Player", "packet")
    BY <2>1, LockStep DEF Start
  <2>2. CASE Packet
    BY <2>2, PacketStep
  <2>3. CASE Give
    BY <2>3, GiveStep
  <2>4. CASE Lock("loop", "Map", "lockMap", "clear")
    BY <2>4, LockStep
  <2>5. CASE Lock("loop", "Drop", "lockDrop", "clear")
    BY <2>5, LockStep
  <2>6. CASE Lock("loop", "Monster", "lockMonster", "viewing")
    BY <2>6, LockStep
  <2>7. CASE /\ pc["loop"] = "viewing" /\ holder' = Free({"Monster"})
             /\ Goto("loop", "release")
             /\ UNCHANGED <<call, tableVars, objVars, runVars>>
    BY <2>7, UnlockStep
  <2> QED
    BY <2>0, <2>1, <2>2, <2>3, <2>4, <2>5, <2>6, <2>7 DEF ServerLoop
<1>2. CASE t = "map"
  <2>0. MapProcess
    BY <1>2 DEF Body
  <2>1. CASE Start("map", "Player", "lockMap")
    BY <2>1, LockStep DEF Start
  <2>2. CASE Lock("map", "Map", "lockMap", "lockMonster")
    BY <2>2, LockStep
  <2>3. CASE Lock("map", "Monster", "lockMonster", "work")
    BY <2>3, LockStep
  <2>4. CASE pc["map"] = "work" /\ Combat("map")
    BY <2>4, CombatStep
  <2>5. CASE pc["map"] = "work" /\ Begin("map", "none", 0, "release")
    BY <2>5, BeginStep DEF Ops
  <2> QED
    BY <2>0, <2>1, <2>2, <2>3, <2>4, <2>5 DEF MapProcess
<1>3. CASE t = "vis"
  <2>0. VisibilityProcess
    BY <1>3 DEF Body
  <2>1. CASE Start("vis", "Player", "lockMap")
    BY <2>1, LockStep DEF Start
  <2>2. CASE Lock("vis", "Map", "lockMap", "release")
    BY <2>2, LockStep
  <2> QED
    BY <2>0, <2>1, <2>2 DEF VisibilityProcess
<1>4. CASE t = "world"
  <2>0. WorldProcess
    BY <1>4 DEF Body
  <2>1. CASE Start("world", "Map", "lockDrop")
    BY <2>1, LockStep DEF Start
  <2>2. CASE Lock("world", "Drop", "lockDrop", "clean")
    BY <2>2, LockStep
  <2>3. CASE CleanDrops
    <3>1. ASSUME NEW d \in listed, pc["world"] = "clean",
                 Begin("world", "delete", d, "clear")
          PROVE  Inv'
      BY <3>1, BeginStep DEF Ops, Objects, Inv, TypeOK
    <3>2. CASE /\ pc["world"] = "clean"
               /\ holder' = Free({"Drop"}) /\ Goto("world", "lockMonster")
               /\ UNCHANGED <<call, tableVars, objVars, runVars>>
      BY <3>2, UnlockStep
    <3> QED
      BY <2>3, <3>1, <3>2 DEF CleanDrops
  <2>4. CASE Lock("world", "Monster", "lockMonster", "respawn")
    BY <2>4, LockStep
  <2>5. CASE RespawnMonster
    <3>1. ASSUME NEW m \in Unused(Monsters), pc["world"] = "respawn",
                 Begin("world", "spawn", m, "get")
          PROVE  Inv'
      BY <3>1, BeginStep DEF Ops, Objects, Unused
    <3>2. CASE pc["world"] = "respawn" /\ Begin("world", "none", 0, "release")
      BY <3>2, BeginStep DEF Ops
    <3> QED
      BY <2>5, <3>1, <3>2 DEF RespawnMonster
  <2> QED
    BY <2>0, <2>1, <2>2, <2>3, <2>4, <2>5 DEF WorldProcess
<1> QED
  BY <1>1, <1>2, <1>3, <1>4

\* The steps of nobody's thread leave the places, calls and mutexes alone.
LEMMA InvNext ==
  ASSUME Inv, [Next]_vars PROVE Inv'
<1>1. ASSUME UNCHANGED <<pc, call, holder>>, TypeOK' PROVE Inv'
  BY <1>1 DEF Inv, Held, Owns, Local, Place, Operation, Kind, TriedNew, Trying, Erasing
<1>2. CASE \E t \in Threads : Thread(t)
  BY <1>2, BodyStep, TryLocksStep, ScanStep, MarkStep, EraseStep, ReleaseStep, EndStep
     DEF Thread
<1>3. CASE ShutdownServer \/ JoinThreads
  <2>1. TypeOK'
    BY <1>3 DEF ShutdownServer, JoinThreads, Inv, TypeOK, tableVars, objVars
  <2> QED
    BY <1>1, <1>3, <2>1 DEF ShutdownServer, JoinThreads
<1>4. CASE Crash
  <2>1. TypeOK'
    BY <1>4 DEF Crash, Inv, TypeOK, tableVars, objVars
  <2> QED
    BY <1>1, <1>4, <2>1 DEF Crash
<1>5. ASSUME NEW i \in Ids, TenSeconds(i) PROVE Inv'
  <2>1. TypeOK'
    BY <1>5 DEF TenSeconds, Inv, TypeOK, objVars, runVars
  <2> QED
    BY <1>1, <1>5, <2>1 DEF TenSeconds
<1>6. CASE UNCHANGED vars
  <2>1. TypeOK'
    BY <1>6 DEF vars, Inv, TypeOK
  <2> QED
    BY <1>1, <1>6, <2>1 DEF vars
<1> QED
  BY <1>2, <1>3, <1>4, <1>5, <1>6 DEF Next

\* Inv holds in every reachable state.
THEOREM InvHolds == Spec => []Inv
<1> QED
  BY InvInit, InvNext, PTL DEF Spec

-----------------------------------------------------------------------------
\* Type correctness: what WorldThreads' variables range over.
THEOREM WorldTypeCorrect == Spec => []TypeOK
<1>1. Inv => TypeOK
  BY DEF Inv
<1> QED
  BY <1>1, InvHolds, PTL

\* A thread owns, all along a pass, the mutexes it has locked for it, whatever
\* GetNewClientID and ClearClientID try to lock in it and in the others.
THEOREM MutexesKept == Spec => []LocksKept
<1>1. Inv => LocksKept
  <2> SUFFICES ASSUME Inv, NEW t \in Threads
               PROVE  /\ t # "world" /\ pc[t] \notin {"top", "ended"} => holder["Player"] = t
                      /\ t # "loop" /\ pc[t] \notin {"top", "lockMap", "ended"}
                           => holder["Map"] = t
                      /\ t = "loop" /\ call[t].op = "sweep" /\ pc[t] \in {"clear", "erase"}
                           => holder["Map"] = t
                      /\ pc[t] \in {"clear", "erase"} /\ call[t].op = "delete"
                           => holder["Drop"] = t
    BY DEF LocksKept
  <2>1. \A m \in Mutexes : Owns(t, m) => holder[m] = t
    BY DEF Inv, Held
  <2> QED
    BY <2>1 DEF Owns, Erasing, Mutexes, Threads
<1> QED
  BY <1>1, InvHolds, PTL

\* No thread is in MonsterList's other uses while a GM's command reads it:
\* each of them owns MonsterMutex, and so does the command.
THEOREM ViewsAlone == Spec => []ViewingAlone
<1>1. Inv => ViewingAlone
  <2> SUFFICES ASSUME Inv, pc["loop"] = "viewing"
               PROVE  /\ ~Respawning
                      /\ pc["map"] \notin {"work", "get", "scan", "mark", "clear", "erase"}
    BY DEF ViewingAlone
  <2>1. /\ Owns("loop", "Monster")
        /\ Respawning => Owns("world", "Monster")
        /\ pc["map"] \in {"work", "get", "scan", "mark", "clear", "erase"}
             => Owns("map", "Monster")
    BY DEF Owns, Respawning
  <2> QED
    BY <2>1 DEF Inv, Held, Threads, Mutexes
<1> QED
  BY <1>1, InvHolds, PTL

-----------------------------------------------------------------------------
(* NoIdLeak.                                                               *)

\* A thread makes an object, or gives up the one it has just made.
Making(t) ==
  \/ pc[t] \in {"get", "scan", "mark"} /\ call[t].op \in {"spawn", "drop"}
  \/ call[t].op = "abort"

\* Nobody else knows the object.
Fresh ==
  \A t \in Threads : Making(t) =>
    /\ call[t].obj \notin alive \cup listed
    /\ \A u \in Threads \ {t} : call[u].obj # call[t].obj

Entering == \A t \in Threads : call[t].op = "enter" => Reading(call[t].obj)
Aborting == \A t \in Threads : call[t].op = "abort" => Erasing(t)

\* Whose id i is: a player's only while he is in a map, so that the id pakDoID
\* gives him replaces one that is in use only there.
Owned(i) ==
  \/ \E o \in Present : wears[o] = i
  \/ \E t \in Threads : call[t].op = "abort" /\ wears[call[t].obj] = i
  \/ i \in forgotten

Used == \A i \in Ids : cid[i] = "used" => Owned(i)

IdInv == Inv /\ Fresh /\ Entering /\ Aborting /\ Used

\* No id is in use when the server starts.
LEMMA IdInvInit == Init => IdInv
<1> SUFFICES ASSUME Init PROVE IdInv
  OBVIOUS
<1>1. \A t \in Threads : pc[t] = "top" /\ call[t].op = "none"
  BY DEF Init, Idle, Call
<1>2. Fresh /\ Entering /\ Aborting
  BY <1>1 DEF Fresh, Making, Entering, Aborting
<1>3. Used
  BY DEF Used, Init
<1> QED
  BY <1>2, <1>3, InvInit DEF IdInv

\* A step that changes no operation, no object and frees ids at most.
LEMMA QuietStep ==
  ASSUME IdInv, Inv', UNCHANGED objVars,
         \A t \in Threads : /\ call'[t].op = call[t].op /\ call'[t].obj = call[t].obj
                            /\ Making(t)' => Making(t)
                            /\ Erasing(t) => Erasing(t)',
         \A i \in Ids : cid'[i] = "used" => cid[i] = "used"
  PROVE  IdInv'
<1>1. Fresh'
  BY DEF IdInv, Fresh, objVars
<1>2. Entering' /\ Aborting'
  BY DEF IdInv, Entering, Reading, Aborting, objVars
<1>3. Used'
  BY DEF IdInv, Used, Owned, Present, objVars
<1> QED
  BY <1>1, <1>2, <1>3 DEF IdInv

\* Beginning an operation: what is made is new to everybody.
LEMMA BeginIds ==
  ASSUME IdInv, Inv', NEW t \in Threads, NEW op, NEW o \in Objects, NEW l,
         Begin(t, op, o, l), ~Erasing(t),
         op # "abort",
         op \in {"spawn", "drop"} => o \in Unused(Monsters \cup Drops),
         op \notin {"spawn", "drop"} => o \in Players \cup alive \cup listed,
         op = "enter" => stage[o] \in {"loading", "in"}
  PROVE  IdInv'
<1>1. /\ call'[t].op = op /\ call'[t].obj = o /\ pc'[t] = l
      /\ \A u \in Threads \ {t} : call'[u] = call[u] /\ pc'[u] = pc[u]
      /\ UNCHANGED <<cid, wears, stage, alive, listed, forgotten>>
  BY DEF Begin, Call, Goto, IdInv, Inv, TypeOK, tableVars, objVars
<1>2. call[t].op # "abort"
  BY DEF IdInv, Aborting
<1>3. Fresh'
  <2> SUFFICES ASSUME NEW u \in Threads, Making(u)'
               PROVE  /\ call'[u].obj \notin alive \cup listed
                      /\ \A v \in Threads \ {u} : call'[v].obj # call'[u].obj
    BY <1>1 DEF Fresh
  <2>1. CASE u = t
    <3>1. op \in {"spawn", "drop"}
      BY <1>1, <2>1 DEF Making
    <3> QED
      BY <1>1, <2>1, <3>1 DEF Unused
  <2>2. CASE u # t
    <3>1. Making(u)
      BY <1>1, <2>2 DEF Making
    <3>2. call[u].op \in {"spawn", "drop", "abort"}
      BY <3>1 DEF Making
    <3>3. call[u].obj \in Monsters \cup Drops
      BY <3>2 DEF IdInv, Inv, Local, Kind
    <3>4. call[u].obj \notin alive \cup listed
          /\ \A v \in Threads \ {u} : call[v].obj # call[u].obj
      BY <3>1 DEF IdInv, Fresh
    <3>5. o # call[u].obj
      BY <3>3, <3>4, ConstAssumption DEF Unused
    <3> QED
      BY <1>1, <2>2, <3>4, <3>5
  <2> QED
    BY <2>1, <2>2
<1>4. Entering' /\ Aborting'
  BY <1>1 DEF IdInv, Entering, Reading, Aborting, Erasing
<1>5. Used'
  BY <1>1, <1>2 DEF IdInv, Used, Owned, Present
<1> QED
  BY <1>3, <1>4, <1>5 DEF IdInv

\* A thread that begins or ends with nothing to do.
LEMMA IdleIds ==
  ASSUME IdInv, Inv', NEW t \in Threads, NEW l, ~Erasing(t),
         call' = [call EXCEPT ![t] = Idle], Goto(t, l),
         UNCHANGED <<tableVars, objVars>>
  PROVE  IdInv'
<1>1. /\ call'[t].op = "none" /\ call'[t].obj = 0
      /\ \A u \in Threads \ {t} : call'[u] = call[u] /\ pc'[u] = pc[u]
      /\ UNCHANGED <<cid, wears, stage, alive, listed, forgotten>>
  BY DEF Idle, Call, Goto, IdInv, Inv, TypeOK, tableVars, objVars
<1>2. call[t].op # "abort"
  BY DEF IdInv, Aborting
<1>3. Fresh'
  <2> SUFFICES ASSUME NEW u \in Threads, Making(u)'
               PROVE  /\ call'[u].obj \notin alive \cup listed
                      /\ \A v \in Threads \ {u} : call'[v].obj # call'[u].obj
    BY <1>1 DEF Fresh
  <2>1. u # t /\ Making(u)
    BY <1>1 DEF Making
  <2>2. call[u].obj \in Monsters \cup Drops
    BY <2>1 DEF Making, IdInv, Inv, Local, Kind
  <2> QED
    BY <1>1, <2>1, <2>2, ConstAssumption DEF IdInv, Fresh
<1>4. Entering' /\ Aborting'
  BY <1>1 DEF IdInv, Entering, Reading, Aborting, Erasing
<1>5. Used'
  BY <1>1, <1>2 DEF IdInv, Used, Owned, Present
<1> QED
  BY <1>3, <1>4, <1>5 DEF IdInv

\* The id that is marked goes to an object that had none in use, or the one it had
\* is forgotten.
LEMMA MarkIds ==
  ASSUME IdInv, Inv', NEW t \in Threads, Mark(t) PROVE IdInv'
<1> DEFINE c == call[t]
<1>1. /\ pc[t] = "mark" /\ c.op \in {"enter", "spawn", "drop"} /\ c.obj \in Objects
      /\ c.op = "enter" => c.obj \in Players
      /\ c.op = "spawn" => c.obj \in Monsters
      /\ c.op = "drop" => c.obj \in Drops
  BY DEF Mark, IdInv, Inv, Local, Operation, Kind, Objects
<1>2. \A u \in Threads \ {t} : call'[u] = call[u] /\ pc'[u] = pc[u]
  BY DEF Mark, Finish, Goto, IdInv, Inv, TypeOK
<1>3. \/ call'[t].op = "none" /\ call'[t].obj = 0
      \/ call'[t].op = "abort" /\ call'[t].obj = c.obj /\ pc'[t] = "clear" /\ c.op = "drop"
         /\ listed' = listed /\ alive' = alive
      \/ call'[t].op = "sweep" /\ call'[t].obj = c.obj /\ c.op = "enter" /\ pc'[t] = "lockMap"
  BY DEF Mark, Finish, Goto, Idle, Call, IdInv, Inv, TypeOK
<1>4. /\ c.op # "enter" => Making(t)
      /\ c.op # "enter" => c.obj \notin alive \cup listed
      /\ c.op # "enter" => \A u \in Threads \ {t} : call[u].obj # c.obj
  BY <1>1 DEF Making, IdInv, Fresh
<1>5. forgotten \subseteq forgotten' /\ (c.obj \in Present => wears[c.obj] \in forgotten')
  <2>1. c.op # "enter" => c.obj \notin Present
    BY <1>1, <1>4, ConstAssumption DEF Present
  <2>2. c.op = "enter" /\ c.obj \in Present => stage[c.obj] = "in"
    BY <1>1, ConstAssumption DEF Present, IdInv, Inv, TypeOK
  <2> QED
    BY <2>1, <2>2 DEF Mark
<1>6. c.op = "enter" => stage'[c.obj] \in {"in", stage[c.obj]}
  BY <1>1 DEF Mark, IdInv, Inv, TypeOK
<1>7. \A u \in Threads \ {t} : call[u].op = "abort" => call[u].obj # c.obj
  BY <1>1 DEF IdInv, Fresh, Making
<1>8. /\ \A o \in Objects \ {c.obj} : wears'[o] = wears[o]
      /\ wears'[c.obj] = c.id
  BY <1>1 DEF Mark, IdInv, Inv, TypeOK
<1>9. \A i \in Ids : cid'[i] = "used" => cid[i] = "used" \/ (i = c.id /\ c.id # 0)
  BY DEF Mark, Marked, tableVars, IdInv, Inv, TypeOK
<1>10. /\ alive \subseteq alive' /\ alive' \subseteq alive \cup {c.obj}
       /\ listed \subseteq listed' /\ listed' \subseteq listed \cup {c.obj}
       /\ \A p \in Players \ {c.obj} : stage'[p] = stage[p]
  BY DEF Mark, IdInv, Inv, TypeOK
<1>11. c.id # 0 => c.obj \in Present' \/ (call'[t].op = "abort" /\ call'[t].obj = c.obj)
  <2>1. CASE c.op = "enter"
    BY <1>1, <2>1 DEF Mark, Present, IdInv, Inv, TypeOK
  <2>2. CASE c.op = "spawn"
    BY <2>2 DEF Mark, Present
  <2>3. CASE c.op = "drop"
    <3>1. c.obj \in listed' \/ call' = [call EXCEPT ![t] = Call("abort", c.obj)]
      BY <2>3 DEF Mark
    <3> QED
      BY <3>1 DEF Present, Call, IdInv, Inv, TypeOK
  <2> QED
    BY <1>1, <2>1, <2>2, <2>3
<1>12. Present \subseteq Objects
  BY DEF Present, Objects, IdInv, Inv, TypeOK
<1>13. Present \subseteq Present'
  <2>1. \A p \in Players : stage[p] = "in" => stage'[p] = "in"
    <3>1. c.op # "enter" => stage' = stage
      BY DEF Mark
    <3> QED
      BY <1>6, <1>10, <3>1
  <2> QED
    BY <1>10, <2>1 DEF Present
<1> HIDE DEF c
<1>14. Fresh'
  <2> SUFFICES ASSUME NEW u \in Threads, Making(u)'
               PROVE  /\ call'[u].obj \notin alive' \cup listed'
                      /\ \A v \in Threads \ {u} : call'[v].obj # call'[u].obj
    BY DEF Fresh
  <2>1. CASE u = t
    BY <1>2, <1>3, <1>4, <2>1 DEF Making
  <2>2. CASE u # t
    <3>1. Making(u)
      BY <1>2, <2>2 DEF Making
    <3>2. call[u].obj \in Monsters \cup Drops
      BY <3>1 DEF Making, IdInv, Inv, Local, Kind
    <3>3. call[u].obj \notin alive \cup listed
          /\ \A v \in Threads \ {u} : call[v].obj # call[u].obj
      BY <3>1 DEF IdInv, Fresh
    <3>4. call[u].obj # c.obj
      BY <2>2, <3>3 DEF c
    <3> QED
      BY <1>2, <1>3, <1>10, <2>2, <3>2, <3>3, <3>4, ConstAssumption
  <2> QED
    BY <2>1, <2>2
<1>15. Entering'
  <2> SUFFICES ASSUME NEW u \in Threads, call'[u].op = "enter"
               PROVE  stage'[call'[u].obj] \in {"loading", "in"}
    BY DEF Entering, Reading
  <2>1. u # t /\ call[u].op = "enter"
    BY <1>2, <1>3
  <2>2. u = "loop" /\ call[u].obj \in Players
    BY <2>1 DEF IdInv, Inv, Local, Operation, Kind
  <2>3. c.obj \notin Players
    BY <1>1, <2>1, <2>2, ConstAssumption DEF c, IdInv, Inv, Local, Operation
  <2> QED
    BY <1>2, <1>10, <2>1, <2>2, <2>3 DEF IdInv, Entering, Reading
<1>16. Aborting'
  BY <1>2, <1>3 DEF IdInv, Aborting, Erasing
<1>17. ASSUME NEW i \in Ids, cid'[i] = "used" PROVE Owned(i)'
  <2>1. CASE i = c.id /\ c.id # 0
    BY <1>8, <1>11, <2>1 DEF Owned
  <2>2. CASE cid[i] = "used"
    <3>1. Owned(i)
      BY <2>2 DEF IdInv, Used
    <3>2. CASE \E o \in Present : wears[o] = i
      <4>1. PICK o \in Present : wears[o] = i
        BY <3>2
      <4>2. o # c.obj => wears'[o] = i /\ o \in Present'
        BY <1>8, <1>12, <1>13, <4>1
      <4>3. o = c.obj => i \in forgotten'
        BY <1>5, <4>1 DEF c
      <4> QED
        BY <4>2, <4>3 DEF Owned
    <3>3. CASE \E u \in Threads : call[u].op = "abort" /\ wears[call[u].obj] = i
      <4>1. PICK u \in Threads : call[u].op = "abort" /\ wears[call[u].obj] = i
        BY <3>3
      <4>2. u # t
        BY <1>1, <4>1 DEF c
      <4>3. call[u].obj \in Objects
        BY <4>1 DEF IdInv, Inv, Local, Kind, Objects
      <4> QED
        BY <1>2, <1>7, <1>8, <4>1, <4>2, <4>3 DEF Owned
    <3>4. CASE i \in forgotten
      BY <1>5, <3>4 DEF Owned
    <3> QED
      BY <3>1, <3>2, <3>3, <3>4 DEF Owned
  <2> QED
    BY <1>9, <1>17, <2>1, <2>2
<1> QED
  BY <1>14, <1>15, <1>16, <1>17 DEF IdInv, Used

\* The object that goes takes its id with it.
LEMMA EraseIds ==
  ASSUME IdInv, Inv', NEW t \in Threads, Erase(t) PROVE IdInv'
<1> DEFINE c == call[t]
<1>1. /\ pc[t] = "erase"
      /\ c.op \in {"abort", "teleport", "leave", "sweep", "kill", "delete"}
      /\ c.obj \in Objects
      /\ c.op \in {"teleport", "leave", "sweep"} => t = "loop" /\ c.obj \in Players
      /\ c.op = "kill" => c.obj \in Monsters
      /\ c.op \in {"abort", "delete"} => c.obj \in Drops
  BY DEF Erase, IdInv, Inv, Local, Operation, Kind, Erasing, Objects
<1>2. /\ \A u \in Threads \ {t} : call'[u] = call[u] /\ pc'[u] = pc[u]
      /\ call'[t].op = "none" /\ call'[t].obj = 0
  BY DEF Erase, Finish, Goto, Idle, Call, IdInv, Inv, TypeOK
<1>3. \A o \in Objects \ {c.obj} : wears'[o] = wears[o]
  BY DEF Erase, IdInv, Inv, TypeOK
<1>4. \A i \in Ids : cid'[i] = "used" => cid[i] = "used" /\ i # wears[c.obj]
  BY DEF Erase, Cleared, IdInv, Inv, TypeOK, Ids
<1>5. /\ alive' \subseteq alive /\ alive \subseteq alive' \cup {c.obj}
      /\ listed' \subseteq listed /\ listed \subseteq listed' \cup {c.obj}
      /\ \A p \in Players \ {c.obj} : stage'[p] = stage[p]
  BY DEF Erase, IdInv, Inv, TypeOK
<1>6. Present \subseteq Present' \cup {c.obj} /\ Present \subseteq Objects
  BY <1>5 DEF Present, Objects, IdInv, Inv, TypeOK
<1>7. c.op \notin {"teleport", "leave", "sweep"} => stage' = stage
  BY DEF Erase
<1> HIDE DEF c
<1>8. Fresh'
  <2> SUFFICES ASSUME NEW u \in Threads, Making(u)'
               PROVE  /\ call'[u].obj \notin alive' \cup listed'
                      /\ \A v \in Threads \ {u} : call'[v].obj # call'[u].obj
    BY DEF Fresh
  <2>1. u # t /\ Making(u)
    BY <1>2 DEF Making
  <2>2. call[u].obj \in Monsters \cup Drops
    BY <2>1 DEF Making, IdInv, Inv, Local, Kind
  <2>3. call[u].obj \notin alive \cup listed
        /\ \A v \in Threads \ {u} : call[v].obj # call[u].obj
    BY <2>1 DEF IdInv, Fresh
  <2> QED
    BY <1>2, <1>5, <2>1, <2>2, <2>3, ConstAssumption
<1>9. Entering'
  <2> SUFFICES ASSUME NEW u \in Threads, call'[u].op = "enter"
               PROVE  stage'[call'[u].obj] \in {"loading", "in"}
    BY DEF Entering, Reading
  <2>1. u # t /\ call[u].op = "enter"
    BY <1>2
  <2>2. u = "loop"
    BY <2>1 DEF IdInv, Inv, Local, Operation
  <2> QED
    BY <1>1, <1>2, <1>7, <2>1, <2>2 DEF IdInv, Entering, Reading
<1>10. Aborting'
  BY <1>2 DEF IdInv, Aborting, Erasing
<1>11. ASSUME NEW i \in Ids, cid'[i] = "used" PROVE Owned(i)'
  <2>1. Owned(i) /\ i # wears[c.obj]
    BY <1>4, <1>11 DEF IdInv, Used
  <2>2. CASE \E o \in Present : wears[o] = i
    BY <1>3, <1>6, <2>1, <2>2 DEF Owned
  <2>3. CASE \E u \in Threads : call[u].op = "abort" /\ wears[call[u].obj] = i
    <3>1. PICK u \in Threads : call[u].op = "abort" /\ wears[call[u].obj] = i
      BY <2>3
    <3>2. u # t /\ call[u].obj # c.obj
      BY <2>1, <3>1 DEF c
    <3>3. call[u].obj \in Objects
      BY <3>1 DEF IdInv, Inv, Local, Kind, Objects
    <3> QED
      BY <1>2, <1>3, <3>1, <3>2, <3>3 DEF Owned
  <2>4. CASE i \in forgotten
    BY <2>1, <2>4 DEF Owned, Erase, c
  <2> QED
    BY <2>1, <2>2, <2>3, <2>4 DEF Owned
<1> QED
  BY <1>8, <1>9, <1>10, <1>11 DEF IdInv, Used

\* A thread moves on, in the same operation.
LEMMA MoveIds ==
  ASSUME IdInv, Inv', NEW t \in Threads, NEW l, Goto(t, l), ~Erasing(t),
         l \notin {"get", "scan", "mark"}, UNCHANGED <<call, tableVars, objVars>>
  PROVE  IdInv'
<1>1. pc'[t] = l /\ \A u \in Threads \ {t} : pc'[u] = pc[u]
  BY DEF Goto, IdInv, Inv, TypeOK
<1>2. \A u \in Threads : /\ Making(u)' => Making(u)
                         /\ Erasing(u) => Erasing(u)'
  BY <1>1 DEF Making, Erasing
<1> QED
  BY <1>2, QuietStep DEF tableVars

\* Taking a mutex leaves the ids alone.
LEMMA LockIds ==
  ASSUME IdInv, Inv', NEW t \in Threads, NEW m, NEW from, NEW to, Lock(t, m, from, to),
         from \notin {"clear", "erase"}, to \notin {"get", "scan", "mark"}
  PROVE  IdInv'
BY MoveIds DEF Lock, Erasing

\* So do the trylocks and the scan.
LEMMA TryIds ==
  ASSUME IdInv, Inv', NEW t \in Threads, TryLocks(t) \/ Scan(t) PROVE IdInv'
<1>1. PICK r : /\ call' = [call EXCEPT ![t] = r]
               /\ r.op = call[t].op /\ r.obj = call[t].obj
  <2>1. CASE TryLocks(t)
    <3> DEFINE got == {m \in {"Player", "Map"} : holder[m] = "none"}
               r == [call[t] EXCEPT !.got = got]
    <3>1. call' = [call EXCEPT ![t] = r]
      BY <2>1 DEF TryLocks, IdInv, Inv, TypeOK
    <3>2. r.op = call[t].op /\ r.obj = call[t].obj
      BY DEF IdInv, Inv, TypeOK
    <3> QED
      BY <3>1, <3>2
  <2>2. CASE Scan(t)
    <3>1. PICK i \in Found : call' = [call EXCEPT ![t].id = i]
      BY <2>2 DEF Scan
    <3> DEFINE r == [call[t] EXCEPT !.id = i]
    <3>2. call' = [call EXCEPT ![t] = r]
      BY <3>1 DEF IdInv, Inv, TypeOK
    <3>3. r.op = call[t].op /\ r.obj = call[t].obj
      BY DEF IdInv, Inv, TypeOK
    <3> QED
      BY <3>2, <3>3
  <2> QED
    BY <2>1, <2>2
<1>2. \A u \in Threads : call'[u].op = call[u].op /\ call'[u].obj = call[u].obj
  BY <1>1 DEF IdInv, Inv, TypeOK
<1>3. \A u \in Threads : /\ Making(u)' => Making(u)
                         /\ Erasing(u) => Erasing(u)'
  <2>1. \/ pc[t] = "clear" /\ pc'[t] = "erase"
        \/ pc[t] \in {"get", "scan"} /\ pc'[t] \in {"scan", "mark"}
    BY DEF TryLocks, Scan, Goto, IdInv, Inv, TypeOK
  <2>2. \A u \in Threads \ {t} : pc'[u] = pc[u]
    BY DEF TryLocks, Scan, Goto, IdInv, Inv, TypeOK
  <2> QED
    BY <1>2, <2>1, <2>2 DEF Making, Erasing
<1>4. UNCHANGED <<cid, objVars>>
  BY DEF TryLocks, Scan, tableVars
<1> QED
  BY <1>2, <1>3, <1>4, QuietStep

\* A pass that begins no operation leaves the ids alone.
LEMMA NothingIds ==
  ASSUME IdInv, Inv', NEW t \in Threads, NEW l, Begin(t, "none", 0, l), ~Erasing(t)
  PROVE  IdInv'
BY IdleIds DEF Begin, Idle

\* Combat begins a spawn, a kill or a drop.
LEMMA CombatIds ==
  ASSUME IdInv, Inv', NEW t \in Threads, Combat(t), ~Erasing(t) PROVE IdInv'
<1>1. CASE \E m \in Unused(Monsters) : Begin(t, "spawn", m, "get")
  BY <1>1, BeginIds DEF Unused, Objects
<1>2. CASE \E m \in alive : Begin(t, "kill", m, "clear")
  BY <1>2, BeginIds DEF IdInv, Inv, TypeOK, Objects
<1>3. CASE \E d \in Unused(Drops) : Begin(t, "drop", d, "get")
  BY <1>3, BeginIds DEF Unused, Objects
<1> QED
  BY <1>1, <1>2, <1>3 DEF Combat

\* A new player has no id yet.
LEMMA ConnectIds ==
  ASSUME IdInv, Inv', NEW p \in Players, pc["loop"] = "packet", Connect(p) PROVE IdInv'
<1>1. /\ stage[p] = "out" /\ stage'[p] = "loading"
      /\ \A q \in Players \ {p} : stage'[q] = stage[q]
      /\ UNCHANGED <<call, cid, wears, alive, listed, forgotten>>
      /\ pc' = [pc EXCEPT !["loop"] = "release"]
  BY DEF Connect, Goto, tableVars, IdInv, Inv, TypeOK
<1>2. Present' = Present
  BY <1>1 DEF Present
<1>3. \A u \in Threads : /\ Making(u)' => Making(u)
                         /\ Erasing(u) => Erasing(u)'
  BY <1>1 DEF Making, Erasing, IdInv, Inv, TypeOK
<1>4. Fresh' /\ Aborting'
  BY <1>1, <1>3 DEF IdInv, Fresh, Aborting
<1>5. Entering'
  BY <1>1 DEF IdInv, Entering, Reading, Inv, Local, Kind
<1>6. Used'
  BY <1>1, <1>2 DEF IdInv, Used, Owned
<1> QED
  BY <1>4, <1>5, <1>6 DEF IdInv

\* A packet may begin an operation on the ids.
LEMMA PacketIds ==
  ASSUME IdInv, Inv', Packet PROVE IdInv'
<1> USE DEF Threads, Objects, Erasing
<1>0. pc["loop"] = "packet"
  BY DEF Packet
<1>1. ASSUME NEW p \in Players, Connect(p) PROVE IdInv'
  BY <1>0, <1>1, ConnectIds
<1>2. ASSUME NEW p \in Players,
             pakDoID(p) \/ TeleportPlayer(p) \/ pakCharSelect(p) \/ Disconnect(p)
      PROVE  IdInv'
  BY <1>0, <1>2, BeginIds DEF pakDoID, Reading, TeleportPlayer, pakCharSelect, Disconnect
<1>3. ASSUME NEW d \in listed, pakPickDrop(d) PROVE IdInv'
  BY <1>0, <1>3, BeginIds DEF pakPickDrop, IdInv, Inv, TypeOK
<1>4. CASE Combat("loop")
  BY <1>0, <1>4, CombatIds
<1>5. CASE Begin("loop", "none", 0, "lockMonster") \/ Begin("loop", "none", 0, "release")
  BY <1>0, <1>5, NothingIds
<1> QED
  BY <1>1, <1>2, <1>3, <1>4, <1>5 DEF Packet

\* The rest of a pass, by thread.
LEMMA BodyIds ==
  ASSUME IdInv, Inv', NEW t \in Threads, Body(t) PROVE IdInv'
<1> USE DEF Threads, Erasing
<1>1. CASE t = "loop"
  <2>0. ServerLoop
    BY <1>1 DEF Body
  <2>1. CASE \/ Start("loop", "Player", "packet")
             \/ Lock("loop", "Map", "lockMap", "clear")
             \/ Lock("loop", "Drop", "lockDrop", "clear")
             \/ Lock("loop", "Monster", "lockMonster", "viewing")
    BY <2>1, LockIds DEF Start
  <2>2. CASE Packet
    BY <2>2, PacketIds
  <2>3. CASE Give
    BY <2>3, MoveIds, IdleIds DEF Give, Finish
  <2>4. CASE /\ pc["loop"] = "viewing" /\ holder' = Free({"Monster"})
             /\ Goto("loop", "release")
             /\ UNCHANGED <<call, tableVars, objVars, runVars>>
    BY <2>4, MoveIds
  <2> QED
    BY <2>0, <2>1, <2>2, <2>3, <2>4 DEF ServerLoop
<1>2. CASE t = "map"
  <2>0. MapProcess
    BY <1>2 DEF Body
  <2>1. CASE \/ Start("map", "Player", "lockMap")
             \/ Lock("map", "Map", "lockMap", "lockMonster")
             \/ Lock("map", "Monster", "lockMonster", "work")
    BY <2>1, LockIds DEF Start
  <2>2. CASE pc["map"] = "work" /\ Combat("map")
    BY <2>2, CombatIds
  <2>3. CASE pc["map"] = "work" /\ Begin("map", "none", 0, "release")
    BY <2>3, NothingIds
  <2> QED
    BY <2>0, <2>1, <2>2, <2>3 DEF MapProcess
<1>3. CASE t = "vis"
  BY <1>3, LockIds DEF Body, VisibilityProcess, Start
<1>4. CASE t = "world"
  <2>0. WorldProcess
    BY <1>4 DEF Body
  <2>1. CASE \/ Start("world", "Map", "lockDrop")
             \/ Lock("world", "Drop", "lockDrop", "clean")
             \/ Lock("world", "Monster", "lockMonster", "respawn")
    BY <2>1, LockIds DEF Start
  <2>2. CASE CleanDrops
    <3>1. ASSUME NEW d \in listed, pc["world"] = "clean",
                 Begin("world", "delete", d, "clear")
          PROVE  IdInv'
      BY <3>1, BeginIds DEF Objects, IdInv, Inv, TypeOK
    <3>2. CASE /\ pc["world"] = "clean"
               /\ holder' = Free({"Drop"}) /\ Goto("world", "lockMonster")
               /\ UNCHANGED <<call, tableVars, objVars, runVars>>
      BY <3>2, MoveIds
    <3> QED
      BY <2>2, <3>1, <3>2 DEF CleanDrops
  <2>3. CASE RespawnMonster
    <3>1. ASSUME NEW m \in Unused(Monsters), pc["world"] = "respawn",
                 Begin("world", "spawn", m, "get")
          PROVE  IdInv'
      BY <3>1, BeginIds DEF Objects, Unused
    <3>2. CASE pc["world"] = "respawn" /\ Begin("world", "none", 0, "release")
      BY <3>2, NothingIds
    <3> QED
      BY <2>3, <3>1, <3>2 DEF RespawnMonster
  <2> QED
    BY <2>0, <2>1, <2>2, <2>3 DEF WorldProcess
<1> QED
  BY <1>1, <1>2, <1>3, <1>4

\* Every step keeps the account of the ids.
LEMMA IdInvNext ==
  ASSUME IdInv, [Next]_vars PROVE IdInv'
<1>0. Inv'
  BY InvNext DEF IdInv
<1>1. ASSUME NEW t \in Threads, Thread(t) PROVE IdInv'
  <2>1. CASE Body(t)
    BY <1>0, <2>1, BodyIds
  <2>2. CASE TryLocks(t) \/ Scan(t)
    BY <1>0, <2>2, TryIds
  <2>3. CASE Mark(t)
    BY <1>0, <2>3, MarkIds
  <2>4. CASE Erase(t)
    BY <1>0, <2>4, EraseIds
  <2>5. CASE Release(t) \/ End(t)
    BY <1>0, <2>5, MoveIds DEF Release, End, Erasing
  <2> QED
    BY <1>1, <2>1, <2>2, <2>3, <2>4, <2>5 DEF Thread
<1>2. ASSUME UNCHANGED <<pc, call, objVars>>,
             \A i \in Ids : cid'[i] = "used" => cid[i] = "used"
      PROVE  IdInv'
  BY <1>0, <1>2, QuietStep DEF Making, Erasing
<1>3. CASE ShutdownServer \/ JoinThreads \/ Crash
  BY <1>2, <1>3 DEF ShutdownServer, JoinThreads, Crash, tableVars
<1>4. ASSUME NEW i \in Ids, TenSeconds(i) PROVE IdInv'
  BY <1>2, <1>4 DEF TenSeconds, IdInv, Inv, TypeOK
<1>5. CASE UNCHANGED vars
  BY <1>2, <1>5 DEF vars, objVars
<1> QED
  BY <1>1, <1>3, <1>4, <1>5 DEF Next

\* Ids are lost in one way only, for any number of ids and objects: each id that is
\* marked as used belongs to an object on the map or to one that is about to give it
\* back, or its player was given another while he had it (module WorldThreads,
\* NoIdLeak).
THEOREM IdsDoNotLeak == Spec => []NoIdLeak
<1>1. IdInv => NoIdLeak
  BY DEF IdInv, Used, Owned, NoIdLeak
<1> QED
  BY <1>1, IdInvInit, IdInvNext, PTL DEF Spec
=============================================================================
