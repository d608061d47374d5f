SPECIFICATION Spec
CONSTANTS
  Players = {p1}
  Monsters = {m1}
  Drops = {d1}
  MaxId = 1
INVARIANTS TypeOK LocksKept NoIdLeak ViewingAlone
PROPERTY ShutdownCompletes
