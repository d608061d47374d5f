SPECIFICATION Spec
CONSTANTS
  Players = {p1}
  Monsters = {m1}
  Drops = {}
  MaxId = 2
INVARIANT NoSharedId
