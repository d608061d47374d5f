SPECIFICATION Spec
CONSTANTS
  Players = {p1}
  Monsters = {}
  Drops = {d1}
  MaxId = 2
INVARIANT ClearsOwnId
