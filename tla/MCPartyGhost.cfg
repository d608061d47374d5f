\* Two characters are enough for a party with a deleted member.
SPECIFICATION Spec
CONSTANTS
  Player = {p1, p2}
  Slot = {q1}
  None = None
  Levels = {1}
  MaxPid = 3
  TableSize = 4
  Garbage = {}
  MaxPrompts = 1
INVARIANT NoGhostMember
