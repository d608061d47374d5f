\* Five characters: one more than a party of level 1 holds.
SPECIFICATION Spec
CONSTANTS
  Player = {p1, p2, p3, p4, p5}
  Slot = {q1, q2}
  None = None
  Levels = {1, 5}
  MaxPid = 4
  TableSize = 3
  Garbage = {2}
  MaxPrompts = 1
SYMMETRY MCSymmetry
INVARIANTS TypeOK MembershipAgrees NoSolitaryParty PidsInUse LonersLead
PROPERTIES MastershipKept CapacityRespected
CHECK_DEADLOCK FALSE
