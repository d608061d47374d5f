SPECIFICATION ClanSpec
CONSTANTS
  Char = {c1, c2}
  MaxClans = 3
  Dissolved = 1
  NoList = NoList
  MaxNet = 2
  MaxMoves = 2
  MaxLogins = 4
SYMMETRY Symmetry
INVARIANTS
  ClanTypeOK
  WorldAgrees
  ListedMembers
  RowsListed
  OneMaster
CHECK_DEADLOCK FALSE
