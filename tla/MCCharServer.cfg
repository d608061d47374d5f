SPECIFICATION MCSpec
CONSTANTS
  Peer = {p1, p2, p3}
  MaxClients = 2
  MaxChanges = 1
  Client = {c1, c2, c3}
  MaxRoomId = 2
  RoomSizes = {1}
  NoRoom = NoRoom
  MaxEntries = 3
INVARIANTS
  SockTypeOK
  CounterExact
  RoomTypeOK
  ClientIsListed
  OnlyAbandonedEntries
  RoomBound
PROPERTIES
  ListingPrunes
  InactiveIsSwept
  ReadyIsServed
  QueueIsServed
CHECK_DEADLOCK FALSE
